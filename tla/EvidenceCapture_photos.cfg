SPECIFICATION FairSpec
CONSTANTS
    Rows <- TwoRows
    Workers = {w1, w2}
    BatchSize = 2
    Alike <- Nested
    MaxUnmatched = 1
    HabitSets <- Together
    None = None
CHECK_DEADLOCK FALSE
INVARIANTS
    AskedOnce
    
PROPERTIES
    
    UploadIsKept
