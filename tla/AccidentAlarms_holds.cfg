SPECIFICATION FairSpec
CONSTANTS
    Alerts <- TwoAlerts
    Sweepers = {s1}
    Positions = positions
    MaxDetections = 2
    MaxAges = 2
    MaxTroubles = 1
    FaultSets <- Weather
    None = None
CHECK_DEADLOCK FALSE
INVARIANTS OneOpen CancelledIsSilent DedupMeansAlarm SupersededHasSuccessor
PROPERTIES LifecycleSpec Decided
