SPECIFICATION Spec
CONSTANTS
    Sessions <- ThreeSessions
    Sources = {x1, x2}
    MaxConnections = 2
    MaxFrames = 2
    HabitSets <- Habits
    None = None
CHECK_DEADLOCK FALSE
INVARIANTS IdlePodAccepts
