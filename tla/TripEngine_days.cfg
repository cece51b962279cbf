SPECIFICATION Spec
CONSTANTS
    MaxFixes = 4
    MaxCrashes = 1
    MaxFailures = 1
    Reports <- Days
    Gaps = {0, 1, 2, 4}
    Qualities = {"VALID", "STALE", "SUSPECT_JUMP", "REJECTED"}
    FaultSets <- Weather
    MaxAttempts = 2
    StartSpeed = 10
    StopSpeed = 3
    IdleSpeed = 1
    MinDistance = 2
    MinStop = 3
    MaxGap = 4
    IdleAfter = 2
    AlertAfter = 3
    ParkAfter = 2
    None = None
CHECK_DEADLOCK FALSE
INVARIANTS NothingLost OpenIffOnTrip PeriodsAlternate HoursExact
PROPERTIES LedgerSpec ViewNeverRegresses
