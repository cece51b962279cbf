SPECIFICATION FairSpec
CONSTANTS
    Instances = {i1, i2}
    Notifications = {n1}
    Channels = {email, in_app, websocket}
    MaxAttempts = 2
    BatchSize = 2
    MaxMishaps = 2
    None = None
    Faults = {"db", "crash"}
INVARIANT ExclusiveAttempt
INVARIANT CallsAreBudgeted
INVARIANT OutcomeIsTrue
PROPERTY LifecycleSpec
PROPERTY RetriesSettle
CHECK_DEADLOCK FALSE
