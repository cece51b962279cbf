SPECIFICATION FairSpec
CONSTANTS
    Pods = {p1}
    Commands = {1, 2, 3, 4}
    Profile <- TwoCameras
    ListCodes = {}
    Bodies = {"OK"}
    None = None
    Faults = {"kafka", "db", "crash"}
INVARIANT AnswersCountOnce
INVARIANT HeldOncePerKey
INVARIANT WrittenOncePerPod
PROPERTY FlushSendsLatestIntent
PROPERTY CommandSettles
PROPERTY HeldIsFlushed
CONSTRAINT FirstAndOther
CHECK_DEADLOCK FALSE
