SPECIFICATION Spec
CONSTANTS
    Pods = {p1, p2}
    Commands = {1, 2}
    Profile <- ListOrFence
    ListCodes = {"AB8"}
    Bodies = {"OK", "DATA", "ERROR"}
    None = None
    Faults = {"kafka", "db", "crash", "redeliver", "socket", "redis", "ghost"}
INVARIANT SentWasWritten
PROPERTY LifecycleSpec
CONSTRAINT OneIssued
SYMMETRY PodSymmetry
CHECK_DEADLOCK FALSE
