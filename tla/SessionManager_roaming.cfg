CONSTANTS
    Pods = {p1, p2}
    Devices = {d1}
    Sessions = {1, 2}
    None = None
    Frames = {"DATA", "STATUS"}
    Faults = {"redis", "shutdown"}
SYMMETRY PodSymmetry
SPECIFICATION Spec
INVARIANTS
    DisconnectedOnce
    ClosedForARival
