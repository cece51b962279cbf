CONSTANTS
    Pods = {p1, p2}
    Devices = {d1}
    Sessions = {1, 2}
    None = None
    Frames = {"LOGIN"}
    Faults = {}
SPECIFICATION FairSpec
PROPERTIES
    SupersededIsClosed
