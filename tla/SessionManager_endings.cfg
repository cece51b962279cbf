CONSTANTS
    Pods = {p1}
    Devices = {d1}
    Sessions = {1, 2}
    None = None
    Frames = {"LOGIN"}
    Faults = {"expiry", "crash"}
SPECIFICATION FairSpec
PROPERTIES
    CloseIsAnnounced
    CloseFreesSocket
