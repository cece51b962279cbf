CONSTANTS
    Pods = {p1}
    Devices = {d1, d2}
    Sessions = {1, 2}
    None = None
    Frames = {"LOGIN", "DATA"}
    Faults = {"backlog"}
SPECIFICATION Spec
INVARIANTS
    DispatchableIsWritable
PROPERTIES
    IndexKeepsLiveOwner
    EndedIsFinal
