CONSTANTS
    Unknown = Unknown
    InProgress = InProgress
    Failed = Failed
    Absent = Absent
    Partial = Partial
    Unsized = Unsized
    Callers = {c1, c2}
    Paths = {p1}
    Versions = {v1, v2}
    Faults = {"replace"}
    MaxFaults = 1

SPECIFICATION MCSpec
PROPERTY ServesCurrent
