CONSTANTS
    Unknown = Unknown
    InProgress = InProgress
    Failed = Failed
    Absent = Absent
    Partial = Partial
    Unsized = Unsized
    Callers = {c1, c2}
    Paths = {p1}
    Versions = {v1, v2}
    Faults = {"unmount", "replace", "full", "fetch", "delete", "crash"}
    MaxFaults = 2

SPECIFICATION MCFairSpec
INVARIANT OneCopier NoLostWakeup FilesAreWhole
PROPERTY SharesCopies CallsReturn EntriesSettle
