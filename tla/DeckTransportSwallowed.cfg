CONSTANTS
    Nothing = Nothing
    MaxLoads = 1
    MaxCalls = 4
    Events = {}
    MaxOps = 3

SPECIFICATION MCFairSpec
PROPERTY Converges
CHECK_DEADLOCK FALSE
