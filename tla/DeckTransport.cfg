CONSTANTS
    Nothing = Nothing
    MaxLoads = 3
    MaxCalls = 4
    Events = {"churn", "giveUp"}
    MaxOps = 7

SPECIFICATION MCFairSpec
INVARIANT ChainWaits SentIsTrue
PROPERTY BusyConverges
CHECK_DEADLOCK FALSE
