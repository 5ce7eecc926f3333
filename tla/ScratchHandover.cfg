CONSTANTS
    MaxFrame = 6
    Rates <- MCRates
    Snap = 4
    Lag = 2
    MaxRate = 2
    Coast = 2
    CoastCap = 2
    Hold = 7
    NaN = NaN
    NoFeeder = NoFeeder
    NoFrame = NoFrame
    Gestures = {"handover"}
    MaxAsked = 4
SPECIFICATION MCScratchSpec
INVARIANT HandoverIsSafe
CHECK_DEADLOCK FALSE
