CONSTANTS
    Left = Left
    Right = Right
    t1 = t1
    t2 = t2
    t3 = t3
    t4 = t4
    Tracks = {t1, t2, t3}
    Queue <- Queue2
    OutroTracks = {t2}
    Starts = {"now"}
    Events = {"load"}
    Repeats = FALSE
    NoTrack = NoTrack
    Nothing = Nothing
    MaxTasks = 2
    MaxSettles = 2
    MaxOps = 3

SPECIFICATION MCSpec
PROPERTY PreloadSparesDeck
CHECK_DEADLOCK FALSE
