CONSTANTS
    Left = Left
    Right = Right
    t1 = t1
    t2 = t2
    t3 = t3
    t4 = t4
    Tracks = {t1, t2}
    Queue <- Queue1
    OutroTracks = {t2}
    Starts = {"now", "intro", "sync"}
    Events = {"skip", "skipUpcoming", "load", "decks", "play", "seek", "touch", "toggle", "preview"}
    Repeats = FALSE
    NoTrack = NoTrack
    Nothing = Nothing
    MaxTasks = 2
    MaxSettles = 2
    MaxOps = 2

SPECIFICATION MCFairSpec
INVARIANT PreviewIsGuarded
PROPERTY PreviewEnds
CHECK_DEADLOCK FALSE
