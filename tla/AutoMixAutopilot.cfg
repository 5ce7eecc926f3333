CONSTANTS
    Left = Left
    Right = Right
    t1 = t1
    t2 = t2
    t3 = t3
    t4 = t4
    Tracks = {t1, t2, t3, t4}
    Queue <- Queue3
    OutroTracks = {t2, t3}
    Starts = {"now", "intro", "sync"}
    Events = {"skipReady", "unreachable"}
    Repeats = FALSE
    NoTrack = NoTrack
    Nothing = Nothing
    MaxTasks = 2
    MaxSettles = 2
    MaxOps = 6

SPECIFICATION MCFairSpec
INVARIANT QueueOrder OutgoingIsHandled OneFetchPerDeck
PROPERTY KeepsTheMusicGoing SilenceEnds OnlyTheEndStopsMusic NeverFadesIntoSilence
CHECK_DEADLOCK FALSE
