CONSTANTS
    main = main
    output = output
    Nothing = Nothing
    Windows = {main, output}
    Closable = {output}
    Events = {"freeze", "thaw", "close", "reopen", "slow", "hopeless"}
    MaxSequences = 2
    MaxFailures = 2
    MaxHappens = 2

SPECIFICATION MCFairSpec
INVARIANT OneSequence GaveUpIsSilent KillsAreBounded
PROPERTY SilenceIsHandled
