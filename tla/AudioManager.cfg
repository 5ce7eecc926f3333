CONSTANTS
    d1 = d1
    d2 = d2
    Nothing = Nothing
    Decks = {d1, d2}
    Devices <- MCDevices
    Layout <- MCLayout
    NodeOf <- MCNodeOf
    Broken = {"gone"}
    MainLists <- MCMainLists
    CueDevices = {"rear"}
    NoCue = "none"
    Default = "default"
    Slots = {1, 2}
    Events = {}
    MaxAsked = 6

SPECIFICATION MCSpec
INVARIANT BranchesAreOutputs TapFollows RecordingHearsAll SettingsArrive PlaysAsAsked
CHECK_DEADLOCK FALSE
