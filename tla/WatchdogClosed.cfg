CONSTANTS
    main = main
    output = output
    Nothing = Nothing
    Windows = {main, output}
    Closable = {output}
    Events = {"freeze", "close"}
    MaxSequences = 2
    MaxFailures = 3
    MaxHappens = 2

SPECIFICATION MCSpec
PROPERTY ClosedNeverEscalates
