CONSTANTS
    MaxFrame = 5
    Rates <- MCRates
    Snap = 4
    Lag = 2
    MaxRate = 2
    Coast = 2
    CoastCap = 2
    Hold = 7
    NaN = NaN
    NoFeeder = NoFeeder
    NoFrame = NoFrame
    Gestures = {}
    p1 = p1
    p2 = p2
    Ports = {p1, p2}
    Base = 2
    Silent = Silent
    Quirks = {}
    Targets = {ours}
    Groups = {g1, g2}
    Streams = {meta, spotify}
    Meta = meta
    NoOne = NoOne
    Rush = FALSE
    Files <- MCFiles
    MaxVersion = 2
    Flicker = FALSE
    Builtin = Builtin
    NoPlugin = NoPlugin
    Window = 5
    Windows = 2
    DryTicks = 3
    Skip = 2
    NoTime = NoTime
    Interval = 2
    Strays <- MCStrays
    Unread = Unread
    Reuse = FALSE
    Media <- MCMedia
    Stream <- MCStream
    Bare = Bare
    Races = {}
    Span = 3
    Buffers = {1, 2, 4}
    Matrices <- MCMatrices
    Width = 4
    Slots = 2
    Period = 2
    Silence = Silence
    Unsent = Unsent
    Lagging = FALSE
    t1 = t1
    t2 = t2
    Turntables = {t1, t2}
    First = {t1}
    Records = {r1, r2}
    r1 = r1
    r2 = r2
    Stored <- MCStored
    Fit <- MCFit
    Digger <- MCDigger
    Trusted = {r2}
    Faders = {0, 1}
    Taps = {1}
    NoTempo = NoTempo
    NoRecord = NoRecord
    Slips = {}
    Extent = 6
    Tempi = {1, 2}
    Spots = {0, 2, 6}
    Patience = 2
    NoPlace = NoPlace
    Mishaps = {}
    Bays = {b1, b2}
    MaxLoad = 4
    Levels = {0, 1}
    Level0 = 0
    Gone = Gone
    Upsets = {}
    Budget <- MCBudget
SPECIFICATION MCServicesSpec
INVARIANT ServicesTypeOK DeckHandsBack RestsByTheHand ControllersAgree GroupsComeBack ShowsTheFolder ReportsAreTrue OneBackendOfTheLoad ShowsTheMainMix TemposAreCurrent ShowsItsPlace RecoversTheSet
PROPERTY AimKeepsDirection
CHECK_DEADLOCK FALSE
