CONSTANTS
    MaxTrades = 2
    MaxVersions = 2
    MaxFailures = 2
    MaxPauses = 1
    Near = {n}
    Far = {f}
    Span = {n, f}
    MaxUpdates = 3
    MaxBookFaults = 1
    Retention = 2
    PageSize = 1
    MaxPages = 2
    MaxAggTrades = 3
    MaxTicks = 2
    MaxPageFaults = 1
    Window = 3
    Grace = 1
    KeepAnchors = 5
    MaxStamp = 8
    MaxFeedFaults = 1
    MaxPriceFaults = 2
SPECIFICATION MCSpec
INVARIANTS
    FeedsTypeOK
    OnlyKnownHoles
    GivenOnceInOrder
    BookIsExact
    FlowIsExact
    AnchorIsNearest
PROPERTIES
    LossIsCounted
    FeedsComeBack
    FeedsStop
CHECK_DEADLOCK FALSE
