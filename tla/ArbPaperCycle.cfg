CONSTANTS
    Dollar = 10
    MinEdge = 1
    Buffer = 1
    Size = 2
    OrderTTL = 3
    SoftCompletion = 1
    MaxStranded = 2
    StopBeforeEnd = 1
    MarketEnd = 5
    MaxTime = 6
    UpBooks <- MCUpBooks
    DownBooks <- MCDownBooks
    Batches <- MCBatches
SPECIFICATION FairSpec
INVARIANTS
    AccountsBalance
    MatchedPairsKeepTheEdge
    VerdictMatchesFills
    LossWithinReserve
PROPERTIES
    CompletionPricedSafely
    EventuallyClosed
    ImplementsMakerPair
\* A closed cycle at the end of the clock stops.
CHECK_DEADLOCK FALSE
