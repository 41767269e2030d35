CONSTANTS
    Dollar = 10
    Price = 4
    Shares = 2
    OrderTTL = 3
    HedgeMaxWait = 1
    StopBeforeEnd = 1
    HedgeDeadline = 2
    MarketEnd = 5
    MaxTime = 6
    Queues = {0, 1}
    Prints <- MCPrints
    HedgeCosts = {3, 15}
SPECIFICATION FairSpec
INVARIANTS
    AccountsBalance
    LockedWhoeverWins
    GapsVoidOnlyEmptyBoxes
PROPERTIES
    NoFillAfterGap
    EventuallyClosed
\* A closed box at the end of the clock stops.
CHECK_DEADLOCK FALSE
