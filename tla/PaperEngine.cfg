SPECIFICATION MCSpec
CONSTANTS
    MaxMarkets = 2
    WindowLength = 2
    Prices = {1, 2}
    PriceToBeat = 2
    InitialBalance = 3
    Stake = 2
    Quotes <- MCQuotes
    ReverseQuotes <- MCReverseQuotes
    HedgeCosts = {1}
    MinSecondsToEnd = 2
    MaxSecondsToEnd = 2
    HedgeMinSecondsToEnd = 1
    HedgeMaxSecondsToEnd = 1
    HedgeWindow = 2
    HedgeMinVotes = 2
    HedgeMinConsecutive = 1
    MaxTime = 4
    MaxEvents = 1
    Parts = {"engine", "orders", "market"}
    ExecModes = {"shadow", "dry", "live"}
    MaxOrders = 3
    MaxPresses = 4
    MaxWindows = 3
INVARIANTS OneOrderSlipsPastKill ArmsAgree CashNeverOverdrawn HalfSettledNeedsAFault
PROPERTIES AnchoredTradesSettle MarketRecovers
CONSTRAINT FirstIsUp
