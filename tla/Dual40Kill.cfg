CONSTANTS
    StartLive = TRUE
    Windows = 1
    MaxMarkets = 1
    MaxPresses = 1
    MaxFaults = 0
SPECIFICATION Spec
INVARIANT KillCancelsOrders
