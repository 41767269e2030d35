CONSTANTS
    StartLive = TRUE
    Windows = 2
    MaxMarkets = 2
    MaxPresses = 1
    MaxFaults = 1
SPECIFICATION FairSpec
INVARIANTS
    OrdersAreTracked
    OneBoxPerMarket
    OneOrderSlipsPerSwitch
PROPERTIES
    VerdictsStand
    KillIsServed
