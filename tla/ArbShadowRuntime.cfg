CONSTANTS
    Initial = 3
    Reserve = 2
    Gain = 1
    MaxMarkets = 2
    MaxCycles = 3
    MaxGaps = 1
    MaxErrors = 1
    MaxCrashes = 1
SPECIFICATION Spec
INVARIANTS
    GapInvalidatesInProcess
    OrphansNeedAFault
    CashCoversLosses
PROPERTIES
    VerdictsAreFinal
