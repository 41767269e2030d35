CONSTANTS
    MaxTrades = 3
    MaxVersions = 1
    MaxFailures = 0
    MaxPauses = 0
SPECIFICATION Spec
INVARIANT NoSilentHole
