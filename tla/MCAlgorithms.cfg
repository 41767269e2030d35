CONSTANTS
    Dollar = 10
    MinEdge = 1
    Buffer = 1
    MaxShares = 4
    MaxQueue = 4
    MaxVolume = 9
    Scale = 10
    LatencyBuffer = 1
    TopPrice = 99
    FeePerShare <- MCFeePerShare
    MinConfidence = 60
    MinSecondsToEnd = 20
    MaxSecondsToEnd = 240
    Stake = 80
    MinEntryPrice = 10
    MaxEffectiveEntry = 85
    MinEconomicEdge = 5
    HedgeMinSecondsToEnd = 20
    HedgeMaxSecondsToEnd = 180
    HedgeMinProbability = 65
    HedgeMinAbsPTBZ = 50
    HedgeWindow = 3
    HedgeMinVotes = 2
    HedgeMinConsecutive = 2
    HedgeScoreThreshold = 19
    HedgeMinEdge = 3
    Kinds <- MCKinds
    Lookback = 5
    MinSamples = 2
    MinProbability = 30
    PaperMinEdge = 2
    TargetEdge = 20
    NarrowBand = 5
    WideBand = 15
    AnyEdge = 100
SPECIFICATION MCSpec
INVARIANTS
    WalkMatchesSummary
    ReadyMeansOpens
    CandidatesEarnIt
PROPERTIES
    MoreEvidenceCounts
\* A batch ends, a gate is read once, and the bag of cycles fills up.
CHECK_DEADLOCK FALSE
