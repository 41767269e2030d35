--------------------------- MODULE AlgorithmProofs ---------------------------
(***************************************************************************)
(* The pure functions of MCAlgorithms.  The walk over a batch of trades    *)
(* returns what its summary says, for every order, every queue and every   *)
(* batch.  The gates the panel shows are the gates the engine enters and   *)
(* hedges by, for every record of inputs.  A candidate of the completion   *)
(* model has earned it, and one more closed cycle counts as what it was,   *)
(* whatever the closed cycles, the scopes and the thresholds are.          *)
(***************************************************************************)
EXTENDS MCAlgorithms, FiniteSetTheorems, WellFoundedInduction, TLAPS

\* While the order still wants shares, some of the queue is left or the
\* printed volume is exactly what was ahead of it and what it bought.
WalkInv ==
    /\ wanted \in Nat /\ ahead \in Nat /\ volume \in Nat /\ swept \in BOOLEAN
    /\ WalkMatchesSummary
    /\ wanted = 0 => queue = ahead

LEMMA WalkInvInit == Init => WalkInv
<1> SUFFICES ASSUME Init PROVE WalkInv
  OBVIOUS
<1>1. /\ wanted \in Nat /\ ahead \in Nat /\ volume = 0 /\ ~swept
      /\ filled = 0 /\ remaining = wanted /\ queue = ahead
  BY MakerFillAssumption DEF Init, MakerFillAssumption
<1>2. FilledBy(volume, swept, wanted, ahead) = 0
  BY <1>1 DEF FilledBy, Lesser, Greater
<1>3. QueueAfter(volume, swept, wanted, ahead) = ahead
  BY <1>1 DEF QueueAfter, Greater
<1>4. swept \in BOOLEAN
  BY DEF Init
<1>5. WalkMatchesSummary
  BY <1>1, <1>2, <1>3 DEF WalkMatchesSummary
<1>6. volume \in Nat
  BY <1>1
<1>7. QED
  BY <1>1, <1>4, <1>5, <1>6, Zenon DEF WalkInv

LEMMA WalkInvAtPrice ==
  ASSUME WalkInv, NEW size \in 1..MaxVolume, AtPrice(size)
  PROVE  WalkInv'
<1>1. CASE remaining = 0
  BY <1>1, MakerFillAssumption
  DEF MakerFillAssumption, WalkInv, WalkMatchesSummary, AtPrice, FilledBy, QueueAfter, Lesser, Greater
<1>2. CASE remaining # 0
  BY <1>2, MakerFillAssumption
  DEF MakerFillAssumption, WalkInv, WalkMatchesSummary, AtPrice, FilledBy, QueueAfter, Lesser, Greater
<1>3. QED
  BY <1>1, <1>2

LEMMA WalkInvBelowPrice ==
  ASSUME WalkInv, BelowPrice
  PROVE  WalkInv'
  BY DEF WalkInv, WalkMatchesSummary, BelowPrice, FilledBy, QueueAfter, Lesser, Greater

LEMMA WalkInvNext == WalkInv /\ [Next]_vars => WalkInv'
<1> SUFFICES ASSUME WalkInv, [Next]_vars PROVE WalkInv'
  OBVIOUS
<1>1. ASSUME NEW size \in 1..MaxVolume, AtPrice(size) PROVE WalkInv'
  BY <1>1, WalkInvAtPrice
<1>2. CASE BelowPrice
  BY <1>2, WalkInvBelowPrice
<1>3. CASE UNCHANGED vars
  BY <1>3 DEF vars, WalkInv, WalkMatchesSummary, FilledBy, QueueAfter, Lesser, Greater
<1>4. QED
  BY <1>1, <1>2, <1>3 DEF Next

\* makerBuyFillFromTradesDetailed buys what the summary of its batch says and
\* leaves ahead of the order what the summary says.
THEOREM WalkMatches == Spec => []WalkMatchesSummary
<1>1. Init => WalkInv
  BY WalkInvInit
<1>2. WalkInv /\ [Next]_vars => WalkInv'
  BY WalkInvNext
<1>3. WalkInv => WalkMatchesSummary
  BY DEF WalkInv
<1>4. QED
  BY <1>1, <1>2, <1>3, PTL DEF Spec

\* Without a sweep, nothing is bought before the whole queue has printed.
THEOREM QueueComesFirst == Spec => []NoFillAheadOfQueue
<1>1. Init => WalkInv
  BY WalkInvInit
<1>2. WalkInv /\ [Next]_vars => WalkInv'
  BY WalkInvNext
<1>3. WalkInv => NoFillAheadOfQueue
  BY DEF WalkInv, WalkMatchesSummary, NoFillAheadOfQueue, FilledBy, Lesser, Greater
<1>4. QED
  BY <1>1, <1>2, <1>3, PTL DEF Spec

-----------------------------------------------------------------------------
(***************************************************************************)
(* The gates.                                                              *)
(***************************************************************************)

\* A set of naturals has a smallest element.
LEMMA SmallestCheck ==
  ASSUME NEW S, S \subseteq Nat, S # {}
  PROVE  \E x \in S : \A y \in S : x <= y
<1> DEFINE R == OpToRel(<, Nat)
<1>0. IsWellFoundedOn(R, Nat)
  BY NatLessThanWellFounded
<1> HIDE DEF R
<1>1. PICK x \in S : \A y \in S : ~ (<<y, x>> \in R)
  BY <1>0, WFMin
<1>2. \A y \in S : x <= y
  <2> SUFFICES ASSUME NEW y \in S PROVE x <= y
    OBVIOUS
  <2>1. x \in Nat /\ y \in Nat
    OBVIOUS
  <2>2. ~ (y < x)
    BY <1>1, <2>1 DEF R, OpToRel
  <2>3. QED
    BY <2>1, <2>2
<1>3. QED
  BY <1>2

\* The reason is that all is well exactly when every check passes, unless a check has
\* that very reason.
LEMMA ReadyWhenAllPass ==
  ASSUME NEW n \in Nat, NEW checks, DOMAIN checks = 1..n, NEW ready,
         \A k \in 1..n : checks[k].reason # ready
  PROVE  FirstFailing(checks, ready) = ready <=> \A k \in 1..n : checks[k].pass
<1> DEFINE failing == {k \in DOMAIN checks : ~checks[k].pass}
           first == CHOOSE k \in failing : \A j \in failing : k <= j
<1>1. FirstFailing(checks, ready) = IF failing = {} THEN ready ELSE checks[first].reason
  BY DEF FirstFailing
<1>2. failing = {} <=> \A k \in 1..n : checks[k].pass
  OBVIOUS
<1>3. ASSUME failing # {} PROVE first \in failing
  <2>1. failing \subseteq Nat
    OBVIOUS
  <2>2. \E k \in failing : \A j \in failing : k <= j
    <3> HIDE DEF failing
    <3>1. QED
      BY <1>3, <2>1, SmallestCheck
  <2>3. QED
    BY <2>2
<1>4. ASSUME failing # {} PROVE checks[first].reason # ready
  <2>1. first \in failing
    BY <1>3, <1>4
  <2>2. first \in 1..n
    <3> HIDE DEF first
    <3>1. QED
      BY <2>1
  <2>3. QED
    BY <2>2
<1>5. QED
  BY <1>1, <1>2, <1>4

LEMMA FirstThirteen ==
  /\ 1..13 = {1, 2, 3, 4, 5, 6, 7, 8, 9, 10, 11, 12, 13}
  OBVIOUS

\* The types of a case, as Entries and Hedges have them.
EntryCase(e) == /\ e.ptbReady \in BOOLEAN /\ e.fresh \in BOOLEAN /\ e.mock \in BOOLEAN
                /\ e.sameTimeframe \in BOOLEAN /\ e.recorded \in BOOLEAN
                /\ e.token \in BOOLEAN

HedgeCase(h) == /\ h.hedged \in BOOLEAN /\ h.token \in BOOLEAN
                /\ h.sameTimeframe \in BOOLEAN /\ HedgeInput(h)
                /\ Len(h.evidence) \in Nat /\ DOMAIN h.evidence = 1..Len(h.evidence)
                /\ Len(h.evidence) <= HedgeWindow

\* The panel shows an entry as ready exactly when maybeOpen opens it, but for the floor
\* under entry prices, whatever the thresholds, the book and the evaluation are.
THEOREM EntryGatesAreOne == \A e : EntryCase(e) => EntryShown(e)
<1> SUFFICES ASSUME NEW e, EntryCase(e) PROVE EntryShown(e)
  OBVIOUS
<1> DEFINE c == EntryChecks(e)
           q == QuoteForBudget(e.asks, Stake)
<1>1. DOMAIN c = 1..13
  BY DEF EntryChecks
<1>2. /\ c[1] = Check(Directed(e), "NEUTRAL_SIGNAL")
      /\ c[2] = Check(e.ptbReady, "PTB_TERMINAL_NOT_READY")
      /\ c[3] = Check(e.ptbDecision = e.decision, "PTB_TERMINAL_DIRECTION_MISMATCH")
      /\ c[4] = Check(e.confidence >= MinConfidence, "CONFIDENCE_BELOW_THRESHOLD")
      /\ c[5] = Check(Between(e.seconds, MinSecondsToEnd, MaxSecondsToEnd),
                      "OUTSIDE_ENTRY_WINDOW")
      /\ c[6] = Check(e.fresh /\ ~e.mock, "DATA_NOT_FRESH_OR_MARKET_INACTIVE")
      /\ c[7] = Check(e.sameTimeframe, "TIMEFRAME_MISMATCH")
      /\ c[8] = Check(~e.recorded, "POSITION_ALREADY_RECORDED")
      /\ c[9] = Check(e.cash >= Stake, "INSUFFICIENT_PAPER_BALANCE")
      /\ c[10] = Check(e.token, "TOKEN_ID_UNAVAILABLE")
      /\ c[11] = Check(q.shares > 0, "CLOB_QUOTE_ERROR")
      /\ c[12] = Check(CostsAtMost(q, MaxEffectiveEntry), "EFFECTIVE_ENTRY_PRICE_TOO_HIGH")
      /\ c[13] = Check(CostsAtMost(q, TerminalProbability(e) - MinEconomicEdge),
                       "ECONOMIC_EDGE_BELOW_THRESHOLD")
  BY DEF EntryChecks
<1> HIDE DEF c, q
<1>3. \A k \in 1..13 : c[k].reason # "ENTRY_READY"
  BY <1>2, FirstThirteen DEF Check
<1>4. EntryReason(e) = "ENTRY_READY" <=> \A k \in 1..13 : c[k].pass
  <2>1. FirstFailing(c, "ENTRY_READY") = "ENTRY_READY" <=> \A k \in 1..13 : c[k].pass
    BY <1>1, <1>3, ReadyWhenAllPass
  <2>2. QED
    BY <2>1 DEF EntryReason, c
<1>5. (\A k \in 1..13 : c[k].pass) <=>
        /\ Directed(e) /\ e.ptbReady /\ e.ptbDecision = e.decision
        /\ e.confidence >= MinConfidence
        /\ Between(e.seconds, MinSecondsToEnd, MaxSecondsToEnd)
        /\ (e.fresh /\ ~e.mock) /\ e.sameTimeframe /\ ~e.recorded /\ e.cash >= Stake
        /\ e.token /\ q.shares > 0 /\ CostsAtMost(q, MaxEffectiveEntry)
        /\ CostsAtMost(q, TerminalProbability(e) - MinEconomicEdge)
  <2>1. (\A k \in 1..13 : c[k].pass) <=>
          /\ c[1].pass /\ c[2].pass /\ c[3].pass /\ c[4].pass /\ c[5].pass /\ c[6].pass
          /\ c[7].pass /\ c[8].pass /\ c[9].pass /\ c[10].pass /\ c[11].pass
          /\ c[12].pass /\ c[13].pass
    BY FirstThirteen
  <2>2. /\ c[1].pass = Directed(e)
        /\ c[2].pass = e.ptbReady
        /\ c[3].pass = (e.ptbDecision = e.decision)
        /\ c[4].pass = (e.confidence >= MinConfidence)
        /\ c[5].pass = Between(e.seconds, MinSecondsToEnd, MaxSecondsToEnd)
        /\ c[6].pass = (e.fresh /\ ~e.mock)
        /\ c[7].pass = e.sameTimeframe
    BY <1>2 DEF Check
  <2>3. /\ c[8].pass = ~e.recorded
        /\ c[9].pass = (e.cash >= Stake)
        /\ c[10].pass = e.token
        /\ c[11].pass = (q.shares > 0)
        /\ c[12].pass = CostsAtMost(q, MaxEffectiveEntry)
        /\ c[13].pass = CostsAtMost(q, TerminalProbability(e) - MinEconomicEdge)
    BY <1>2 DEF Check
  <2>4. QED
    BY <2>1, <2>2, <2>3, Zenon
<1>6. QED
  BY <1>4, <1>5 DEF EntryShown, Opens, EntryCase, q

LEMMA SharesOfAWindow ==
  ASSUME NEW v \in Nat, NEW m \in Nat, NEW w \in Nat, w >= 1
  PROVE  v * w >= m * w <=> v >= m
<1>1. CASE v >= m
  <2>1. PICK d \in Nat : v = m + d
    <3>1. v - m \in Nat /\ v = m + (v - m)
      BY <1>1
    <3>2. QED
      BY <3>1
  <2>2. v * w = m * w + d * w /\ d * w >= 0 /\ m * w \in Nat /\ d * w \in Nat
    BY <2>1
  <2>3. QED
    BY <1>1, <2>2
<1>2. CASE ~ (v >= m)
  <2>1. PICK d \in Nat : m = v + d /\ d >= 1
    <3>1. m - v \in Nat /\ m = v + (m - v) /\ m - v >= 1
      BY <1>2
    <3>2. QED
      BY <3>1
  <2>2. m * w = v * w + d * w /\ d * w >= 1 /\ v * w \in Nat /\ d * w \in Nat
    BY <2>1
  <2>3. QED
    BY <1>2, <2>2
<1>3. QED
  BY <1>1, <1>2

\* The panel shows a hedge as ready exactly when MaybeHedge opens it: the number of
\* votes it wants and the share of the window the engine wants are the same, since a
\* window that is full has exactly HedgeWindow evaluations; and the timeframe only the
\* engine asks for is told to the panel by the window, which stays empty without it.
THEOREM HedgeGatesAreOne == \A h : HedgeCase(h) => HedgeShown(h)
<1> SUFFICES ASSUME NEW h, HedgeCase(h) PROVE HedgeShown(h)
  OBVIOUS
<1> DEFINE c == HedgeChecks(h)
           q == QuoteForShares(h.asks, h.shares)
<1>1. DOMAIN c = 1..13
  BY DEF HedgeChecks
<1>2. /\ c[1] = Check(~h.hedged, "HEDGE_ALREADY_OPEN")
      /\ c[2] = Check(Between(h.seconds, HedgeMinSecondsToEnd, HedgeMaxSecondsToEnd),
                      "OUTSIDE_HEDGE_WINDOW")
      /\ c[3] = Check(h.decision = ReverseSide(h.side), "NO_REVERSE_DECISION")
      /\ c[4] = Check(ReverseProbability(h) >= HedgeMinProbability,
                      "REVERSE_PROBABILITY_BELOW_THRESHOLD")
      /\ c[5] = Check(Against(h, h.ptbZ, HedgeMinAbsPTBZ), "PTB_Z_NOT_CONFIRMED")
      /\ c[6] = Check(WindowFull(h), "REGIME_WINDOW_NOT_FULL")
      /\ c[7] = Check(Votes(h) >= HedgeMinVotes, "REVERSE_VOTES_BELOW_THRESHOLD")
      /\ c[8] = Check(Consecutive(h) >= HedgeMinConsecutive,
                      "REVERSE_STREAK_BELOW_THRESHOLD")
      /\ c[9] = Check(SmoothedAgainst(h), "EWMA_SCORE_NOT_CONFIRMED")
      /\ c[10] = Check(h.token, "TOKEN_ID_UNAVAILABLE")
      /\ c[11] = Check(q.shares = h.shares * Scale, "HEDGE_CLOB_QUOTE_ERROR")
      /\ c[12] = Check(CostsAtMost(q, ReverseProbability(h) - HedgeMinEdge),
                       "REVERSE_EDGE_BELOW_THRESHOLD")
      /\ c[13] = Check(Improvement(h, q) > 0, "HEDGE_DOES_NOT_IMPROVE_EXPECTANCY")
  BY DEF HedgeChecks
<1> HIDE DEF c, q
<1>3. \A k \in 1..13 : c[k].reason # "HEDGE_READY"
  BY <1>2, FirstThirteen DEF Check
<1>4. HedgeReason(h) = "HEDGE_READY" <=> \A k \in 1..13 : c[k].pass
  <2>1. FirstFailing(c, "HEDGE_READY") = "HEDGE_READY" <=> \A k \in 1..13 : c[k].pass
    BY <1>1, <1>3, ReadyWhenAllPass
  <2>2. QED
    BY <2>1 DEF HedgeReason, c
<1>5. (\A k \in 1..13 : c[k].pass) <=>
        /\ ~h.hedged /\ Between(h.seconds, HedgeMinSecondsToEnd, HedgeMaxSecondsToEnd)
        /\ h.decision = ReverseSide(h.side) /\ ReverseProbability(h) >= HedgeMinProbability
        /\ Against(h, h.ptbZ, HedgeMinAbsPTBZ) /\ WindowFull(h)
        /\ Votes(h) >= HedgeMinVotes /\ Consecutive(h) >= HedgeMinConsecutive
        /\ SmoothedAgainst(h) /\ h.token /\ q.shares = h.shares * Scale
        /\ CostsAtMost(q, ReverseProbability(h) - HedgeMinEdge) /\ Improvement(h, q) > 0
  <2>1. (\A k \in 1..13 : c[k].pass) <=>
          /\ c[1].pass /\ c[2].pass /\ c[3].pass /\ c[4].pass /\ c[5].pass /\ c[6].pass
          /\ c[7].pass /\ c[8].pass /\ c[9].pass /\ c[10].pass /\ c[11].pass
          /\ c[12].pass /\ c[13].pass
    BY FirstThirteen
  <2>2. /\ c[1].pass = ~h.hedged
        /\ c[2].pass = Between(h.seconds, HedgeMinSecondsToEnd, HedgeMaxSecondsToEnd)
        /\ c[3].pass = (h.decision = ReverseSide(h.side))
        /\ c[4].pass = (ReverseProbability(h) >= HedgeMinProbability)
        /\ c[5].pass = Against(h, h.ptbZ, HedgeMinAbsPTBZ)
        /\ c[6].pass = WindowFull(h)
        /\ c[7].pass = (Votes(h) >= HedgeMinVotes)
    BY <1>2 DEF Check
  <2>3. /\ c[8].pass = (Consecutive(h) >= HedgeMinConsecutive)
        /\ c[9].pass = SmoothedAgainst(h)
        /\ c[10].pass = h.token
        /\ c[11].pass = (q.shares = h.shares * Scale)
        /\ c[12].pass = CostsAtMost(q, ReverseProbability(h) - HedgeMinEdge)
        /\ c[13].pass = (Improvement(h, q) > 0)
    BY <1>2 DEF Check
  <2>4. QED
    BY <2>1, <2>2, <2>3, Zenon
<1>6. WindowFull(h) =>
         (Votes(h) >= HedgeMinVotes
            <=> Votes(h) * HedgeWindow >= HedgeMinVotes * Len(h.evidence))
  <2>1. HedgeWindow \in Nat /\ HedgeWindow >= 1 /\ HedgeMinVotes \in Nat
    BY GatesAssumption DEF GatesAssumption
  <2>2. Votes(h) \in Nat
    <3>1. IsFiniteSet(1..Len(h.evidence))
      BY FS_Interval DEF HedgeCase
    <3> DEFINE S == {i \in DOMAIN h.evidence : h.evidence[i].decision = ReverseSide(h.side)}
    <3>2. S \in SUBSET (1..Len(h.evidence))
      BY DEF HedgeCase
    <3> HIDE DEF S
    <3>3. Cardinality(S) \in Nat
      BY <3>1, <3>2, FS_Subset, FS_CardinalityType
    <3>4. QED
      BY <3>3 DEF Votes, S
  <2>3. WindowFull(h) => Len(h.evidence) = HedgeWindow
    BY <2>1 DEF WindowFull, HedgeCase
  <2>4. QED
    BY <2>1, <2>2, <2>3, SharesOfAWindow
<1>7. WindowFull(h) => h.sameTimeframe
  <2>1. h.evidence = <<>> => Len(h.evidence) = 0
    OBVIOUS
  <2>2. HedgeWindow \in Nat /\ HedgeWindow >= 1
    BY GatesAssumption DEF GatesAssumption
  <2>3. QED
    BY <2>1, <2>2 DEF WindowFull, HedgeCase, HedgeInput
<1>8. QED
  BY <1>4, <1>5, <1>6, <1>7 DEF HedgeShown, HedgeOpens, HedgeCase, q

\* The same of every case of the run, for all thresholds, prices and fees.
THEOREM ReadyAlwaysOpens == MCSpec => []ReadyMeansOpens
<1> DEFINE Case == /\ case.of = "entry" => EntryCase(case.e)
                   /\ case.of = "hedge" => HedgeCase(case.h)
<1>1. MCInit => Case
  <2>1. \A e \in Entries : EntryCase(e)
    BY DEF Entries, EntryCase
  <2>2. \A h \in Hedges : HedgeCase(h)
    <3> SUFFICES ASSUME NEW h \in Hedges PROVE HedgeCase(h)
      OBVIOUS
    <3>1. /\ h.hedged \in BOOLEAN /\ h.token \in BOOLEAN /\ h.evidence \in Evidences
          /\ h.sameTimeframe \in BOOLEAN /\ HedgeInput(h)
      BY DEF Hedges, HedgeInput
    <3>2. PICK n \in 0..HedgeWindow : h.evidence \in [1..n -> Samples]
      BY <3>1 DEF Evidences
    <3>3. HedgeWindow \in Nat
      BY GatesAssumption DEF GatesAssumption
    <3>4. n \in Nat /\ n <= HedgeWindow
      BY <3>2, <3>3
    <3>5. Len(h.evidence) = n /\ DOMAIN h.evidence = 1..n
      BY <3>2, <3>4
    <3>6. QED
      BY <3>1, <3>4, <3>5 DEF HedgeCase
  <2>3. QED
    BY <2>1, <2>2 DEF MCInit
<1>2. Case /\ [MCNext]_algorithmVars => Case'
  BY DEF MCNext, Walks, Trains, algorithmVars
<1>3. Case => ReadyMeansOpens
  BY EntryGatesAreOne, HedgeGatesAreOne DEF ReadyMeansOpens
<1> HIDE DEF Case
<1>4. QED
  BY <1>1, <1>2, <1>3, PTL DEF MCSpec

-----------------------------------------------------------------------------
(***************************************************************************)
(* The completion model.                                                   *)
(***************************************************************************)
Cells(rows) == rows \X (1..Lookback)
Counted(rows) == {cycle \in Cells(rows) : cycle[2] <= trained[cycle[1]]}
CountIn(t, rows) == Cardinality({cycle \in Cells(rows) : cycle[2] <= t[cycle[1]]})

LEMMA CellsAreFinite ==
  ASSUME NEW rows \in SUBSET Kinds
  PROVE  IsFiniteSet(Cells(rows))
<1>1. IsFiniteSet(Kinds) /\ Lookback \in Nat
  BY CompletionAssumption DEF CompletionAssumption
<1>2. IsFiniteSet(rows)
  BY <1>1, FS_Subset
<1>3. IsFiniteSet(1..Lookback)
  BY <1>1, FS_Interval
<1>4. QED
  BY <1>2, <1>3, FS_Product DEF Cells

LEMMA CountsAreNumbers ==
  ASSUME NEW rows \in SUBSET Kinds
  PROVE  /\ CountOf(rows) = Cardinality(Counted(rows))
         /\ IsFiniteSet(Counted(rows)) /\ CountOf(rows) \in Nat
<1>1. IsFiniteSet(Cells(rows))
  BY CellsAreFinite
<1>2. Counted(rows) \in SUBSET Cells(rows)
  BY DEF Counted
<1>3. IsFiniteSet(Counted(rows))
  BY <1>1, <1>2, FS_Subset
<1>4. CountOf(rows) = Cardinality(Counted(rows))
  BY DEF CountOf, Counted, Cells
<1>5. QED
  BY <1>3, <1>4, FS_CardinalityType

\* Fewer kinds of cycle, fewer cycles.
LEMMA CountsAreMonotone ==
  ASSUME NEW rows \in SUBSET Kinds, NEW some \in SUBSET rows
  PROVE  CountOf(some) <= CountOf(rows)
<1>1. some \in SUBSET Kinds
  OBVIOUS
<1>2. Counted(some) \in SUBSET Counted(rows)
  BY DEF Counted, Cells
<1>3. QED
  BY <1>1, <1>2, CountsAreNumbers, FS_Subset

SnapshotCase(s) ==
    /\ s.ptbReady \in BOOLEAN /\ s.first \in CompletionLegs
    /\ \A leg \in CompletionLegs : /\ s.edge[leg] \in Int
                                   /\ s.money[leg].cycle \in BOOLEAN
                                   /\ s.money[leg].stranded \in BOOLEAN

\* The path of the greatest worth is one of those it is chosen from.
LEMMA BestIsOneOfThem ==
  ASSUME NEW s, NEW legs \in SUBSET CompletionLegs, legs # {}
  PROVE  BestLeg(s, legs) \in legs
  BY DEF BestLeg, CompletionLegs

\* The reason of a path with a check that fails is never that it was not selected.
LEMMA RefusedForAReason ==
  ASSUME NEW edge, NEW e,
         \/ ~ (edge >= PaperMinEdge) \/ e.ready = FALSE \/ ~ (edge >= TargetEdge)
         \/ e.probability = FALSE \/ e.cycle = FALSE \/ e.stranded = FALSE
  PROVE  WhyNot(edge, e) # "PAPER_READY_MODEL_PATH_NOT_LIVE_SELECTED"
<1> DEFINE c == LiveChecks(edge, e)
<1>1. DOMAIN c = 1..6 /\ 1..6 = {1, 2, 3, 4, 5, 6}
  BY DEF LiveChecks
<1>2. /\ c[1] = Check(edge >= PaperMinEdge, "PAIR_EDGE_BELOW_PAPER_MIN")
      /\ c[2] = Check(e.ready, "COMPLETION_MODEL_WARMUP")
      /\ c[3] = Check(edge >= TargetEdge, "PAPER_READY_LIVE_EDGE_BELOW_TARGET")
      /\ c[4] = Check(e.probability, "PCOMPLETE_5S_BELOW_THRESHOLD")
      /\ c[5] = Check(e.cycle, "CYCLE_EV_BELOW_THRESHOLD")
      /\ c[6] = Check(e.stranded, "STRANDED_LOSS_MULTIPLE_TOO_HIGH")
  BY DEF LiveChecks
<1> HIDE DEF c
<1>3. \A k \in 1..6 : c[k].reason # "PAPER_READY_MODEL_PATH_NOT_LIVE_SELECTED"
  BY <1>1, <1>2 DEF Check
<1>4. /\ c[1].pass = (edge >= PaperMinEdge) /\ c[2].pass = e.ready
      /\ c[3].pass = (edge >= TargetEdge) /\ c[4].pass = e.probability
      /\ c[5].pass = e.cycle /\ c[6].pass = e.stranded
  BY <1>2 DEF Check
<1>5. ~ (c[1].pass /\ c[2].pass /\ c[3].pass /\ c[4].pass /\ c[5].pass /\ c[6].pass)
  BY <1>4, Zenon
<1>6. ~ (\A k \in 1..6 : c[k].pass)
  BY <1>1, <1>5
<1>7. FirstFailing(c, "PAPER_READY_MODEL_PATH_NOT_LIVE_SELECTED")
          # "PAPER_READY_MODEL_PATH_NOT_LIVE_SELECTED"
  BY <1>1, <1>3, <1>6, ReadyWhenAllPass
<1>8. QED
  BY <1>7 DEF WhyNot, c

\* A path that is ready has MinSamples decided cycles of its own leg.
LEMMA ReadyHasSamples ==
  ASSUME NEW leg, NEW edge, Evidence(leg, edge).ready
  PROVE  CountOf({k \in Kinds : k.ours /\ k.leg = leg /\ k.first = "full"}) >= MinSamples
<1> DEFINE rows == Training(leg, edge, ScopeOf(leg, edge))
           all == {k \in Kinds : k.ours /\ k.leg = leg /\ k.first = "full"}
<1>1. CountOf(Decided(rows)) >= MinSamples
  <2>1. Enough(rows)
    BY DEF Evidence
  <2>2. QED
    BY <2>1 DEF Enough
<1>2. Decided(rows) \in SUBSET all /\ all \in SUBSET Kinds
  BY DEF Decided, Training
<1> HIDE DEF rows, all
<1>3. Decided(rows) \in SUBSET Kinds
  BY <1>2
<1>4. CountOf(Decided(rows)) <= CountOf(all)
  BY <1>2, CountsAreMonotone
<1>5. CountOf(Decided(rows)) \in Nat /\ CountOf(all) \in Nat /\ MinSamples \in Nat
  BY <1>2, <1>3, CountsAreNumbers, CompletionAssumption DEF CompletionAssumption
<1>6. CountOf(all) >= MinSamples
  BY <1>1, <1>4, <1>5
<1>7. QED
  BY <1>6 DEF all

LEMMA EstimatesAreTyped ==
  ASSUME NEW s, SnapshotCase(s), NEW leg \in CompletionLegs
  PROVE  /\ Estimate(s, leg).ready \in BOOLEAN /\ Estimate(s, leg).probability \in BOOLEAN
         /\ Estimate(s, leg).cycle \in BOOLEAN /\ Estimate(s, leg).stranded \in BOOLEAN
         /\ Estimate(s, leg).ready = Evidence(leg, s.edge[leg]).ready
         /\ Estimate(s, leg).cycle => s.money[leg].cycle
         /\ Estimate(s, leg).stranded => s.money[leg].stranded
<1>1. /\ Evidence(leg, s.edge[leg]).ready \in BOOLEAN
      /\ Evidence(leg, s.edge[leg]).probability \in BOOLEAN
  BY DEF Evidence, Enough, WilsonPass
<1>2. QED
  BY <1>1 DEF Estimate, SnapshotCase

\* "Completion-model warmup must never turn an invalid book/PTB/path into a
\* candidate", whatever the closed cycles, the bands and the thresholds are.
THEOREM CandidatesEarnAlways == \A s : SnapshotCase(s) => CandidateEarnsIt(s)
<1> SUFFICES ASSUME NEW s, SnapshotCase(s),
                    NEW est, est = [leg \in CompletionLegs |-> Estimate(s, leg)],
                    NEW o, o = ApplyCompletionModel(s, est)
             PROVE  /\ o.status # "BLOCKED" =>
                          /\ s.ptbReady /\ o.path \in EligibleLegs(s) /\ o.estimate = o.path
                          /\ o.reason # "PAPER_READY_MODEL_PATH_NOT_LIVE_SELECTED"
                    /\ o.status = "CANDIDATE" =>
                          /\ s.edge[o.path] >= TargetEdge
                          /\ s.money[o.path].cycle /\ s.money[o.path].stranded
                          /\ CountOf({k \in Kinds : k.ours /\ k.leg = o.path /\ k.first = "full"})
                                >= MinSamples
  BY DEF CandidateEarnsIt
<1> DEFINE live == {leg \in CompletionLegs : LivePass(s, leg, est[leg])}
           ready == {leg \in EligibleLegs(s) : est[leg].ready}
           Paper(path, estimate) ==
               [path |-> path, estimate |-> estimate,
                status |-> IF s.edge[path] >= PaperMinEdge THEN "PAPER_CANDIDATE"
                                                           ELSE "BLOCKED",
                reason |-> WhyNot(s.edge[path], est[estimate])]
           Legs == CompletionLegs
<1>1. \A leg \in Legs :
         /\ est[leg] = Estimate(s, leg)
         /\ est[leg].ready \in BOOLEAN /\ est[leg].probability \in BOOLEAN
         /\ est[leg].cycle \in BOOLEAN /\ est[leg].stranded \in BOOLEAN
         /\ est[leg].ready = Evidence(leg, s.edge[leg]).ready
         /\ est[leg].cycle => s.money[leg].cycle
         /\ est[leg].stranded => s.money[leg].stranded
  BY EstimatesAreTyped
<1>2. live \in SUBSET Legs /\ ready \in SUBSET Legs /\ ready \subseteq EligibleLegs(s)
      /\ \A leg \in live : /\ leg \in EligibleLegs(s) /\ s.edge[leg] >= TargetEdge
                           /\ est[leg].ready /\ est[leg].cycle /\ est[leg].stranded
  BY DEF LivePass, EligibleLegs
<1>3. \A leg \in Legs : leg \in EligibleLegs(s) <=> s.edge[leg] >= PaperMinEdge
  BY DEF EligibleLegs
\* A path that is not live has a check that fails.
<1>4. ASSUME NEW path \in Legs, path \notin live
      PROVE  WhyNot(s.edge[path], est[path]) # "PAPER_READY_MODEL_PATH_NOT_LIVE_SELECTED"
  <2>1. \/ ~ (s.edge[path] >= PaperMinEdge) \/ est[path].ready = FALSE
        \/ ~ (s.edge[path] >= TargetEdge) \/ est[path].probability = FALSE
        \/ est[path].cycle = FALSE \/ est[path].stranded = FALSE
    BY <1>1, <1>3, <1>4 DEF LivePass
  <2>2. QED
    BY <2>1, RefusedForAReason
<1>5. o = IF ~s.ptbReady \/ EligibleLegs(s) = {}
          THEN [path |-> s.first, estimate |-> "none", status |-> "BLOCKED", reason |-> ""]
          ELSE IF live # {}
          THEN [path |-> BestLeg(s, live), estimate |-> BestLeg(s, live),
                status |-> "CANDIDATE", reason |-> "READY_COMPLETION_EV"]
          ELSE IF ready # {}
          THEN Paper(BestLeg(s, ready), BestLeg(s, ready))
          ELSE Paper(s.first, IF s.first = "DOWN" /\ "DOWN" \in EligibleLegs(s)
                              THEN "DOWN" ELSE "UP")
  BY DEF ApplyCompletionModel
<1> HIDE DEF live, ready
<1>6. CASE ~s.ptbReady \/ EligibleLegs(s) = {}
  <2>1. o.status = "BLOCKED"
    <3> DEFINE nothing == ""
    <3>1. o = [path |-> s.first, estimate |-> "none", status |-> "BLOCKED",
               reason |-> nothing]
      BY <1>5, <1>6, Zenon
    <3> HIDE DEF nothing
    <3>2. QED
      BY <3>1
  <2>2. QED
    BY <2>1
<1>7. CASE s.ptbReady /\ EligibleLegs(s) # {} /\ live # {}
  <2> DEFINE best == BestLeg(s, live)
  <2>1. best \in live
    BY <1>2, <1>7, BestIsOneOfThem
  <2>2. /\ o.path = best /\ o.estimate = best /\ o.status = "CANDIDATE"
        /\ o.reason = "READY_COMPLETION_EV"
    <3>1. o = [path |-> best, estimate |-> best,
               status |-> "CANDIDATE", reason |-> "READY_COMPLETION_EV"]
      BY <1>5, <1>7, Zenon
    <3>2. QED
      BY <3>1
  <2> HIDE DEF best
  <2>3. /\ best \in EligibleLegs(s) /\ s.edge[best] >= TargetEdge
        /\ s.money[best].cycle /\ s.money[best].stranded
        /\ Evidence(best, s.edge[best]).ready
    BY <1>1, <1>2, <2>1
  <2>4. CountOf({k \in Kinds : k.ours /\ k.leg = best /\ k.first = "full"}) >= MinSamples
    BY <2>3, ReadyHasSamples
  <2>5. QED
    BY <1>7, <2>2, <2>3, <2>4
<1>8. CASE s.ptbReady /\ EligibleLegs(s) # {} /\ live = {} /\ ready # {}
  <2> DEFINE best == BestLeg(s, ready)
  <2>1. best \in ready
    BY <1>2, <1>8, BestIsOneOfThem
  <2>2. /\ o.path = best /\ o.estimate = best
        /\ o.status = "PAPER_CANDIDATE" \/ o.status = "BLOCKED"
        /\ o.reason = WhyNot(s.edge[best], est[best])
    <3>1. o = Paper(best, best)
      BY <1>5, <1>8, Zenon
    <3>2. QED
      BY <3>1
  <2> HIDE DEF best
  <2>3. best \in EligibleLegs(s) /\ best \in Legs
    BY <1>2, <2>1
  <2>4. o.reason # "PAPER_READY_MODEL_PATH_NOT_LIVE_SELECTED"
    BY <1>4, <1>8, <2>2, <2>3
  <2>5. QED
    BY <1>8, <2>2, <2>3, <2>4
<1>9. CASE s.ptbReady /\ EligibleLegs(s) # {} /\ live = {} /\ ready = {}
  <2>1. /\ o.path = s.first
        /\ o.estimate = IF s.first = "DOWN" /\ "DOWN" \in EligibleLegs(s) THEN "DOWN" ELSE "UP"
        /\ o.status = IF s.edge[s.first] >= PaperMinEdge THEN "PAPER_CANDIDATE" ELSE "BLOCKED"
        /\ o.reason = WhyNot(s.edge[s.first], est[o.estimate])
    <3>1. o = Paper(s.first, IF s.first = "DOWN" /\ "DOWN" \in EligibleLegs(s)
                             THEN "DOWN" ELSE "UP")
      BY <1>5, <1>9, Zenon
    <3>2. QED
      BY <3>1
  <2>2. s.first \in Legs
    BY DEF SnapshotCase
  <2>3. CASE s.first \in EligibleLegs(s)
    <3>1. o.estimate = s.first
      BY <2>1, <2>2, <2>3 DEF CompletionLegs
    <3>2. o.reason # "PAPER_READY_MODEL_PATH_NOT_LIVE_SELECTED"
      BY <1>4, <1>9, <2>1, <2>2, <3>1
    <3>3. QED
      BY <1>9, <2>1, <2>3, <3>1, <3>2
  <2>4. CASE s.first \notin EligibleLegs(s)
    BY <1>3, <2>1, <2>2, <2>4
  <2>5. QED
    BY <2>3, <2>4
<1>10. QED
  BY <1>6, <1>7, <1>8, <1>9 DEF SnapshotCase

\* The same of every snapshot of the run, in every reachable state.
THEOREM CandidatesEarnTheirs == MCSpec => []CandidatesEarnIt
<1>1. \A s \in Snapshots : SnapshotCase(s)
  <2>1. \A e \in Edges : e \in Int
    BY DEF Edges
  <2>2. \A m \in Money : m.cycle \in BOOLEAN /\ m.stranded \in BOOLEAN
    <3> SUFFICES ASSUME NEW m \in Money PROVE m.cycle \in BOOLEAN /\ m.stranded \in BOOLEAN
      OBVIOUS
    <3>1. \E a, b \in BOOLEAN, n \in Nat : m = [cycle |-> a, stranded |-> b, rank |-> n]
      BY DEF Money
    <3>2. QED
      BY <3>1
  <2>3. \A s \in Snapshots : /\ s.ptbReady \in BOOLEAN /\ s.first \in CompletionLegs
                             /\ s.edge \in [CompletionLegs -> Edges]
                             /\ s.money \in [CompletionLegs -> Money]
    BY DEF Snapshots
  <2>4. QED
    BY <2>1, <2>2, <2>3 DEF SnapshotCase
<1>2. CandidatesEarnIt
  BY <1>1, CandidatesEarnAlways DEF CandidatesEarnIt
<1>3. QED
  BY <1>2, PTL

\* In a product of naturals a greater factor makes a greater product.
LEMMA GreaterFactor ==
  ASSUME NEW a \in Int, NEW b \in Int, NEW f \in Nat, a <= b
  PROVE  f * a <= f * b /\ f * a \in Int /\ f * b \in Int
<1>1. PICK d \in Nat : b = a + d
  <2>1. b - a \in Nat /\ b = a + (b - a)
    OBVIOUS
  <2>2. QED
    BY <2>1
<1>2. f * b = f * a + f * d /\ f * d \in Nat /\ f * a \in Int
  BY <1>1
<1>3. QED
  BY <1>2

LEMMA WilsonTerms ==
  ASSUME NEW s \in Nat, NEW n \in Nat
  PROVE  /\ MinProbability \in Nat /\ MinProbability >= 1
         /\ 100 - MinProbability \in Nat /\ 100 - MinProbability >= 1
         /\ 100 * s - MinProbability * n \in Int
  BY CompletionAssumption DEF CompletionAssumption

\* Over is positive when the bound is met, and so large that one more success among one
\* more decided cycle keeps it met.
LEMMA OneMoreSuccess ==
  ASSUME NEW s \in Nat, NEW n \in Nat, s <= n, n >= 1, WilsonPass(s, n)
  PROVE  WilsonPass(s + 1, n + 1)
<1> DEFINE p == MinProbability
           d == 100 - MinProbability
           over == 100 * s - MinProbability * n
           c == 38415 * p * d
<1>1. p \in Nat /\ p >= 1 /\ d \in Nat /\ d >= 1 /\ over \in Int /\ p + d = 100
  BY WilsonTerms
<1>2. over >= 0 /\ 10000 * over * over >= 38415 * p * d * n
  BY DEF WilsonPass
<1>3. over \in Nat
  BY <1>1, <1>2
<1>4. over <= d * n
  <2>1. d * n = 100 * n - p * n
    BY <1>1
  <2>2. 100 * s <= 100 * n /\ p * n \in Int
    BY <1>1
  <2>3. QED
    BY <2>1, <2>2
<1>5. 100 * (s + 1) - MinProbability * (n + 1) = over + d
  <2>1. MinProbability * (n + 1) = MinProbability * n + MinProbability
    BY <1>1
  <2>2. MinProbability * n \in Int
    BY <1>1
  <2>3. QED
    BY <1>1, <2>1, <2>2
<1> HIDE DEF p, d, over
<1>6. c \in Nat /\ c >= 1 /\ c * n \in Nat /\ c * n >= 1
  <2>1. p * d \in Nat /\ p * d >= 1
    BY <1>1
  <2>2. c = 38415 * (p * d)
    BY <1>1
  <2>3. c \in Nat /\ c >= 1
    BY <2>1, <2>2
  <2> HIDE DEF c
  <2>4. QED
    BY <2>3
<1>7. 38415 * p * d * n = c * n /\ 38415 * p * (d * n) = c * n
  BY <1>1
<1>8. 10000 * over * over >= c * n
  BY <1>2, <1>7
<1>9. over >= 1
  <2>1. CASE over = 0
    <3>1. 10000 * over * over = 0
      BY <2>1
    <3>2. QED
      BY <1>6, <1>8, <3>1
  <2>2. QED
    BY <1>3, <2>1
<1>10. 10000 * over >= 38415 * p
  <2>1. (38415 * p) * over <= (38415 * p) * (d * n)
    <3>1. 38415 * p \in Nat /\ d * n \in Int
      BY <1>1
    <3>2. QED
      BY <1>3, <1>4, <3>1, GreaterFactor
  <2>2. (38415 * p) * over <= (10000 * over) * over
    <3>1. (38415 * p) * (d * n) = c * n
      BY <1>7
    <3>2. (10000 * over) * over = 10000 * over * over
      OBVIOUS
    <3>3. (38415 * p) * over \in Int /\ (10000 * over) * over \in Int
      BY <1>1, <1>3
    <3>4. QED
      BY <1>6, <1>8, <2>1, <3>1, <3>2, <3>3
  <2>3. SUFFICES ASSUME ~ (10000 * over >= 38415 * p) PROVE FALSE
    OBVIOUS
  <2>4. 10000 * over + 1 <= 38415 * p /\ 10000 * over \in Nat /\ 38415 * p \in Nat
    BY <1>1, <1>3, <2>3
  <2>5. over * (10000 * over + 1) <= over * (38415 * p)
    BY <1>3, <2>4, GreaterFactor
  <2>6. over * (10000 * over + 1) = (10000 * over) * over + over
    BY <1>3
  <2>7. over * (38415 * p) = (38415 * p) * over
    BY <1>1, <1>3
  <2>8. (10000 * over) * over \in Nat
    BY <1>3
  <2>9. (38415 * p) * over \in Int
    BY <1>1, <1>3
  <2>10. (10000 * over) * over + over <= (38415 * p) * over
    BY <2>5, <2>6, <2>7
  <2> DEFINE x == (10000 * over) * over
             y == (38415 * p) * over
  <2>11. x \in Nat /\ y \in Int /\ y <= x /\ x + over <= y
    BY <2>2, <2>8, <2>9, <2>10
  <2> HIDE DEF x, y
  <2>12. QED
    BY <1>3, <1>9, <2>11
<1>11. 10000 * (over + d) * (over + d) >= c * (n + 1)
  <2>1. 10000 * (over + d) * (over + d)
           = 10000 * over * over + 2 * (d * (10000 * over)) + 10000 * d * d
    BY <1>1, <1>3
  <2>2. d * (10000 * over) >= c
    <3>1. d * (38415 * p) <= d * (10000 * over)
      <4>1. 38415 * p \in Int /\ 10000 * over \in Int
        BY <1>1, <1>3
      <4>2. QED
        BY <1>1, <1>10, <4>1, GreaterFactor
    <3>2. d * (38415 * p) = c
      BY <1>1
    <3>3. QED
      BY <3>1, <3>2
  <2>3. c * (n + 1) = c * n + c
    BY <1>6
  <2>4. 10000 * d * d \in Nat /\ d * (10000 * over) \in Nat /\ 10000 * over * over \in Nat
    BY <1>1, <1>3
  <2> HIDE DEF c
  <2>5. QED
    BY <1>6, <1>8, <2>1, <2>2, <2>3, <2>4
<1>12. 38415 * MinProbability * (100 - MinProbability) * (n + 1) = c * (n + 1)
  BY DEF p, d
<1>13. over + d >= 0
  BY <1>1, <1>3
<1>14. QED
  BY <1>5, <1>11, <1>12, <1>13 DEF WilsonPass

\* One more failure never gets the bound met.
LEMMA OneMoreFailure ==
  ASSUME NEW s \in Nat, NEW n \in Nat, WilsonPass(s, n + 1)
  PROVE  WilsonPass(s, n)
<1> DEFINE p == MinProbability
           d == 100 - MinProbability
           under == 100 * s - MinProbability * (n + 1)
           over == 100 * s - MinProbability * n
           c == 38415 * p * d
<1>1. p \in Nat /\ p >= 1 /\ d \in Nat /\ d >= 1 /\ over \in Int /\ under \in Int
  BY WilsonTerms
<1>2. under >= 0 /\ 10000 * under * under >= 38415 * p * d * (n + 1)
  BY DEF WilsonPass
<1>3. over = under + p
  <2>1. MinProbability * (n + 1) = MinProbability * n + MinProbability
    BY <1>1
  <2>2. MinProbability * n \in Int
    BY <1>1
  <2>3. QED
    BY <1>1, <2>1, <2>2
<1> HIDE DEF p, d, over, under
<1>4. over \in Nat /\ under \in Nat /\ under <= over
  BY <1>1, <1>2, <1>3
<1>5. under * under <= over * over
  <2>1. under * under <= under * over
    BY <1>4, GreaterFactor
  <2>2. over * under <= over * over
    BY <1>4, GreaterFactor
  <2>3. under * over = over * under /\ under * under \in Int /\ over * over \in Int
        /\ over * under \in Int
    BY <1>4
  <2>4. QED
    BY <2>1, <2>2, <2>3
<1>6. 10000 * under * under <= 10000 * over * over
  <2>1. 10000 * under * under = 10000 * (under * under)
        /\ 10000 * over * over = 10000 * (over * over)
    BY <1>4
  <2>2. under * under \in Int /\ over * over \in Int
    BY <1>4
  <2>3. QED
    BY <1>5, <2>1, <2>2
<1>7. c * n <= c * (n + 1)
  <2>1. p * d \in Nat
    BY <1>1
  <2>2. c = 38415 * (p * d)
    BY <1>1
  <2>3. c \in Nat
    BY <2>1, <2>2
  <2> HIDE DEF c
  <2>4. QED
    BY <2>3, GreaterFactor
<1>8. 10000 * over * over >= c * n
  <2>1. /\ 10000 * under * under \in Int /\ 10000 * over * over \in Int
        /\ c * n \in Int /\ c * (n + 1) \in Int
    BY <1>1, <1>4
  <2> HIDE DEF c
  <2>2. 10000 * under * under >= c * (n + 1)
    BY <1>2 DEF c
  <2>3. QED
    BY <1>6, <1>7, <2>1, <2>2
<1>9. 38415 * MinProbability * (100 - MinProbability) * n = c * n
  BY DEF p, d
<1>10. over >= 0
  BY <1>4
<1>11. QED
  BY <1>8, <1>9, <1>10 DEF WilsonPass, over

\* One more cycle of a kind is one more of every set of kinds with it, and of no other.
LEMMA OneMoreIsCounted ==
  ASSUME NEW t \in [Kinds -> Nat], NEW u \in [Kinds -> Nat], NEW k \in Kinds,
         u[k] = t[k] + 1, \A j \in Kinds \ {k} : u[j] = t[j], t[k] < Lookback,
         NEW rows \in SUBSET Kinds
  PROVE  /\ k \in rows => CountIn(u, rows) = CountIn(t, rows) + 1
         /\ k \notin rows => CountIn(u, rows) = CountIn(t, rows)
<1> DEFINE before == {cycle \in Cells(rows) : cycle[2] <= t[cycle[1]]}
           after == {cycle \in Cells(rows) : cycle[2] <= u[cycle[1]]}
           new == <<k, t[k] + 1>>
<1>1. IsFiniteSet(before)
  <2>1. IsFiniteSet(Cells(rows))
    BY CellsAreFinite
  <2>2. QED
    BY <2>1, FS_Subset
<1>2. CASE k \in rows
  <2>1. new \in Cells(rows) /\ new \in after /\ new \notin before
    BY <1>2, CompletionAssumption DEF Cells, CompletionAssumption
  <2>2. ASSUME NEW cycle \in Cells(rows), cycle # new
        PROVE  cycle \in after <=> cycle \in before
    <3>1. PICK j \in rows, n \in 1..Lookback : cycle = <<j, n>>
      BY DEF Cells
    <3>2. j # k \/ n # t[k] + 1
      BY <2>2, <3>1
    <3>3. n <= u[j] <=> n <= t[j]
      <4>1. CASE j = k
        <5>1. u[j] = t[j] + 1 /\ t[j] \in Nat /\ n # t[j] + 1 /\ n \in Int
          BY <3>2, <4>1, CompletionAssumption DEF CompletionAssumption
        <5>2. QED
          BY <5>1
      <4>2. CASE j # k
        BY <4>2
      <4>3. QED
        BY <4>1, <4>2
    <3>4. QED
      BY <3>1, <3>3
  <2>3. after = before \cup {new}
    <3>1. before \in SUBSET Cells(rows) /\ after \in SUBSET Cells(rows)
      OBVIOUS
    <3> HIDE DEF before, after, new
    <3>2. QED
      BY <2>1, <2>2, <3>1
  <2> HIDE DEF before, after, new
  <2>4. Cardinality(after) = Cardinality(before) + 1
    BY <1>1, <2>1, <2>3, FS_AddElement
  <2>5. QED
    BY <1>2, <2>4 DEF CountIn, before, after
<1>3. CASE k \notin rows
  <2>1. ASSUME NEW cycle \in Cells(rows)
        PROVE  cycle[2] <= u[cycle[1]] <=> cycle[2] <= t[cycle[1]]
    <3>1. cycle[1] \in rows
      BY DEF Cells
    <3>2. QED
      BY <1>3, <3>1
  <2>2. after = before
    BY <2>1
  <2>3. QED
    BY <1>3, <2>2 DEF CountIn
<1>4. QED
  BY <1>2, <1>3

\* While there are fewer than Lookback cycles there are fewer of each kind.
LEMMA RoomForOneMore ==
  ASSUME NEW t \in [Kinds -> Nat], CountIn(t, Kinds) < Lookback, NEW k \in Kinds
  PROVE  t[k] < Lookback
<1>1. SUFFICES ASSUME ~ (t[k] < Lookback) PROVE FALSE
  OBVIOUS
<1> DEFINE column == Cells({k})
           all == {cycle \in Cells(Kinds) : cycle[2] <= t[cycle[1]]}
<1>2. Lookback \in Nat
  BY CompletionAssumption DEF CompletionAssumption
<1>3. column \in SUBSET all
  <2>1. ASSUME NEW cycle \in column PROVE cycle \in all
    <3>1. PICK n \in 1..Lookback : cycle = <<k, n>>
      BY DEF Cells
    <3>2. n <= t[k]
      BY <1>1, <1>2, <3>1
    <3>3. QED
      BY <3>1, <3>2 DEF Cells
  <2>2. QED
    BY <2>1
<1>4. IsFiniteSet(all)
  <2>1. IsFiniteSet(Cells(Kinds))
    BY CellsAreFinite
  <2>2. QED
    BY <2>1, FS_Subset
<1>5. Cardinality(column) = Lookback
  <2>1. /\ IsFiniteSet({k}) /\ Cardinality({k}) = 1
        /\ IsFiniteSet(1..Lookback) /\ Cardinality(1..Lookback) = Lookback
    <3>1. IsFiniteSet({k}) /\ Cardinality({k}) = 1
      BY FS_Singleton
    <3>2. /\ IsFiniteSet(1..Lookback)
          /\ Cardinality(1..Lookback) = IF 1 > Lookback THEN 0 ELSE Lookback - 1 + 1
      BY <1>2, FS_Interval
    <3>3. Cardinality(1..Lookback) = Lookback
      BY <1>2, <3>2
    <3>4. QED
      BY <3>1, <3>2, <3>3
  <2>2. Cardinality({k} \X (1..Lookback)) = Cardinality({k}) * Cardinality(1..Lookback)
    BY <2>1, FS_Product, Zenon
  <2>3. Cardinality({k} \X (1..Lookback)) = 1 * Lookback
    BY <2>1, <2>2, Zenon
  <2>4. QED
    BY <1>2, <2>3 DEF Cells
<1>6. Cardinality(column) <= Cardinality(all)
  BY <1>3, <1>4, FS_Subset
<1>7. Cardinality(all) \in Nat /\ CountIn(t, Kinds) = Cardinality(all)
  BY <1>4, FS_CardinalityType DEF CountIn
<1> HIDE DEF column, all
<1>8. QED
  BY <1>2, <1>5, <1>6, <1>7

Trained == trained \in [Kinds -> Nat]

LEMMA TrainingCounts ==
  ASSUME Trained, NEW k \in Kinds, Train(k), NEW rows \in SUBSET Kinds
  PROVE  /\ trained' \in [Kinds -> Nat] /\ trained'[k] = trained[k] + 1
         /\ \A j \in Kinds \ {k} : trained'[j] = trained[j]
         /\ CountIn(trained, rows) \in Nat
         /\ k \in rows => CountIn(trained', rows) = CountIn(trained, rows) + 1
         /\ k \notin rows => CountIn(trained', rows) = CountIn(trained, rows)
<1>1. /\ trained' \in [Kinds -> Nat] /\ trained'[k] = trained[k] + 1
      /\ \A j \in Kinds \ {k} : trained'[j] = trained[j]
  BY DEF Train, Trained
<1>2. trained[k] < Lookback
  <2>1. CountIn(trained, Kinds) < Lookback
    BY DEF Train, CountOf, CountIn, Cells
  <2>2. QED
    BY <2>1, RoomForOneMore DEF Trained
<1>3. CountIn(trained, rows) \in Nat
  <2>1. CountIn(trained, rows) = CountOf(rows)
    BY DEF CountOf, CountIn, Cells
  <2>2. QED
    BY <2>1, CountsAreNumbers
<1>4. QED
  BY <1>1, <1>2, <1>3, OneMoreIsCounted DEF Trained

\* A path's evidence, in a scope.
EvidenceIn(t, rows) ==
    /\ CountIn(t, Decided(rows)) >= MinSamples /\ CountIn(t, rows) >= MinSamples
    /\ WilsonPass(CountIn(t, InTime(rows)), CountIn(t, Decided(rows)))

LEMMA EvidenceOfAScope ==
  ASSUME NEW leg, NEW edge, NEW band, band = ScopeOf(leg, edge),
         ScopeOf(leg, edge)' = ScopeOf(leg, edge)
  PROVE  /\ Evidence(leg, edge).probability
                <=> EvidenceIn(trained, Training(leg, edge, band))
         /\ Evidence(leg, edge)'.probability
                <=> EvidenceIn(trained', Training(leg, edge, band))
         /\ Evidence(leg, edge).ready
                => /\ CountIn(trained, Training(leg, edge, band)) >= MinSamples
                   /\ CountIn(trained, Decided(Training(leg, edge, band))) >= MinSamples
<1>1. band = ScopeOf(leg, edge)'
  OBVIOUS
<1>2. Evidence(leg, edge).probability <=> EvidenceIn(trained, Training(leg, edge, band))
  BY DEF Evidence, Enough, EvidenceIn, CountIn, CountOf, Cells
<1>3. Evidence(leg, edge)'.probability <=> EvidenceIn(trained', Training(leg, edge, band))
  BY <1>1 DEF Evidence, Enough, EvidenceIn, CountIn, CountOf, Cells
<1>4. Evidence(leg, edge).ready
                => /\ CountIn(trained, Training(leg, edge, band)) >= MinSamples
                   /\ CountIn(trained, Decided(Training(leg, edge, band))) >= MinSamples
  BY DEF Evidence, Enough, CountIn, CountOf, Cells
<1>5. QED
  BY <1>2, <1>3, <1>4

\* The second leg of a trained cycle came within the five seconds.
CameInTime(k) == k.status = "COMPLETED" /\ k.ms \in FiveSeconds

LEMMA OtherwiseNotInTime ==
  ASSUME NEW k, TooLate(k) \/ AtOnce(k)
  PROVE  ~CameInTime(k)
<1>1. \A m \in FiveSeconds : m \in Int /\ m >= 1 /\ m <= 5000
  BY DEF FiveSeconds
<1>2. CASE k.status = "STRANDED_TIMEOUT"
  BY <1>2 DEF CameInTime
<1>3. CASE k.ms > 5000
  BY <1>1, <1>3 DEF CameInTime
<1>4. CASE k.ms = 0
  BY <1>1, <1>4 DEF CameInTime
<1>5. QED
  BY <1>2, <1>3, <1>4 DEF TooLate, AtOnce

\* One more cycle in time is one more success among one more decided, any other
\* decided one a failure among one more.
LEMMA OneMoreCycle ==
  ASSUME Trained, NEW k \in Kinds, Train(k), NEW leg, NEW edge, NEW band,
         k.first = "full", k.status \in {"COMPLETED", "STRANDED_TIMEOUT"},
         CountIn(trained, Training(leg, edge, band)) >= MinSamples,
         CountIn(trained, Decided(Training(leg, edge, band))) >= MinSamples
  PROVE  /\ CameInTime(k) => ( EvidenceIn(trained, Training(leg, edge, band))
                                => EvidenceIn(trained', Training(leg, edge, band)) )
         /\ ~CameInTime(k) => ( EvidenceIn(trained', Training(leg, edge, band))
                                => EvidenceIn(trained, Training(leg, edge, band)) )
<1> DEFINE rows == Training(leg, edge, band)
           s == CountIn(trained, InTime(rows))
           n == CountIn(trained, Decided(rows))
           m == CountIn(trained, rows)
           s1 == CountIn(trained', InTime(rows))
           n1 == CountIn(trained', Decided(rows))
           m1 == CountIn(trained', rows)
<1>1. rows \in SUBSET Kinds
  BY DEF Training
<1> HIDE DEF rows
<1>12. Decided(rows) \in SUBSET rows /\ InTime(rows) \in SUBSET Decided(rows)
  BY DEF Decided, InTime
<1>13. k \in rows <=> k \in Decided(rows)
  BY Zenon DEF Decided
<1>2. /\ k \in rows <=> k \in Decided(rows)
      /\ k \in InTime(rows) <=> /\ k \in rows
                              /\ k.status = "COMPLETED" /\ k.ms \in FiveSeconds
  <2>1. k \in InTime(rows) <=> /\ k \in Decided(rows)
                              /\ k.status = "COMPLETED" /\ k.ms \in FiveSeconds
    BY DEF InTime
  <2>2. QED
    BY <1>13, <2>1
<1>3. Decided(rows) \in SUBSET Kinds /\ InTime(rows) \in SUBSET Kinds
  BY <1>1, <1>12
<1>4. /\ s \in Nat /\ n \in Nat /\ m \in Nat
      /\ k \in rows => m1 = m + 1
      /\ k \notin rows => m1 = m
      /\ k \in Decided(rows) => n1 = n + 1
      /\ k \notin Decided(rows) => n1 = n
      /\ k \in InTime(rows) => s1 = s + 1
      /\ k \notin InTime(rows) => s1 = s
  BY <1>1, <1>3, <1>12, TrainingCounts
<1>5. s <= n
  <2>1. CountOf(InTime(rows)) <= CountOf(Decided(rows))
    BY <1>3, <1>12, CountsAreMonotone
  <2>2. QED
    BY <2>1 DEF CountOf, CountIn, Cells
<1>6. n >= MinSamples /\ m >= MinSamples /\ MinSamples \in Nat /\ MinSamples >= 1
  <2>1. n >= MinSamples /\ m >= MinSamples
    BY DEF rows
  <2>2. QED
    BY <2>1, CompletionAssumption DEF CompletionAssumption
<1>7. /\ EvidenceIn(trained, rows)
            <=> n >= MinSamples /\ m >= MinSamples /\ WilsonPass(s, n)
      /\ EvidenceIn(trained', rows)
            <=> n1 >= MinSamples /\ m1 >= MinSamples /\ WilsonPass(s1, n1)
  BY DEF EvidenceIn
<1> HIDE DEF s, n, m, s1, n1, m1
<1>15. k \in InTime(rows) <=> k \in rows /\ CameInTime(k)
  BY <1>2, Zenon DEF CameInTime
<1> DEFINE Counts ==
             /\ CameInTime(k) => (EvidenceIn(trained, rows) => EvidenceIn(trained', rows))
             /\ ~CameInTime(k) => (EvidenceIn(trained', rows) => EvidenceIn(trained, rows))
<1>8. ASSUME k \notin rows PROVE Counts
  <2>1. s1 = s /\ n1 = n /\ m1 = m
    BY <1>2, <1>4, <1>8
  <2>2. EvidenceIn(trained, rows) <=> EvidenceIn(trained', rows)
    BY <1>7, <2>1
  <2>3. QED
    BY <2>2, Zenon
<1>9. ASSUME k \in InTime(rows) PROVE Counts
  <2>1. s1 = s + 1 /\ n1 = n + 1 /\ m1 = m + 1
    BY <1>2, <1>4, <1>9
  <2>2. n1 >= MinSamples /\ m1 >= MinSamples /\ n >= 1
    BY <1>4, <1>6, <2>1
  <2>3. WilsonPass(s, n) => WilsonPass(s1, n1)
    BY <1>4, <1>5, <2>1, <2>2, OneMoreSuccess
  <2>4. EvidenceIn(trained, rows) => EvidenceIn(trained', rows)
    BY <1>7, <2>2, <2>3
  <2>5. QED
    BY <1>9, <1>15, <2>4, Zenon
<1>10. ASSUME k \in rows, k \notin InTime(rows) PROVE Counts
  <2>1. s1 = s /\ n1 = n + 1 /\ m1 = m + 1
    BY <1>2, <1>4, <1>10
  <2>2. WilsonPass(s1, n1) => WilsonPass(s, n)
    BY <1>4, <2>1, OneMoreFailure
  <2>3. EvidenceIn(trained', rows) => EvidenceIn(trained, rows)
    BY <1>6, <1>7, <2>2
  <2>4. QED
    BY <1>10, <1>15, <2>3, Zenon
<1>16. Counts
  BY <1>8, <1>9, <1>10, <1>15, Zenon
<1>11. QED
  BY <1>16, Zenon DEF rows

LEMMA EvidenceCountsInAStep ==
  ASSUME NEW edges
  PROVE  Trained /\ TrainNext => Trained' /\ EvidenceCounts(edges)
<1> SUFFICES ASSUME Trained, NEW j \in Kinds, Train(j)
             PROVE  Trained' /\ EvidenceCounts(edges)
  BY DEF TrainNext
<1>1. Trained'
  BY TrainingCounts DEF Trained
<1>2. ASSUME NEW leg \in CompletionLegs, NEW edge \in edges, NEW k \in Kinds,
             trained'[k] > trained[k], k.first = "full",
             k.status \in {"COMPLETED", "STRANDED_TIMEOUT"},
             ScopeOf(leg, edge)' = ScopeOf(leg, edge), Evidence(leg, edge).ready
      PROVE  /\ CameInTime(k) => ( Evidence(leg, edge).probability
                                     => Evidence(leg, edge)'.probability )
             /\ ~CameInTime(k) => ( Evidence(leg, edge)'.probability
                                     => Evidence(leg, edge).probability )
  <2>1. k = j
    <3>1. k # j => trained'[k] = trained[k]
      BY TrainingCounts
    <3>2. trained[k] \in Nat
      BY DEF Trained
    <3>3. QED
      BY <1>2, <3>1, <3>2
  <2>2. PICK band : band = ScopeOf(leg, edge)
    OBVIOUS
  <2>3. /\ Evidence(leg, edge).probability
                <=> EvidenceIn(trained, Training(leg, edge, band))
        /\ Evidence(leg, edge)'.probability
                <=> EvidenceIn(trained', Training(leg, edge, band))
        /\ CountIn(trained, Training(leg, edge, band)) >= MinSamples
        /\ CountIn(trained, Decided(Training(leg, edge, band))) >= MinSamples
    BY <1>2, <2>2, EvidenceOfAScope
  <2>4. Train(k)
    BY <2>1
  <2>5. /\ k.first = "full" /\ k.status \in {"COMPLETED", "STRANDED_TIMEOUT"}
        /\ CountIn(trained, Training(leg, edge, band)) >= MinSamples
        /\ CountIn(trained, Decided(Training(leg, edge, band))) >= MinSamples
    BY <1>2, <2>3
  <2>6. /\ CameInTime(k) => ( EvidenceIn(trained, Training(leg, edge, band))
                               => EvidenceIn(trained', Training(leg, edge, band)) )
        /\ ~CameInTime(k) => ( EvidenceIn(trained', Training(leg, edge, band))
                               => EvidenceIn(trained, Training(leg, edge, band)) )
    BY ONLY Trained, k \in Kinds, <2>4, <2>5, OneMoreCycle
  <2>7. QED
    BY ONLY <2>3, <2>6
<1>3. EvidenceCounts(edges)
  <2> SUFFICES ASSUME NEW leg \in CompletionLegs, NEW edge \in edges, NEW k \in Kinds,
                      trained'[k] > trained[k], k.first = "full",
                      k.status \in {"COMPLETED", "STRANDED_TIMEOUT"},
                      ScopeOf(leg, edge)' = ScopeOf(leg, edge), Evidence(leg, edge).ready
               PROVE  /\ Followed(k) => ( Evidence(leg, edge).probability
                                            => Evidence(leg, edge)'.probability )
                      /\ TooLate(k) => ( Evidence(leg, edge)'.probability
                                           => Evidence(leg, edge).probability )
                      /\ AtOnce(k) => ( Evidence(leg, edge)'.probability
                                          => Evidence(leg, edge).probability )
    BY Zenon DEF EvidenceCounts
  <2>1. CASE Followed(k)
    <3>1. CameInTime(k)
      BY <2>1 DEF Followed, CameInTime
    <3>2. ~TooLate(k) /\ ~AtOnce(k)
      BY <3>1, OtherwiseNotInTime
    <3>3. QED
      BY <1>2, <3>1, <3>2
  <2>2. CASE TooLate(k) \/ AtOnce(k)
    <3>1. ~CameInTime(k)
      BY <2>2, OtherwiseNotInTime
    <3>2. ~Followed(k)
      BY <3>1 DEF Followed, CameInTime
    <3>3. QED
      BY <1>2, <3>1, <3>2
  <2>3. QED
    BY <2>1, <2>2
<1>4. QED
  BY <1>1, <1>3

\* While a path is judged by the same scope, one more cycle whose second leg followed
\* within five seconds never loses it the probability gate, and one more that came
\* later, stranded or has a duration of 0 never wins it.
THEOREM EvidenceAlwaysCounts == MCSpec => MoreEvidenceCounts
<1>1. MCInit => Trained
  BY DEF MCInit, TrainInit, Trained
<1>2. ASSUME Trained, [MCNext]_algorithmVars
      PROVE  Trained' /\ [EvidenceCounts(Edges)]_trained
  <2>1. CASE Trains
    BY <1>2, <2>1, EvidenceCountsInAStep DEF Trains
  <2>2. CASE trained' = trained
    BY <1>2, <2>2 DEF Trained
  <2>3. QED
    BY <1>2, <2>1, <2>2 DEF MCNext, Walks, algorithmVars
<1>3. QED
  BY <1>1, <1>2, PTL DEF MCSpec, MoreEvidenceCounts
=============================================================================
