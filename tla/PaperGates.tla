------------------------------ MODULE PaperGates ------------------------------
(***************************************************************************)
(* The rules of a directional entry and of its hedge, which the code has   *)
(* twice: maybeOpen and MaybeHedge (internal/paper/engine.go) act on them, *)
(* EntryGateSnapshot and HedgeGateSnapshot (gates.go) show the operator    *)
(* which of them blocks.  The main loop calls the four one after the other *)
(* with the same evaluation and market; the quote is what the two functions *)
(* of polymarket/clob.go make of the asks, taken to be the same asks.      *)
(*                                                                         *)
(* Probabilities, scores and prices are hundredths.  A share can be bought *)
(* in parts of 1/Scale, and money is counted in hundredths of 1/Scale.     *)
(***************************************************************************)
EXTENDS Integers, Sequences, FiniteSets, SequencesExt, Checks

CONSTANTS Scale, LatencyBuffer,
          TopPrice,        \* no execution price is higher
          FeePerShare,     \* what each execution price costs in fees
          MinConfidence, MinSecondsToEnd, MaxSecondsToEnd,
          Stake, MinEntryPrice, MaxEffectiveEntry, MinEconomicEdge,
          HedgeMinSecondsToEnd, HedgeMaxSecondsToEnd, HedgeMinProbability,
          HedgeMinAbsPTBZ, HedgeWindow, HedgeMinVotes, HedgeMinConsecutive,
          HedgeScoreThreshold, HedgeMinEdge

ASSUME GatesAssumption ==
    /\ {LatencyBuffer, MinConfidence, MinSecondsToEnd, MaxSecondsToEnd, Stake,
        MinEntryPrice, MaxEffectiveEntry, MinEconomicEdge, HedgeMinSecondsToEnd,
        HedgeMaxSecondsToEnd, HedgeMinProbability, HedgeMinAbsPTBZ,
        HedgeMinVotes, HedgeMinConsecutive, HedgeScoreThreshold, HedgeMinEdge}
           \subseteq Nat
    /\ Scale \in Nat \ {0} /\ HedgeWindow \in Nat \ {0}
    /\ TopPrice \in Nat \ {0}
    /\ FeePerShare \in [1..TopPrice -> Nat]

ReverseSide(side) == IF side = "UP" THEN "DOWN" ELSE "UP"
Lowest(a, b) == IF a < b THEN a ELSE b

-----------------------------------------------------------------------------
(***************************************************************************)
(* fetchBuyQuote: walking the asks, cheapest first, until the budget is    *)
(* spent or the shares are bought.  A book side is a sequence of levels    *)
(* [price, size].                                                          *)
(***************************************************************************)
ExecPrice(price) == Lowest(TopPrice, price + LatencyBuffer)
UnitCost(price) == ExecPrice(price) + FeePerShare[ExecPrice(price)]

NoQuote == [shares |-> 0, notional |-> 0, cost |-> 0]

\* One of the two targets is positive, and bounds what a level may still give.
fetchBuyQuote(asks, targetShares, budget) ==
    FoldLeft(LAMBDA walk, level :
                 LET most == IF budget > 0
                             THEN (budget * Scale - walk.cost) \div UnitCost(level.price)
                             ELSE targetShares * Scale - walk.shares
                     fill == Lowest(level.size * Scale, most)
                 IN  [shares   |-> walk.shares + fill,
                      notional |-> walk.notional + fill * ExecPrice(level.price),
                      cost     |-> walk.cost + fill * UnitCost(level.price)],
             NoQuote, asks)

QuoteForBudget(asks, budget) == fetchBuyQuote(asks, 0, budget)
QuoteForShares(asks, shares) == fetchBuyQuote(asks, shares, 0)

\* Average and effective price are quotients; they are compared without dividing.
AverageAtLeast(q, price) == q.notional >= price * q.shares
CostsAtMost(q, price) == q.cost <= price * q.shares

-----------------------------------------------------------------------------
(***************************************************************************)
(* Entry.  A case e is what the two see: the evaluation (decision,         *)
(* confidence, seconds, the PTB terminal model, mock), the market (fresh,  *)
(* sameTimeframe, token), the database (recorded, cash) and the asks.      *)
(***************************************************************************)
Directed(e) == e.decision \in {"UP", "DOWN"}
TerminalProbability(e) == IF e.decision = "UP" THEN e.pAbove ELSE 100 - e.pAbove
Between(seconds, least, most) == least <= seconds /\ seconds <= most

EntryChecks(e) ==
    LET q == QuoteForBudget(e.asks, Stake)
    IN  << Check(Directed(e), "NEUTRAL_SIGNAL"),
           Check(e.ptbReady, "PTB_TERMINAL_NOT_READY"),
           Check(e.ptbDecision = e.decision, "PTB_TERMINAL_DIRECTION_MISMATCH"),
           Check(e.confidence >= MinConfidence, "CONFIDENCE_BELOW_THRESHOLD"),
           Check(Between(e.seconds, MinSecondsToEnd, MaxSecondsToEnd),
                 "OUTSIDE_ENTRY_WINDOW"),
           Check(e.fresh /\ ~e.mock, "DATA_NOT_FRESH_OR_MARKET_INACTIVE"),
           Check(e.sameTimeframe, "TIMEFRAME_MISMATCH"),
           Check(~e.recorded, "POSITION_ALREADY_RECORDED"),
           Check(e.cash >= Stake, "INSUFFICIENT_PAPER_BALANCE"),
           Check(e.token, "TOKEN_ID_UNAVAILABLE"),
           Check(q.shares > 0, "CLOB_QUOTE_ERROR"),
           Check(CostsAtMost(q, MaxEffectiveEntry), "EFFECTIVE_ENTRY_PRICE_TOO_HIGH"),
           Check(CostsAtMost(q, TerminalProbability(e) - MinEconomicEdge),
                 "ECONOMIC_EDGE_BELOW_THRESHOLD") >>

EntryReason(e) == FirstFailing(EntryChecks(e), "ENTRY_READY")

\* Mutated form: the upper end of the window is not part of it.
OpensBeforeMax(e) ==
    LET q == QuoteForBudget(e.asks, Stake)
    IN  /\ e.sameTimeframe /\ Directed(e) /\ e.fresh /\ e.confidence >= MinConfidence
        /\ e.seconds \in MinSecondsToEnd .. MaxSecondsToEnd - 1
        /\ ~e.mock /\ e.cash >= Stake /\ e.ptbReady /\ e.ptbDecision = e.decision
        /\ e.token /\ q.shares > 0 /\ AverageAtLeast(q, MinEntryPrice)
        /\ CostsAtMost(q, MaxEffectiveEntry)
        /\ CostsAtMost(q, TerminalProbability(e) - MinEconomicEdge)
        /\ ~e.recorded

\* maybeOpen creates a row.
Opens(e) ==
    LET q == QuoteForBudget(e.asks, Stake)
    IN  /\ e.sameTimeframe
        /\ Directed(e)
        /\ e.fresh
        /\ e.confidence >= MinConfidence
        /\ Between(e.seconds, MinSecondsToEnd, MaxSecondsToEnd)
        /\ ~e.mock
        /\ e.cash >= Stake
        /\ e.ptbReady /\ e.ptbDecision = e.decision
        /\ e.token
        /\ q.shares > 0
        /\ AverageAtLeast(q, MinEntryPrice)
        /\ CostsAtMost(q, MaxEffectiveEntry)
        /\ CostsAtMost(q, TerminalProbability(e) - MinEconomicEdge)
        /\ ~e.recorded

-----------------------------------------------------------------------------
(***************************************************************************)
(* Hedge.  A case h: the open position (side, shares), whether it is       *)
(* hedged, the evaluation (decision, pUp, ptbZ, seconds), whether the      *)
(* market is of the engine's timeframe, the evidence (what observeRegime   *)
(* kept, this evaluation last), token and asks.  MaybeHedge turns a market *)
(* of another timeframe away before it observes anything, and a market     *)
(* keeps its timeframe: such a case has no evidence (HedgeInput).          *)
(***************************************************************************)
ReverseProbability(h) == IF h.side = "DOWN" THEN h.pUp ELSE 100 - h.pUp

\* v is on the reverse side of zero, at least as far as the threshold.
Against(h, v, threshold) == IF h.side = "UP" THEN v <= -threshold ELSE v >= threshold

HedgeInput(h) == h.sameTimeframe \/ h.evidence = <<>>

\* regimeMetrics.
WindowFull(h) == Len(h.evidence) >= HedgeWindow

Votes(h) == Cardinality({i \in DOMAIN h.evidence :
                            h.evidence[i].decision = ReverseSide(h.side)})

Consecutive(h) ==
    LET n == Len(h.evidence)
    IN  Cardinality({i \in 1..n : \A j \in i..n :
                        h.evidence[j].decision = ReverseSide(h.side)})

\* smoothedScore, with its scale: alpha is 35 hundredths.  It is 0 as long as the
\* window is not full.
Smoothed(h) ==
    IF ~WindowFull(h) THEN [score |-> 0, scale |-> 1]
    ELSE FoldLeft(LAMBDA s, row : [score |-> 35 * row.score * s.scale + 65 * s.score,
                                   scale |-> 100 * s.scale],
                  [score |-> h.evidence[1].score, scale |-> 1], Tail(h.evidence))

SmoothedAgainst(h) == Against(h, Smoothed(h).score, HedgeScoreThreshold * Smoothed(h).scale)

\* LockedPnL less ExpectedHoldPnL.
Improvement(h, q) == ReverseProbability(h) * h.shares * Scale - q.cost

HedgeChecks(h) ==
    LET q == QuoteForShares(h.asks, h.shares)
    IN  << Check(~h.hedged, "HEDGE_ALREADY_OPEN"),
           Check(Between(h.seconds, HedgeMinSecondsToEnd, HedgeMaxSecondsToEnd),
                 "OUTSIDE_HEDGE_WINDOW"),
           Check(h.decision = ReverseSide(h.side), "NO_REVERSE_DECISION"),
           Check(ReverseProbability(h) >= HedgeMinProbability,
                 "REVERSE_PROBABILITY_BELOW_THRESHOLD"),
           Check(Against(h, h.ptbZ, HedgeMinAbsPTBZ), "PTB_Z_NOT_CONFIRMED"),
           Check(WindowFull(h), "REGIME_WINDOW_NOT_FULL"),
           Check(Votes(h) >= HedgeMinVotes, "REVERSE_VOTES_BELOW_THRESHOLD"),
           Check(Consecutive(h) >= HedgeMinConsecutive, "REVERSE_STREAK_BELOW_THRESHOLD"),
           Check(SmoothedAgainst(h), "EWMA_SCORE_NOT_CONFIRMED"),
           Check(h.token, "TOKEN_ID_UNAVAILABLE"),
           Check(q.shares = h.shares * Scale, "HEDGE_CLOB_QUOTE_ERROR"),
           Check(CostsAtMost(q, ReverseProbability(h) - HedgeMinEdge),
                 "REVERSE_EDGE_BELOW_THRESHOLD"),
           Check(Improvement(h, q) > 0, "HEDGE_DOES_NOT_IMPROVE_EXPECTANCY") >>

HedgeReason(h) == FirstFailing(HedgeChecks(h), "HEDGE_READY")

\* MaybeHedge creates a row.  It asks for the timeframe of the market, which the
\* panel does not, and wants a share of the window, not a number of votes.
HedgeOpens(h) ==
    LET q == QuoteForShares(h.asks, h.shares)
    IN  /\ h.sameTimeframe
        /\ ~h.hedged
        /\ Between(h.seconds, HedgeMinSecondsToEnd, HedgeMaxSecondsToEnd)
        /\ h.decision = ReverseSide(h.side) /\ ReverseProbability(h) >= HedgeMinProbability
        /\ Against(h, h.ptbZ, HedgeMinAbsPTBZ)
        /\ WindowFull(h) /\ Consecutive(h) >= HedgeMinConsecutive
        /\ Votes(h) * HedgeWindow >= HedgeMinVotes * Len(h.evidence)
        /\ SmoothedAgainst(h)
        /\ h.token
        /\ q.shares = h.shares * Scale
        /\ CostsAtMost(q, ReverseProbability(h) - HedgeMinEdge)
        /\ Improvement(h, q) > 0

-----------------------------------------------------------------------------
\* What the panel shows as ready the engine opens, and it opens nothing else,
\* except that the panel does not know of the floor under entry prices.
EntryShown(e) ==
    /\ Opens(e) => EntryReason(e) = "ENTRY_READY"
    /\ EntryReason(e) = "ENTRY_READY" =>
          Opens(e) \/ ~AverageAtLeast(QuoteForBudget(e.asks, Stake), MinEntryPrice)

\* The two hedge gates are one, although one counts votes and the other wants a
\* share of the window, and although only one asks for the timeframe: in another
\* one the panel shows a window that is not full, for nothing was observed.
HedgeShown(h) == HedgeReason(h) = "HEDGE_READY" <=> HedgeOpens(h)
=============================================================================
