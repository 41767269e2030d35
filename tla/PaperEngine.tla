----------------------------- MODULE PaperEngine -----------------------------
(***************************************************************************)
(* The directional paper engine, the once-a-second loop that drives it, and *)
(* its three tables.  A pass of the loop first settles what ended           *)
(* (SettleReady), then evaluates the market and may open a position with    *)
(* its inverse arm (maybeOpen), then may hedge the position (MaybeHedge).   *)
(* Each statement is a step that may fail, and the process may crash        *)
(* between any two.                                                         *)
(*                                                                          *)
(* The three rows of a market hang together by its slug, which is UNIQUE in *)
(* each table: a table is a function of the market.  Of the Chainlink       *)
(* client the engine sees BoundaryPrice: the price for the end of a market  *)
(* appears at most once, with a sample of the five minutes after that end,  *)
(* and lives in memory.  The real order that follows an entry changes none  *)
(* of this: it is in DirectionOrders.                                       *)
(***************************************************************************)
EXTENDS Integers, FiniteSets, FiniteSetsExt, SequencesExt

CONSTANTS MaxMarkets,        \* bound: the markets follow each other in time
          WindowLength,      \* of a market
          Prices,            \* prices at a boundary
          PriceToBeat,
          InitialBalance,
          Stake,             \* the budget of a quote
          Quotes,            \* what a budget buys: [shares, cost]
          ReverseQuotes,     \* the same on the other side
          HedgeCosts,        \* what the full hedge may cost
          MinSecondsToEnd, MaxSecondsToEnd, HedgeMinSecondsToEnd, HedgeMaxSecondsToEnd,
          HedgeWindow, HedgeMinVotes, HedgeMinConsecutive,
          MaxTime,           \* bound on the clock
          MaxEvents          \* bound on failed statements and crashes

Markets == 1..MaxMarkets
Sides == {"UP", "DOWN"}
Opposite(side) == IF side = "UP" THEN "DOWN" ELSE "UP"

ASSUME EngineAssumption ==
    /\ MaxMarkets \in Nat \ {0} /\ WindowLength \in Nat \ {0}
    /\ PriceToBeat \in Nat
    /\ Prices \subseteq Nat \ {0}
    /\ Stake \in Nat \ {0} /\ InitialBalance \in Nat
    /\ \A q \in Quotes \cup ReverseQuotes : q.shares \in Nat \ {0} /\ q.cost \in 1..Stake
    /\ HedgeCosts \subseteq Nat \ {0}
    /\ HedgeWindow \in Nat \ {0} /\ HedgeMinVotes \in 1..HedgeWindow
    /\ HedgeMinConsecutive \in Nat

Start(m) == (m - 1) * WindowLength
End(m) == m * WindowLength

VARIABLES trades,     \* paper_trades
          arms,       \* paper_inverse_trades
          hedges,     \* paper_hedges
          anchors,    \* the Chainlink price at the end of a market, 0 if none
          regimes,    \* per market, whether each observed decision was reverse
          pc, pass,   \* where the pass is, and its local variables
          now,
          faults      \* failed statements and crashes

tables == <<trades, arms, hedges>>
vars == <<trades, arms, hedges, anchors, regimes, pc, pass, now, faults>>

-----------------------------------------------------------------------------
NoTrade == [status |-> "NONE", side |-> "UP", shares |-> 0, stake |-> 0,
            outcome |-> "", pnl |-> 0]
NoArm == [status |-> "NONE", shares |-> 0, cost |-> 0, outcome |-> "", pnl |-> 0]
NoHedge == [status |-> "NONE", shares |-> 0, cost |-> 0, locked |-> 0,
            outcome |-> "", pnl |-> 0, combined |-> 0]
NoPass == [todo |-> {}, trade |-> 0, market |-> 0, decision |-> "UP"]

Init == /\ trades = [m \in Markets |-> NoTrade]
        /\ arms = [m \in Markets |-> NoArm]
        /\ hedges = [m \in Markets |-> NoHedge]
        /\ anchors = [m \in Markets |-> 0]
        /\ regimes = [m \in Markets |-> <<>>]
        /\ pc = "idle" /\ pass = NoPass
        /\ now = 0 /\ faults = 0

\* A statement holds, or it fails and returns an error.
Fault == faults < MaxEvents /\ faults' = faults + 1
Holds == UNCHANGED faults

Goto(label) == pc' = label
Rest == UNCHANGED now

\* An error leaves SettleReady; the pass goes on with the market.
EndSettlement == pass' = NoPass /\ Goto("settle")

-----------------------------------------------------------------------------
(* SettleReady. *)

OpenTrades == {m \in Markets : trades[m].status = "OPEN"}

\* The ticker fires and the open trades are listed.  The pass keeps the time of
\* the tick, so time stands still until it ends.
StartPass ==
    /\ pc = "idle"
    /\ \/ Holds /\ pass' = [NoPass EXCEPT !.todo = OpenTrades] /\ Goto("settle")
       \/ Fault /\ pass' = NoPass /\ Goto("settle")
    /\ UNCHANGED <<tables, anchors, regimes>> /\ Rest

OutcomeAt(price) == IF price >= PriceToBeat THEN "UP" ELSE "DOWN"
Payout(side, outcome, shares) == IF outcome = side THEN shares ELSE 0

Unsettleable(m) == now < End(m) \/ anchors[m] = 0

\* Mutated form: a trade without a boundary price ends the settlement.
SkipAll ==
    /\ pc = "settle" /\ pass.todo # {}
    /\ Unsettleable(Min(pass.todo))
    /\ pass' = [pass EXCEPT !.todo = {}]
    /\ Goto("settle")
    /\ UNCHANGED <<tables, anchors, regimes, faults>> /\ Rest

\* A trade whose market goes on, or whose boundary price is missing, is passed
\* over: the others are still settled.
Skip ==
    /\ pc = "settle" /\ pass.todo # {}
    /\ Unsettleable(Min(pass.todo))
    /\ pass' = [pass EXCEPT !.todo = @ \ {Min(pass.todo)}]
    /\ Goto("settle")
    /\ UNCHANGED <<tables, anchors, regimes, faults>> /\ Rest

\* SettlePaperTrade, then the arms; an error ends the settlement.
SettleTrade ==
    /\ pc = "settle" /\ pass.todo # {}
    /\ LET m       == Min(pass.todo)
           t       == trades[m]
           outcome == OutcomeAt(anchors[m])
       IN  /\ ~Unsettleable(m)
           /\ \/ /\ Holds
                 /\ trades' = [trades EXCEPT ![m] =
                        [t EXCEPT !.status = "SETTLED", !.outcome = outcome,
                                  !.pnl = Payout(t.side, outcome, t.shares) - t.stake]]
                 /\ pass' = [pass EXCEPT !.trade = m]
                 /\ Goto("inverse")
              \/ Fault /\ trades' = trades /\ EndSettlement
    /\ UNCHANGED <<arms, hedges, anchors, regimes>> /\ Rest

\* Mutated form: a trade without an inverse arm is done.
SettleInverseOrFinish ==
    /\ pc = "inverse"
    /\ LET m == pass.trade
           a == arms[m]
       IN  \/ /\ Holds
              /\ arms' = IF a.status # "OPEN" THEN arms
                         ELSE [arms EXCEPT ![m] =
                            [a EXCEPT !.status = "SETTLED", !.outcome = trades[m].outcome,
                                      !.pnl = Payout(Opposite(trades[m].side),
                                                     trades[m].outcome, a.shares) - a.cost]]
              /\ Goto(IF a.status = "OPEN" THEN "hedge" ELSE "settle")
              /\ pass' = IF a.status = "OPEN" THEN pass
                         ELSE [pass EXCEPT !.todo = @ \ {m}, !.trade = 0]
           \/ Fault /\ arms' = arms /\ EndSettlement
    /\ UNCHANGED <<trades, hedges, anchors, regimes>> /\ Rest

SettleInverse ==
    /\ pc = "inverse"
    /\ LET m       == pass.trade
           a       == arms[m]
           outcome == trades[m].outcome
       IN  \/ /\ Holds
              /\ arms' = IF a.status # "OPEN" THEN arms
                         ELSE [arms EXCEPT ![m] =
                            [a EXCEPT !.status = "SETTLED", !.outcome = outcome,
                                      !.pnl = Payout(Opposite(trades[m].side), outcome, a.shares)
                                                - a.cost]]
              /\ Goto("hedge")
              /\ pass' = pass
           \/ Fault /\ arms' = arms /\ EndSettlement
    /\ UNCHANGED <<trades, hedges, anchors, regimes>> /\ Rest

SettleHedge ==
    /\ pc = "hedge"
    /\ LET m       == pass.trade
           h       == hedges[m]
           t       == trades[m]
           pnl     == Payout(Opposite(t.side), t.outcome, h.shares) - h.cost
       IN  \/ /\ Holds
              /\ hedges' = IF h.status # "OPEN" THEN hedges
                           ELSE [hedges EXCEPT ![m] =
                              [h EXCEPT !.status = "SETTLED", !.outcome = t.outcome,
                                        !.pnl = pnl, !.combined = t.pnl + pnl]]
              /\ regimes' = [regimes EXCEPT ![m] = <<>>]
              /\ pass' = [pass EXCEPT !.todo = @ \ {m}, !.trade = 0]
              /\ Goto("settle")
           \/ Fault /\ UNCHANGED <<hedges, regimes>> /\ EndSettlement
    /\ UNCHANGED <<trades, arms, anchors>> /\ Rest

-----------------------------------------------------------------------------
(* The rest of the pass: evaluation, entry and hedge. *)

\* Nothing to trade: no market, stale inputs, or the signal could not be stored.
NoSignal ==
    /\ pc = "settle" /\ pass.todo = {}
    /\ Goto("idle") /\ pass' = NoPass
    /\ UNCHANGED <<tables, anchors, regimes, faults>> /\ Rest

\* A neutral decision does what a decision for the position's own side does: it
\* enters nothing, and it is a sample against the reversal.
Evaluate ==
    /\ pc = "settle" /\ pass.todo = {}
    /\ \E m \in Markets, decision \in Sides :
          /\ Start(m) <= now /\ now < End(m)
          /\ pass' = [pass EXCEPT !.market = m, !.decision = decision]
    /\ Goto("open")
    /\ UNCHANGED <<tables, anchors, regimes, faults>> /\ Rest

\* What a row adds to the cash, added up market by market.
Won(t) == IF t.status = "SETTLED" THEN t.pnl ELSE 0
Held(t) == IF t.status = "OPEN" THEN t.stake ELSE 0
Total(flow) == LET sum[m \in 0..MaxMarkets] == IF m = 0 THEN 0 ELSE sum[m - 1] + flow[m]
               IN  sum[MaxMarkets]

\* Mutated form: the stakes of open positions still count as cash.
CashWithoutStakes == InitialBalance + Total([m \in Markets |-> Won(trades[m])])

\* CashBalance of GetTimeframeStats.
Cash == InitialBalance + Total([m \in Markets |-> Won(trades[m]) - Held(trades[m])])

\* No entry: a gate, the quote, a failing statement, or a row already there.
NoEntry ==
    /\ pc = "open"
    /\ Goto("hedging")
    /\ UNCHANGED <<tables, anchors, regimes, pass, faults>> /\ Rest

\* The cash and time gates of maybeOpen; the others are a free choice.
MayEnter == /\ End(pass.market) - now \in MinSecondsToEnd..MaxSecondsToEnd
            /\ Cash >= Stake

\* maybeOpen up to CreatePaperTrade, which ignores a second row of a market.
Enter ==
    /\ pc = "open" /\ MayEnter
    /\ trades[pass.market].status = "NONE"
    /\ \E q \in Quotes :
          trades' = [trades EXCEPT ![pass.market] =
                        [NoTrade EXCEPT !.status = "OPEN", !.side = pass.decision,
                                        !.shares = q.shares, !.stake = q.cost]]
    /\ Goto("arm")
    /\ UNCHANGED <<arms, hedges, anchors, regimes, pass, faults>> /\ Rest

\* createInverseShadow; whatever it comes to, the evidence for a hedge starts
\* over.
CreateInverse ==
    /\ pc = "arm"
    /\ LET m == pass.market
       IN  /\ \/ arms' = arms
              \/ /\ arms[m].status = "NONE"
                 /\ \E q \in ReverseQuotes :
                       arms' = [arms EXCEPT ![m] =
                          [NoArm EXCEPT !.status = "OPEN", !.shares = q.shares, !.cost = q.cost]]
           /\ regimes' = [regimes EXCEPT ![m] = <<>>]
    /\ Goto("hedging")
    /\ UNCHANGED <<trades, hedges, anchors, pass, faults>> /\ Rest

\* observeRegime.
Observed(evidence, reversed) ==
    LET rows == Append(evidence, reversed)
    IN  IF Len(rows) > HedgeWindow
        THEN SubSeq(rows, Len(rows) - HedgeWindow + 1, Len(rows)) ELSE rows

\* regimeMetrics: enough votes in a full window, and the last ones in a row.
Persistent(evidence) ==
    /\ Len(evidence) >= HedgeWindow
    /\ Cardinality({i \in DOMAIN evidence : evidence[i]}) >= HedgeMinVotes
    /\ \A i \in DOMAIN evidence : i > Len(evidence) - HedgeMinConsecutive => evidence[i]

\* Mutated form: the profit is locked on the budget, not on what was paid.
LockedOnBudget(t, cost) == t.shares - Stake - cost

LockedPnL(t, cost) == t.shares - t.stake - cost

\* MaybeHedge without an open position, or failing before it has looked.
NoPosition ==
    /\ pc = "hedging"
    /\ Goto("idle") /\ pass' = NoPass
    /\ UNCHANGED <<tables, anchors, regimes, faults>> /\ Rest

\* MaybeHedge: the sample counts, and the hedge is opened when evidence, time
\* and price allow it.  Probability, score and edge are a free choice.
MaybeHedge ==
    /\ pc = "hedging" /\ trades[pass.market].status = "OPEN"
    /\ LET m         == pass.market
           t         == trades[m]
           evidence  == Observed(regimes[m], pass.decision = Opposite(t.side))
           remaining == End(m) - now
       IN  /\ regimes' = [regimes EXCEPT ![m] = evidence]
           /\ \/ hedges' = hedges
              \/ /\ hedges[m].status = "NONE"
                 /\ remaining \in HedgeMinSecondsToEnd..HedgeMaxSecondsToEnd
                 /\ pass.decision = Opposite(t.side)
                 /\ Persistent(evidence)
                 /\ \E cost \in HedgeCosts :
                       /\ cost < t.shares
                       /\ hedges' = [hedges EXCEPT ![m] =
                             [NoHedge EXCEPT !.status = "OPEN", !.shares = t.shares,
                                             !.cost = cost, !.locked = LockedPnL(t, cost)]]
    /\ Goto("idle") /\ pass' = NoPass
    /\ UNCHANGED <<trades, arms, anchors, faults>> /\ Rest

Pass == \/ StartPass \/ Skip \/ SettleTrade \/ SettleInverse
        \/ SettleHedge \/ NoSignal \/ Evaluate \/ NoEntry \/ Enter
        \/ CreateInverse \/ NoPosition \/ MaybeHedge

-----------------------------------------------------------------------------
(* Around the pass. *)

Engine == <<tables, regimes, pc, pass, faults>>

\* The feed gives the end of a market its price; it may also never do so.
Anchor ==
    /\ \E m \in Markets, price \in Prices :
          /\ anchors[m] = 0
          /\ End(m) <= now /\ now < End(m + 1)
          /\ anchors' = [anchors EXCEPT ![m] = price]
    /\ UNCHANGED <<Engine, now>>

Tick ==
    /\ now < MaxTime /\ pc = "idle"
    /\ now' = now + 1
    /\ UNCHANGED <<Engine, anchors>>

\* A crash loses what is in memory: prices, evidence, the pass.  A process that
\* is down is one that starts no pass.
Crash ==
    /\ Fault
    /\ anchors' = [m \in Markets |-> 0]
    /\ regimes' = [m \in Markets |-> <<>>]
    /\ Goto("idle") /\ pass' = NoPass
    /\ UNCHANGED <<tables, now>>

Next == \/ Pass \/ Anchor \/ Tick \/ Crash

\* The ticker fires again after every pass, and every request has a timeout.
Fairness == WF_vars(Pass)

Spec == Init /\ [][Next]_vars /\ Fairness

-----------------------------------------------------------------------------
Statuses == {"NONE", "OPEN", "SETTLED"}
Outcomes == Sides \cup {""}

TypeOK ==
    /\ trades \in [Markets -> [status : Statuses, side : Sides, shares : Nat,
                               stake : 0..Stake, outcome : Outcomes, pnl : Int]]
    /\ arms \in [Markets -> [status : Statuses, shares : Nat, cost : 0..Stake,
                             outcome : Outcomes, pnl : Int]]
    /\ hedges \in [Markets -> [status : Statuses, shares : Nat, cost : Nat, locked : Int,
                               outcome : Outcomes, pnl : Int, combined : Int]]
    /\ anchors \in [Markets -> Prices \cup {0}]
    /\ \A m \in Markets : regimes[m] \in BoundedSeq(BOOLEAN, HedgeWindow)
    /\ pass.todo \subseteq Markets /\ pass.market \in Markets \cup {0}
    /\ now \in 0..MaxTime

\* Once settled, the arms of a market agree on who won: a hedged position nets
\* what the hedge locked when it was opened, whoever wins, and of a position
\* and its inverse exactly one is paid.
ArmsAgree ==
    \A m \in Markets :
       /\ hedges[m].status = "SETTLED" =>
             /\ trades[m].status = "SETTLED" /\ hedges[m].outcome = trades[m].outcome
             /\ hedges[m].combined = hedges[m].locked
             /\ hedges[m].combined = trades[m].pnl + hedges[m].pnl
       /\ arms[m].status = "SETTLED" =>
             /\ trades[m].status = "SETTLED"
             /\ (trades[m].pnl = -trades[m].stake) # (arms[m].pnl = -arms[m].cost)

\* What GetTimeframeStats calls cash never falls below zero, however positions
\* of markets that are still unsettled overlap.
CashNeverOverdrawn == Cash >= 0

HalfSettled == {m \in Markets : /\ trades[m].status = "SETTLED"
                                /\ "OPEN" \in {arms[m].status, hedges[m].status}
                                /\ pass.trade # m}

\* The rows of a market are settled by three statements and never looked at
\* again once the first one held: each failed statement or crash leaves the
\* arms of at most one market open for good, and nothing else does.
HalfSettledNeedsAFault == Cardinality(HalfSettled) <= faults

\* A position whose end has its price is settled in this process once statements
\* hold again: older positions that never get a price do not hold it up.
AnchoredTradesSettle ==
    \A m \in Markets :
       (trades[m].status = "OPEN" /\ anchors[m] # 0)
          ~> (trades[m].status = "SETTLED" \/ anchors[m] = 0)

\* The comment of SettleReady: it "closes OPEN original positions, the
\* simultaneous inverse A/B arm, and any attached later hedge".
ArmsCloseWithTheOriginal == HalfSettled = {}
=============================================================================
