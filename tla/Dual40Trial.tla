----------------------------- MODULE Dual40Trial -----------------------------
(***************************************************************************)
(* The life of one Dual40 box (internal/dual40/paper.go): two BUY orders   *)
(* of Shares at the same Price rest on the two sides of a market that pays *)
(* Dollar for the winning one.  Both full is a locked profit; one leg only *)
(* is an exposure that is hedged near the end of the market or settled at  *)
(* its outcome.                                                            *)
(*                                                                         *)
(* The passes over a box (advanceTrials, rollMarket, killAll and the       *)
(* restart of cmd/pm-edge/dual40_shadow.go) are the actions; what they do  *)
(* to the orders on the exchange is module Dual40Runtime.                  *)
(***************************************************************************)
EXTENDS Integers

CONSTANTS Dollar, Price, Shares,
          OrderTTL, HedgeMaxWait, StopBeforeEnd, HedgeDeadline,  \* in ticks
          MarketEnd,
          MaxTime,      \* bound on the clock
          Queues,       \* sizes that may rest at Price when the box is posted
          Prints,       \* [at, below, age]: SELL volume at and below Price of
                        \* one token since the last pass, and its age
          HedgeCosts    \* what the asks may ask for the shares of a hedge

ASSUME TrialAssumption ==
    /\ Dollar \in Nat /\ Price \in 1..(Dollar - 1) /\ Shares \in Nat \ {0}
    /\ OrderTTL \in Nat /\ HedgeMaxWait \in Nat /\ StopBeforeEnd \in Nat
    /\ HedgeDeadline \in Nat /\ MarketEnd \in Nat /\ MaxTime \in Nat
    /\ Queues \subseteq Nat
    /\ \A p \in Prints : p.at \in Nat /\ p.below \in Nat /\ p.age \in Int
    /\ HedgeCosts \subseteq Nat \ {0}

VARIABLES trial,     \* the Trial
          config,    \* HedgeMode and FillModel
          gapped,    \* whether the stream counted a gap since the box was posted
          pass,      \* the observer's pass over the box, see Passes
          now

vars == <<trial, config, gapped, pass, now>>

Sides == {"UP", "DOWN"}
Other(side) == IF side = "UP" THEN "DOWN" ELSE "UP"
Lesser(a, b) == IF a <= b THEN a ELSE b
Greater(a, b) == IF a >= b THEN a ELSE b

OpenStates == {"RESTING", "ONE_LEG"}
Terminal == {"SKIPPED", "COMPLETED", "HEDGED", "EXPIRED_NO_FILL", "PARTIAL_PAIR", "SETTLED",
             "DATA_GAP_INVALID"}

\* The pass of this tick is still to come; it read the gap count and saw the
\* box's own ("clear") or another one ("gap"); it is over.
Passes == {"due", "clear", "gap", "done"}
Between == pass \in {"due", "done"}

Reasons == {"", "TRADE_STREAM_DATA_GAP", "PROCESS_RESTART_DATA_GAP", "KILL_SWITCH",
            "MARKET_CHANGED_BEFORE_RESOLUTION"}
NoTime == -1 - 2 * MaxTime   \* an empty timestamp: before every clock value

IsOpen(t) == t.state \in OpenStates
Filled(t) == t.filled["UP"] > 0 \/ t.filled["DOWN"] > 0
OneLegged(t) == t.filled["UP"] # t.filled["DOWN"]
Matched(t) == Lesser(t.filled["UP"], t.filled["DOWN"])

\* The side that is short of shares, and by how many.
ShortSide(t) == IF t.filled["UP"] > t.filled["DOWN"] THEN "DOWN" ELSE "UP"
Unmatched(t) == Greater(t.filled["UP"], t.filled["DOWN"]) - Matched(t)

\* UpMakerCost + DownMakerCost: every share of a leg costs Price.
MakerCost(t) == Price * (t.filled["UP"] + t.filled["DOWN"])

\* What the box receives when `winner' pays, hedge included.
Payout(t, winner) ==
    Dollar * (t.filled[winner] + IF t.hedgeSide = winner THEN t.hedgeShares ELSE 0)

NoTrial == [state |-> "NONE", reason |-> "", createdAt |-> 0, firstFillAt |-> NoTime,
            filled |-> [s \in Sides |-> 0], queue |-> [s \in Sides |-> 0],
            hedgeSide |-> "", hedgeShares |-> 0, hedgeCost |-> 0, locked |-> 0, paper |-> 0]

Init == /\ trial = NoTrial
        /\ config \in [hedgeMode : {"deadline", "adaptive"},
                       fillModel : {"realistic", "legacy"}]
        /\ gapped = FALSE
        /\ pass = "done"
        /\ now = 0

-----------------------------------------------------------------------------
\* NewSkippedTrial: an opening window that does not qualify.
Skip == /\ trial.state = "NONE"
        /\ trial' = [trial EXCEPT !.state = "SKIPPED", !.createdAt = now]
        /\ UNCHANGED <<config, gapped, pass, now>>

\* NewRestingTrial: both legs behind what already rests at their price.  The
\* windows are looked at after the passes, so the first one is the next tick's.
Post(queue) ==
    /\ trial.state = "NONE"
    /\ trial' = [trial EXCEPT !.state = "RESTING", !.createdAt = now, !.queue = queue]
    /\ gapped' = FALSE
    /\ pass' = "done"
    /\ UNCHANGED <<config, now>>

-----------------------------------------------------------------------------
(***************************************************************************)
(* makerFillFromTrades.  The realistic model lets every SELL at or below   *)
(* the price consume the queue and then fill what it has left; the legacy  *)
(* one takes a single SELL below the price for a fill of the whole order.  *)
(***************************************************************************)
Sweeps(p) == config.fillModel = "legacy" /\ p.below > 0
Volume(p) == IF config.fillModel = "legacy" THEN p.at ELSE p.at + p.below

Bought(t, s, p) ==
    LET remaining == Shares - t.filled[s]
    IN  IF Sweeps(p) THEN remaining
                     ELSE Lesser(remaining, Greater(0, Volume(p) - t.queue[s]))

QueueLeft(t, s, p) ==
    IF t.filled[s] = Shares THEN t.queue[s]
    ELSE IF Sweeps(p) THEN 0
    ELSE Greater(0, t.queue[s] - Volume(p))

EventOrNow(time) == IF time > now + 1 THEN now ELSE time

\* FirstFillAt: the first execution of the sides that filled.
FirstFill(t, prints) ==
    LET sides == {s \in Sides : Bought(t, s, prints[s]) > 0}
        at(s) == EventOrNow(now - prints[s].age)
    IN  IF t.firstFillAt # NoTime \/ sides = {} THEN t.firstFillAt
        ELSE IF sides = Sides THEN Lesser(at("UP"), at("DOWN"))
        ELSE at(CHOOSE s \in sides : TRUE)

\* Mutated form: a box whose legs are even again still says it has one leg.
AfterTradesOnceOneLegged(t, prints) ==
    LET filled == [s \in Sides |-> t.filled[s] + Bought(t, s, prints[s])]
    IN  [t EXCEPT
           !.filled = filled,
           !.queue = [s \in Sides |-> QueueLeft(t, s, prints[s])],
           !.firstFillAt = FirstFill(t, prints),
           !.state = IF filled["UP"] # filled["DOWN"] THEN "ONE_LEG" ELSE @]

\* The fills of Advance, and the state they leave an open box in.
AfterTrades(t, prints) ==
    LET filled == [s \in Sides |-> t.filled[s] + Bought(t, s, prints[s])]
    IN  [t EXCEPT
           !.filled = filled,
           !.queue = [s \in Sides |-> QueueLeft(t, s, prints[s])],
           !.firstFillAt = FirstFill(t, prints),
           !.state = IF filled["UP"] # filled["DOWN"] THEN "ONE_LEG" ELSE "RESTING"]

\* The verdict of n pairs bought at Price a share.
PairVerdict(t, state, n) == [t EXCEPT !.state = state,
                                      !.locked = n * (Dollar - 2 * Price),
                                      !.paper = n * (Dollar - 2 * Price)]

(***************************************************************************)
(* A pass takes the stream's lock three times: for the gap count, for the  *)
(* health and for the trades.  Look is the first of them; a gap may be     *)
(* counted before the pass goes on.                                        *)
(***************************************************************************)

\* Mutated form: the gap count is not looked at.
LookPastGap == /\ IsOpen(trial) /\ pass = "due"
               /\ pass' = "clear"
               /\ UNCHANGED <<trial, config, gapped, now>>

Look == /\ IsOpen(trial) /\ pass = "due"
        /\ pass' = IF gapped THEN "gap" ELSE "clear"
        /\ UNCHANGED <<trial, config, gapped, now>>

\* The pass that saw no gap reads the trades of a healthy stream.  When the
\* stream is unhealthy for now, or the pass saw a gap and the box bought, only
\* the hedge is left to it.
StreamUsable == IsOpen(trial) /\ pass = "clear"
StreamBlind == /\ IsOpen(trial)
               /\ \/ pass = "clear"
                  \/ pass = "gap" /\ Filled(trial)

BothFull(t) == \A s \in Sides : t.filled[s] = Shares
TTLOver(t) == now - t.createdAt >= OrderTTL
EndGuard == MarketEnd - now <= StopBeforeEnd

Complete(prints) ==
    LET t == AfterTrades(trial, prints)
    IN  /\ StreamUsable
        /\ BothFull(t)
        /\ trial' = PairVerdict(t, "COMPLETED", Shares)

\* The order's lifetime ends a box that holds equal shares of both sides.
ExpirePair(prints) ==
    LET t == AfterTrades(trial, prints)
    IN  /\ StreamUsable
        /\ ~BothFull(t) /\ ~OneLegged(t) /\ Filled(t)
        /\ TTLOver(t)
        /\ trial' = PairVerdict(t, "PARTIAL_PAIR", Matched(t))

ExpireNoFill(prints) ==
    LET t == AfterTrades(trial, prints)
    IN  /\ StreamUsable
        /\ ~Filled(t)
        /\ TTLOver(t) \/ EndGuard
        /\ trial' = [t EXCEPT !.state = "EXPIRED_NO_FILL"]

\* HedgeNeeded.  `urged' stands for the price trigger and the adverse trend of
\* the adaptive mode, which depend on the books and the recent prices.
HedgeNeeded(t, urged) ==
    /\ OneLegged(t)
    /\ \/ /\ config.hedgeMode = "deadline"
          /\ MarketEnd - now <= HedgeDeadline
       \/ /\ config.hedgeMode = "adaptive"
          /\ \/ urged
             \/ t.firstFillAt # NoTime /\ now - t.firstFillAt >= HedgeMaxWait
             \/ EndGuard

\* ApplyHedge: the missing shares are bought for `cost'.
Hedged(t, cost) ==
    LET both == [s \in Sides |-> t.filled[s]
                                 + IF s = ShortSide(t) THEN Unmatched(t) ELSE 0]
        profit == Dollar * Lesser(both["UP"], both["DOWN"]) - MakerCost(t) - cost
    IN  [t EXCEPT !.state = "HEDGED",
                  !.hedgeSide = ShortSide(t),
                  !.hedgeShares = Unmatched(t),
                  !.hedgeCost = cost,
                  !.locked = profit,
                  !.paper = profit]

\* Mutated form: what is missing is computed before the trades of the pass.
HedgeAfterBeforeTrades(t, urged, cost) ==
    /\ HedgeNeeded(trial, urged)
    /\ trial' = [Hedged(t, cost) EXCEPT !.hedgeSide = ShortSide(trial),
                                        !.hedgeShares = Unmatched(trial)]

\* The end of a pass over a box that stays open, when a quote is to be had.
HedgeAfter(t, urged, cost) ==
    /\ HedgeNeeded(t, urged)
    /\ trial' = Hedged(t, cost)

StaysOpen(t) == /\ ~BothFull(t)
                /\ ~OneLegged(t) => ~TTLOver(t)
                /\ ~Filled(t) => ~EndGuard

HedgeReading(prints, urged, cost) ==
    LET t == AfterTrades(trial, prints)
    IN  StreamUsable /\ StaysOpen(t) /\ HedgeAfter(t, urged, cost)

RestReading(prints) ==
    LET t == AfterTrades(trial, prints)
    IN  StreamUsable /\ StaysOpen(t) /\ trial' = t

\* The hedge does not depend on the stream.
HedgeBlind(urged, cost) == StreamBlind /\ HedgeAfter(trial, urged, cost)

\* No hedge is needed, or no quote is to be had.
RestBlind == StreamBlind /\ trial' = trial

\* InvalidateDataGap.
Voided(reason) == [trial EXCEPT !.state = "DATA_GAP_INVALID", !.reason = reason,
                                !.paper = 0, !.locked = 0]

\* Mutated form: a gap voids every open box.
VoidOnGapAlways == /\ IsOpen(trial) /\ pass = "gap"
                   /\ trial' = Voided("TRADE_STREAM_DATA_GAP")

\* Only a box that bought nothing is void.
VoidOnGap == /\ IsOpen(trial) /\ pass = "gap" /\ ~Filled(trial)
             /\ trial' = Voided("TRADE_STREAM_DATA_GAP")

\* The rest of the pass.
Pass == /\ \/ \E prints \in [Sides -> Prints] : \/ Complete(prints)
                                                \/ ExpirePair(prints)
                                                \/ ExpireNoFill(prints)
                                                \/ RestReading(prints)
           \/ \E prints \in [Sides -> Prints], urged \in BOOLEAN, cost \in HedgeCosts :
                 HedgeReading(prints, urged, cost)
           \/ \E urged \in BOOLEAN, cost \in HedgeCosts : HedgeBlind(urged, cost)
           \/ RestBlind
           \/ VoidOnGap
        /\ pass' = "done"
        /\ UNCHANGED <<config, gapped, now>>

-----------------------------------------------------------------------------
\* SettleAtOutcome, when the next market is on: the box is worth its outcome.
RollSettling(winner) ==
    LET profit == Payout(trial, winner) - MakerCost(trial) - trial.hedgeCost
    IN  /\ IsOpen(trial) /\ Filled(trial)
        /\ now >= MarketEnd /\ Between
        /\ trial' = [trial EXCEPT !.state = "SETTLED", !.paper = profit, !.locked = profit]
        /\ UNCHANGED <<config, gapped, pass, now>>

\* Mutated form: a box that bought nothing is left to its lifetime.
RollVoidingWhenFilled ==
    /\ IsOpen(trial) /\ Filled(trial)
    /\ now >= MarketEnd /\ Between
    /\ trial' = Voided("MARKET_CHANGED_BEFORE_RESOLUTION")
    /\ UNCHANGED <<config, gapped, pass, now>>

\* CloseForMarketChange: it bought nothing, or a boundary price is not known.
RollVoiding == /\ IsOpen(trial)
               /\ now >= MarketEnd /\ Between
               /\ trial' = Voided("MARKET_CHANGED_BEFORE_RESOLUTION")
               /\ UNCHANGED <<config, gapped, pass, now>>

\* killAll, between two passes, and the restart of the process, at any time.
Abort(reason) == /\ IsOpen(trial)
                 /\ reason = "KILL_SWITCH" => Between
                 /\ trial' = Voided(reason)
                 /\ pass' = "done"
                 /\ UNCHANGED <<config, gapped, now>>

Gap == /\ IsOpen(trial) /\ ~gapped
       /\ gapped' = TRUE
       /\ UNCHANGED <<trial, config, pass, now>>

\* The next tick of the observer, bounded by MaxTime; its pass may not be made
\* (a price, the market or a book is missing).
Tick == /\ now < MaxTime
        /\ Between
        /\ now' = now + 1
        /\ pass' = "due"
        /\ UNCHANGED <<trial, config, gapped>>

Next == \/ Skip
        \/ \E queue \in [Sides -> Queues] : Post(queue)
        \/ Look
        \/ Pass
        \/ \E winner \in Sides : RollSettling(winner)
        \/ RollVoiding
        \/ \E reason \in {"KILL_SWITCH", "PROCESS_RESTART_DATA_GAP"} : Abort(reason)
        \/ Gap
        \/ Tick

Spec == Init /\ [][Next]_vars

\* The clock does not stop, and a pass ends: its requests time out.  When the
\* next market is on the first tick with all its inputs rolls the box over, one
\* way or the other; the fairness of that tick assumes that an outage of the
\* inputs ends, which is module Dual40Runtime's subject.
FairSpec == /\ Spec
            /\ WF_vars(Tick)
            /\ WF_vars(Pass)
            /\ WF_vars(RollVoiding \/ \E winner \in Sides : RollSettling(winner))

-----------------------------------------------------------------------------
Trials == [state : {"NONE"} \cup OpenStates \cup Terminal,
           reason : Reasons,
           createdAt : Nat,
           firstFillAt : Int,
           filled : [Sides -> 0..Shares],
           queue : [Sides -> Nat],
           hedgeSide : {""} \cup Sides,
           hedgeShares : 0..Shares,
           hedgeCost : Nat,
           locked : Int,
           paper : Int]

TypeOK == /\ trial \in Trials
          /\ config \in [hedgeMode : {"deadline", "adaptive"},
                         fillModel : {"realistic", "legacy"}]
          /\ gapped \in BOOLEAN
          /\ pass \in Passes
          /\ now \in Nat

\* The accounts of a box: it is hedged only by its verdict, an open one holds
\* equal shares exactly when it says it rests, and profit is booked at the end.
Accounted(t) ==
    /\ t.state # "HEDGED" => t.hedgeSide = "" /\ t.hedgeShares = 0 /\ t.hedgeCost = 0
    /\ t.state = "ONE_LEG" <=> IsOpen(t) /\ OneLegged(t)
    /\ t.state \in {"NONE", "SKIPPED", "EXPIRED_NO_FILL"} => ~Filled(t)
    /\ t.state \in {"NONE", "SKIPPED", "EXPIRED_NO_FILL"} \cup OpenStates =>
          t.locked = 0 /\ t.paper = 0

AccountsBalance == Accounted(trial)

\* COMPLETED, PARTIAL_PAIR and HEDGED claim a locked profit: it is what the box
\* nets whichever side wins.
LockedWhoeverWins ==
    trial.state \in {"COMPLETED", "PARTIAL_PAIR", "HEDGED"} =>
        \A winner \in Sides :
            Payout(trial, winner) - MakerCost(trial) - trial.hedgeCost = trial.paper

\* A box that bought shares is never voided by a gap of the stream: the
\* exposure of a single leg is hedged or settled, not hidden.
GapsVoidOnlyEmptyBoxes ==
    trial.reason = "TRADE_STREAM_DATA_GAP" => ~Filled(trial)

\* Once the stream counted a gap, fills are credited only by the pass that had
\* already read the gap count, if there is one: no later pass reads a trade for
\* the box.  And a verdict is final.
NoFillAfterGap ==
    [][/\ IsOpen(trial) /\ gapped /\ pass # "clear" =>
             trial'.filled = trial.filled /\ pass' # "clear"
       /\ trial.state \in Terminal => trial' = trial]_vars

\* Every box reaches a verdict, whatever happens to the stream.
EventuallyClosed == IsOpen(trial) ~> trial.state \in Terminal
=============================================================================
