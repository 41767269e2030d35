------------------------- MODULE Dual40TrialProofs -------------------------
(***************************************************************************)
(* The invariants of a Dual40 box, for every price, size, queue, batch of  *)
(* trades, hedge cost and duration.                                        *)
(***************************************************************************)
EXTENDS Dual40Trial, TLAPS

\* What a verdict that locks a profit claims, of any box.
Locked(t) ==
    t.state \in {"COMPLETED", "PARTIAL_PAIR", "HEDGED"} =>
        \A winner \in Sides : Payout(t, winner) - MakerCost(t) - t.hedgeCost = t.paper

\* The inductive invariant of a box: its types, its accounts, what its verdict
\* claims, and that only a verdict gives a reason.
Sound(t) == /\ t \in Trials
            /\ Accounted(t)
            /\ Locked(t)
            /\ t.reason = "TRADE_STREAM_DATA_GAP" => ~Filled(t)
            /\ t.state \in {"NONE"} \cup OpenStates => t.reason = ""

\* A box that is still open, said field by field.
OpenBox(t) == /\ t \in Trials
              /\ t.state \in OpenStates
              /\ t.state = "ONE_LEG" <=> OneLegged(t)
              /\ t.hedgeSide = "" /\ t.hedgeShares = 0 /\ t.hedgeCost = 0
              /\ t.locked = 0 /\ t.paper = 0
              /\ t.reason = ""

IInv == /\ Sound(trial)
        /\ config \in [hedgeMode : {"deadline", "adaptive"},
                       fillModel : {"realistic", "legacy"}]
        /\ gapped \in BOOLEAN
        /\ pass \in Passes
        /\ now \in Nat

-----------------------------------------------------------------------------
\* Constants and arithmetic.

LEMMA Constants ==
  /\ Dollar \in Nat /\ Price \in Nat /\ Shares \in Nat /\ Shares > 0
  /\ MaxTime \in Nat /\ NoTime \in Int
  BY TrialAssumption DEF TrialAssumption, NoTime

\* n pairs bought at p a share and paid d.
LEMMA PairNets ==
  ASSUME NEW d \in Int, NEW p \in Int, NEW n \in Int
  PROVE  d * (n + 0) - p * (n + n) - 0 = n * (d - 2 * p)
<1>1. n * (d - 2 * p) = n * d - n * (2 * p) /\ n * (2 * p) = 2 * (p * n)
  OBVIOUS
<1>2. p * (n + n) = 2 * (p * n) /\ d * (n + 0) = n * d
  OBVIOUS
<1>3. d * n \in Int /\ p * n \in Int /\ n * d \in Int
  OBVIOUS
<1>4. QED
  BY <1>1, <1>2, <1>3

LEMMA Verdict ==
  ASSUME NEW n \in Int
  PROVE  n * (Dollar - 2 * Price) \in Int
  BY Constants

\* The types of a box's fields, with the bounds that the arithmetic uses.
LEMMA FieldTypes ==
  ASSUME NEW t \in Trials
  PROVE  /\ t.filled \in [Sides -> 0..Shares]
         /\ t.filled["UP"] \in Nat /\ t.filled["UP"] <= Shares
         /\ t.filled["DOWN"] \in Nat /\ t.filled["DOWN"] <= Shares
         /\ t.queue \in [Sides -> Nat]
         /\ t.queue["UP"] \in Nat /\ t.queue["DOWN"] \in Nat
         /\ t.createdAt \in Nat /\ t.firstFillAt \in Int
         /\ t.hedgeShares \in 0..Shares /\ t.hedgeCost \in Nat
         /\ t.locked \in Int /\ t.paper \in Int
<1>1. t.filled \in [Sides -> 0..Shares] /\ t.queue \in [Sides -> Nat]
  BY DEF Trials
<1>2. "UP" \in Sides /\ "DOWN" \in Sides
  BY DEF Sides
<1>3. \A s \in Sides : t.filled[s] \in 0..Shares /\ t.queue[s] \in Nat
  BY <1>1
<1>4. /\ t.createdAt \in Nat /\ t.firstFillAt \in Int
      /\ t.hedgeShares \in 0..Shares /\ t.hedgeCost \in Nat
      /\ t.locked \in Int /\ t.paper \in Int
  BY DEF Trials
<1>5. QED
  BY <1>1, <1>2, <1>3, <1>4, Constants

\* An open box is sound, and the other way round.
LEMMA OpenIsSound ==
  ASSUME NEW t, OpenBox(t)
  PROVE  Sound(t)
<1>1. Accounted(t)
  BY DEF OpenBox, Accounted, OpenStates, IsOpen
<1>2. Locked(t)
  BY DEF OpenBox, Locked, OpenStates
<1>3. QED
  BY <1>1, <1>2 DEF OpenBox, Sound

LEMMA SoundIsOpen ==
  ASSUME NEW t, Sound(t), IsOpen(t)
  PROVE  OpenBox(t)
  BY DEF Sound, Accounted, OpenBox, IsOpen, OpenStates

-----------------------------------------------------------------------------
\* The trades of a pass.

\* A leg never buys more than it wants, and its queue stays a number.
LEMMA FillIsPart ==
  ASSUME NEW t \in Trials, NEW s \in Sides, NEW p \in Prints
  PROVE  /\ Bought(t, s, p) \in Nat
         /\ t.filled[s] + Bought(t, s, p) \in 0..Shares
         /\ QueueLeft(t, s, p) \in Nat
<1>1. t.filled[s] \in 0..Shares /\ t.queue[s] \in Nat
  BY FieldTypes
<1>2. p.at \in Nat /\ p.below \in Nat
  BY TrialAssumption DEF TrialAssumption
<1>3. Volume(p) \in Nat
  BY <1>2 DEF Volume
<1>4. QED
  BY <1>1, <1>3, Constants DEF Bought, QueueLeft, Lesser, Greater

LEMMA FirstFillIsATime ==
  ASSUME NEW t \in Trials, NEW prints \in [Sides -> Prints], now \in Nat
  PROVE  FirstFill(t, prints) \in Int
<1> DEFINE at(s) == EventOrNow(now - prints[s].age)
           sides == {s \in Sides : Bought(t, s, prints[s]) > 0}
<1>1. \A s \in Sides : at(s) \in Int
  BY TrialAssumption DEF TrialAssumption, EventOrNow
<1>2. sides # {} => (CHOOSE s \in sides : TRUE) \in Sides
  OBVIOUS
<1>3. t.firstFillAt \in Int
  BY FieldTypes
<1>4. at("UP") \in Int /\ at("DOWN") \in Int
  BY <1>1 DEF Sides
<1>5. FirstFill(t, prints) = IF t.firstFillAt # NoTime \/ sides = {} THEN t.firstFillAt
                             ELSE IF sides = Sides THEN Lesser(at("UP"), at("DOWN"))
                             ELSE at(CHOOSE s \in sides : TRUE)
  BY DEF FirstFill
<1> HIDE DEF at, sides
<1>6. QED
  BY <1>1, <1>2, <1>3, <1>4, <1>5 DEF Lesser

LEMMA TradesKeepOpen ==
  ASSUME OpenBox(trial), now \in Nat, NEW prints \in [Sides -> Prints]
  PROVE  OpenBox(AfterTrades(trial, prints))
<1> DEFINE filled == [s \in Sides |-> trial.filled[s] + Bought(trial, s, prints[s])]
           queue == [s \in Sides |-> QueueLeft(trial, s, prints[s])]
           state == IF filled["UP"] # filled["DOWN"] THEN "ONE_LEG" ELSE "RESTING"
           t == AfterTrades(trial, prints)
<1>1. trial \in Trials
  BY DEF OpenBox
<1>2. filled \in [Sides -> 0..Shares] /\ queue \in [Sides -> Nat]
  BY <1>1, FillIsPart
<1>3. FirstFill(trial, prints) \in Int
  BY <1>1, FirstFillIsATime
<1>4. t = [trial EXCEPT !.filled = filled, !.queue = queue,
                        !.firstFillAt = FirstFill(trial, prints), !.state = state]
  BY DEF AfterTrades
<1>5. state \in OpenStates /\ (state = "ONE_LEG" <=> filled["UP"] # filled["DOWN"])
  BY DEF OpenStates
<1> HIDE DEF filled, queue, state, t
<1>6. t \in Trials
  BY <1>1, <1>2, <1>3, <1>4, <1>5 DEF Trials, OpenStates
<1>7. t.state = state /\ t.filled = filled
  BY <1>1, <1>4 DEF Trials
<1>8. /\ t.hedgeSide = trial.hedgeSide /\ t.hedgeShares = trial.hedgeShares
      /\ t.hedgeCost = trial.hedgeCost
      /\ t.locked = trial.locked /\ t.paper = trial.paper /\ t.reason = trial.reason
  BY <1>1, <1>4 DEF Trials
<1>9. QED
  BY <1>5, <1>6, <1>7, <1>8 DEF OpenBox, OneLegged, t

-----------------------------------------------------------------------------
\* The verdicts.

\* The accounts of a box whose verdict is a profit.
LEMMA ProfitIsAccounted ==
  ASSUME NEW t \in Trials,
         t.state \in {"COMPLETED", "PARTIAL_PAIR", "SETTLED"},
         t.hedgeSide = "", t.hedgeShares = 0, t.hedgeCost = 0
  PROVE  Accounted(t)
  BY DEF Accounted, OpenStates, IsOpen

LEMMA PairIsSound ==
  ASSUME NEW t, OpenBox(t), ~OneLegged(t),
         NEW state \in {"COMPLETED", "PARTIAL_PAIR"}, NEW n, n = t.filled["UP"]
  PROVE  Sound(PairVerdict(t, state, n))
<1> DEFINE profit == n * (Dollar - 2 * Price)
           u == PairVerdict(t, state, n)
<1>1. t \in Trials /\ n \in Nat /\ t.filled["DOWN"] = n
  BY FieldTypes DEF OpenBox, OneLegged
<1>2. profit \in Int
  BY <1>1, Verdict
<1>3. u = [t EXCEPT !.state = state, !.locked = profit, !.paper = profit]
  BY DEF PairVerdict
<1> HIDE DEF profit, u
<1>4. u \in Trials
  BY <1>1, <1>2, <1>3 DEF Trials, Terminal
<1>5. /\ u.state = state /\ u.paper = profit /\ u.filled = t.filled
      /\ u.hedgeSide = "" /\ u.hedgeShares = 0 /\ u.hedgeCost = 0 /\ u.reason = ""
  BY <1>1, <1>3 DEF Trials, OpenBox
<1>6. Accounted(u)
  BY <1>4, <1>5, ProfitIsAccounted
<1>7. \A winner \in Sides : Payout(u, winner) = Dollar * (n + 0)
  BY <1>1, <1>5 DEF Payout, Sides
<1>8. MakerCost(u) = Price * (n + n)
  BY <1>1, <1>5 DEF MakerCost
<1>9. Dollar * (n + 0) - Price * (n + n) - 0 = profit
  BY <1>1, Constants, PairNets DEF profit
<1>10. Locked(u)
  BY <1>5, <1>7, <1>8, <1>9 DEF Locked
<1>11. QED
  BY <1>4, <1>5, <1>6, <1>10 DEF Sound, u, OpenStates

\* After a hedge both sides hold the shares of the longer one.
LEMMA HedgedIsSound ==
  ASSUME NEW t, OpenBox(t), OneLegged(t), NEW cost \in HedgeCosts
  PROVE  Sound(Hedged(t, cost))
<1> DEFINE most == Greater(t.filled["UP"], t.filled["DOWN"])
           both == [s \in Sides |-> t.filled[s]
                                    + IF s = ShortSide(t) THEN Unmatched(t) ELSE 0]
           profit == Dollar * Lesser(both["UP"], both["DOWN"]) - MakerCost(t) - cost
           u == Hedged(t, cost)
<1>1. /\ t \in Trials
      /\ t.filled["UP"] \in Nat /\ t.filled["UP"] <= Shares
      /\ t.filled["DOWN"] \in Nat /\ t.filled["DOWN"] <= Shares
      /\ cost \in Nat
  BY FieldTypes, TrialAssumption DEF OpenBox, TrialAssumption
<1>2. Unmatched(t) \in 0..Shares /\ ShortSide(t) \in Sides /\ most \in Nat
  BY <1>1, Constants DEF Unmatched, Matched, ShortSide, Greater, Lesser, Sides
<1>3. \A s \in Sides : t.filled[s] + (IF s = ShortSide(t) THEN Unmatched(t) ELSE 0) = most
  BY <1>1 DEF Unmatched, Matched, ShortSide, Greater, Lesser, Sides
<1>4. both["UP"] = most /\ both["DOWN"] = most
  BY <1>3 DEF Sides
<1>5. MakerCost(t) \in Int
  BY <1>1, Constants DEF MakerCost
<1>6. profit = Dollar * most - MakerCost(t) - cost
  BY <1>4 DEF Lesser
<1>7. Dollar * most \in Int
  BY <1>2, Constants
<1>8. profit \in Int
  BY <1>1, <1>5, <1>6, <1>7
<1>9. u = [t EXCEPT !.state = "HEDGED", !.hedgeSide = ShortSide(t),
                    !.hedgeShares = Unmatched(t), !.hedgeCost = cost,
                    !.locked = profit, !.paper = profit]
  BY DEF Hedged
<1> HIDE DEF profit, both, most, u
<1>10. u \in Trials
  BY <1>1, <1>2, <1>8, <1>9 DEF Trials, Terminal
<1>11. /\ u.state = "HEDGED" /\ u.paper = profit /\ u.filled = t.filled
       /\ u.hedgeSide = ShortSide(t) /\ u.hedgeShares = Unmatched(t)
       /\ u.hedgeCost = cost /\ u.reason = ""
  BY <1>1, <1>9 DEF Trials, OpenBox
<1>12. Accounted(u)
  BY <1>11 DEF Accounted, OpenStates, IsOpen
<1>13. \A winner \in Sides : Payout(u, winner) = Dollar * most
  <2>1. TAKE winner \in Sides
  <2>2. u.filled[winner] + (IF u.hedgeSide = winner THEN u.hedgeShares ELSE 0) = most
    BY <1>3, <1>11
  <2>3. QED
    BY <2>2 DEF Payout
<1>14. MakerCost(u) = MakerCost(t)
  BY <1>11 DEF MakerCost
<1>15. Locked(u)
  BY <1>6, <1>11, <1>13, <1>14 DEF Locked
<1>16. QED
  BY <1>10, <1>11, <1>12, <1>15 DEF Sound, u, OpenStates

LEMMA UnfilledIsSound ==
  ASSUME NEW t, OpenBox(t), ~Filled(t)
  PROVE  Sound([t EXCEPT !.state = "EXPIRED_NO_FILL"])
<1> DEFINE u == [t EXCEPT !.state = "EXPIRED_NO_FILL"]
<1>1. t \in Trials
  BY DEF OpenBox
<1>2. u \in Trials
  BY <1>1 DEF Trials, Terminal
<1>3. /\ u.state = "EXPIRED_NO_FILL" /\ u.filled = t.filled /\ u.reason = ""
      /\ u.hedgeSide = "" /\ u.hedgeShares = 0 /\ u.hedgeCost = 0
      /\ u.locked = 0 /\ u.paper = 0
  BY <1>1 DEF Trials, OpenBox
<1> HIDE DEF u
<1>4. Accounted(u)
  BY <1>3 DEF Accounted, OpenStates, IsOpen, Filled
<1>5. Locked(u)
  BY <1>3 DEF Locked
<1>6. QED
  BY <1>2, <1>3, <1>4, <1>5 DEF Sound, OpenStates, u

LEMMA VoidIsSound ==
  ASSUME OpenBox(trial), NEW reason \in Reasons,
         reason = "TRADE_STREAM_DATA_GAP" => ~Filled(trial)
  PROVE  Sound(Voided(reason))
<1> DEFINE u == Voided(reason)
<1>1. trial \in Trials
  BY DEF OpenBox
<1>2. u = [trial EXCEPT !.state = "DATA_GAP_INVALID", !.reason = reason,
                        !.paper = 0, !.locked = 0]
  BY DEF Voided
<1> HIDE DEF u
<1>3. "DATA_GAP_INVALID" \in Terminal /\ 0 \in Int
  BY DEF Terminal
<1>4. u \in Trials
  BY <1>1, <1>2, <1>3 DEF Trials
<1>5. /\ u.state = "DATA_GAP_INVALID" /\ u.filled = trial.filled /\ u.reason = reason
      /\ u.hedgeSide = "" /\ u.hedgeShares = 0 /\ u.hedgeCost = 0
  BY <1>1, <1>2 DEF Trials, OpenBox
<1>6. Accounted(u)
  BY <1>5 DEF Accounted, OpenStates, IsOpen
<1>7. Locked(u)
  BY <1>5 DEF Locked
<1>8. QED
  BY <1>4, <1>5, <1>6, <1>7 DEF Sound, OpenStates, Filled, u

LEMMA SettledIsSound ==
  ASSUME OpenBox(trial), NEW winner \in Sides, RollSettling(winner)
  PROVE  Sound(trial')
<1> DEFINE profit == Payout(trial, winner) - MakerCost(trial) - trial.hedgeCost
<1>1. trial \in Trials
  BY DEF OpenBox
<1>2. trial.filled[winner] \in Nat /\ trial.hedgeShares \in Nat /\ trial.hedgeCost \in Nat
  BY <1>1, FieldTypes DEF OpenBox, Sides
<1>3. MakerCost(trial) \in Int
  BY <1>1, FieldTypes, Constants DEF MakerCost
<1>4. Payout(trial, winner) \in Int
  BY <1>2, Constants DEF Payout
<1>5. profit \in Int
  BY <1>2, <1>3, <1>4
<1>6. trial' = [trial EXCEPT !.state = "SETTLED", !.paper = profit, !.locked = profit]
  BY DEF RollSettling
<1> HIDE DEF profit
<1>7. trial' \in Trials
  BY <1>1, <1>5, <1>6 DEF Trials, Terminal
<1>8. /\ trial'.state = "SETTLED" /\ trial'.reason = ""
      /\ trial'.hedgeSide = "" /\ trial'.hedgeShares = 0 /\ trial'.hedgeCost = 0
  BY <1>1, <1>6 DEF Trials, OpenBox
<1>9. Accounted(trial')
  BY <1>7, <1>8, ProfitIsAccounted
<1>10. Locked(trial')
  BY <1>8 DEF Locked
<1>11. QED
  BY <1>7, <1>8, <1>9, <1>10 DEF Sound, OpenStates

-----------------------------------------------------------------------------
\* Posting.

LEMMA InitIsSound == Init => IInv
<1> SUFFICES ASSUME Init
             PROVE  IInv
  OBVIOUS
<1>1. trial = NoTrial
  BY DEF Init
<1>2. NoTrial \in Trials
  BY Constants DEF NoTrial, Trials, Reasons
<1>3. Accounted(NoTrial)
  BY DEF NoTrial, Accounted, OpenStates, IsOpen, Filled, OneLegged, Sides
<1>4. Locked(NoTrial)
  BY DEF NoTrial, Locked
<1>5. NoTrial.reason = ""
  BY DEF NoTrial
<1>6. Sound(NoTrial)
  BY <1>2, <1>3, <1>4, <1>5 DEF Sound
<1>7. QED
  BY <1>1, <1>6 DEF Init, IInv, Passes

\* What a box that was not posted is.
LEMMA UnpostedFacts ==
  ASSUME Sound(trial), trial.state = "NONE"
  PROVE  /\ trial \in Trials
         /\ trial.filled["UP"] = 0 /\ trial.filled["DOWN"] = 0
         /\ trial.hedgeSide = "" /\ trial.hedgeShares = 0 /\ trial.hedgeCost = 0
         /\ trial.locked = 0 /\ trial.paper = 0 /\ trial.reason = ""
<1>1. trial \in Trials /\ trial.reason = ""
  BY DEF Sound
<1>2. /\ trial.locked = 0 /\ trial.paper = 0
      /\ trial.hedgeSide = "" /\ trial.hedgeShares = 0 /\ trial.hedgeCost = 0
  BY DEF Sound, Accounted
<1>3. ~Filled(trial)
  BY DEF Sound, Accounted
<1>4. trial.filled["UP"] \in Nat /\ trial.filled["DOWN"] \in Nat
  BY <1>1, FieldTypes
<1>5. trial.filled["UP"] = 0 /\ trial.filled["DOWN"] = 0
  BY <1>3, <1>4 DEF Filled
<1>6. QED
  BY <1>1, <1>2, <1>5

LEMMA SkipIsSound ==
  ASSUME IInv, Skip
  PROVE  Sound(trial')
<1>1. trial' = [trial EXCEPT !.state = "SKIPPED", !.createdAt = now]
  BY DEF Skip
<1>2. trial \in Trials /\ now \in Nat
  BY DEF IInv, Sound
<1>3. trial' \in Trials
  BY <1>1, <1>2 DEF Trials, Terminal
<1>4. /\ trial'.state = "SKIPPED" /\ trial'.filled = trial.filled
      /\ trial'.reason = trial.reason /\ trial'.hedgeSide = trial.hedgeSide
      /\ trial'.hedgeShares = trial.hedgeShares /\ trial'.hedgeCost = trial.hedgeCost
      /\ trial'.locked = trial.locked /\ trial'.paper = trial.paper
  BY <1>1, <1>2 DEF Trials
<1>5. /\ trial.filled["UP"] = 0 /\ trial.filled["DOWN"] = 0
      /\ trial.hedgeSide = "" /\ trial.hedgeShares = 0 /\ trial.hedgeCost = 0
      /\ trial.locked = 0 /\ trial.paper = 0 /\ trial.reason = ""
  BY UnpostedFacts DEF IInv, Skip
<1>6. Accounted(trial')
  <2>1. ~(trial'.filled["UP"] > 0 \/ trial'.filled["DOWN"] > 0)
    <3>1. trial'.filled["UP"] = 0 /\ trial'.filled["DOWN"] = 0
      BY <1>4, <1>5
    <3>2. QED
      BY <3>1
  <2>2. ~(trial'.state \in OpenStates)
    BY <1>4 DEF OpenStates
  <2>3. QED
    BY <1>4, <1>5, <2>1, <2>2 DEF Accounted, Filled, IsOpen, OneLegged
<1>7. Locked(trial')
  BY <1>4 DEF Locked
<1>8. QED
  BY <1>3, <1>4, <1>5, <1>6, <1>7 DEF Sound, OpenStates

LEMMA PostIsSound ==
  ASSUME IInv, NEW queue \in [Sides -> Queues], Post(queue)
  PROVE  OpenBox(trial')
<1>1. trial' = [trial EXCEPT !.state = "RESTING", !.createdAt = now, !.queue = queue]
  BY DEF Post
<1>2. trial \in Trials /\ now \in Nat /\ queue \in [Sides -> Nat]
  BY TrialAssumption DEF IInv, Sound, TrialAssumption
<1>3. trial' \in Trials
  BY <1>1, <1>2 DEF Trials, OpenStates
<1>4. /\ trial'.state = "RESTING" /\ trial'.filled = trial.filled
      /\ trial'.reason = trial.reason /\ trial'.hedgeSide = trial.hedgeSide
      /\ trial'.hedgeShares = trial.hedgeShares /\ trial'.hedgeCost = trial.hedgeCost
      /\ trial'.locked = trial.locked /\ trial'.paper = trial.paper
  BY <1>1, <1>2 DEF Trials
<1>5. /\ trial.filled["UP"] = 0 /\ trial.filled["DOWN"] = 0
      /\ trial.hedgeSide = "" /\ trial.hedgeShares = 0 /\ trial.hedgeCost = 0
      /\ trial.locked = 0 /\ trial.paper = 0 /\ trial.reason = ""
  BY UnpostedFacts DEF IInv, Post
<1>6. QED
  BY <1>3, <1>4, <1>5 DEF OpenBox, OpenStates, OneLegged

-----------------------------------------------------------------------------
\* A pass, action by action.

LEMMA ReadingIsSound ==
  ASSUME IInv, NEW prints \in [Sides -> Prints],
         \/ Complete(prints) \/ ExpirePair(prints)
         \/ ExpireNoFill(prints) \/ RestReading(prints)
  PROVE  Sound(trial')
<1> DEFINE t == AfterTrades(trial, prints)
<1>1. IsOpen(trial)
  BY DEF Complete, ExpirePair, ExpireNoFill, RestReading, StreamUsable
<1>2. OpenBox(t)
  BY <1>1, SoundIsOpen, TradesKeepOpen DEF IInv
<1>3. /\ t.filled["UP"] \in Nat /\ t.filled["DOWN"] \in Nat
  BY <1>2, FieldTypes DEF OpenBox
<1>4. CASE Complete(prints)
  <2>1. trial' = PairVerdict(t, "COMPLETED", Shares) /\ BothFull(t)
    BY <1>4 DEF Complete
  <2>2. t.filled["UP"] = Shares /\ ~OneLegged(t)
    BY <2>1 DEF BothFull, OneLegged, Sides
  <2>3. QED
    BY <1>2, <2>1, <2>2, PairIsSound
<1>5. CASE ExpirePair(prints)
  <2>1. trial' = PairVerdict(t, "PARTIAL_PAIR", Matched(t)) /\ ~OneLegged(t)
    BY <1>5 DEF ExpirePair
  <2>2. Matched(t) = t.filled["UP"]
    BY <1>3, <2>1 DEF Matched, Lesser, OneLegged
  <2>3. QED
    BY <1>2, <2>1, <2>2, PairIsSound
<1>6. CASE ExpireNoFill(prints)
  BY <1>2, <1>6, UnfilledIsSound DEF ExpireNoFill
<1>7. CASE RestReading(prints)
  BY <1>2, <1>7, OpenIsSound DEF RestReading
<1>8. QED
  BY <1>4, <1>5, <1>6, <1>7

LEMMA HedgeIsSound ==
  ASSUME IInv, NEW urged \in BOOLEAN, NEW cost \in HedgeCosts,
         \/ HedgeBlind(urged, cost)
         \/ \E prints \in [Sides -> Prints] : HedgeReading(prints, urged, cost)
  PROVE  Sound(trial')
<1>1. IsOpen(trial)
  BY DEF HedgeBlind, HedgeReading, StreamUsable, StreamBlind
<1>2. OpenBox(trial)
  BY <1>1, SoundIsOpen DEF IInv
<1>3. ASSUME NEW t, OpenBox(t), HedgeAfter(t, urged, cost)
      PROVE  Sound(trial')
  BY <1>3, HedgedIsSound DEF HedgeAfter, HedgeNeeded
<1>4. CASE HedgeBlind(urged, cost)
  BY <1>2, <1>3, <1>4 DEF HedgeBlind
<1>5. CASE \E prints \in [Sides -> Prints] : HedgeReading(prints, urged, cost)
  <2>1. PICK prints \in [Sides -> Prints] : HedgeReading(prints, urged, cost)
    BY <1>5
  <2>2. OpenBox(AfterTrades(trial, prints))
    BY <1>2, TradesKeepOpen DEF IInv
  <2>3. HedgeAfter(AfterTrades(trial, prints), urged, cost)
    BY <2>1 DEF HedgeReading
  <2>4. QED
    BY <1>3, <2>2, <2>3
<1>6. QED
  BY <1>4, <1>5

LEMMA StepIsSound == IInv /\ [Next]_vars => IInv'
<1> SUFFICES ASSUME IInv, [Next]_vars
             PROVE  IInv'
  OBVIOUS
<1>1. CASE Skip
  BY <1>1, SkipIsSound DEF IInv, Skip
<1>2. ASSUME NEW queue \in [Sides -> Queues], Post(queue)
      PROVE  IInv'
  <2>1. Sound(trial')
    BY <1>2, PostIsSound, OpenIsSound
  <2>2. QED
    BY <1>2, <2>1 DEF IInv, Post, Passes
<1>3. CASE Pass
  <2>1. pass' = "done" /\ UNCHANGED <<config, gapped, now>>
    BY <1>3 DEF Pass
  <2>2. CASE VoidOnGap
    <3>1. OpenBox(trial) /\ "TRADE_STREAM_DATA_GAP" \in Reasons
      BY <2>2, SoundIsOpen DEF IInv, VoidOnGap, Reasons
    <3>2. Sound(trial')
      BY <2>2, <3>1, VoidIsSound DEF VoidOnGap
    <3>3. QED
      BY <2>1, <3>2 DEF IInv, Passes
  <2>3. CASE RestBlind
    <3>1. trial' = trial
      BY <2>3 DEF RestBlind
    <3>2. QED
      BY <2>1, <3>1 DEF IInv, Passes
  <2>4. CASE ~VoidOnGap /\ ~RestBlind
    <3>1. Sound(trial')
      BY <1>3, <2>4, ReadingIsSound, HedgeIsSound DEF Pass
    <3>2. QED
      BY <2>1, <3>1 DEF IInv, Passes
  <2>5. QED
    BY <2>2, <2>3, <2>4
<1>4. ASSUME NEW winner \in Sides, RollSettling(winner)
      PROVE  IInv'
  <2>1. Sound(trial')
    BY <1>4, SoundIsOpen, SettledIsSound DEF IInv, RollSettling
  <2>2. QED
    BY <1>4, <2>1 DEF IInv, RollSettling
<1>5. CASE RollVoiding
  <2>1. OpenBox(trial) /\ "MARKET_CHANGED_BEFORE_RESOLUTION" \in Reasons
    BY <1>5, SoundIsOpen DEF IInv, RollVoiding, Reasons
  <2>2. Sound(trial')
    BY <1>5, <2>1, VoidIsSound DEF RollVoiding
  <2>3. QED
    BY <1>5, <2>2 DEF IInv, RollVoiding
<1>6. ASSUME NEW reason \in {"KILL_SWITCH", "PROCESS_RESTART_DATA_GAP"}, Abort(reason)
      PROVE  IInv'
  <2>1. OpenBox(trial) /\ reason \in Reasons
    BY <1>6, SoundIsOpen DEF IInv, Abort, Reasons
  <2>2. Sound(trial')
    BY <1>6, <2>1, VoidIsSound DEF Abort
  <2>3. QED
    BY <1>6, <2>2 DEF IInv, Abort, Passes
<1>7. CASE Gap
  BY <1>7 DEF IInv, Gap
<1>8. CASE Tick
  BY <1>8 DEF IInv, Tick, Passes
<1>9. CASE Look
  BY <1>9 DEF IInv, Look, Passes
<1>10. CASE UNCHANGED vars
  BY <1>10 DEF IInv, vars
<1>11. QED
  BY <1>1, <1>2, <1>3, <1>4, <1>5, <1>6, <1>7, <1>8, <1>9, <1>10 DEF Next

-----------------------------------------------------------------------------
\* Every box stays sound, whatever trades, gaps, hedges and buttons come.
THEOREM BoxStaysSound == Spec => []IInv
<1>1. Init => IInv
  BY InitIsSound
<1>2. IInv /\ [Next]_vars => IInv'
  BY StepIsSound
<1>3. QED
  BY <1>1, <1>2, PTL DEF Spec

\* Every field of a box keeps its type.
THEOREM BoxTypesAreKept == Spec => []TypeOK
<1>1. IInv => TypeOK
  BY DEF IInv, Sound, TypeOK
<1>2. QED
  BY <1>1, BoxStaysSound, PTL

\* The accounts of a box balance after every step.
THEOREM BoxAccountsBalance == Spec => []AccountsBalance
<1>1. IInv => AccountsBalance
  BY DEF IInv, Sound, AccountsBalance
<1>2. QED
  BY <1>1, BoxStaysSound, PTL

\* A locked profit is what the box nets, whichever side wins: pairs, partial
\* pairs and hedges of every size at every price.
THEOREM LockedIsLocked == Spec => []LockedWhoeverWins
<1>1. IInv => LockedWhoeverWins
  BY DEF IInv, Sound, Locked, LockedWhoeverWins
<1>2. QED
  BY <1>1, BoxStaysSound, PTL

\* A gap of the stream never hides the exposure of a box that bought.
THEOREM GapsHideNoExposure == Spec => []GapsVoidOnlyEmptyBoxes
<1>1. IInv => GapsVoidOnlyEmptyBoxes
  BY DEF IInv, Sound, GapsVoidOnlyEmptyBoxes
<1>2. QED
  BY <1>1, BoxStaysSound, PTL
-----------------------------------------------------------------------------
\* What a step may not do.

\* No verdict touches the shares a box holds: it only reads them.
LEMMA VerdictsKeepShares ==
  ASSUME Sound(trial)
  PROVE  /\ \A cost \in HedgeCosts : Hedged(trial, cost).filled = trial.filled
         /\ \A reason \in Reasons : Voided(reason).filled = trial.filled
         /\ \A winner \in Sides : RollSettling(winner) => trial'.filled = trial.filled
<1>1. trial \in Trials
  BY DEF Sound
<1>2. QED
  BY <1>1 DEF Trials, Hedged, Voided, RollSettling

\* Trades are only credited by a pass that read the gap count and saw no gap.
LEMMA GapsStopFills ==
  ASSUME IInv, Next, IsOpen(trial), pass # "clear"
  PROVE  trial'.filled = trial.filled
<1>1. Sound(trial) /\ trial.state # "NONE"
  BY DEF IInv, IsOpen, OpenStates
<1>2. CASE Pass
  <2>1. ~StreamUsable
    BY DEF StreamUsable
  <2>2. \/ VoidOnGap \/ RestBlind
        \/ \E urged \in BOOLEAN, cost \in HedgeCosts : HedgeBlind(urged, cost)
    BY <1>2, <2>1 DEF Pass, Complete, ExpirePair, ExpireNoFill, RestReading, HedgeReading
  <2>3. CASE VoidOnGap
    <3>1. "TRADE_STREAM_DATA_GAP" \in Reasons
      BY DEF Reasons
    <3>2. QED
      BY <1>1, <2>3, <3>1, VerdictsKeepShares DEF VoidOnGap
  <2>4. CASE RestBlind
    BY <2>4 DEF RestBlind
  <2>5. ASSUME NEW urged \in BOOLEAN, NEW cost \in HedgeCosts, HedgeBlind(urged, cost)
        PROVE  trial'.filled = trial.filled
    BY <1>1, <2>5, VerdictsKeepShares DEF HedgeBlind, HedgeAfter
  <2>6. QED
    BY <2>2, <2>3, <2>4, <2>5
<1>3. CASE RollVoiding \/ \E reason \in {"KILL_SWITCH", "PROCESS_RESTART_DATA_GAP"} : Abort(reason)
  <2>1. {"KILL_SWITCH", "PROCESS_RESTART_DATA_GAP", "MARKET_CHANGED_BEFORE_RESOLUTION"}
          \subseteq Reasons
    BY DEF Reasons
  <2>2. QED
    BY <1>1, <1>3, <2>1, VerdictsKeepShares DEF RollVoiding, Abort
<1>4. CASE \E winner \in Sides : RollSettling(winner)
  BY <1>1, <1>4, VerdictsKeepShares
<1>5. QED
  BY <1>1, <1>2, <1>3, <1>4 DEF Next, Skip, Post, Look, Gap, Tick

\* Once a gap is counted no pass that looks at the gap count goes on to the trades.
LEMMA GapsAreSeen ==
  ASSUME Next, IsOpen(trial), gapped, pass # "clear"
  PROVE  pass' # "clear"
<1>1. trial.state # "NONE"
  BY DEF IsOpen, OpenStates
<1>2. CASE Look
  BY <1>2 DEF Look
<1>3. CASE Pass \/ Tick \/ Gap \/ RollVoiding
  BY <1>3 DEF Pass, Tick, Gap, RollVoiding
<1>4. CASE \E winner \in Sides : RollSettling(winner)
  BY <1>4 DEF RollSettling
<1>5. CASE \E reason \in {"KILL_SWITCH", "PROCESS_RESTART_DATA_GAP"} : Abort(reason)
  BY <1>5 DEF Abort
<1>6. QED
  BY <1>1, <1>2, <1>3, <1>4, <1>5 DEF Next, Skip, Post

\* Nothing is done to a box that has its verdict.
LEMMA VerdictsAreKept ==
  ASSUME Next, trial.state \in Terminal
  PROVE  trial' = trial
<1>1. ~IsOpen(trial) /\ trial.state # "NONE" /\ ~StreamUsable /\ ~StreamBlind
  BY DEF Terminal, IsOpen, OpenStates, StreamUsable, StreamBlind
<1>2. ~Pass
  BY <1>1 DEF Pass, Complete, ExpirePair, ExpireNoFill, RestReading, HedgeReading, HedgeBlind,
              RestBlind, VoidOnGap
<1>3. QED
  BY <1>1, <1>2 DEF Next, Skip, Post, Look, RollSettling, RollVoiding, Abort, Gap, Tick

\* Once the stream counted a gap only the pass that had read the gap count before
\* may still credit fills, no later one does, and a verdict is final: for every
\* batch of trades and every interleaving of the gaps with the passes.
THEOREM NoFillIsCreditedAfterGap == Spec => NoFillAfterGap
<1> DEFINE Kept == /\ IsOpen(trial) /\ gapped /\ pass # "clear" =>
                         trial'.filled = trial.filled /\ pass' # "clear"
                   /\ trial.state \in Terminal => trial' = trial
<1>1. IInv /\ [Next]_vars => [Kept]_vars
  BY GapsStopFills, GapsAreSeen, VerdictsAreKept
<1>2. QED
  BY <1>1, BoxStaysSound, PTL DEF Spec, NoFillAfterGap
=============================================================================
