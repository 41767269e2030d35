---------------------------- MODULE EngineProofs ----------------------------
(***************************************************************************)
(* The directional engine, for every number of markets, every budget,      *)
(* quote, price and clock, and any number of failed statements and         *)
(* crashes: the rows of a market agree, and each fault leaves at most one  *)
(* market half settled.  And its real orders against the buttons.          *)
(***************************************************************************)
EXTENDS PaperEngine, DirectionOrders, FiniteSetTheorems, WellFoundedInduction, TLAPS

-----------------------------------------------------------------------------
(***************************************************************************)
(* The rows of a market.                                                   *)
(***************************************************************************)
Trades == [status : Statuses, side : Sides, shares : Nat, stake : Nat,
           outcome : Outcomes, pnl : Int]
Arms == [status : Statuses, shares : Nat, cost : Nat, outcome : Outcomes, pnl : Int]
Hedges == [status : Statuses, shares : Nat, cost : Nat, locked : Int,
           outcome : Outcomes, pnl : Int, combined : Int]

\* What the three rows of a market have to do with each other.
TradeSound(t) == /\ t.status # "NONE" => t.shares > 0
                 /\ t.status = "SETTLED" =>
                       t.outcome \in Sides
                       /\ t.pnl = Payout(t.side, t.outcome, t.shares) - t.stake
ArmSound(t, a) == /\ a.status # "NONE" => t.status # "NONE" /\ a.shares > 0
                  /\ a.status = "SETTLED" =>
                        t.status = "SETTLED"
                        /\ a.pnl = Payout(Opposite(t.side), t.outcome, a.shares) - a.cost
HedgeSound(t, h) == /\ h.status # "NONE" =>
                          /\ t.status # "NONE" /\ h.shares = t.shares
                          /\ h.locked = t.shares - t.stake - h.cost
                    /\ h.status = "SETTLED" =>
                          /\ t.status = "SETTLED" /\ h.outcome = t.outcome
                          /\ h.pnl = Payout(Opposite(t.side), t.outcome, h.shares) - h.cost
                          /\ h.combined = t.pnl + h.pnl
RowsSound == \A m \in Markets : /\ TradeSound(trades[m])
                                /\ ArmSound(trades[m], arms[m])
                                /\ HedgeSound(trades[m], hedges[m])

RowTypes == /\ trades \in [Markets -> Trades]
            /\ arms \in [Markets -> Arms]
            /\ hedges \in [Markets -> Hedges]

\* Where a pass is, and what it may rely on there.
Labels == {"idle", "settle", "inverse", "hedge", "open", "arm", "hedging"}
PassSound ==
    /\ pc \in Labels
    /\ pass \in [todo : SUBSET Markets, trade : Markets \cup {0},
                 market : Markets \cup {0}, decision : Sides]
    /\ faults \in Nat
    /\ IF pc \in {"inverse", "hedge"}
       THEN pass.trade \in Markets /\ trades[pass.trade].status = "SETTLED"
       ELSE pass.trade = 0
    /\ pc = "hedge" => arms[pass.trade].status # "OPEN"
    /\ \A m \in pass.todo : m # pass.trade => trades[m].status = "OPEN"
    /\ pc \in {"open", "arm", "hedging"} => pass.market \in Markets /\ pass.todo = {}
    /\ pc = "arm" => trades[pass.market].status = "OPEN"

EngineIInv == RowTypes /\ RowsSound /\ PassSound

-----------------------------------------------------------------------------
\* Constants, and the smallest of some markets.

LEMMA EngineConstants ==
  /\ MaxMarkets \in Nat /\ Stake \in Nat /\ 0 \notin Markets
  /\ \A q \in Quotes \cup ReverseQuotes :
        q.shares \in Nat /\ q.shares > 0 /\ q.cost \in Nat
  /\ \A cost \in HedgeCosts : cost \in Nat
<1>1. MaxMarkets \in Nat /\ Stake \in Nat
  BY EngineAssumption DEF EngineAssumption
<1>2. 0 \notin Markets
  BY <1>1 DEF Markets
<1>3. \A q \in Quotes \cup ReverseQuotes :
        q.shares \in Nat /\ q.shares > 0 /\ q.cost \in Nat
  BY <1>1, EngineAssumption DEF EngineAssumption
<1>4. \A cost \in HedgeCosts : cost \in Nat
  BY EngineAssumption DEF EngineAssumption
<1>5. QED
  BY <1>1, <1>2, <1>3, <1>4

LEMMA SmallestIsThere ==
  ASSUME NEW S \in SUBSET Markets, S # {}
  PROVE  Min(S) \in S
<1>1. S \subseteq Nat
  BY EngineConstants DEF Markets
<1>2. PICK x \in S : \A y \in S : ~ (<<y, x>> \in OpToRel(<, Nat))
  BY <1>1, NatLessThanWellFounded, WFMin
<1>3. \A y \in S : x <= y
  <2> SUFFICES ASSUME NEW y \in S PROVE x <= y
    OBVIOUS
  <2>1. x \in Nat /\ y \in Nat
    BY <1>1
  <2>2. ~ (y < x)
    BY <1>2, <2>1 DEF OpToRel
  <2>3. QED
    BY <2>1, <2>2
<1>4. QED
  BY <1>3 DEF Min

LEMMA PayoutTypes ==
  ASSUME NEW side, NEW outcome, NEW n \in Nat
  PROVE  Payout(side, outcome, n) \in Nat
  BY DEF Payout

LEMMA EmptyRows == NoTrade \in Trades /\ NoArm \in Arms /\ NoHedge \in Hedges
  BY DEF NoTrade, NoArm, NoHedge, Trades, Arms, Hedges, Statuses, Sides, Outcomes

LEMMA EngineInitSound == Init => EngineIInv
<1> SUFFICES ASSUME Init PROVE EngineIInv
  OBVIOUS
<1>1. RowTypes
  BY EmptyRows DEF Init, RowTypes
<1>2. \A m \in Markets : trades[m] = NoTrade /\ arms[m] = NoArm /\ hedges[m] = NoHedge
  BY DEF Init
<1>3. RowsSound
  <2>1. /\ NoTrade.status = "NONE" /\ NoArm.status = "NONE" /\ NoHedge.status = "NONE"
    BY DEF NoTrade, NoArm, NoHedge
  <2>2. TradeSound(NoTrade) /\ ArmSound(NoTrade, NoArm) /\ HedgeSound(NoTrade, NoHedge)
    BY <2>1 DEF TradeSound, ArmSound, HedgeSound
  <2>3. QED
    BY <1>2, <2>2 DEF RowsSound
<1>4. PassSound
  <2>1. /\ pc = "idle" /\ faults = 0 /\ pass.todo = {} /\ pass.trade = 0
        /\ pass \in [todo : SUBSET Markets, trade : Markets \cup {0},
                     market : Markets \cup {0}, decision : Sides]
    BY DEF Init, NoPass, Sides
  <2>2. QED
    BY <2>1 DEF PassSound, Labels
<1>5. QED
  BY <1>1, <1>3, <1>4 DEF EngineIInv

-----------------------------------------------------------------------------
\* One lemma per step of a pass.

\* The rows of the other markets are as they were.
LEMMA StartSound == EngineIInv /\ StartPass => EngineIInv'
<1> SUFFICES ASSUME EngineIInv, StartPass PROVE EngineIInv'
  OBVIOUS
<1>1. UNCHANGED <<trades, arms, hedges>> /\ pc' = "settle" /\ faults' \in Nat
      /\ (pass' = [NoPass EXCEPT !.todo = OpenTrades] \/ pass' = NoPass)
  BY DEF StartPass, tables, Fault, Holds, Goto, EngineIInv, PassSound
<1>2. /\ pass' \in [todo : SUBSET Markets, trade : Markets \cup {0},
                    market : Markets \cup {0}, decision : Sides]
      /\ pass'.trade = 0
      /\ \A m \in pass'.todo : trades[m].status = "OPEN"
  BY <1>1 DEF NoPass, OpenTrades, Sides
<1>3. PassSound'
  BY <1>1, <1>2 DEF PassSound, Labels
<1>4. QED
  BY <1>1, <1>3 DEF EngineIInv, RowTypes, RowsSound

\* A step that ends the settlement or the pass and touches no row.
LEMMA ResetSound ==
  ASSUME EngineIInv, UNCHANGED <<trades, arms, hedges>>, pass' = NoPass,
         pc' \in {"idle", "settle"}, faults' \in Nat
  PROVE  EngineIInv'
<1>1. /\ pass' \in [todo : SUBSET Markets, trade : Markets \cup {0},
                    market : Markets \cup {0}, decision : Sides]
      /\ pass'.trade = 0 /\ pass'.todo = {}
  BY DEF NoPass, Sides
<1>2. PassSound'
  BY <1>1 DEF PassSound, Labels
<1>3. QED
  BY <1>2 DEF EngineIInv, RowTypes, RowsSound

LEMMA SkipSound == EngineIInv /\ Skip => EngineIInv'
<1> SUFFICES ASSUME EngineIInv, Skip PROVE EngineIInv'
  OBVIOUS
<1>1. /\ UNCHANGED <<trades, arms, hedges, faults>> /\ pc = "settle" /\ pc' = "settle"
      /\ pass' = [pass EXCEPT !.todo = @ \ {Min(pass.todo)}]
  BY DEF Skip, tables, Goto
<1>2. /\ pass' \in [todo : SUBSET Markets, trade : Markets \cup {0},
                    market : Markets \cup {0}, decision : Sides]
      /\ pass'.trade = pass.trade /\ pass'.todo \subseteq pass.todo
  BY <1>1 DEF EngineIInv, PassSound
<1>3. PassSound'
  BY <1>1, <1>2 DEF EngineIInv, PassSound, Labels
<1>4. QED
  BY <1>1, <1>3 DEF EngineIInv, RowTypes, RowsSound

\* SettlePaperTrade: the arms are open or not there, so nothing is claimed of
\* them yet.
LEMMA SettleTradeSound == EngineIInv /\ SettleTrade => EngineIInv'
<1> SUFFICES ASSUME EngineIInv, SettleTrade PROVE EngineIInv'
  OBVIOUS
<1> DEFINE m == Min(pass.todo)
           t == trades[m]
           outcome == OutcomeAt(anchors[m])
           settled == [t EXCEPT !.status = "SETTLED", !.outcome = outcome,
                                !.pnl = Payout(t.side, outcome, t.shares) - t.stake]
<1>1. CASE Fault /\ trades' = trades /\ EndSettlement
  <2>1. UNCHANGED <<trades, arms, hedges>> /\ pass' = NoPass /\ pc' = "settle"
        /\ faults' \in Nat
    BY <1>1 DEF SettleTrade, EndSettlement, Goto, Fault, EngineIInv, PassSound
  <2>2. QED
    BY <2>1, ResetSound
<1>2. CASE /\ Holds /\ trades' = [trades EXCEPT ![m] = settled]
           /\ pass' = [pass EXCEPT !.trade = m] /\ Goto("inverse")
  <2>1. pass.todo \in SUBSET Markets /\ pass.todo # {} /\ pc = "settle" /\ pass.trade = 0
    BY DEF SettleTrade, EngineIInv, PassSound
  <2>2. m \in pass.todo /\ m \in Markets
    BY <2>1, SmallestIsThere
  <2>3. m # 0 /\ t.status = "OPEN"
    BY <2>1, <2>2, EngineConstants DEF EngineIInv, PassSound
  <2>4. t \in Trades /\ outcome \in Sides
    BY <2>2 DEF EngineIInv, RowTypes, OutcomeAt, Sides
  <2> HIDE DEF m, outcome
  <2>5. Payout(t.side, outcome, t.shares) - t.stake \in Int
    BY <2>4, PayoutTypes DEF Trades
  <2>6. /\ settled \in Trades /\ settled.status = "SETTLED" /\ settled.outcome = outcome
        /\ settled.side = t.side /\ settled.shares = t.shares /\ settled.stake = t.stake
        /\ settled.pnl = Payout(t.side, outcome, t.shares) - t.stake
    BY <2>4, <2>5 DEF Trades, Statuses, Outcomes
  <2> HIDE DEF settled
  <2>7. /\ trades'[m] = settled /\ \A k \in Markets : k # m => trades'[k] = trades[k]
        /\ arms' = arms /\ hedges' = hedges /\ faults' = faults /\ pc' = "inverse"
    BY <1>2, <2>2 DEF SettleTrade, Holds, Goto, EngineIInv, RowTypes
  <2>8. RowTypes'
    BY <1>2, <2>6, <2>7 DEF EngineIInv, RowTypes
  <2>9. TradeSound(settled) /\ ArmSound(settled, arms[m]) /\ HedgeSound(settled, hedges[m])
    <3>1. TradeSound(t) /\ ArmSound(t, arms[m]) /\ HedgeSound(t, hedges[m])
      BY <2>2 DEF EngineIInv, RowsSound
    <3>2. QED
      BY <2>3, <2>4, <2>6, <3>1 DEF TradeSound, ArmSound, HedgeSound
  <2>10. RowsSound'
    BY <2>7, <2>9 DEF EngineIInv, RowsSound
  <2>11. /\ pass' \in [todo : SUBSET Markets, trade : Markets \cup {0},
                       market : Markets \cup {0}, decision : Sides]
         /\ pass'.trade = m /\ pass'.todo = pass.todo
    BY <1>2, <2>2 DEF EngineIInv, PassSound
  <2>12. PassSound'
    <3>1. pass'.trade \in Markets /\ trades'[pass'.trade].status = "SETTLED"
      BY <2>2, <2>6, <2>7, <2>11
    <3>2. \A k \in pass'.todo : k # pass'.trade => trades'[k].status = "OPEN"
      <4>1. \A k \in pass.todo : trades[k].status = "OPEN" /\ k \in Markets
        BY <2>1, EngineConstants DEF EngineIInv, PassSound
      <4>2. QED
        BY <2>7, <2>11, <4>1
    <3>3. faults' \in Nat
      BY <2>7 DEF EngineIInv, PassSound
    <3>4. QED
      BY <2>7, <2>11, <3>1, <3>2, <3>3 DEF PassSound, Labels
  <2>13. QED
    BY <2>8, <2>10, <2>12 DEF EngineIInv
<1>3. QED
  BY <1>1, <1>2 DEF SettleTrade

\* SettlePaperInverseTrade: the trade of the pass is settled, so the arm closes
\* with its outcome; an arm that is not open stays as it is.
LEMMA SettleInverseSound == EngineIInv /\ SettleInverse => EngineIInv'
<1> SUFFICES ASSUME EngineIInv, SettleInverse PROVE EngineIInv'
  OBVIOUS
<1> DEFINE m == pass.trade
           t == trades[m]
           a == arms[m]
           settled == [a EXCEPT !.status = "SETTLED", !.outcome = t.outcome,
                                !.pnl = Payout(Opposite(t.side), t.outcome, a.shares) - a.cost]
<1>1. /\ pc = "inverse" /\ m \in Markets /\ t.status = "SETTLED" /\ t \in Trades /\ a \in Arms
      /\ UNCHANGED <<trades, hedges>>
  BY DEF SettleInverse, EngineIInv, PassSound, RowTypes
<1>2. CASE Fault /\ arms' = arms /\ EndSettlement
  <2>1. UNCHANGED <<trades, arms, hedges>> /\ pass' = NoPass /\ pc' = "settle"
        /\ faults' \in Nat
    BY <1>1, <1>2 DEF EndSettlement, Goto, Fault, EngineIInv, PassSound
  <2>2. QED
    BY <2>1, ResetSound
<1>3. CASE Holds /\ arms' = arms /\ Goto("hedge") /\ pass' = pass /\ a.status # "OPEN"
  <2>1. PassSound'
    BY <1>1, <1>3 DEF Holds, Goto, EngineIInv, PassSound, Labels
  <2>2. QED
    BY <1>1, <1>3, <2>1 DEF EngineIInv, RowTypes, RowsSound
<1>4. CASE /\ Holds /\ arms' = [arms EXCEPT ![m] = settled]
           /\ Goto("hedge") /\ pass' = pass /\ a.status = "OPEN"
  <2>1. Payout(Opposite(t.side), t.outcome, a.shares) - a.cost \in Int
    BY <1>1, PayoutTypes DEF Trades, Arms
  <2>2. /\ settled \in Arms /\ settled.status = "SETTLED" /\ settled.shares = a.shares
        /\ settled.pnl = Payout(Opposite(t.side), t.outcome, settled.shares) - settled.cost
    BY <1>1, <2>1 DEF Trades, Arms, Statuses
  <2> HIDE DEF settled
  <2>3. ArmSound(t, a) /\ a.status = "OPEN"
    BY <1>1, <1>4 DEF EngineIInv, RowsSound
  <2>4. ArmSound(t, settled)
    BY <1>1, <2>2, <2>3 DEF ArmSound
  <2>5. arms'[m] = settled /\ \A k \in Markets : k # m => arms'[k] = arms[k]
    BY <1>1, <1>4 DEF EngineIInv, RowTypes
  <2>6. RowTypes'
    BY <1>1, <1>4, <2>2 DEF EngineIInv, RowTypes
  <2>7. RowsSound'
    BY <1>1, <2>4, <2>5 DEF EngineIInv, RowsSound
  <2>8. PassSound'
    BY <1>1, <1>4, <2>2, <2>5 DEF Holds, Goto, EngineIInv, PassSound, Labels
  <2>9. QED
    BY <2>6, <2>7, <2>8 DEF EngineIInv
<1>5. QED
  BY <1>2, <1>3, <1>4 DEF SettleInverse

\* SettlePaperHedge, and the market is done.
LEMMA SettleHedgeSound == EngineIInv /\ SettleHedge => EngineIInv'
<1> SUFFICES ASSUME EngineIInv, SettleHedge PROVE EngineIInv'
  OBVIOUS
<1> DEFINE m == pass.trade
           t == trades[m]
           h == hedges[m]
           pnl == Payout(Opposite(t.side), t.outcome, h.shares) - h.cost
           settled == [h EXCEPT !.status = "SETTLED", !.outcome = t.outcome,
                                !.pnl = pnl, !.combined = t.pnl + pnl]
<1>1. /\ pc = "hedge" /\ m \in Markets /\ t.status = "SETTLED" /\ t \in Trades /\ h \in Hedges
      /\ UNCHANGED <<trades, arms>>
  BY DEF SettleHedge, EngineIInv, PassSound, RowTypes
<1>2. CASE Fault /\ UNCHANGED <<hedges, regimes>> /\ EndSettlement
  <2>1. UNCHANGED <<trades, arms, hedges>> /\ pass' = NoPass /\ pc' = "settle"
        /\ faults' \in Nat
    BY <1>1, <1>2 DEF EndSettlement, Goto, Fault, EngineIInv, PassSound
  <2>2. QED
    BY <2>1, ResetSound
<1>3. CASE /\ Holds
           /\ hedges' = IF h.status # "OPEN" THEN hedges ELSE [hedges EXCEPT ![m] = settled]
           /\ pass' = [pass EXCEPT !.todo = @ \ {m}, !.trade = 0]
           /\ Goto("settle")
  <2>1. /\ pass' \in [todo : SUBSET Markets, trade : Markets \cup {0},
                      market : Markets \cup {0}, decision : Sides]
        /\ pass'.trade = 0 /\ \A k \in pass'.todo : trades[k].status = "OPEN"
    BY <1>3 DEF EngineIInv, PassSound
  <2>2. PassSound'
    BY <1>1, <1>3, <2>1 DEF Holds, Goto, EngineIInv, PassSound, Labels
  <2>3. CASE h.status # "OPEN"
    BY <1>1, <1>3, <2>2, <2>3 DEF EngineIInv, RowTypes, RowsSound
  <2>4. CASE h.status = "OPEN"
    <3>1. pnl \in Int /\ t.pnl \in Int /\ t.pnl + pnl \in Int
      BY <1>1, PayoutTypes DEF Trades, Hedges
    <3>2. /\ settled \in Hedges /\ settled.status = "SETTLED" /\ settled.outcome = t.outcome
          /\ settled.shares = h.shares /\ settled.locked = h.locked /\ settled.cost = h.cost
          /\ settled.pnl = Payout(Opposite(t.side), t.outcome, settled.shares) - settled.cost
          /\ settled.combined = t.pnl + settled.pnl
      BY <1>1, <3>1 DEF Trades, Hedges, Statuses
    <3> HIDE DEF settled
    <3>3. HedgeSound(t, h)
      BY <1>1 DEF EngineIInv, RowsSound
    <3>4. HedgeSound(t, settled)
      BY <1>1, <2>4, <3>2, <3>3 DEF HedgeSound
    <3>5. hedges' = [hedges EXCEPT ![m] = settled]
      BY <1>3, <2>4
    <3>6. hedges'[m] = settled /\ \A k \in Markets : k # m => hedges'[k] = hedges[k]
      BY <1>1, <3>5 DEF EngineIInv, RowTypes
    <3>7. RowTypes'
      BY <1>1, <3>2, <3>5 DEF EngineIInv, RowTypes
    <3>8. RowsSound'
      BY <1>1, <3>4, <3>6 DEF EngineIInv, RowsSound
    <3>9. QED
      BY <2>2, <3>7, <3>8 DEF EngineIInv
  <2>5. QED
    BY <2>3, <2>4
<1>4. QED
  BY <1>2, <1>3 DEF SettleHedge

\* The evaluation: a market is chosen, and no trade waits to be settled.
LEMMA EvaluateSound == EngineIInv /\ (Evaluate \/ NoEntry) => EngineIInv'
<1> SUFFICES ASSUME EngineIInv, Evaluate \/ NoEntry PROVE EngineIInv'
  OBVIOUS
<1>1. UNCHANGED <<trades, arms, hedges, faults>>
  BY DEF Evaluate, NoEntry, tables
<1>2. CASE Evaluate
  <2>1. PICK k \in Markets, decision \in Sides :
           pass' = [pass EXCEPT !.market = k, !.decision = decision]
    BY <1>2 DEF Evaluate
  <2>2. pc = "settle" /\ pass.todo = {} /\ pass.trade = 0 /\ pc' = "open"
    BY <1>2 DEF Evaluate, Goto, EngineIInv, PassSound
  <2>3. /\ pass' \in [todo : SUBSET Markets, trade : Markets \cup {0},
                      market : Markets \cup {0}, decision : Sides]
        /\ pass'.trade = 0 /\ pass'.todo = {} /\ pass'.market \in Markets
    BY <2>1, <2>2 DEF EngineIInv, PassSound
  <2>4. PassSound'
    BY <1>1, <2>2, <2>3 DEF EngineIInv, PassSound, Labels
  <2>5. QED
    BY <1>1, <2>4 DEF EngineIInv, RowTypes, RowsSound
<1>3. CASE NoEntry
  <2>1. PassSound'
    BY <1>1, <1>3 DEF NoEntry, Goto, EngineIInv, PassSound, Labels
  <2>2. QED
    BY <1>1, <2>1 DEF EngineIInv, RowTypes, RowsSound
<1>4. QED
  BY <1>2, <1>3

\* CreatePaperTrade: a market without a trade has no other row either.
LEMMA EnterSound == EngineIInv /\ Enter => EngineIInv'
<1> SUFFICES ASSUME EngineIInv, Enter PROVE EngineIInv'
  OBVIOUS
<1> DEFINE m == pass.market
<1>1. /\ pc = "open" /\ m \in Markets /\ trades[m].status = "NONE" /\ pc' = "arm"
      /\ pass.todo = {} /\ pass.trade = 0
      /\ UNCHANGED <<arms, hedges, pass, faults>>
  BY DEF Enter, Goto, EngineIInv, PassSound
<1>2. PICK q \in Quotes :
         trades' = [trades EXCEPT ![m] =
                       [NoTrade EXCEPT !.status = "OPEN", !.side = pass.decision,
                                       !.shares = q.shares, !.stake = q.cost]]
  BY DEF Enter
<1> DEFINE t == [NoTrade EXCEPT !.status = "OPEN", !.side = pass.decision,
                                !.shares = q.shares, !.stake = q.cost]
<1>3. q.shares \in Nat /\ q.shares > 0 /\ q.cost \in Nat /\ pass.decision \in Sides
  BY EngineConstants DEF EngineIInv, PassSound
<1>4. t \in Trades /\ t.status = "OPEN" /\ t.shares > 0
  BY <1>3, EmptyRows DEF Trades, Statuses
<1> HIDE DEF t
<1>5. trades'[m] = t /\ \A k \in Markets : k # m => trades'[k] = trades[k]
  BY <1>1, <1>2 DEF t, EngineIInv, RowTypes
<1>6. RowTypes'
  BY <1>1, <1>2, <1>4 DEF t, EngineIInv, RowTypes
<1>7. arms[m].status = "NONE" /\ hedges[m].status = "NONE"
  BY <1>1 DEF EngineIInv, RowsSound, ArmSound, HedgeSound
<1>8. TradeSound(t) /\ ArmSound(t, arms[m]) /\ HedgeSound(t, hedges[m])
  BY <1>4, <1>7 DEF TradeSound, ArmSound, HedgeSound
<1>9. RowsSound'
  BY <1>1, <1>5, <1>8 DEF EngineIInv, RowsSound
<1>10. PassSound'
  BY <1>1, <1>4, <1>5 DEF EngineIInv, PassSound, Labels
<1>11. QED
  BY <1>6, <1>9, <1>10 DEF EngineIInv

\* createInverseShadow: the arm opens beside an open trade.
LEMMA CreateInverseSound == EngineIInv /\ CreateInverse => EngineIInv'
<1> SUFFICES ASSUME EngineIInv, CreateInverse PROVE EngineIInv'
  OBVIOUS
<1> DEFINE m == pass.market
<1>1. /\ pc = "arm" /\ m \in Markets /\ trades[m].status = "OPEN" /\ pc' = "hedging"
      /\ pass.todo = {} /\ pass.trade = 0
      /\ UNCHANGED <<trades, hedges, pass, faults>>
  BY DEF CreateInverse, Goto, EngineIInv, PassSound
<1>2. PassSound'
  BY <1>1 DEF EngineIInv, PassSound, Labels
<1>3. CASE arms' = arms
  BY <1>1, <1>2, <1>3 DEF EngineIInv, RowTypes, RowsSound
<1>4. ASSUME NEW q \in ReverseQuotes,
             arms' = [arms EXCEPT ![m] =
                [NoArm EXCEPT !.status = "OPEN", !.shares = q.shares, !.cost = q.cost]]
      PROVE  EngineIInv'
  <2> DEFINE a == [NoArm EXCEPT !.status = "OPEN", !.shares = q.shares, !.cost = q.cost]
  <2>1. q.shares \in Nat /\ q.shares > 0 /\ q.cost \in Nat
    BY EngineConstants
  <2>2. a \in Arms /\ a.status = "OPEN" /\ a.shares > 0
    BY <2>1, EmptyRows DEF Arms, Statuses
  <2> HIDE DEF a
  <2>3. arms'[m] = a /\ \A k \in Markets : k # m => arms'[k] = arms[k]
    BY <1>1, <1>4 DEF a, EngineIInv, RowTypes
  <2>4. RowTypes'
    BY <1>1, <1>4, <2>2 DEF a, EngineIInv, RowTypes
  <2>5. ArmSound(trades[m], a)
    BY <1>1, <2>2 DEF ArmSound
  <2>6. RowsSound'
    BY <1>1, <2>3, <2>5 DEF EngineIInv, RowsSound
  <2>7. QED
    BY <1>2, <2>4, <2>6 DEF EngineIInv
<1>5. QED
  BY <1>3, <1>4 DEF CreateInverse

\* MaybeHedge: the hedge opens beside an open trade, for all its shares.
LEMMA MaybeHedgeSound == EngineIInv /\ MaybeHedge => EngineIInv'
<1> SUFFICES ASSUME EngineIInv, MaybeHedge PROVE EngineIInv'
  OBVIOUS
<1> DEFINE m == pass.market
           t == trades[m]
<1>1. /\ pc = "hedging" /\ m \in Markets /\ t.status = "OPEN" /\ t \in Trades /\ t.shares > 0
      /\ UNCHANGED <<trades, arms, faults>> /\ pass' = NoPass /\ pc' = "idle"
  BY DEF MaybeHedge, Goto, EngineIInv, PassSound, RowTypes, RowsSound, TradeSound
<1>2. CASE hedges' = hedges
  BY <1>1, <1>2, ResetSound DEF EngineIInv, PassSound
<1>3. ASSUME NEW cost \in HedgeCosts,
             hedges' = [hedges EXCEPT ![m] =
                [NoHedge EXCEPT !.status = "OPEN", !.shares = t.shares,
                                !.cost = cost, !.locked = LockedPnL(t, cost)]]
      PROVE  EngineIInv'
  <2> DEFINE h == [NoHedge EXCEPT !.status = "OPEN", !.shares = t.shares,
                                  !.cost = cost, !.locked = LockedPnL(t, cost)]
  <2>1. cost \in Nat /\ LockedPnL(t, cost) = t.shares - t.stake - cost
        /\ LockedPnL(t, cost) \in Int
    BY <1>1, EngineConstants DEF LockedPnL, Trades
  <2>2. /\ h \in Hedges /\ h.status = "OPEN" /\ h.shares = t.shares /\ h.cost = cost
        /\ h.locked = t.shares - t.stake - h.cost
    <3>1. t.shares \in Nat
      BY <1>1 DEF Trades
    <3>2. QED
      BY <2>1, <3>1, EmptyRows DEF Hedges, Statuses
  <2> HIDE DEF h
  <2>3. hedges'[m] = h /\ \A k \in Markets : k # m => hedges'[k] = hedges[k]
    BY <1>1, <1>3 DEF h, EngineIInv, RowTypes
  <2>4. RowTypes'
    BY <1>1, <1>3, <2>2 DEF h, EngineIInv, RowTypes
  <2>5. HedgeSound(t, h)
    BY <1>1, <2>2 DEF HedgeSound
  <2>6. RowsSound'
    BY <1>1, <2>3, <2>5 DEF EngineIInv, RowsSound
  <2>7. PassSound'
    <3>1. /\ pass' \in [todo : SUBSET Markets, trade : Markets \cup {0},
                        market : Markets \cup {0}, decision : Sides]
          /\ pass'.trade = 0 /\ pass'.todo = {}
      BY <1>1 DEF NoPass, Sides
    <3>2. QED
      BY <1>1, <3>1 DEF EngineIInv, PassSound, Labels
  <2>8. QED
    BY <2>4, <2>6, <2>7 DEF EngineIInv
<1>4. QED
  BY <1>2, <1>3 DEF MaybeHedge

\* What ends a pass, and what happens around it.
LEMMA AroundSound ==
  EngineIInv /\ (NoSignal \/ NoPosition \/ Crash \/ Anchor \/ Tick \/ UNCHANGED vars)
     => EngineIInv'
<1> SUFFICES ASSUME EngineIInv,
                    NoSignal \/ NoPosition \/ Crash \/ Anchor \/ Tick \/ UNCHANGED vars
             PROVE  EngineIInv'
  OBVIOUS
<1>1. faults \in Nat
  BY DEF EngineIInv, PassSound
<1>2. CASE NoSignal \/ NoPosition \/ Crash
  <2>1. UNCHANGED <<trades, arms, hedges>> /\ pass' = NoPass /\ pc' = "idle" /\ faults' \in Nat
    BY <1>1, <1>2 DEF NoSignal, NoPosition, Crash, Fault, tables, Goto
  <2>2. QED
    BY <2>1, ResetSound
<1>3. CASE Anchor \/ Tick \/ UNCHANGED vars
  <2>1. UNCHANGED <<trades, arms, hedges, pc, pass, faults>>
    BY <1>3 DEF Anchor, Tick, vars, Engine, tables
  <2>2. QED
    BY <2>1 DEF EngineIInv, RowTypes, RowsSound, PassSound
<1>4. QED
  BY <1>2, <1>3

LEMMA EngineStepSound == EngineIInv /\ [Next]_vars => EngineIInv'
  BY StartSound, SkipSound, SettleTradeSound, SettleInverseSound, SettleHedgeSound,
     EvaluateSound, EnterSound, CreateInverseSound, MaybeHedgeSound, AroundSound
  DEF Next, Pass

\* The invariant everything below rests on: the rows of a market hang together,
\* and the pass is where it may rely on what it does.
THEOREM EngineStaysSound == Spec => []EngineIInv
<1>1. Init => EngineIInv
  BY EngineInitSound
<1>2. EngineIInv /\ [Next]_vars => EngineIInv'
  BY EngineStepSound
<1>3. QED
  BY <1>1, <1>2, PTL DEF Spec

-----------------------------------------------------------------------------
\* What a settled market comes to.
LEMMA SettledRowsAgree == EngineIInv => ArmsAgree
<1> SUFFICES ASSUME EngineIInv, NEW m \in Markets
             PROVE  /\ hedges[m].status = "SETTLED" =>
                          /\ trades[m].status = "SETTLED"
                          /\ hedges[m].outcome = trades[m].outcome
                          /\ hedges[m].combined = hedges[m].locked
                          /\ hedges[m].combined = trades[m].pnl + hedges[m].pnl
                    /\ arms[m].status = "SETTLED" =>
                          /\ trades[m].status = "SETTLED"
                          /\ (trades[m].pnl = -trades[m].stake)
                                # (arms[m].pnl = -arms[m].cost)
  BY DEF ArmsAgree
<1> DEFINE t == trades[m]
           a == arms[m]
           h == hedges[m]
<1>1. /\ t \in Trades /\ a \in Arms /\ h \in Hedges
      /\ TradeSound(t) /\ ArmSound(t, a) /\ HedgeSound(t, h)
  BY DEF EngineIInv, RowTypes, RowsSound
<1> HIDE DEF t, a, h
<1>2. /\ t.side \in Sides /\ t.shares \in Nat /\ t.stake \in Nat /\ t.pnl \in Int
      /\ a.shares \in Nat /\ a.cost \in Nat /\ a.pnl \in Int
      /\ h.shares \in Nat /\ h.cost \in Nat /\ h.pnl \in Int /\ h.combined \in Int
  BY <1>1 DEF Trades, Arms, Hedges
\* One of the two sides wins.
<1>3. ASSUME t.outcome \in Sides
      PROVE  \/ t.outcome = t.side /\ t.outcome # Opposite(t.side)
             \/ t.outcome # t.side /\ t.outcome = Opposite(t.side)
  BY <1>2, <1>3 DEF Sides, Opposite
<1>4. ASSUME h.status = "SETTLED"
      PROVE  /\ t.status = "SETTLED" /\ h.outcome = t.outcome
             /\ h.combined = h.locked /\ h.combined = t.pnl + h.pnl
  <2>1. /\ t.status = "SETTLED" /\ h.outcome = t.outcome /\ h.shares = t.shares
        /\ h.locked = t.shares - t.stake - h.cost /\ h.combined = t.pnl + h.pnl
        /\ h.pnl = Payout(Opposite(t.side), t.outcome, h.shares) - h.cost
        /\ t.outcome \in Sides /\ t.pnl = Payout(t.side, t.outcome, t.shares) - t.stake
    BY <1>1, <1>4 DEF HedgeSound, TradeSound
  <2>2. CASE t.outcome = t.side /\ t.outcome # Opposite(t.side)
    <3>1. t.pnl = t.shares - t.stake /\ h.pnl = 0 - h.cost
      BY <2>1, <2>2 DEF Payout
    <3>2. QED
      BY <1>2, <2>1, <3>1
  <2>3. CASE t.outcome # t.side /\ t.outcome = Opposite(t.side)
    <3>1. t.pnl = 0 - t.stake /\ h.pnl = t.shares - h.cost
      BY <2>1, <2>3 DEF Payout
    <3>2. QED
      BY <1>2, <2>1, <3>1
  <2>4. QED
    BY <1>3, <2>1, <2>2, <2>3
<1>5. ASSUME a.status = "SETTLED"
      PROVE  t.status = "SETTLED" /\ ((t.pnl = -t.stake) # (a.pnl = -a.cost))
  <2>1. /\ t.status = "SETTLED" /\ t.shares > 0 /\ a.shares > 0
        /\ a.pnl = Payout(Opposite(t.side), t.outcome, a.shares) - a.cost
        /\ t.outcome \in Sides /\ t.pnl = Payout(t.side, t.outcome, t.shares) - t.stake
    BY <1>1, <1>5 DEF ArmSound, TradeSound
  <2>2. CASE t.outcome = t.side /\ t.outcome # Opposite(t.side)
    <3>1. t.pnl = t.shares - t.stake /\ a.pnl = 0 - a.cost
      BY <2>1, <2>2 DEF Payout
    <3>2. t.pnl # -t.stake /\ a.pnl = -a.cost
      BY <1>2, <2>1, <3>1
    <3>3. QED
      BY <2>1, <3>2
  <2>3. CASE t.outcome # t.side /\ t.outcome = Opposite(t.side)
    <3>1. t.pnl = 0 - t.stake /\ a.pnl = a.shares - a.cost
      BY <2>1, <2>3 DEF Payout
    <3>2. t.pnl = -t.stake /\ a.pnl # -a.cost
      BY <1>2, <2>1, <3>1
    <3>3. QED
      BY <2>1, <3>2
  <2>4. QED
    BY <1>3, <2>1, <2>2, <2>3
<1>6. QED
  BY <1>4, <1>5 DEF t, a, h

\* ArmsAgree, for every market, quote and price: a hedged position nets what the
\* hedge locked, and of a position and its inverse exactly one is paid
\* (SettlePaperTrade, SettlePaperInverseTrade, SettlePaperHedge).
THEOREM ArmsAgreeAlways == Spec => []ArmsAgree
  BY EngineStaysSound, SettledRowsAgree, PTL

-----------------------------------------------------------------------------
(***************************************************************************)
(* The cash.  It is a running total over the markets, so what one row adds *)
(* to it can be changed by itself.                                         *)
(***************************************************************************)
LEMMA SmallestOf ==
  ASSUME NEW S, S \subseteq Nat, S # {}
  PROVE  \E x \in S : \A y \in S : x <= y
<1>1. PICK x \in S : \A y \in S : ~ (<<y, x>> \in OpToRel(<, Nat))
  BY NatLessThanWellFounded, WFMin
<1>2. \A y \in S : x <= y
  <2> SUFFICES ASSUME NEW y \in S PROVE x <= y
    OBVIOUS
  <2>1. x \in Nat /\ y \in Nat
    OBVIOUS
  <2>2. ~ (y < x)
    BY <1>1, <2>1 DEF OpToRel
  <2>3. QED
    BY <2>1, <2>2
<1>3. QED
  BY <1>2

\* The running total exists up to every market: up to the first one it would not,
\* it is the total before plus one.
LEMMA TotalsExist ==
  ASSUME NEW flow \in [Markets -> Int]
  PROVE  \E s \in [0..MaxMarkets -> Int] :
            s[0] = 0 /\ \A m \in Markets : s[m] = s[m - 1] + flow[m]
<1> DEFINE Q(n) == \E s \in [0..n -> Int] : s[0] = 0 /\ \A m \in 1..n : s[m] = s[m - 1] + flow[m]
           S == {n \in 0..MaxMarkets : ~Q(n)}
<1>0. MaxMarkets \in Nat /\ Markets = 1..MaxMarkets
  BY EngineConstants DEF Markets
<1>1. Q(0)
  <2> DEFINE s == [i \in 0..0 |-> 0]
  <2>1. s \in [0..0 -> Int] /\ s[0] = 0 /\ \A m \in 1..0 : s[m] = s[m - 1] + flow[m]
    OBVIOUS
  <2>2. QED
    BY <2>1
<1>2. ASSUME NEW n \in 1..MaxMarkets, Q(n - 1) PROVE Q(n)
  <2>1. PICK s \in [0..(n - 1) -> Int] :
           s[0] = 0 /\ \A m \in 1..(n - 1) : s[m] = s[m - 1] + flow[m]
    BY <1>2
  <2> DEFINE t == [i \in 0..n |-> IF i = n THEN s[n - 1] + flow[n] ELSE s[i]]
  <2>2. n \in Nat /\ n > 0 /\ flow[n] \in Int /\ n - 1 \in 0..(n - 1)
    BY <1>0
  <2>3. \A i \in 0..n : i # n => i \in 0..(n - 1)
    BY <2>2
  <2>4. t \in [0..n -> Int] /\ t[0] = 0
    BY <2>1, <2>2, <2>3
  <2>5. \A m \in 1..n : t[m] = t[m - 1] + flow[m]
    <3> SUFFICES ASSUME NEW m \in 1..n PROVE t[m] = t[m - 1] + flow[m]
      OBVIOUS
    <3>1. m - 1 \in 0..(n - 1) /\ m - 1 \in 0..n /\ m - 1 # n /\ m \in 0..n
      BY <2>2
    <3>2. t[m - 1] = s[m - 1]
      BY <3>1
    <3>3. CASE m = n
      BY <3>1, <3>2, <3>3
    <3>4. CASE m # n
      <4>1. m \in 1..(n - 1) /\ t[m] = s[m]
        BY <2>2, <3>1, <3>4
      <4>2. QED
        BY <2>1, <3>2, <4>1
    <3>5. QED
      BY <3>3, <3>4
  <2>6. QED
    BY <2>4, <2>5
<1> HIDE DEF Q
<1>3. S = {}
  <2> SUFFICES ASSUME S # {} PROVE FALSE
    OBVIOUS
  <2>1. PICK x \in S : \A y \in S : x <= y
    <3>1. S \subseteq Nat
      BY <1>0
    <3> HIDE DEF S
    <3>2. QED
      BY <3>1, SmallestOf
  <2>2. x \in 0..MaxMarkets /\ ~Q(x)
    OBVIOUS
  <2>3. x # 0
    BY <1>1, <2>2
  <2>4. x \in 1..MaxMarkets /\ x - 1 \in 0..MaxMarkets /\ ~(x <= x - 1)
    BY <1>0, <2>2, <2>3
  <2>5. Q(x - 1)
    BY <2>1, <2>4
  <2>6. QED
    BY <1>2, <2>2, <2>4, <2>5
<1>4. Q(MaxMarkets)
  BY <1>0, <1>3
<1>5. QED
  BY <1>0, <1>4 DEF Q

\* Two running totals, one of which takes d more from market k on.
LEMMA TotalsDiffer ==
  ASSUME NEW f \in [Markets -> Int], NEW g \in [Markets -> Int], NEW k \in 1..(MaxMarkets + 1),
         NEW d \in Int, NEW s, NEW t,
         \A m \in Markets : g[m] = f[m] + (IF m = k THEN d ELSE 0),
         s[0] = 0, \A m \in Markets : s[m] = s[m - 1] + f[m],
         t[0] = 0, \A m \in Markets : t[m] = t[m - 1] + g[m]
  PROVE  \A m \in 0..MaxMarkets : s[m] \in Int /\ t[m] = s[m] + (IF m >= k THEN d ELSE 0)
<1> DEFINE P(m) == s[m] \in Int /\ t[m] = s[m] + (IF m >= k THEN d ELSE 0)
           S == {m \in 0..MaxMarkets : ~P(m)}
<1>0. MaxMarkets \in Nat /\ Markets = 1..MaxMarkets
  BY EngineConstants DEF Markets
<1>1. P(0)
  BY <1>0
<1>2. ASSUME NEW m \in 1..MaxMarkets, P(m - 1) PROVE P(m)
  <2>1. s[m] = s[m - 1] + f[m] /\ t[m] = t[m - 1] + g[m] /\ f[m] \in Int /\ g[m] \in Int
    BY <1>0
  <2>2. g[m] = f[m] + (IF m = k THEN d ELSE 0)
    BY <1>0
  <2>3. s[m - 1] \in Int /\ t[m - 1] = s[m - 1] + (IF m - 1 >= k THEN d ELSE 0)
    BY <1>2
  <2>4. m \in Nat /\ k \in Nat
    BY <1>0
  <2>5. CASE m < k
    <3>1. ~(m - 1 >= k) /\ m # k /\ ~(m >= k)
      BY <2>4, <2>5
    <3>2. QED
      BY <2>1, <2>2, <2>3, <3>1
  <2>6. CASE m = k
    <3>1. ~(m - 1 >= k) /\ m >= k
      BY <2>4, <2>6
    <3>2. QED
      BY <2>1, <2>2, <2>3, <2>6, <3>1
  <2>7. CASE m > k
    <3>1. m - 1 >= k /\ m >= k /\ m # k
      BY <2>4, <2>7
    <3>2. QED
      BY <2>1, <2>2, <2>3, <3>1
  <2>8. QED
    BY <2>4, <2>5, <2>6, <2>7
<1> HIDE DEF P
<1>3. S = {}
  <2> SUFFICES ASSUME S # {} PROVE FALSE
    OBVIOUS
  <2>1. PICK x \in S : \A y \in S : x <= y
    <3>1. S \subseteq Nat
      BY <1>0
    <3> HIDE DEF S
    <3>2. QED
      BY <3>1, SmallestOf
  <2>2. x \in 0..MaxMarkets /\ ~P(x)
    OBVIOUS
  <2>3. x # 0
    BY <1>1, <2>2
  <2>4. x \in 1..MaxMarkets /\ x - 1 \in 0..MaxMarkets /\ ~(x <= x - 1)
    BY <1>0, <2>2, <2>3
  <2>5. P(x - 1)
    BY <2>1, <2>4
  <2>6. QED
    BY <1>2, <2>2, <2>4, <2>5
<1>4. \A m \in 0..MaxMarkets : P(m)
  BY <1>3
<1>5. QED
  BY <1>4 DEF P

\* Total is such a running total.
LEMMA TotalIsOne ==
  ASSUME NEW flow \in [Markets -> Int]
  PROVE  \E s : /\ s[0] = 0 /\ \A m \in Markets : s[m] = s[m - 1] + flow[m]
                /\ Total(flow) = s[MaxMarkets]
<1> DEFINE Sums(s) == [m \in 0..MaxMarkets |-> IF m = 0 THEN 0 ELSE s[m - 1] + flow[m]]
           sum == CHOOSE s : s = Sums(s)
<1>0. MaxMarkets \in Nat /\ Markets = 1..MaxMarkets
  BY EngineConstants DEF Markets
<1>1. \E s : s = Sums(s)
  <2>1. PICK s \in [0..MaxMarkets -> Int] :
           s[0] = 0 /\ \A m \in Markets : s[m] = s[m - 1] + flow[m]
    BY TotalsExist
  <2>2. \A m \in 0..MaxMarkets : s[m] = IF m = 0 THEN 0 ELSE s[m - 1] + flow[m]
    BY <1>0, <2>1
  <2>3. s = Sums(s)
    BY <2>2
  <2>4. QED
    BY <2>3
<1>2. sum = Sums(sum)
  <2> HIDE DEF Sums
  <2>1. QED
    BY <1>1
<1>3. Total(flow) = sum[MaxMarkets]
  BY DEF Total
<1> HIDE DEF sum
<1>4. sum[0] = 0 /\ \A m \in Markets : sum[m] = sum[m - 1] + flow[m]
  BY <1>0, <1>2
<1>5. QED
  BY <1>3, <1>4

\* Changing what one market adds changes the total by as much.
LEMMA TotalChanges ==
  ASSUME NEW f \in [Markets -> Int], NEW k \in Markets, NEW a \in Int
  PROVE  /\ Total(f) \in Int
         /\ Total([f EXCEPT ![k] = a]) = Total(f) + (a - f[k])
<1> DEFINE g == [f EXCEPT ![k] = a]
           d == a - f[k]
<1>0. MaxMarkets \in Nat /\ Markets = 1..MaxMarkets
  BY EngineConstants DEF Markets
<1>1. g \in [Markets -> Int] /\ d \in Int /\ f[k] \in Int /\ k \in 1..(MaxMarkets + 1)
  BY <1>0
<1>2. \A m \in Markets : g[m] = f[m] + (IF m = k THEN d ELSE 0)
  BY <1>1
<1> HIDE DEF g, d
<1>3. PICK s : /\ s[0] = 0 /\ \A m \in Markets : s[m] = s[m - 1] + f[m]
               /\ Total(f) = s[MaxMarkets]
  BY TotalIsOne
<1>4. PICK t : /\ t[0] = 0 /\ \A m \in Markets : t[m] = t[m - 1] + g[m]
               /\ Total(g) = t[MaxMarkets]
  BY <1>1, TotalIsOne
<1>5. \A m \in 0..MaxMarkets : s[m] \in Int /\ t[m] = s[m] + (IF m >= k THEN d ELSE 0)
  <2>1. /\ s[0] = 0 /\ \A m \in Markets : s[m] = s[m - 1] + f[m]
        /\ t[0] = 0 /\ \A m \in Markets : t[m] = t[m - 1] + g[m]
    BY <1>3, <1>4
  <2>2. QED
    BY ONLY f \in [Markets -> Int], <1>1, <1>2, <2>1, TotalsDiffer
<1>6. MaxMarkets \in 0..MaxMarkets /\ MaxMarkets >= k
  BY <1>0
<1>7. QED
  BY <1>3, <1>4, <1>5, <1>6 DEF g, d

LEMMA TotalOfNothing == Total([m \in Markets |-> 0]) = 0
<1> DEFINE f == [m \in Markets |-> 0]
           S(s) == {m \in 0..MaxMarkets : s[m] # 0}
<1>0. MaxMarkets \in Nat /\ Markets = 1..MaxMarkets /\ f \in [Markets -> Int]
  BY EngineConstants DEF Markets
<1>1. PICK s : /\ s[0] = 0 /\ \A m \in Markets : s[m] = s[m - 1] + f[m]
               /\ Total(f) = s[MaxMarkets]
  BY <1>0, TotalIsOne
<1>2. S(s) = {}
  <2> SUFFICES ASSUME S(s) # {} PROVE FALSE
    OBVIOUS
  <2>1. PICK x \in S(s) : \A y \in S(s) : x <= y
    <3>1. S(s) \subseteq Nat
      BY <1>0
    <3> HIDE DEF S
    <3>2. QED
      BY <3>1, SmallestOf
  <2>2. x \in 0..MaxMarkets /\ s[x] # 0
    OBVIOUS
  <2>3. x \in 1..MaxMarkets /\ x - 1 \in 0..MaxMarkets /\ ~(x <= x - 1)
    BY <1>0, <1>1, <2>2
  <2>4. s[x - 1] = 0
    BY <2>1, <2>3
  <2>5. s[x] = s[x - 1] + f[x] /\ f[x] = 0
    BY <1>0, <1>1, <2>3
  <2>6. QED
    BY <2>2, <2>4, <2>5
<1>3. QED
  BY <1>0, <1>1, <1>2

\* What every market adds to the cash.
Flows == [m \in Markets |-> Won(trades[m]) - Held(trades[m])]

\* A step that stores one row adds to the cash what the row adds.
LEMMA OneRowChangesCash ==
  ASSUME EngineIInv, NEW k \in Markets, NEW t \in Trades, trades' = [trades EXCEPT ![k] = t]
  PROVE  Cash' = Cash + ((Won(t) - Held(t)) - (Won(trades[k]) - Held(trades[k]))) /\ Cash \in Int
<1>1. \A m \in Markets : Won(trades[m]) - Held(trades[m]) \in Int
  BY DEF EngineIInv, RowTypes, Trades, Won, Held
<1>2. Won(t) - Held(t) \in Int
  BY DEF Trades, Won, Held
<1>3. Flows \in [Markets -> Int] /\ Flows[k] = Won(trades[k]) - Held(trades[k])
  BY <1>1 DEF Flows
<1> DEFINE a == Won(t) - Held(t)
<1>4. Flows' = [Flows EXCEPT ![k] = a]
  <2>1. \A m \in Markets : trades'[m] = IF m = k THEN t ELSE trades[m]
    BY DEF EngineIInv, RowTypes
  <2>2. \A m \in Markets : Won(trades'[m]) - Held(trades'[m]) = IF m = k THEN a ELSE Flows[m]
    BY <2>1 DEF Flows
  <2> HIDE DEF a
  <2>3. Flows' = [m \in Markets |-> Won(trades'[m]) - Held(trades'[m])]
    BY DEF Flows
  <2>4. QED
    BY <1>3, <2>2, <2>3
<1> HIDE DEF a
<1>5. Total(Flows) \in Int /\ Total(Flows') = Total(Flows) + (a - Flows[k])
  BY <1>2, <1>3, <1>4, TotalChanges DEF a
<1>6. Cash = InitialBalance + Total(Flows) /\ Cash' = InitialBalance + Total(Flows')
  BY DEF Cash, Flows
<1>7. InitialBalance \in Int
  BY EngineAssumption DEF EngineAssumption
<1>8. a \in Int /\ Flows[k] \in Int
  BY <1>2, <1>3 DEF a
<1>9. QED
  BY <1>3, <1>5, <1>6, <1>7, <1>8 DEF a

LEMMA CashSound == EngineIInv /\ CashNeverOverdrawn /\ [Next]_vars => CashNeverOverdrawn'
<1> SUFFICES ASSUME EngineIInv, CashNeverOverdrawn, [Next]_vars PROVE CashNeverOverdrawn'
  OBVIOUS
<1>1. CASE trades' = trades
  BY <1>1 DEF CashNeverOverdrawn, Cash
<1>2. CASE Enter
  <2>1. pass.market \in Markets /\ trades[pass.market].status = "NONE" /\ Cash >= Stake
    BY <1>2 DEF Enter, MayEnter, EngineIInv, PassSound
  <2>2. PICK q \in Quotes :
           trades' = [trades EXCEPT ![pass.market] =
                         [NoTrade EXCEPT !.status = "OPEN", !.side = pass.decision,
                                         !.shares = q.shares, !.stake = q.cost]]
    BY <1>2 DEF Enter
  <2> DEFINE t == [NoTrade EXCEPT !.status = "OPEN", !.side = pass.decision,
                                  !.shares = q.shares, !.stake = q.cost]
  <2>3. q.shares \in Nat /\ q.cost \in Nat /\ q.cost <= Stake /\ Stake \in Nat
        /\ pass.decision \in Sides
    BY EngineAssumption DEF EngineAssumption, EngineIInv, PassSound
  <2>4. t \in Trades /\ t.status = "OPEN" /\ t.stake = q.cost
    BY <2>3, EmptyRows DEF Trades, Statuses, NoTrade
  <2>5. trades' = [trades EXCEPT ![pass.market] = t]
    BY <2>2
  <2> HIDE DEF t
  <2>6. Won(t) - Held(t) = 0 - q.cost /\ Won(trades[pass.market]) - Held(trades[pass.market]) = 0
    BY <2>1, <2>4 DEF Won, Held
  <2>7. Cash' = Cash + ((0 - q.cost) - 0) /\ Cash \in Int
    BY <2>1, <2>4, <2>5, <2>6, OneRowChangesCash
  <2>8. Cash + ((0 - q.cost) - 0) >= 0
    BY <2>1, <2>3, <2>7
  <2>9. QED
    BY <2>7, <2>8 DEF CashNeverOverdrawn
<1>3. CASE SettleTrade /\ trades' # trades
  <2> DEFINE m == Min(pass.todo)
             r == trades[m]
             outcome == OutcomeAt(anchors[m])
             paid == Payout(r.side, outcome, r.shares)
             t == [r EXCEPT !.status = "SETTLED", !.outcome = outcome, !.pnl = paid - r.stake]
  <2>1. trades' = [trades EXCEPT ![m] = t]
    BY <1>3 DEF SettleTrade
  <2>2. pass.todo \in SUBSET Markets /\ pass.todo # {} /\ pc = "settle" /\ pass.trade = 0
    BY <1>3 DEF SettleTrade, EngineIInv, PassSound
  <2>3. m \in pass.todo /\ m \in Markets
    BY <2>2, SmallestIsThere
  <2>4. r.status = "OPEN"
    BY <2>2, <2>3, EngineConstants DEF EngineIInv, PassSound
  <2>5. r \in Trades /\ outcome \in Sides
    BY <2>3 DEF EngineIInv, RowTypes, OutcomeAt, Sides
  <2> HIDE DEF m, outcome
  <2>6. paid \in Nat /\ r.stake \in Nat
    BY <2>5, PayoutTypes DEF Trades
  <2>p. paid - r.stake \in Int
    BY <2>6
  <2> HIDE DEF paid
  <2>7. t \in Trades /\ t.status = "SETTLED" /\ t.pnl = paid - r.stake
    BY <2>5, <2>p DEF Trades, Statuses, Outcomes
  <2> HIDE DEF t
  <2>8. Won(t) - Held(t) = paid - r.stake /\ Won(r) - Held(r) = 0 - r.stake
    BY <2>4, <2>6, <2>7 DEF Won, Held
  <2>9. Cash' = Cash + ((paid - r.stake) - (0 - r.stake)) /\ Cash \in Int
    BY <2>1, <2>3, <2>7, <2>8, OneRowChangesCash
  <2>10. Cash + ((paid - r.stake) - (0 - r.stake)) >= 0
    BY <2>6, <2>9 DEF CashNeverOverdrawn
  <2>11. QED
    BY <2>9, <2>10 DEF CashNeverOverdrawn
<1>4. trades' = trades \/ Enter \/ (SettleTrade /\ trades' # trades)
  <2>1. StartPass \/ Skip \/ SettleInverse \/ SettleHedge \/ NoSignal \/ Evaluate \/ NoEntry
          => trades' = trades
    BY DEF StartPass, Skip, SettleInverse, SettleHedge, NoSignal, Evaluate, NoEntry, tables
  <2>2. CreateInverse \/ NoPosition \/ MaybeHedge \/ Anchor \/ Tick \/ Crash \/ UNCHANGED vars
          => trades' = trades
    BY DEF CreateInverse, NoPosition, MaybeHedge, Anchor, Tick, Crash, vars, tables, Engine
  <2>3. QED
    BY <2>1, <2>2 DEF Next, Pass
<1>5. QED
  BY <1>1, <1>2, <1>3, <1>4

\* CashNeverOverdrawn, for every number of markets, budget and quote: what
\* GetTimeframeStats calls cash never falls below zero.
THEOREM CashNeverNegative == Spec => []CashNeverOverdrawn
<1>1. Init => CashNeverOverdrawn
  <2> SUFFICES ASSUME Init PROVE CashNeverOverdrawn
    OBVIOUS
  <2>1. \A m \in Markets : Won(trades[m]) - Held(trades[m]) = 0
    <3>1. \A m \in Markets : trades[m] = NoTrade
      BY DEF Init
    <3>2. Won(NoTrade) = 0 /\ Held(NoTrade) = 0
      BY DEF NoTrade, Won, Held
    <3>3. QED
      BY <3>1, <3>2
  <2>2. Flows = [m \in Markets |-> 0]
    BY <2>1 DEF Flows
  <2>3. Cash = InitialBalance + 0
    BY <2>2, TotalOfNothing DEF Cash, Flows
  <2>4. QED
    BY <2>3, EngineAssumption DEF CashNeverOverdrawn, EngineAssumption
<1>2. QED
  BY <1>1, EngineStaysSound, CashSound, PTL DEF Spec

-----------------------------------------------------------------------------
(***************************************************************************)
(* Half-settled markets.  A step either fails, and then the market of the  *)
(* pass may be left behind, or it holds, and leaves none.                  *)
(***************************************************************************)
LEMMA ResetLeavesOne ==
  ASSUME EngineIInv, UNCHANGED <<trades, arms, hedges>>
  PROVE  HalfSettled' \subseteq HalfSettled \cup {pass.trade}
  BY DEF HalfSettled

\* The steps that can fail.
LEMMA FaultLeavesOne ==
  ASSUME EngineIInv, [Next]_vars, faults' # faults
  PROVE  faults' = faults + 1 /\ HalfSettled' \subseteq HalfSettled \cup {pass.trade}
<1>1. faults' = faults + 1 /\ UNCHANGED <<trades, arms, hedges>>
  BY DEF Next, Pass, vars, tables, Engine, Fault, Holds, StartPass, Skip, SettleTrade,
         SettleInverse, SettleHedge, NoSignal, Evaluate, NoEntry, Enter, CreateInverse,
         NoPosition, MaybeHedge, Anchor, Tick, Crash
<1>2. QED
  BY <1>1, ResetLeavesOne

\* The steps that hold: outside the market of the pass no row opens under a
\* settled trade, and SettleHedge leaves its market with nothing open.
LEMMA HoldLeavesNone ==
  ASSUME EngineIInv, [Next]_vars, faults' = faults
  PROVE  HalfSettled' \subseteq HalfSettled
<1>1. ~Fault
  BY DEF Fault, EngineIInv, PassSound
<1>2. faults \in Nat /\ \A k \in Markets : k # 0
  BY EngineConstants DEF EngineIInv, PassSound
<1>3. ASSUME UNCHANGED <<trades, arms, hedges>>, pass.trade = 0 \/ pass'.trade = pass.trade
      PROVE  HalfSettled' \subseteq HalfSettled
  BY <1>2, <1>3 DEF HalfSettled
<1>4. CASE StartPass \/ Skip \/ NoSignal \/ Evaluate \/ NoEntry \/ NoPosition
           \/ Anchor \/ Tick \/ UNCHANGED vars
  <2>1. UNCHANGED <<trades, arms, hedges>>
    BY <1>4 DEF StartPass, Skip, NoSignal, Evaluate, NoEntry, NoPosition, Anchor, Tick,
                vars, tables, Engine
  <2>2. pass.trade = 0 \/ pass' = pass
    BY <1>4 DEF StartPass, Skip, NoSignal, Evaluate, NoEntry, NoPosition, Anchor, Tick,
                vars, Engine, EngineIInv, PassSound
  <2>3. QED
    BY <2>1, <2>2, <1>3
<1>5. CASE SettleTrade
  <2> DEFINE m == Min(pass.todo)
  <2>1. /\ \A k \in Markets : k # m => trades'[k] = trades[k]
        /\ UNCHANGED <<arms, hedges>> /\ pass'.trade = m /\ pass.trade = 0
    <3> DEFINE settled == [trades[m] EXCEPT !.status = "SETTLED",
                              !.outcome = OutcomeAt(anchors[m]),
                              !.pnl = Payout(trades[m].side, OutcomeAt(anchors[m]),
                                             trades[m].shares) - trades[m].stake]
    <3>1. /\ trades' = [trades EXCEPT ![m] = settled]
          /\ pass' = [pass EXCEPT !.trade = m] /\ UNCHANGED <<arms, hedges>> /\ pc = "settle"
      BY <1>1, <1>5 DEF SettleTrade
    <3> HIDE DEF settled, m
    <3>2. QED
      BY <3>1 DEF EngineIInv, RowTypes, PassSound
  <2> HIDE DEF m
  <2>2. QED
    BY <1>2, <2>1 DEF HalfSettled
<1>6. CASE SettleInverse
  <2> DEFINE m == pass.trade
             settled == [arms[m] EXCEPT !.status = "SETTLED", !.outcome = trades[m].outcome,
                            !.pnl = Payout(Opposite(trades[m].side), trades[m].outcome,
                                           arms[m].shares) - arms[m].cost]
  <2>1. /\ arms' = arms \/ arms' = [arms EXCEPT ![m] = settled]
        /\ pass' = pass /\ UNCHANGED <<trades, hedges>>
    BY <1>1, <1>6 DEF SettleInverse
  <2> HIDE DEF settled
  <2>2. \A k \in Markets : k # m => arms'[k] = arms[k]
    BY <2>1 DEF EngineIInv, RowTypes
  <2>3. QED
    BY <2>1, <2>2 DEF HalfSettled
<1>7. CASE SettleHedge
  <2> DEFINE m == pass.trade
             t == trades[m]
             pnl == Payout(Opposite(t.side), t.outcome, hedges[m].shares) - hedges[m].cost
             settled == [hedges[m] EXCEPT !.status = "SETTLED", !.outcome = t.outcome,
                                          !.pnl = pnl, !.combined = t.pnl + pnl]
  <2>1. /\ hedges' = IF hedges[m].status # "OPEN" THEN hedges
                     ELSE [hedges EXCEPT ![m] = settled]
        /\ UNCHANGED <<trades, arms>> /\ pc = "hedge"
    BY <1>1, <1>7 DEF SettleHedge
  <2>2. m \in Markets /\ hedges[m] \in Hedges /\ arms[m].status # "OPEN"
    BY <2>1 DEF EngineIInv, RowTypes, PassSound
  <2>3. settled.status # "OPEN"
    BY <2>2 DEF Hedges
  <2> HIDE DEF settled
  <2>4. (\A k \in Markets : k # m => hedges'[k] = hedges[k]) /\ hedges'[m].status # "OPEN"
    BY <2>1, <2>2, <2>3 DEF EngineIInv, RowTypes
  <2>5. QED
    BY <2>1, <2>2, <2>4 DEF HalfSettled
<1>8. CASE Enter
  <2> DEFINE m == pass.market
  <2>1. pc = "open" /\ m \in Markets /\ pass' = pass /\ UNCHANGED <<arms, hedges>>
        /\ pass.trade = 0
    BY <1>8 DEF Enter, EngineIInv, PassSound
  <2>2. PICK q \in Quotes :
           trades' = [trades EXCEPT ![m] =
                         [NoTrade EXCEPT !.status = "OPEN", !.side = pass.decision,
                                         !.shares = q.shares, !.stake = q.cost]]
    BY <1>8 DEF Enter
  <2>3. (\A k \in Markets : k # m => trades'[k] = trades[k]) /\ trades'[m].status = "OPEN"
    BY <2>1, <2>2, EmptyRows DEF EngineIInv, RowTypes, Trades
  <2>4. QED
    BY <2>1, <2>3 DEF HalfSettled
<1>9. CASE CreateInverse \/ MaybeHedge
  <2> DEFINE m == pass.market
  <2>1. /\ m \in Markets /\ trades[m].status = "OPEN" /\ trades' = trades /\ pass.trade = 0
    BY <1>9 DEF CreateInverse, MaybeHedge, EngineIInv, PassSound
  <2>2. \A k \in Markets : k # m => arms'[k] = arms[k] /\ hedges'[k] = hedges[k]
    <3>1. CASE CreateInverse
      BY <3>1 DEF CreateInverse, EngineIInv, RowTypes
    <3>2. CASE MaybeHedge
      BY <3>2 DEF MaybeHedge, EngineIInv, RowTypes
    <3>3. QED
      BY <1>9, <3>1, <3>2
  <2>3. QED
    BY <1>2, <2>1, <2>2 DEF HalfSettled
<1>10. ~Crash
  BY <1>1 DEF Crash
<1>11. QED
  BY <1>4, <1>5, <1>6, <1>7, <1>8, <1>9, <1>10 DEF Next, Pass

\* The count of half-settled markets is one of a finite set.
LEMMA HalfSettledFinite ==
  /\ IsFiniteSet(HalfSettled) /\ Cardinality(HalfSettled) \in Nat
  /\ IsFiniteSet(HalfSettled') /\ Cardinality(HalfSettled') \in Nat
<1>1. IsFiniteSet(Markets)
  BY EngineConstants, FS_Interval DEF Markets
<1>2. HalfSettled \subseteq Markets /\ HalfSettled' \subseteq Markets
  BY DEF HalfSettled
<1>3. IsFiniteSet(HalfSettled) /\ IsFiniteSet(HalfSettled')
  BY <1>1, <1>2, FS_Subset
<1>4. QED
  BY <1>3, FS_CardinalityType

\* HalfSettledNeedsAFault, for any number of markets and faults: each failed
\* statement or crash leaves the rows of at most one market half settled
\* (SettleReady of internal/paper/engine.go).
THEOREM HalfSettledByFaultsOnly == Spec => []HalfSettledNeedsAFault
<1>1. Init => HalfSettledNeedsAFault
  <2> SUFFICES ASSUME Init PROVE HalfSettledNeedsAFault
    OBVIOUS
  <2>1. HalfSettled = {}
    BY DEF Init, HalfSettled, NoTrade
  <2>2. QED
    BY <2>1, FS_EmptySet DEF Init, HalfSettledNeedsAFault
<1>2. EngineIInv /\ HalfSettledNeedsAFault /\ [Next]_vars => HalfSettledNeedsAFault'
  <2> SUFFICES ASSUME EngineIInv, HalfSettledNeedsAFault, [Next]_vars
               PROVE  Cardinality(HalfSettled') <= faults'
    BY DEF HalfSettledNeedsAFault
  <2>1. faults \in Nat /\ Cardinality(HalfSettled) <= faults
    BY DEF EngineIInv, PassSound, HalfSettledNeedsAFault
  <2>2. CASE faults' = faults
    <3>1. Cardinality(HalfSettled') <= Cardinality(HalfSettled)
      BY <2>2, HoldLeavesNone, HalfSettledFinite, FS_Subset
    <3>2. QED
      BY <2>1, <2>2, <3>1, HalfSettledFinite
  <2>3. CASE faults' # faults
    <3> DEFINE more == HalfSettled \cup {pass.trade}
    <3>1. faults' = faults + 1 /\ HalfSettled' \subseteq more
      BY <2>3, FaultLeavesOne
    <3>2. IsFiniteSet(more) /\ Cardinality(more) \in Nat
          /\ Cardinality(more) <= Cardinality(HalfSettled) + 1
      <4>1. /\ IsFiniteSet(more)
            /\ \/ Cardinality(more) = Cardinality(HalfSettled)
               \/ Cardinality(more) = Cardinality(HalfSettled) + 1
        BY HalfSettledFinite, FS_AddElement
      <4>2. QED
        BY <4>1, HalfSettledFinite
    <3> HIDE DEF more
    <3>3. Cardinality(HalfSettled') <= Cardinality(more)
      BY <3>1, <3>2, FS_Subset
    <3>4. QED
      BY <2>1, <3>1, <3>2, <3>3, HalfSettledFinite
  <2>4. QED
    BY <2>2, <2>3
<1>3. QED
  BY <1>1, <1>2, EngineStaysSound, PTL DEF Spec

-----------------------------------------------------------------------------
(***************************************************************************)
(* The real orders: once the kill is stored no order passes the check, so  *)
(* only the one then under way can still go out; and the two buttons that  *)
(* make it real and kill it are two presses.                               *)
(***************************************************************************)
OrdersIInv ==
    /\ {live, killReq, killing, failed} \subseteq BOOLEAN
    /\ order \in [at : {"idle", "flag", "send"}, dry : BOOLEAN]
    /\ presses \in Nat /\ slipped \in {0, 1}
    /\ slipped = 1 => /\ killReq /\ order.at = "idle"
                      /\ execMode # "shadow" /\ (execMode = "live" \/ presses >= 2)
    /\ order.at # "idle" => execMode # "shadow"
    /\ (live \/ ~order.dry) => (execMode = "live" \/ presses >= 1)
    /\ (killing \/ killReq) => presses >= 1
    /\ ((live \/ ~order.dry) /\ (killing \/ killReq)) => (execMode = "live" \/ presses >= 2)

LEMMA OneOrderMore ==
  ASSUME NEW count \in Nat PROVE OneMore(count) \in {count, count + 1}
  BY DEF OneMore

LEMMA OrdersStepSound == OrdersIInv /\ [OrdersNext]_orderVars => OrdersIInv'
<1> SUFFICES ASSUME OrdersIInv, [OrdersNext]_orderVars PROVE OrdersIInv'
  OBVIOUS
<1> USE DEF OrdersIInv, buttons, Order
<1>1. CASE PlaceLiveDirection
  <2>1. CASE execMode = "shadow" \/ killReq
    BY <1>1, <2>1 DEF PlaceLiveDirection
  <2>2. CASE ~(execMode = "shadow" \/ killReq)
    BY <1>1, <2>2 DEF PlaceLiveDirection
  <2>3. QED
    BY <2>1, <2>2
<1>2. CASE ReadFlag
  <2>1. order'.at = "send" /\ order'.dry = ~live /\ order.at = "flag"
        /\ UNCHANGED <<execMode, buttons, failed, slipped>>
    BY <1>2 DEF ReadFlag
  <2>2. order' \in [at : {"idle", "flag", "send"}, dry : BOOLEAN]
    BY <1>2, Zenon DEF ReadFlag
  <2>3. live' = live /\ slipped = 0
    BY <2>1
  <2>4. QED
    BY <2>1, <2>2, <2>3
<1>3. CASE Send
  <2>1. /\ order' = [at |-> "idle", dry |-> TRUE]
        /\ UNCHANGED <<execMode, live, killReq, killing, presses>>
        /\ failed' \in BOOLEAN /\ order.at = "send"
    BY <1>3 DEF Send
  <2>2. CASE slipped' = slipped
    BY <2>1, <2>2
  <2>3. CASE slipped' # slipped
    <3>1. ~order.dry /\ killReq /\ slipped' = OneMore(slipped) /\ slipped = 0
      BY <1>3, <2>3 DEF Send
    <3>2. slipped' = 1
      BY <2>3, <3>1, OneOrderMore
    <3>3. QED
      BY <2>1, <3>1, <3>2
  <2>4. QED
    BY <2>2, <2>3
<1>4. CASE SetLive
  <2>1. live' \in BOOLEAN /\ presses' = presses + 1 /\ execMode # "shadow"
        /\ UNCHANGED <<execMode, order, failed, slipped, killReq, killing>>
    BY <1>4 DEF SetLive, Press
  <2>2. QED
    BY <2>1
<1>5. CASE RequestKill
  <2>1. live' = FALSE /\ killing' = TRUE /\ presses' = presses + 1 /\ ~killing
        /\ UNCHANGED <<execMode, order, failed, slipped, killReq>>
    BY <1>5 DEF RequestKill, Press
  <2>2. {live', killReq', killing', failed'} \subseteq BOOLEAN
    BY <2>1
  <2>3. order' \in [at : {"idle", "flag", "send"}, dry : BOOLEAN]
    BY <2>1
  <2>4. presses' \in Nat /\ presses' >= 1
    BY <2>1
  <2>5. ~order.dry => execMode = "live" \/ presses' >= 2
    BY <2>1
  <2>6. QED
    BY <2>1, <2>2, <2>3, <2>4, <2>5
<1>6. CASE StoreKill
  BY <1>6 DEF StoreKill
<1>7. CASE UNCHANGED orderVars
  BY <1>7 DEF orderVars
<1>8. QED
  BY <1>1, <1>2, <1>3, <1>4, <1>5, <1>6, <1>7 DEF OrdersNext

\* OneOrderSlipsPastKill, for any number of orders and presses: after a kill at
\* most the one order that had passed the check still goes out, and only in live
\* mode or after the panel switched to it (placeLiveDirection and RequestKill of
\* internal/paper/engine.go).
THEOREM OneOrderAfterKill == OrdersSpec => []OneOrderSlipsPastKill
<1>1. OrdersInit => OrdersIInv
  <2> SUFFICES ASSUME OrdersInit PROVE OrdersIInv
    OBVIOUS
  <2>1. {live, killReq, killing, failed} \subseteq BOOLEAN /\ (live => execMode = "live")
    BY DEF OrdersInit
  <2>2. /\ order \in [at : {"idle", "flag", "send"}, dry : BOOLEAN]
        /\ order.at = "idle" /\ order.dry /\ ~killReq /\ ~killing
        /\ presses = 0 /\ slipped = 0
    BY DEF OrdersInit
  <2>3. QED
    BY <2>1, <2>2 DEF OrdersIInv
<1>2. OrdersIInv /\ [OrdersNext]_orderVars => OrdersIInv'
  BY OrdersStepSound
<1>3. OrdersIInv => OneOrderSlipsPastKill
  BY DEF OrdersIInv, OneOrderSlipsPastKill
<1>4. QED
  BY <1>1, <1>2, <1>3, PTL DEF OrdersSpec

=============================================================================
