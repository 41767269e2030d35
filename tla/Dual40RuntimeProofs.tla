-------------------------- MODULE Dual40RuntimeProofs --------------------------
(***************************************************************************)
(* What the Dual40 executor keeps of its orders, boxes and rows, for every *)
(* number of windows, markets, buttons pressed, failures and crashes.      *)
(*                                                                         *)
(* The inductive invariant says where the observer may rely on what: which *)
(* places of a tick have a box, of which market, with which ids            *)
(* (MemorySound); that nothing is left to cancel when a box is dropped     *)
(* (OrdersSound); which market has used up its one entry (BoxesCounted);   *)
(* that an order posted late is charged to one switch (LateCounted); and   *)
(* which rows cannot have a verdict yet (RowsSound).  Each of them has one *)
(* lemma, which goes through the actions.                                  *)
(***************************************************************************)
EXTENDS Dual40Runtime, FiniteSetTheorems, TLAPS

\* The places of a tick, by what the observer is doing with the box.
Opening == {"place", "posting", "insert"}
Hedging == {"hedge", "hedgeplace", "hedgepost"}
Leaving == {"cancel", "drop"}

\* The observer is past the roll: the market on is the one it works on.
InMarket == /\ pc \notin {"idle", "roll"}
            /\ pc \in Leaving => why = "closed"

\* Without a process nothing is in memory; a box in memory was posted, in the
\* market entered, under ids its legs got one after the other.
MemorySound ==
    /\ ~up => /\ pc = "idle" /\ box = NoBox /\ slug = 0
              /\ ~live /\ ~killReq /\ button = "idle"
    /\ box = NoBox \/ (box.n >= 1 /\ box.sec >= 1 /\ slug >= 1)
    /\ InMarket => slug = market
    /\ pc \in Leaving /\ why = "roll" => slug # market
    /\ pc \in Opening => box # NoBox /\ ~entered /\ box.sec \in evaluated
    /\ pc \in Hedging \cup Leaving => box # NoBox
    /\ pc \notin Opening /\ ~entered => box = NoBox
    /\ pc \in {"place", "posting"} => /\ box.id[leg] = "none"
                                      /\ leg = "UP" => box.id["DOWN"] = "none"

\* Nothing followed rests any more when both legs have been cancelled.
OrdersSound ==
    /\ OrdersAreTracked
    /\ pc = "drop" => resting \subseteq excused
    /\ pc = "cancel" /\ leg = "DOWN" => \A o \in resting \ excused : o[2] = "DOWN"

\* The market has had its box: it is over, or entered, or being entered.
Taken(m) == m < slug \/ (m = slug /\ (entered \/ pc \in Opening))

BoxesOf(m) == {n \in 1..Len(boxes) : boxes[n] = m}
Allowed(m) == (IF Taken(m) THEN 1 ELSE 0) + (dropped + faults.crashes)
BoxesCounted == \A m \in 1..MaxMarkets : Cardinality(BoxesOf(m)) <= Allowed(m)

\* A live order is on its way and live mode is off already: the switch that
\* turned it off has let no other order through.
OnItsWay == pc \in {"posting", "hedgepost"} /\ ~dry /\ ~live
LateCounted == late <= offs /\ (OnItsWay => late < offs)

\* Buttons and failures are behind what the history counts.
Within(f) == /\ f \in [presses : 0..MaxPresses, errors : 0..MaxFaults, crashes : 0..MaxFaults]
             /\ f.errors + f.crashes <= MaxFaults
FaultsCounted == /\ Within(faults)
                 /\ offs <= faults.presses
                 /\ dropped <= faults.errors
                 /\ ~up => faults.crashes # 0

\* But for the markets that a crash cut, a window not looked at yet has no row,
\* and the row of the box in memory is open until its verdict is stored.
Fresh(k) == /\ k[1] \notin cut
            /\ \/ k[1] > slug /\ k[1] >= market
               \/ k[1] = slug /\ k[2] \notin evaluated
               \/ pc \in Opening /\ k = OwnKey
Followed == box # NoBox /\ pc \notin Opening /\ ~(pc \in Leaving /\ why = "closed")
RowsSound == /\ \A k \in Keys : Fresh(k) => rows[k].state = "none"
             /\ Followed /\ slug \notin cut => rows[OwnKey].state = "open"

Dual40IInv == /\ TypeOK /\ MemorySound /\ OrdersSound /\ BoxesCounted
              /\ LateCounted /\ FaultsCounted /\ RowsSound

-----------------------------------------------------------------------------
\* The counts of buttons and failures.

LEMMA PressedOnce ==
  ASSUME NEW f, Within(f), f.presses < MaxPresses,
         NEW g, g = [f EXCEPT !.presses = @ + 1]
  PROVE  /\ Within(g) /\ g.presses = f.presses + 1 /\ f.presses <= g.presses
         /\ g.errors = f.errors /\ g.crashes = f.crashes
  BY Dual40Assumption DEF Within, Dual40Assumption

LEMMA FailedOnce ==
  ASSUME NEW f, Within(f), f.errors + f.crashes < MaxFaults,
         NEW kind \in {"errors", "crashes"},
         NEW g, g = [f EXCEPT ![kind] = @ + 1]
  PROVE  /\ Within(g) /\ g.presses = f.presses
         /\ kind = "errors" => g.errors = f.errors + 1 /\ g.crashes = f.crashes
         /\ kind = "crashes" => g.errors = f.errors /\ g.crashes = f.crashes + 1
         /\ f.errors <= g.errors /\ f.crashes <= g.crashes
<1>1. /\ f.errors \in 0..MaxFaults /\ f.crashes \in 0..MaxFaults /\ f.presses \in 0..MaxPresses
      /\ MaxFaults \in Nat
  BY Dual40Assumption DEF Within, Dual40Assumption
<1>2. f.errors + 1 \in 0..MaxFaults /\ f.crashes + 1 \in 0..MaxFaults
  BY <1>1
<1>3. QED
  BY <1>1, <1>2 DEF Within

\* A statement that fails, or works, leaves the other counts.
Steady == /\ Within(faults')
          /\ faults'.presses = faults.presses
          /\ faults'.crashes = faults.crashes
          /\ faults.errors <= faults'.errors

LEMMA FailsOrWorks ==
  ASSUME FaultsCounted, Works \/ Fails
  PROVE  Steady
<1>1. Within(faults)
  BY DEF FaultsCounted
<1>2. /\ faults.errors \in Int /\ faults.crashes \in Int
  BY <1>1 DEF Within
<1>3. CASE Works
  BY <1>1, <1>2, <1>3 DEF Works, Steady
<1>4. CASE Fails
  <2>1. faults.errors + faults.crashes < MaxFaults /\ faults' = [faults EXCEPT !["errors"] = @ + 1]
    BY <1>4 DEF Fails, Fault
  <2>2. QED
    BY <2>1, <1>1, <1>2, FailedOnce DEF Steady
<1>5. QED
  BY <1>3, <1>4

\* Only buttons and crashes count anything else.
LEMMA TicksAreSteady ==
  ASSUME FaultsCounted, Tick \/ Fill \/ StoreKill \/ Restart \/ Outage
  PROVE  Steady
<1>1. CASE \/ CancelLeg \/ DropKilled \/ DropRolled \/ CloseBox \/ HedgeCancel \/ HedgePost
           \/ InsertBox \/ InsertBoxFails
  <2>1. Works \/ Fails
    BY <1>1 DEF CancelLeg, CancelOrder, DropKilled, DropRolled, CloseBox, HedgeCancel, HedgePost,
                InsertBox, InsertBoxFails, InsertOK, InsertFails, Store
  <2>2. QED
    BY <2>1, FailsOrWorks
<1>2. ASSUME NEW w \in 1..Windows, SkipWindow(w) PROVE Steady
  <2>1. Works \/ Fails
    BY <1>2 DEF SkipWindow, InsertOK, InsertFails
  <2>2. QED
    BY <2>1, FailsOrWorks
<1>3. ASSUME NEW answered \in BOOLEAN, PostLive(answered) PROVE Steady
  <2>1. Works \/ Fails
    BY <1>3 DEF PostLive
  <2>2. QED
    BY <2>1, FailsOrWorks
<1>4. CASE \/ Fill \/ StoreKill \/ Restart \/ Outage
           \/ BeginTick \/ SameMarket \/ RollEmpty \/ RollBox \/ KeepBox \/ HedgeBox
           \/ HedgePlace \/ DropClosed \/ WindowsDone \/ Place \/ PostDry \/ PostRefused
           \/ \E w \in 1..Windows : PassWindow(w) \/ PostBox(w)
  <2>1. Works
    BY <1>4 DEF Fill, StoreKill, Restart, Outage, BeginTick, SameMarket, RollEmpty, RollBox, KeepBox,
                HedgeBox, HedgePlace, DropClosed, WindowsDone, Place, PostDry, PostRefused,
                PassWindow, PostBox, ReadMode, Works
  <2>2. QED
    BY <2>1, FailsOrWorks
<1>5. QED
  BY <1>1, <1>2, <1>3, <1>4 DEF Tick

LEMMA FaultsKept ==
  ASSUME TypeOK, FaultsCounted, [Next]_vars
  PROVE  FaultsCounted'
<1>1. Within(faults) /\ faults.presses \in Int /\ faults.errors \in Int /\ faults.crashes \in Int
  BY DEF FaultsCounted, Within
<1>2. offs \in Int /\ dropped \in Int
  BY DEF TypeOK
<1>3. ASSUME \/ RequestKill
             \/ \E v \in BOOLEAN : SetLive(v)
      PROVE  FaultsCounted'
  <2>1. faults.presses < MaxPresses /\ faults' = [faults EXCEPT !.presses = @ + 1]
    BY <1>3 DEF RequestKill, SetLive, Press
  <2>2. /\ Within(faults') /\ faults'.presses = faults.presses + 1
        /\ faults'.errors = faults.errors /\ faults'.crashes = faults.crashes
    BY <1>1, <2>1, PressedOnce
  <2>3. (offs' = offs \/ offs' = offs + 1) /\ dropped' = dropped /\ up' = up
    BY <1>3 DEF RequestKill, SetLive, Switch
  <2>4. offs' <= faults'.presses
    BY <1>1, <1>2, <2>2, <2>3 DEF FaultsCounted
  <2>5. QED
    BY <2>2, <2>3, <2>4 DEF FaultsCounted
<1>4. ASSUME Crash PROVE FaultsCounted'
  <2>1. faults.errors + faults.crashes < MaxFaults /\ faults' = [faults EXCEPT !["crashes"] = @ + 1]
    BY <1>4 DEF Crash, Fault
  <2>2. /\ Within(faults') /\ faults'.presses = faults.presses
        /\ faults'.errors = faults.errors /\ faults'.crashes = faults.crashes + 1
    BY <1>1, <2>1, FailedOnce
  <2>3. offs' = offs /\ dropped' = dropped
    BY <1>4 DEF Crash
  <2>4. faults.crashes \in Nat
    BY <1>1 DEF Within
  <2>5. QED
    BY <2>2, <2>3, <2>4 DEF FaultsCounted
<1>5. ASSUME InsertBoxFails PROVE FaultsCounted'
  <2>1. faults.errors + faults.crashes < MaxFaults /\ faults' = [faults EXCEPT !["errors"] = @ + 1]
    BY <1>5 DEF InsertBoxFails, InsertFails, Fails, Fault
  <2>2. /\ Within(faults') /\ faults'.presses = faults.presses
        /\ faults'.errors = faults.errors + 1 /\ faults'.crashes = faults.crashes
    BY <1>1, <2>1, FailedOnce
  <2>3. offs' = offs /\ dropped' = dropped + 1 /\ up' = up
    BY <1>5 DEF InsertBoxFails
  <2>4. dropped' <= faults'.errors
    BY <1>1, <1>2, <2>2, <2>3 DEF FaultsCounted
  <2>5. QED
    BY <2>2, <2>3, <2>4 DEF FaultsCounted
<1>6. ASSUME Steady, offs' = offs, dropped' = dropped, up' = up \/ up' = TRUE PROVE FaultsCounted'
  <2>1. faults'.errors \in Int
    BY <1>6 DEF Steady, Within
  <2>2. dropped <= faults'.errors
    BY <1>6, <1>1, <1>2, <2>1 DEF Steady, FaultsCounted
  <2>3. QED
    BY <1>6, <2>2 DEF Steady, FaultsCounted
<1>7. ASSUME Fill \/ StoreKill \/ Restart \/ Outage \/ (Tick /\ ~InsertBoxFails) PROVE FaultsCounted'
  <2>1. offs' = offs /\ dropped' = dropped /\ (up' = up \/ up' = TRUE)
    BY <1>7 DEF Fill, StoreKill, Restart, Outage, Tick, BeginTick, CancelLeg, DropKilled, SameMarket,
                RollEmpty, RollBox, DropRolled, KeepBox, CloseBox, HedgeBox, HedgeCancel,
                HedgePlace, HedgePost, DropClosed, WindowsDone, PassWindow, SkipWindow, PostBox,
                Place, PostDry, PostRefused, PostLive, InsertBox, ReadMode, history
  <2>2. QED
    BY <1>6, <1>7, <2>1, TicksAreSteady
<1>8. CASE UNCHANGED vars
  BY <1>8 DEF vars, history, FaultsCounted
<1>9. QED
  BY <1>3, <1>4, <1>5, <1>7, <1>8 DEF Next

-----------------------------------------------------------------------------
\* Types.

\* TypeOK in four parts.
PlacesTyped ==
    /\ market \in 1..MaxMarkets /\ due \in 0..Windows /\ dark \in BOOLEAN
    /\ live \in BOOLEAN /\ killReq \in BOOLEAN /\ button \in {"idle", "kill"}
    /\ up \in BOOLEAN /\ pc \in Places
    /\ slug \in 0..market
    /\ evaluated \subseteq 1..Windows /\ entered \in BOOLEAN
    /\ leg \in Sides /\ dry \in BOOLEAN /\ why \in {"kill", "roll", "closed"}
BoxIds == [Sides -> {"none", "dry", "live"}]
OrdersTyped ==
    /\ boxes \in Seq(1..MaxMarkets)
    /\ box \in [n : 0..Len(boxes), sec : 0..Windows, id : BoxIds]
    /\ resting \subseteq (1..Len(boxes)) \X Sides
    /\ excused \subseteq resting
Rows == [state : RowStates, payload : RowStates, id : BOOLEAN]
CountsTyped == /\ late \in Nat /\ offs \in 0..MaxPresses /\ dropped \in 0..MaxFaults
               /\ cut \subseteq 1..MaxMarkets

LEMMA TypeParts == TypeOK <=> /\ PlacesTyped /\ OrdersTyped /\ CountsTyped
                              /\ rows \in [Keys -> Rows]
                              /\ faults \in [presses : 0..MaxPresses, errors : 0..MaxFaults,
                                             crashes : 0..MaxFaults]
  BY DEF TypeOK, PlacesTyped, OrdersTyped, CountsTyped, BoxIds, Rows

LEMMA PlacesKept ==
  ASSUME PlacesTyped, [Next]_vars
  PROVE  PlacesTyped'
<1> USE Dual40Assumption DEF Dual40Assumption, PlacesTyped, Places, Sides, Goto, world, buttons, roll,
        sending, StartCancelling, StartSending, SendNothing
<1>0. market \in Nat /\ market \in 0..market /\ 0 \in 0..market
  OBVIOUS
<1>m. ASSUME UNCHANGED <<market, due, dark, live, killReq, button, up, slug, evaluated, entered>>,
             pc' \in Places, leg' \in Sides, dry' \in BOOLEAN, why' \in {"kill", "roll", "closed"}
      PROVE  PlacesTyped'
  BY <1>m
<1>13. CASE Outage
  BY <1>13 DEF Outage
<1>1. CASE RequestKill \/ StoreKill \/ Fill \/ \E v \in BOOLEAN : SetLive(v)
  <2>1. live' \in BOOLEAN /\ killReq' \in BOOLEAN /\ button' \in {"idle", "kill"}
    BY <1>1 DEF RequestKill, StoreKill, Fill, SetLive, Switch
  <2>2. UNCHANGED <<world, up, pc, roll, sending>>
    BY <1>1 DEF RequestKill, StoreKill, Fill, SetLive
  <2>3. QED
    BY <2>1, <2>2
<1>2. ASSUME UNCHANGED <<live, button, up, roll>>, TimePasses, killReq' \in BOOLEAN,
             \/ StartCancelling("kill")
             \/ Goto("roll") /\ UNCHANGED sending
      PROVE  PlacesTyped'
  <2>1. /\ market' \in 1..MaxMarkets /\ due' \in 0..Windows /\ market <= market'
        /\ dark' \in BOOLEAN
    BY <1>2 DEF TimePasses
  <2>2. slug' \in 0..market'
    BY <1>2, <2>1
  <2>3. QED
    BY <1>2, <2>1, <2>2
<1>3. CASE CancelLeg \/ DropKilled \/ SameMarket \/ RollBox \/ KeepBox \/ CloseBox
  <2>1. CASE CancelLeg
    BY <2>1 DEF CancelLeg
  <2>2. CASE DropKilled \/ SameMarket
    <3>1. CASE DropKilled
      BY <3>1, <1>m DEF DropKilled
    <3>2. CASE SameMarket
      BY <3>2, <1>m DEF SameMarket, FetchBooks
    <3>3. QED
      BY <2>2, <3>1, <3>2
  <2>3. CASE RollBox
    BY <2>3 DEF RollBox
  <2>4. CASE KeepBox \/ CloseBox
    BY <2>4 DEF KeepBox, CloseBox
  <2>5. QED
    BY <1>3, <2>1, <2>2, <2>3, <2>4
<1>4. ASSUME UNCHANGED <<world, buttons, up>>, UNCHANGED roll \/ NewMarket,
             SendNothing \/ UNCHANGED sending, FetchBooks
      PROVE  PlacesTyped'
  <2>1. slug' \in 0..market'
    <3>1. market' = market /\ (slug' = slug \/ slug' = market)
      BY <1>4 DEF NewMarket
    <3>2. QED
      BY <3>1, <1>0
  <2>2. evaluated' \subseteq 1..Windows /\ entered' \in BOOLEAN
    BY <1>4 DEF NewMarket
  <2>3. QED
    BY <1>4, <2>1, <2>2 DEF FetchBooks
<1>10. CASE BeginTick
  BY <1>10, <1>2 DEF BeginTick
<1>11. CASE RollEmpty \/ DropRolled
  BY <1>11, <1>4 DEF RollEmpty, DropRolled
<1>12. CASE Crash \/ Restart
  <2>1. slug' \in 0..market' /\ UNCHANGED world
    BY <1>0, <1>12 DEF Crash, Restart
  <2>2. /\ live' \in BOOLEAN /\ killReq' \in BOOLEAN /\ button' \in {"idle", "kill"}
        /\ up' \in BOOLEAN /\ pc' \in Places
        /\ evaluated' \subseteq 1..Windows /\ entered' \in BOOLEAN
        /\ leg' \in Sides /\ dry' \in BOOLEAN /\ why' \in {"kill", "roll", "closed"}
    <3>1. CASE Crash
      BY <3>1 DEF Crash
    <3>2. CASE Restart
      BY <3>2 DEF Restart
    <3>3. QED
      BY <1>12, <3>1, <3>2
  <2>3. QED
    BY <2>1, <2>2
<1>5. CASE HedgeBox \/ HedgeCancel \/ HedgePlace \/ HedgePost \/ DropClosed \/ WindowsDone
  <2>1. CASE HedgeBox
    BY <2>1, <1>m DEF HedgeBox
  <2>2. CASE HedgeCancel
    BY <2>2, <1>m DEF HedgeCancel
  <2>3. CASE HedgePlace
    BY <2>3, <1>m DEF HedgePlace, ReadMode
  <2>4. CASE HedgePost
    BY <2>4, <1>m DEF HedgePost
  <2>5. CASE DropClosed
    BY <2>5, <1>m DEF DropClosed
  <2>6. CASE WindowsDone
    BY <2>6, <1>m DEF WindowsDone
  <2>7. QED
    BY ONLY <1>5, <2>1, <2>2, <2>3, <2>4, <2>5, <2>6
<1>6. ASSUME NEW w \in 1..Windows, PassWindow(w) \/ SkipWindow(w) \/ PostBox(w)
      PROVE  PlacesTyped'
  <2>1. CASE PassWindow(w)
    BY <1>6, <2>1 DEF PassWindow, Evaluate
  <2>2. CASE SkipWindow(w)
    BY <1>6, <2>2 DEF SkipWindow, Evaluate
  <2>3. CASE PostBox(w)
    BY <1>6, <2>3 DEF PostBox, Evaluate
  <2>4. QED
    BY ONLY <1>6, <2>1, <2>2, <2>3
<1>7. CASE Place \/ PostDry \/ PostRefused \/ InsertBox \/ InsertBoxFails
           \/ \E answered \in BOOLEAN : PostLive(answered)
  <2>1. CASE Place
    BY <2>1 DEF Place, ReadMode
  <2>2. CASE PostDry
    BY <2>2 DEF PostDry, AfterLeg
  <2>3. CASE PostRefused
    BY <2>3 DEF PostRefused, AfterLeg
  <2>4. CASE \E answered \in BOOLEAN : PostLive(answered)
    BY <2>4 DEF PostLive, AfterLeg
  <2>5. CASE InsertBox \/ InsertBoxFails
    <3>1. CASE InsertBox
      BY <3>1 DEF InsertBox
    <3>2. CASE InsertBoxFails
      BY <3>2, <1>m DEF InsertBoxFails
    <3>3. QED
      BY ONLY <2>5, <3>1, <3>2
  <2>6. QED
    BY <1>7, <2>1, <2>2, <2>3, <2>4, <2>5
<1>8. CASE UNCHANGED vars
  BY <1>8 DEF vars
<1>9. QED
  BY <1>1, <1>3, <1>5, <1>6, <1>7, <1>8, <1>10, <1>11, <1>12, <1>13 DEF Next, Tick

\* A leg of a box gets an id.
LEMMA LegGetsId ==
  ASSUME NEW b, NEW N, b \in [n : 0..N, sec : 0..Windows, id : BoxIds],
         NEW s \in Sides, NEW v \in {"dry", "live"},
         NEW c, c = [b EXCEPT !.id[s] = v]
  PROVE  /\ c \in [n : 0..N, sec : 0..Windows, id : BoxIds]
         /\ c.n = b.n /\ c.sec = b.sec /\ c.id[s] = v
         /\ \A r \in Sides \ {s} : c.id[r] = b.id[r]
  BY DEF BoxIds

LEMMA OrdersKept ==
  ASSUME PlacesTyped, OrdersTyped, MemorySound, [Next]_vars
  PROVE  OrdersTyped'
<1>1. boxes \in Seq(1..MaxMarkets) /\ Len(boxes) \in Nat
  BY DEF OrdersTyped
<1>2. leg \in Sides /\ market \in 1..MaxMarkets /\ NoBox.id \in BoxIds
  BY DEF PlacesTyped, NoBox, BoxIds, Sides
<1>3. NoBox \in [n : 0..Len(boxes), sec : 0..Windows, id : BoxIds]
  BY <1>1, <1>2, Dual40Assumption DEF NoBox, Dual40Assumption
<1>4. ASSUME boxes' = boxes, box' = box \/ box' = NoBox, resting' \subseteq resting,
             excused' \subseteq resting'
      PROVE  OrdersTyped'
  BY <1>3, <1>4 DEF OrdersTyped
<1>5. ASSUME pc = "posting" \/ box # NoBox PROVE Order(leg) \in (1..Len(boxes)) \X Sides
  BY <1>5, <1>1, <1>2 DEF MemorySound, Opening, OrdersTyped, Order
<1>6. ASSUME Crash PROVE OrdersTyped'
  <2>1. boxes' = boxes /\ box' = NoBox /\ excused' = resting'
    BY <1>6 DEF Crash
  <2>2. CASE resting' = resting
    BY <2>1, <2>2, <1>4
  <2>3. CASE pc = "posting" /\ resting' = resting \cup {Order(leg)}
    BY <2>1, <2>3, <1>3, <1>5 DEF OrdersTyped
  <2>4. QED
    BY <1>6, <2>2, <2>3 DEF Crash
<1>7. ASSUME CancelOrder, UNCHANGED <<box, boxes>> PROVE OrdersTyped'
  <2>1. resting' \subseteq resting /\ excused' \subseteq resting'
    BY <1>7 DEF CancelOrder, OrdersTyped
  <2>2. QED
    BY <1>7, <2>1, <1>4
<1>8. ASSUME NEW w \in 1..Windows, PostBox(w) PROVE OrdersTyped'
  <2>1. /\ boxes' = Append(boxes, market) /\ UNCHANGED <<resting, excused>>
        /\ box' = [n |-> Len(boxes) + 1, sec |-> w, id |-> [s \in Sides |-> "none"]]
    BY <1>8 DEF PostBox
  <2>2. boxes' \in Seq(1..MaxMarkets) /\ Len(boxes') = Len(boxes) + 1
    BY <2>1, <1>1, <1>2
  <2>3. [s \in Sides |-> "none"] \in BoxIds /\ w \in 0..Windows
    BY Dual40Assumption DEF BoxIds, Dual40Assumption
  <2>4. box' \in [n : 0..Len(boxes'), sec : 0..Windows, id : BoxIds]
    BY <2>1, <2>2, <2>3, <1>1
  <2>5. 1..Len(boxes) \subseteq 1..Len(boxes')
    BY <2>2, <1>1
  <2>6. resting' \subseteq (1..Len(boxes')) \X Sides
    BY <2>1, <2>5 DEF OrdersTyped
  <2>7. QED
    BY <2>1, <2>2, <2>4, <2>6 DEF OrdersTyped
<1>9. ASSUME PostDry PROVE OrdersTyped'
  <2>1. box' = [box EXCEPT !.id[leg] = "dry"] /\ UNCHANGED <<boxes, resting, excused>>
    BY <1>9 DEF PostDry, history
  <2>2. box' \in [n : 0..Len(boxes), sec : 0..Windows, id : BoxIds]
    BY <2>1, <1>2, LegGetsId DEF OrdersTyped
  <2>3. QED
    BY <2>1, <2>2 DEF OrdersTyped
<1>10. ASSUME NEW answered \in BOOLEAN, PostLive(answered) PROVE OrdersTyped'
  <2>1. /\ pc = "posting" /\ resting' = resting \cup {Order(leg)} /\ boxes' = boxes
        /\ excused' = excused \/ excused' = excused \cup {Order(leg)}
    BY <1>10 DEF PostLive
  <2>2. box' = box \/ box' = [box EXCEPT !.id[leg] = "live"]
    BY <1>10 DEF PostLive
  <2>3. box' \in [n : 0..Len(boxes), sec : 0..Windows, id : BoxIds]
    BY <2>2, <1>2, LegGetsId DEF OrdersTyped
  <2>4. resting' \subseteq (1..Len(boxes)) \X Sides
    BY <2>1, <1>5 DEF OrdersTyped
  <2>5. excused' \subseteq resting'
    BY <2>1 DEF OrdersTyped
  <2>6. QED
    BY <2>1, <2>3, <2>4, <2>5 DEF OrdersTyped
<1>11. ASSUME InsertBoxFails PROVE OrdersTyped'
  <2>1. boxes' = boxes /\ box' = NoBox /\ resting' = resting /\ excused' \subseteq resting
    BY <1>11 DEF InsertBoxFails, OrdersOf, OrdersTyped
  <2>2. QED
    BY <2>1, <1>4
<1>12. ASSUME \/ Fill \/ RequestKill \/ StoreKill \/ Restart \/ Outage \/ UNCHANGED vars
              \/ \E v \in BOOLEAN : SetLive(v)
              \/ BeginTick \/ DropKilled \/ SameMarket \/ RollEmpty \/ RollBox \/ DropRolled
              \/ KeepBox \/ CloseBox \/ HedgeBox \/ HedgePlace \/ HedgePost \/ DropClosed
              \/ WindowsDone \/ Place \/ PostRefused \/ InsertBox
              \/ \E w \in 1..Windows : PassWindow(w) \/ SkipWindow(w)
       PROVE  OrdersTyped'
  <2>1. /\ boxes' = boxes /\ (box' = box \/ box' = NoBox)
        /\ excused' = excused /\ (resting' = resting \/ \E o \in resting \ excused : resting' = resting \ {o})
    BY <1>12 DEF Fill, RequestKill, StoreKill, Restart, Outage, vars, SetLive, BeginTick, DropKilled, SameMarket,
                 RollEmpty, RollBox, DropRolled, KeepBox, CloseBox, HedgeBox, HedgePlace, HedgePost,
                 DropClosed, WindowsDone, Place, PostRefused, InsertBox, PassWindow, SkipWindow,
                 ReadMode, history
  <2>2. QED
    BY <2>1, <1>4 DEF OrdersTyped
<1>13. ASSUME CancelLeg \/ HedgeCancel PROVE OrdersTyped'
  BY <1>13, <1>7 DEF CancelLeg, HedgeCancel
<1>14. QED
  BY <1>6, <1>8, <1>9, <1>10, <1>11, <1>12, <1>13 DEF Next, Tick

\* What a statement does to the rows: only its own row changes, and a row
\* that is there keeps its state unless it is updated.
OnlyRow(k) == /\ rows' \in [Keys -> Rows]
              /\ \A j \in Keys \ {k} : rows'[j] = rows[j]

LEMMA RowReplaced ==
  ASSUME NEW r \in [Keys -> Rows], NEW k \in Keys, NEW row \in Rows,
         NEW q, q = [r EXCEPT ![k] = row]
  PROVE  /\ q \in [Keys -> Rows] /\ q[k] = row
         /\ \A j \in Keys \ {k} : q[j] = r[j]
  OBVIOUS

LEMMA RowStored ==
  ASSUME rows \in [Keys -> Rows], NEW k \in Keys, NEW v \in RowStates, Store(k, v)
  PROVE  OnlyRow(k) /\ rows'[k].state \in {rows[k].state, v}
<1>1. CASE UNCHANGED rows
  BY <1>1 DEF OnlyRow
<1>2. CASE rows' = [rows EXCEPT ![k].state = v, ![k].payload = v, ![k].id = TRUE]
  <2> DEFINE r1 == [rows EXCEPT ![k].state = v]
             r2 == [r1 EXCEPT ![k].payload = v]
  <2>1. rows[k] \in Rows
    OBVIOUS
  <2>2. r1 \in [Keys -> Rows] /\ r1[k].state = v /\ \A j \in Keys \ {k} : r1[j] = rows[j]
    BY <2>1 DEF Rows
  <2>3. r2 \in [Keys -> Rows] /\ r2[k].state = v /\ \A j \in Keys \ {k} : r2[j] = rows[j]
    <3>1. r1[k] \in Rows
      BY <2>2
    <3> HIDE DEF r1
    <3>2. QED
      BY <2>2, <3>1 DEF Rows
  <2>4. rows' = [r2 EXCEPT ![k].id = TRUE]
    BY <1>2
  <2>5. /\ rows' \in [Keys -> Rows] /\ rows'[k].state = v
        /\ \A j \in Keys \ {k} : rows'[j] = rows[j]
    <3>1. r2[k] \in Rows
      BY <2>3
    <3> HIDE DEF r2
    <3>2. QED
      BY <2>3, <2>4, <3>1 DEF Rows
  <2>6. QED
    BY <2>5 DEF OnlyRow
<1>3. QED
  BY <1>1, <1>2 DEF Store

LEMMA RowInserted ==
  ASSUME rows \in [Keys -> Rows], NEW k \in Keys, NEW v \in RowStates,
         InsertOK(k, v) \/ InsertFails(k, v)
  PROVE  /\ OnlyRow(k)
         /\ rows'[k].state = rows[k].state \/ (rows[k].state = "none" /\ rows'[k].state = v)
<1> DEFINE row == [Inserted(k, v) EXCEPT !.payload = v, !.id = TRUE]
<1>1. Inserted(k, v) \in Rows
  BY DEF Inserted, Rows
<1>2. Inserted(k, v).state = rows[k].state
         \/ (rows[k].state = "none" /\ Inserted(k, v).state = v)
  BY DEF Inserted
<1>3. row \in Rows /\ row.state = Inserted(k, v).state
  BY <1>1 DEF Rows
<1> HIDE DEF row
<1>4. CASE rows' = [rows EXCEPT ![k] = row]
  <2>1. OnlyRow(k) /\ rows'[k] = row
    BY <1>3, <1>4, RowReplaced DEF OnlyRow
  <2>2. QED
    BY <1>2, <1>3, <2>1
<1>5. CASE rows' = rows
  BY <1>5 DEF OnlyRow
<1>6. CASE rows' = [rows EXCEPT ![k] = Inserted(k, v)]
  <2>1. OnlyRow(k) /\ rows'[k] = Inserted(k, v)
    BY <1>1, <1>6, RowReplaced DEF OnlyRow
  <2>2. QED
    BY <1>2, <2>1
<1>7. QED
  BY <1>4, <1>5, <1>6 DEF InsertOK, InsertFails, row

\* The row of a new key gets the state it is inserted with.
LEMMA NewRowInserted ==
  ASSUME rows \in [Keys -> Rows], NEW k \in Keys, NEW v \in RowStates,
         InsertOK(k, v), rows[k].state = "none"
  PROVE  rows'[k].state = v
<1> DEFINE row == [Inserted(k, v) EXCEPT !.payload = v, !.id = TRUE]
<1>1. Inserted(k, v) \in Rows /\ Inserted(k, v).state = v
  BY DEF Inserted, Rows
<1>2. row \in Rows /\ row.state = v
  BY <1>1 DEF Rows
<1>3. rows' = [rows EXCEPT ![k] = row]
  BY DEF InsertOK
<1> HIDE DEF row
<1>4. QED
  BY <1>2, <1>3, RowReplaced

\* The box in memory has a key of its own.
LEMMA KeysAreKeys ==
  ASSUME PlacesTyped, OrdersTyped, MemorySound
  PROVE  /\ box # NoBox => OwnKey \in Keys
         /\ pc = "insert" => Key \in Keys /\ Key = OwnKey
         /\ \A w \in 1..Windows : <<market, w>> \in Keys
<1>1. Dual40Assumption
  BY Dual40Assumption
<1>2. box.sec \in 0..Windows /\ market \in 1..MaxMarkets /\ slug \in 0..market
  BY DEF OrdersTyped, PlacesTyped
<1>3. ASSUME box # NoBox PROVE OwnKey \in Keys
  <2>1. box.sec >= 1 /\ slug >= 1
    BY <1>3 DEF MemorySound
  <2>2. slug \in 1..MaxMarkets /\ box.sec \in 1..Windows
    BY <1>1, <1>2, <2>1 DEF Dual40Assumption
  <2>3. QED
    BY <2>2 DEF Keys, OwnKey
<1>4. ASSUME pc = "insert" PROVE box # NoBox /\ slug = market
  BY <1>4 DEF MemorySound, Opening, InMarket, Leaving
<1>5. \A w \in 1..Windows : <<market, w>> \in Keys
  BY <1>2 DEF Keys
<1>6. QED
  BY <1>3, <1>4, <1>5 DEF Key, OwnKey

LEMMA RowsTyped ==
  ASSUME TypeOK, MemorySound, [Next]_vars
  PROVE  rows' \in [Keys -> Rows]
<1>1. PlacesTyped /\ OrdersTyped /\ rows \in [Keys -> Rows]
  BY TypeParts
<1>2. {"open", "closed", "skipped"} \subseteq RowStates
  BY DEF RowStates
<1>3. CASE DropKilled \/ DropRolled \/ CloseBox \/ HedgePost
  <2>1. Store(OwnKey, "closed") /\ box # NoBox
    BY <1>3 DEF DropKilled, DropRolled, CloseBox, HedgePost, MemorySound, Hedging, Leaving
  <2>2. QED
    BY <2>1, <1>1, <1>2, KeysAreKeys, RowStored DEF OnlyRow
<1>4. ASSUME NEW w \in 1..Windows, SkipWindow(w) PROVE rows' \in [Keys -> Rows]
  <2>1. InsertOK(<<market, w>>, "skipped") \/ InsertFails(<<market, w>>, "skipped")
    BY <1>4 DEF SkipWindow
  <2>2. <<market, w>> \in Keys
    BY <1>1, KeysAreKeys
  <2>3. QED
    BY <2>1, <2>2, <1>1, <1>2, RowInserted DEF OnlyRow
<1>5. CASE InsertBox \/ InsertBoxFails
  <2>1. pc = "insert" /\ (InsertOK(Key, "open") \/ InsertFails(Key, "open"))
    BY <1>5 DEF InsertBox, InsertBoxFails
  <2>2. Key \in Keys
    BY <2>1, <1>1, KeysAreKeys
  <2>3. QED
    BY <2>1, <2>2, <1>1, <1>2, RowInserted DEF OnlyRow
<1>6. CASE Restart
  <2>1. CASE UNCHANGED rows
    BY <2>1, <1>1
  <2>2. ASSUME NEW void, rows' = [k \in Keys |-> IF k \in void
                                    THEN [rows[k] EXCEPT !.state = "closed", !.payload = "closed"]
                                    ELSE rows[k]]
        PROVE  rows' \in [Keys -> Rows]
    <3>1. \A k \in Keys : [rows[k] EXCEPT !.state = "closed", !.payload = "closed"] \in Rows
      BY <1>1, <1>2 DEF Rows
    <3>2. QED
      BY <2>2, <3>1, <1>1
  <2>3. QED
    BY <1>6, <2>1, <2>2 DEF Restart
<1>7. CASE \/ Fill \/ RequestKill \/ StoreKill \/ Crash \/ Outage \/ UNCHANGED vars
           \/ \E v \in BOOLEAN : SetLive(v)
           \/ BeginTick \/ CancelLeg \/ SameMarket \/ RollEmpty \/ RollBox \/ KeepBox \/ HedgeBox
           \/ HedgeCancel \/ HedgePlace \/ DropClosed \/ WindowsDone \/ Place \/ PostDry \/ PostRefused
           \/ \E w \in 1..Windows : PassWindow(w) \/ PostBox(w)
           \/ \E answered \in BOOLEAN : PostLive(answered)
  <2>1. rows' = rows
    BY <1>7 DEF Fill, RequestKill, StoreKill, Crash, Outage, vars, SetLive, BeginTick, CancelLeg, SameMarket,
                RollEmpty, RollBox, KeepBox, HedgeBox, HedgeCancel, HedgePlace, DropClosed, WindowsDone,
                Place, PostDry, PostRefused, PassWindow, PostBox, PostLive, ReadMode
  <2>2. QED
    BY <2>1, <1>1
<1>8. QED
  BY <1>3, <1>4, <1>5, <1>6, <1>7 DEF Next, Tick

LEMMA CountsKept ==
  ASSUME TypeOK, FaultsCounted', [Next]_vars
  PROVE  CountsTyped'
<1>1. /\ late' = late \/ late' = late + 1
      /\ offs' = offs \/ offs' = offs + 1
      /\ dropped' = dropped \/ dropped' = dropped + 1
      /\ cut' = cut \/ cut' = cut \cup {market}
  <2>1. CASE RequestKill \/ \E v \in BOOLEAN : SetLive(v)
    BY <2>1 DEF RequestKill, SetLive, Switch
  <2>2. CASE Fill \/ StoreKill \/ Crash \/ Restart \/ Outage \/ UNCHANGED vars
    BY <2>2 DEF Fill, StoreKill, Crash, Restart, Outage, vars, history
  <2>3. CASE Tick
    BY <2>3 DEF Tick, BeginTick, CancelLeg, DropKilled, SameMarket, RollEmpty, RollBox, DropRolled,
                KeepBox, CloseBox, HedgeBox, HedgeCancel, HedgePlace, HedgePost, DropClosed,
                WindowsDone, PassWindow, SkipWindow, PostBox, Place, PostDry, PostRefused, PostLive,
                InsertBox, InsertBoxFails, ReadMode, history
  <2>4. QED
    BY <2>1, <2>2, <2>3 DEF Next
<1>2. late \in Nat /\ offs \in Nat /\ dropped \in Nat
  BY DEF TypeOK
<1>3. late' \in Nat /\ offs' \in Nat /\ dropped' \in Nat
  BY <1>1, <1>2
<1>4. /\ faults'.presses \in 0..MaxPresses /\ faults'.errors \in 0..MaxFaults
      /\ offs' <= faults'.presses /\ dropped' <= faults'.errors
  BY DEF FaultsCounted, Within
<1>5. offs' \in 0..MaxPresses /\ dropped' \in 0..MaxFaults
  BY <1>3, <1>4, Dual40Assumption DEF Dual40Assumption
<1>6. cut' \subseteq 1..MaxMarkets
  BY <1>1 DEF TypeOK
<1>7. QED
  BY <1>3, <1>5, <1>6 DEF CountsTyped

LEMMA TypeKept ==
  ASSUME TypeOK, MemorySound, FaultsCounted', [Next]_vars
  PROVE  TypeOK'
<1>1. PlacesTyped /\ OrdersTyped
  BY TypeParts
<1>2. PlacesTyped' /\ OrdersTyped' /\ CountsTyped' /\ rows' \in [Keys -> Rows]
  BY <1>1, PlacesKept, OrdersKept, CountsKept, RowsTyped
<1>3. faults' \in [presses : 0..MaxPresses, errors : 0..MaxFaults, crashes : 0..MaxFaults]
  BY DEF FaultsCounted, Within
<1>4. QED
  BY <1>2, <1>3 DEF TypeOK, PlacesTyped, OrdersTyped, CountsTyped, BoxIds, Rows

-----------------------------------------------------------------------------
\* What is in memory.

LEMMA MemoryKept ==
  ASSUME PlacesTyped, OrdersTyped, MemorySound, [Next]_vars
  PROVE  MemorySound'
<1> USE DEF PlacesTyped, MemorySound, InMarket, Opening, Hedging, Leaving, Goto, world, buttons, roll,
        sending
<1>1. CASE \/ Fill \/ Outage \/ UNCHANGED vars
           \/ \E v \in BOOLEAN : SetLive(v)
  BY <1>1 DEF Fill, Outage, SetLive, vars
<1>2. CASE RequestKill \/ StoreKill
  BY <1>2 DEF RequestKill, StoreKill, Switch
<1>3. CASE Crash \/ Restart
  BY <1>3 DEF Crash, Restart
<1>4. CASE BeginTick
  BY <1>4 DEF BeginTick, StartCancelling, StartSending
<1>5. CASE CancelLeg \/ DropKilled \/ SameMarket
  BY <1>5 DEF CancelLeg, DropKilled, SameMarket, FetchBooks
<1>6. CASE RollEmpty \/ RollBox \/ DropRolled
  BY <1>6 DEF RollEmpty, RollBox, DropRolled, FetchBooks, NewMarket, StartCancelling, StartSending, SendNothing
<1>7. CASE KeepBox \/ CloseBox \/ HedgeBox \/ HedgeCancel \/ HedgePlace \/ HedgePost
  BY <1>7 DEF KeepBox, CloseBox, HedgeBox, HedgeCancel, HedgePlace, HedgePost, ReadMode, StartCancelling,
              StartSending
<1>8. CASE DropClosed \/ WindowsDone \/ InsertBox \/ InsertBoxFails
  BY <1>8 DEF DropClosed, WindowsDone, InsertBox, InsertBoxFails
<1>9. ASSUME NEW w \in 1..Windows, PassWindow(w) \/ SkipWindow(w) PROVE MemorySound'
  BY <1>9 DEF PassWindow, SkipWindow, Evaluate
<1>10. ASSUME NEW w \in 1..Windows, PostBox(w) PROVE MemorySound'
  <2>1. /\ pc = "windows" /\ pc' = "place" /\ up /\ ~entered /\ leg' = "UP"
        /\ UNCHANGED <<market, up, slug, entered, why>> /\ evaluated' = evaluated \cup {w}
        /\ box' = [n |-> Len(boxes) + 1, sec |-> w, id |-> [s \in Sides |-> "none"]]
    BY <1>10 DEF PostBox, Evaluate
  <2>2. Len(boxes) \in Nat
    BY DEF OrdersTyped
  <2>3. /\ box'.n >= 1 /\ box'.sec = w /\ w >= 1 /\ w \in evaluated'
        /\ box'.id[leg'] = "none" /\ box'.id["DOWN"] = "none"
    BY <2>1, <2>2 DEF Sides
  <2>4. box' # NoBox
    BY <2>3 DEF NoBox
  <2>5. slug = market /\ market >= 1
    BY <2>1
  <2>6. QED
    BY <2>1, <2>3, <2>4, <2>5
<1>11. CASE Place \/ PostRefused
  BY <1>11 DEF Place, PostRefused, ReadMode, AfterLeg
<1>12. CASE PostDry \/ \E answered \in BOOLEAN : PostLive(answered)
  <2>1. /\ pc = "posting" /\ AfterLeg /\ UNCHANGED <<market, up, slug, entered, evaluated, why>>
        /\ \/ box' = box \/ box' = [box EXCEPT !.id[leg] = "dry"]
           \/ box' = [box EXCEPT !.id[leg] = "live"]
    BY <1>12 DEF PostDry, PostLive
  <2>2. /\ box'.n = box.n /\ box'.sec = box.sec
        /\ \A s \in Sides \ {leg} : box'.id[s] = box.id[s]
    BY <2>1, LegGetsId DEF OrdersTyped
  <2>3. box.n >= 1 /\ box # NoBox
    BY <2>1
  <2>4. box' # NoBox
    BY <2>2, <2>3 DEF NoBox
  <2>5. /\ pc' = "insert" \/ (pc' = "place" /\ leg = "UP" /\ leg' = "DOWN")
        /\ up
    BY <2>1 DEF AfterLeg
  <2>6. pc' = "place" => box'.id[leg'] = "none" /\ leg' # "UP"
    BY <2>1, <2>2, <2>5 DEF Sides
  <2>7. QED
    BY <2>1, <2>2, <2>3, <2>4, <2>5, <2>6
<1>13. QED
  BY <1>1, <1>2, <1>3, <1>4, <1>5, <1>6, <1>7, <1>8, <1>9, <1>10, <1>11, <1>12 DEF Next, Tick

-----------------------------------------------------------------------------
\* The orders that rest.

\* The mode, the rows and the clock do not matter to them.
LEMMA OrdersUndisturbed ==
  ASSUME OrdersSound, UNCHANGED box, resting' \subseteq resting,
         resting' \ excused' \subseteq resting \ excused,
         pc' = "drop" => pc = "drop",
         pc' = "cancel" => leg' = "UP" \/ UNCHANGED <<pc, leg>>
  PROVE  OrdersSound'
  BY DEF OrdersSound, OrdersAreTracked

\* An order of the leg is cancelled, or left behind: it is not followed any
\* more, and no other is let go.
LEMMA CancelledLeg ==
  ASSUME OrdersTyped, OrdersSound, leg \in Sides, CancelOrder
  PROVE  /\ resting' \subseteq resting
         /\ resting' \ excused' \subseteq resting \ excused
         /\ \A o \in resting' \ excused' : o[2] # leg
<1>1. \A o \in resting \ excused : o[1] = box.n /\ box.id[o[2]] = "live" /\ o = <<o[1], o[2]>>
  BY DEF OrdersSound, OrdersAreTracked, OrdersTyped
<1>2. \A o \in resting \ excused : o[2] = leg => o = Order(leg) /\ box.id[leg] = "live"
  BY <1>1 DEF Order
<1>3. \/ resting' = resting \ {Order(leg)} /\ excused' = excused \ {Order(leg)}
      \/ resting' = resting /\ excused' = excused \cup ({Order(leg)} \cap resting)
      \/ resting' = resting /\ excused' = excused /\ box.id[leg] # "live"
  BY DEF CancelOrder
<1>4. QED
  BY <1>2, <1>3

LEMMA OrdersSoundKept ==
  ASSUME PlacesTyped, OrdersTyped, OrdersTyped', MemorySound, OrdersSound, [Next]_vars
  PROVE  OrdersSound'
<1>1. resting \subseteq (1..Len(boxes)) \X Sides /\ leg \in Sides /\ Len(boxes) \in Nat
  BY DEF OrdersTyped, PlacesTyped
<1>2. ASSUME resting' \subseteq excused' PROVE OrdersSound'
  BY <1>2 DEF OrdersSound, OrdersAreTracked
<1>3. ASSUME box = NoBox PROVE resting \subseteq excused
  BY <1>1, <1>3 DEF OrdersSound, OrdersAreTracked, NoBox
<1>4. CASE \/ RequestKill \/ StoreKill \/ Restart \/ Outage \/ UNCHANGED vars
           \/ \E v \in BOOLEAN : SetLive(v)
           \/ BeginTick \/ SameMarket \/ RollEmpty \/ RollBox \/ KeepBox \/ CloseBox \/ HedgeBox
           \/ HedgePlace \/ HedgePost \/ WindowsDone \/ Place \/ PostRefused \/ InsertBox
           \/ \E w \in 1..Windows : PassWindow(w) \/ SkipWindow(w)
  <2>1. /\ UNCHANGED <<box, resting, excused>>
        /\ pc' = "drop" => pc = "drop"
        /\ pc' = "cancel" => leg' = "UP" \/ UNCHANGED <<pc, leg>>
    BY <1>4 DEF RequestKill, StoreKill, Restart, Outage, vars, SetLive, BeginTick, SameMarket, RollEmpty, RollBox,
                KeepBox, CloseBox, HedgeBox, HedgePlace, HedgePost, WindowsDone, Place, PostRefused,
                InsertBox, PassWindow, SkipWindow, ReadMode, AfterLeg, FetchBooks, StartCancelling,
                StartSending, Goto, history, sending, Evaluate
  <2>2. QED
    BY <2>1, OrdersUndisturbed
<1>5. CASE Fill
  <2>1. UNCHANGED <<box, pc, leg, excused>> /\ resting' \subseteq resting
    BY <1>5 DEF Fill, sending, history
  <2>2. QED
    BY <2>1, OrdersUndisturbed
<1>6. CASE Crash
  BY <1>6, <1>2 DEF Crash
<1>7. CASE DropKilled \/ DropRolled \/ DropClosed
  <2>1. pc = "drop" /\ UNCHANGED <<resting, excused>>
    BY <1>7 DEF DropKilled, DropRolled, DropClosed, history
  <2>2. QED
    BY <2>1, <1>2 DEF OrdersSound
<1>8. CASE CancelLeg
  <2>1. /\ pc = "cancel" /\ CancelOrder /\ UNCHANGED box
        /\ \/ leg = "UP" /\ pc' = "cancel" /\ leg' = "DOWN"
           \/ leg = "DOWN" /\ pc' = "drop" /\ leg' = "UP"
    BY <1>8, <1>1 DEF CancelLeg, Goto, Sides
  <2>2. /\ resting' \subseteq resting
        /\ resting' \ excused' \subseteq resting \ excused
        /\ \A o \in resting' \ excused' : o[2] # leg
    BY <2>1, <1>1, CancelledLeg
  <2>3. \A o \in resting : o[2] = "UP" \/ o[2] = "DOWN"
    BY <1>1 DEF Sides
  <2>4. OrdersAreTracked'
    BY <2>1, <2>2 DEF OrdersSound, OrdersAreTracked
  <2>5. CASE leg = "UP"
    BY <2>1, <2>2, <2>3, <2>4, <2>5 DEF OrdersSound
  <2>6. CASE leg = "DOWN"
    <3>1. \A o \in resting \ excused : o[2] = "DOWN"
      BY <2>1, <2>6 DEF OrdersSound
    <3>2. resting' \subseteq excused'
      BY <2>2, <2>6, <3>1
    <3>3. QED
      BY <3>2, <1>2
  <2>7. QED
    BY <2>1, <2>5, <2>6
<1>9. CASE HedgeCancel
  <2>1. CancelOrder /\ UNCHANGED box /\ pc' = "hedgeplace"
    BY <1>9 DEF HedgeCancel, Goto
  <2>2. QED
    BY <2>1, <1>1, CancelledLeg, OrdersUndisturbed
<1>10. ASSUME NEW w \in 1..Windows, PostBox(w) PROVE OrdersSound'
  <2>1. pc = "windows" /\ ~entered /\ UNCHANGED <<resting, excused>>
    BY <1>10 DEF PostBox, Evaluate
  <2>2. box = NoBox
    BY <2>1 DEF MemorySound, Opening
  <2>3. QED
    BY <2>1, <2>2, <1>2, <1>3
<1>11. CASE PostDry
  <2>1. pc = "posting" /\ box' = [box EXCEPT !.id[leg] = "dry"] /\ UNCHANGED <<resting, excused>>
        /\ pc' \in {"place", "insert"}
    BY <1>11 DEF PostDry, history, AfterLeg, Goto
  <2>2. box'.n = box.n /\ \A s \in Sides \ {leg} : box'.id[s] = box.id[s]
    BY <2>1, <1>1, LegGetsId DEF OrdersTyped
  <2>3. \A o \in resting \ excused : o[2] # leg
    BY <2>1 DEF MemorySound, OrdersSound, OrdersAreTracked
  <2>4. \A o \in resting : o[2] \in Sides
    BY <1>1
  <2>5. QED
    BY <2>1, <2>2, <2>3, <2>4 DEF OrdersSound, OrdersAreTracked
<1>12. ASSUME NEW answered \in BOOLEAN, PostLive(answered) PROVE OrdersSound'
  <2>1. /\ pc = "posting" /\ resting' = resting \cup {Order(leg)} /\ pc' \in {"place", "insert"}
        /\ \/ box' = [box EXCEPT !.id[leg] = "live"] /\ excused' = excused
           \/ box' = box /\ excused' = excused \cup {Order(leg)}
    BY <1>12 DEF PostLive, AfterLeg, Goto
  <2>2. \A o \in resting : o[2] \in Sides
    BY <1>1
  <2>3. CASE box' = [box EXCEPT !.id[leg] = "live"] /\ excused' = excused
    <3>1. /\ box'.n = box.n /\ box'.id[leg] = "live"
          /\ \A s \in Sides \ {leg} : box'.id[s] = box.id[s]
      BY <2>3, <1>1, LegGetsId DEF OrdersTyped
    <3>2. Order(leg)[1] = box.n /\ Order(leg)[2] = leg
      BY DEF Order
    <3>3. ASSUME NEW o \in resting' \ excused' PROVE o[1] = box'.n /\ box'.id[o[2]] = "live"
      <4>1. CASE o = Order(leg)
        BY <4>1, <3>1, <3>2
      <4>2. CASE o \in resting \ excused
        BY <4>2, <2>2, <3>1 DEF OrdersSound, OrdersAreTracked
      <4>3. QED
        BY <4>1, <4>2, <2>1, <2>3
    <3>4. QED
      BY <3>3, <2>1 DEF OrdersSound, OrdersAreTracked
  <2>4. CASE box' = box /\ excused' = excused \cup {Order(leg)}
    BY <2>1, <2>4 DEF OrdersSound, OrdersAreTracked
  <2>5. QED
    BY <2>1, <2>3, <2>4
<1>13. CASE InsertBoxFails
  <2>1. resting' = resting /\ excused' = excused \cup OrdersOf(box.n)
    BY <1>13 DEF InsertBoxFails
  <2>2. resting' \subseteq excused'
    BY <2>1 DEF OrdersSound, OrdersAreTracked, OrdersOf
  <2>3. QED
    BY <2>2, <1>2
<1>14. QED
  BY <1>4, <1>5, <1>6, <1>7, <1>8, <1>9, <1>10, <1>11, <1>12, <1>13 DEF Next, Tick

-----------------------------------------------------------------------------
\* Late orders.

LEMMA LateKept ==
  ASSUME TypeOK, MemorySound, LateCounted, [Next]_vars
  PROVE  LateCounted'
<1>1. late \in Int /\ offs \in Int /\ live \in BOOLEAN /\ dry \in BOOLEAN
  BY DEF TypeOK
<1>2. CASE RequestKill \/ \E v \in BOOLEAN : SetLive(v)
  <2>1. PICK v \in BOOLEAN : Switch(v) /\ UNCHANGED <<pc, dry, late>>
    BY <1>2 DEF RequestKill, SetLive, sending
  <2>2. /\ (live' <=> v) /\ UNCHANGED <<pc, dry, late>>
        /\ live /\ ~v => offs' = offs + 1
        /\ ~(live /\ ~v) => offs' = offs
    BY <2>1 DEF Switch
  <2>3. QED
    BY <1>1, <2>2 DEF LateCounted, OnItsWay
<1>3. CASE Place \/ HedgePlace
  <2>1. (dry' <=> ~live) /\ UNCHANGED <<live, late, offs>>
    BY <1>3, <1>1 DEF Place, HedgePlace, ReadMode, buttons, history
  <2>2. QED
    BY <2>1 DEF LateCounted, OnItsWay
<1>4. CASE HedgePost \/ \E answered \in BOOLEAN : PostLive(answered)
  <2>1. /\ pc \in {"posting", "hedgepost"} /\ pc' \notin {"posting", "hedgepost"} /\ offs' = offs
        /\ late' = late \/ (late' = late + 1 /\ ~dry /\ ~live)
    BY <1>4 DEF HedgePost, PostLive, AfterLeg, StartCancelling, Goto
  <2>2. QED
    BY <1>1, <2>1 DEF LateCounted, OnItsWay
<1>5. CASE \/ Fill \/ StoreKill \/ Outage \/ UNCHANGED vars
  BY <1>5 DEF Fill, StoreKill, Outage, vars, sending, buttons, history, LateCounted, OnItsWay
<1>6. CASE Crash \/ Restart
  <2>1. UNCHANGED <<late, offs>> /\ pc' = "idle"
    BY <1>6 DEF Crash, Restart, history, MemorySound
  <2>2. QED
    BY <2>1 DEF LateCounted, OnItsWay
<1>7. CASE \/ BeginTick \/ CancelLeg \/ DropKilled \/ SameMarket \/ RollEmpty \/ RollBox \/ DropRolled
           \/ KeepBox \/ CloseBox \/ HedgeBox \/ HedgeCancel \/ DropClosed \/ WindowsDone
           \/ \E w \in 1..Windows : PassWindow(w) \/ SkipWindow(w) \/ PostBox(w)
           \/ PostDry \/ PostRefused \/ InsertBox \/ InsertBoxFails
  <2>1. pc' \notin {"posting", "hedgepost"} /\ UNCHANGED <<late, offs>>
    BY <1>7 DEF BeginTick, CancelLeg, DropKilled, SameMarket, RollEmpty, RollBox, DropRolled, KeepBox,
                CloseBox, HedgeBox, HedgeCancel, DropClosed, WindowsDone, PassWindow, SkipWindow, PostBox,
                PostDry, PostRefused, InsertBox, InsertBoxFails, AfterLeg, FetchBooks, StartCancelling,
                Goto, history
  <2>2. QED
    BY <2>1 DEF LateCounted, OnItsWay
<1>8. QED
  BY <1>2, <1>3, <1>4, <1>5, <1>6, <1>7 DEF Next, Tick

-----------------------------------------------------------------------------
\* Boxes and entries.

LEMMA MoreAllowed ==
  ASSUME NEW d \in Nat, NEW e \in Nat, NEW c \in Nat, NEW f \in Nat, d <= e, c <= f,
         NEW t \in BOOLEAN, NEW u \in BOOLEAN, t => u \/ d < e \/ c < f
  PROVE  (IF t THEN 1 ELSE 0) + (d + c) <= (IF u THEN 1 ELSE 0) + (e + f)
  OBVIOUS

LEMMA OneMoreBox ==
  ASSUME NEW S, IsFiniteSet(S), NEW x, NEW T \in SUBSET (S \cup {x})
  PROVE  Cardinality(T) <= Cardinality(S) + 1 /\ Cardinality(T) \in Nat /\ Cardinality(S) \in Nat
<1>1. IsFiniteSet(S \cup {x}) /\ Cardinality(S \cup {x}) <= Cardinality(S) + 1
      /\ Cardinality(S) \in Nat
  BY FS_AddElement, FS_CardinalityType
<1>2. IsFiniteSet(T) /\ Cardinality(T) <= Cardinality(S \cup {x})
  BY <1>1, FS_Subset
<1>3. Cardinality(T) \in Nat /\ Cardinality(S \cup {x}) \in Nat
  BY <1>1, <1>2, FS_CardinalityType
<1>4. QED
  BY <1>1, <1>2, <1>3

LEMMA BoxesAreFinite ==
  ASSUME OrdersTyped, NEW m
  PROVE  IsFiniteSet(BoxesOf(m)) /\ Cardinality(BoxesOf(m)) \in Nat
<1>1. IsFiniteSet(1..Len(boxes))
  BY FS_Interval DEF OrdersTyped
<1>2. QED
  BY <1>1, FS_Subset, FS_CardinalityType DEF BoxesOf

\* No box is posted, and a market that had its box keeps its entry or is
\* excused once more.
LEMMA NoBoxPosted ==
  ASSUME TypeOK, TypeOK', BoxesCounted, boxes' = boxes,
         dropped <= dropped', faults.crashes <= faults'.crashes,
         \A m \in 1..MaxMarkets :
             Taken(m) => Taken(m)' \/ dropped < dropped' \/ faults.crashes < faults'.crashes
  PROVE  BoxesCounted'
<1> SUFFICES ASSUME NEW m \in 1..MaxMarkets PROVE Cardinality(BoxesOf(m)') <= Allowed(m)'
  BY DEF BoxesCounted
<1>1. /\ dropped \in Nat /\ faults.crashes \in Nat
      /\ dropped' \in Nat /\ faults'.crashes \in Nat
  BY DEF TypeOK
<1>2. Cardinality(BoxesOf(m)) \in Nat /\ BoxesOf(m)' = BoxesOf(m)
  BY BoxesAreFinite, TypeParts DEF BoxesOf
<1>3. Taken(m) \in BOOLEAN /\ Taken(m)' \in BOOLEAN
  BY DEF Taken
<1>4. (IF Taken(m) THEN 1 ELSE 0) + (dropped + faults.crashes)
         <= (IF Taken(m)' THEN 1 ELSE 0) + (dropped' + faults'.crashes)
  BY <1>1, <1>3, MoreAllowed
<1>5. Allowed(m) <= Allowed(m)' /\ Allowed(m) \in Nat /\ Allowed(m)' \in Nat
  BY <1>1, <1>4 DEF Allowed
<1>6. Cardinality(BoxesOf(m)) <= Allowed(m)
  BY DEF BoxesCounted
<1>7. QED
  BY <1>2, <1>5, <1>6

LEMMA BoxPosted ==
  ASSUME TypeOK, TypeOK', MemorySound, BoxesCounted, NEW w \in 1..Windows, PostBox(w)
  PROVE  BoxesCounted'
<1> SUFFICES ASSUME NEW m \in 1..MaxMarkets PROVE Cardinality(BoxesOf(m)') <= Allowed(m)'
  BY DEF BoxesCounted
<1>1. /\ pc = "windows" /\ ~entered /\ pc' = "place" /\ boxes' = Append(boxes, market)
      /\ UNCHANGED <<slug, entered, dropped, faults, market>>
  BY DEF PostBox, Evaluate, Goto, world
<1>2. slug = market /\ slug \in Int /\ boxes \in Seq(1..MaxMarkets) /\ Len(boxes) \in Nat
  BY <1>1 DEF MemorySound, InMarket, Leaving, TypeOK
<1>3. dropped \in Nat /\ faults.crashes \in Nat
  BY DEF TypeOK
<1>4. IsFiniteSet(BoxesOf(m)) /\ Cardinality(BoxesOf(m)) \in Nat
  BY BoxesAreFinite, TypeParts
<1>5. Cardinality(BoxesOf(m)) <= Allowed(m)
  BY DEF BoxesCounted
<1>6. /\ \A n \in 1..Len(boxes') : n \in 1..Len(boxes) \/ n = Len(boxes) + 1
      /\ \A n \in 1..Len(boxes) : boxes'[n] = boxes[n]
      /\ boxes'[Len(boxes) + 1] = market /\ Len(boxes') = Len(boxes) + 1
  BY <1>1, <1>2
<1>7. CASE m = market
  <2>1. BoxesOf(m)' \in SUBSET (BoxesOf(m) \cup {Len(boxes) + 1})
    BY <1>6 DEF BoxesOf
  <2>2. Cardinality(BoxesOf(m)') <= Cardinality(BoxesOf(m)) + 1 /\ Cardinality(BoxesOf(m)') \in Nat
    BY <2>1, <1>4, OneMoreBox
  <2>3. ~Taken(m) /\ Taken(m)'
    BY <1>1, <1>2, <1>7 DEF Taken, Opening
  <2>4. Allowed(m)' = Allowed(m) + 1 /\ Allowed(m) \in Nat
    BY <2>3, <1>1, <1>3 DEF Allowed
  <2>5. QED
    BY <2>2, <2>4, <1>4, <1>5
<1>8. CASE m # market
  <2>1. BoxesOf(m)' = BoxesOf(m)
    BY <1>6, <1>8, <1>2 DEF BoxesOf
  <2>2. Taken(m)' <=> Taken(m)
    BY <1>1, <1>2, <1>8 DEF Taken
  <2>3. Allowed(m)' = Allowed(m)
    BY <2>2, <1>1 DEF Allowed
  <2>4. QED
    BY <2>1, <2>3, <1>5
<1>9. QED
  BY <1>7, <1>8

\* Only a crash is counted as one.
LEMMA CrashlessStep ==
  ASSUME FaultsCounted, [Next]_vars, ~Crash
  PROVE  faults'.crashes = faults.crashes
<1>1. Within(faults)
  BY DEF FaultsCounted
<1>2. CASE RequestKill \/ \E v \in BOOLEAN : SetLive(v)
  <2>1. faults.presses < MaxPresses /\ faults' = [faults EXCEPT !.presses = @ + 1]
    BY <1>2 DEF RequestKill, SetLive, Press
  <2>2. QED
    BY <1>1, <2>1, PressedOnce
<1>3. CASE Tick \/ Fill \/ StoreKill \/ Restart \/ Outage
  BY <1>3, TicksAreSteady DEF Steady
<1>4. CASE UNCHANGED vars
  BY <1>4 DEF vars
<1>5. QED
  BY <1>2, <1>3, <1>4 DEF Next

\* Crashes are never forgotten.
LEMMA CrashesCount ==
  ASSUME FaultsCounted, [Next]_vars
  PROVE  /\ faults.crashes \in Nat /\ faults'.crashes \in Nat
         /\ faults.crashes <= faults'.crashes
         /\ Crash => faults.crashes < faults'.crashes
<1>1. Within(faults) /\ faults.crashes \in Nat
  BY DEF FaultsCounted, Within
<1>2. CASE Crash
  <2>1. faults.errors + faults.crashes < MaxFaults /\ faults' = [faults EXCEPT !["crashes"] = @ + 1]
    BY <1>2 DEF Crash, Fault
  <2>2. faults'.crashes = faults.crashes + 1
    BY <1>1, <2>1, FailedOnce
  <2>3. QED
    BY <1>1, <2>2
<1>3. QED
  BY <1>1, <1>2, CrashlessStep

LEMMA BoxesKept ==
  ASSUME TypeOK, TypeOK', MemorySound, FaultsCounted, BoxesCounted, [Next]_vars
  PROVE  BoxesCounted'
<1>1. faults.crashes <= faults'.crashes /\ (Crash => faults.crashes < faults'.crashes)
  BY CrashesCount
<1>2. dropped \in Int /\ slug \in Int /\ slug <= market /\ market \in Int
  BY DEF TypeOK
<1>3. ASSUME boxes' = boxes, dropped' = dropped, UNCHANGED <<slug, entered>>,
             pc \in Opening => pc' \in Opening
      PROVE  BoxesCounted'
  <2>1. \A m \in 1..MaxMarkets : Taken(m) => Taken(m)'
    BY <1>3 DEF Taken
  <2>2. dropped <= dropped'
    BY <1>2, <1>3
  <2>3. QED
    BY <1>1, <1>3, <2>1, <2>2, NoBoxPosted
<1>4. CASE Crash
  <2>1. boxes' = boxes /\ dropped' = dropped
    BY <1>4 DEF Crash
  <2>2. QED
    BY <1>1, <1>2, <1>4, <2>1, NoBoxPosted
<1>5. CASE RollEmpty \/ DropRolled
  <2>1. boxes' = boxes /\ dropped' = dropped
    BY <1>5 DEF RollEmpty, DropRolled, history
  <2>2. pc \notin Opening
    BY <1>5 DEF RollEmpty, DropRolled, Opening
  <2>3. slug' = market
    BY <1>5 DEF RollEmpty, DropRolled, NewMarket
  <2>4. slug < market
    BY <1>2, <1>5 DEF RollEmpty, DropRolled, MemorySound, Leaving
  <2>6. ASSUME NEW m \in 1..MaxMarkets, Taken(m) PROVE Taken(m)'
    BY <1>2, <2>2, <2>3, <2>4, <2>6 DEF Taken
  <2>7. QED
    BY <1>1, <1>2, <2>1, <2>6, NoBoxPosted
<1>6. CASE InsertBox
  <2>1. boxes' = boxes /\ dropped' = dropped /\ slug' = slug /\ entered' = TRUE
    BY <1>6 DEF InsertBox, history
  <2>2. \A m \in 1..MaxMarkets : Taken(m) => Taken(m)'
    BY <2>1 DEF Taken
  <2>3. QED
    BY <1>1, <1>2, <2>1, <2>2, NoBoxPosted
<1>7. CASE InsertBoxFails
  <2>1. boxes' = boxes /\ dropped' = dropped + 1
    BY <1>7 DEF InsertBoxFails
  <2>2. QED
    BY <1>1, <1>2, <2>1, NoBoxPosted
<1>8. ASSUME NEW w \in 1..Windows, PostBox(w) PROVE BoxesCounted'
  BY <1>8, BoxPosted
<1>9. CASE \/ Fill \/ RequestKill \/ StoreKill \/ Restart \/ Outage \/ UNCHANGED vars
           \/ \E v \in BOOLEAN : SetLive(v)
           \/ BeginTick \/ CancelLeg \/ DropKilled \/ SameMarket \/ RollBox \/ KeepBox \/ CloseBox
           \/ HedgeBox \/ HedgeCancel \/ HedgePlace \/ HedgePost \/ DropClosed \/ WindowsDone
           \/ \E w \in 1..Windows : PassWindow(w) \/ SkipWindow(w)
           \/ Place \/ PostDry \/ PostRefused \/ \E answered \in BOOLEAN : PostLive(answered)
  <2>1. boxes' = boxes /\ dropped' = dropped /\ UNCHANGED <<slug, entered>>
    BY <1>9 DEF Fill, RequestKill, StoreKill, Restart, Outage, vars, SetLive, BeginTick, CancelLeg, DropKilled,
                SameMarket, RollBox, KeepBox, CloseBox, HedgeBox, HedgeCancel, HedgePlace, HedgePost,
                DropClosed, WindowsDone, PassWindow, SkipWindow, Place, PostDry, PostRefused, PostLive,
                ReadMode, history, roll
  <2>2. pc \in Opening => pc' \in Opening
    BY <1>9 DEF Fill, RequestKill, StoreKill, Restart, Outage, vars, SetLive, BeginTick, CancelLeg, DropKilled,
                SameMarket, RollBox, KeepBox, CloseBox, HedgeBox, HedgeCancel, HedgePlace, HedgePost,
                DropClosed, WindowsDone, PassWindow, SkipWindow, Place, PostDry, PostRefused, PostLive,
                ReadMode, AfterLeg, Evaluate, Goto, Opening
  <2>3. QED
    BY <2>1, <2>2, <1>3
<1>10. QED
  BY <1>4, <1>5, <1>6, <1>7, <1>8, <1>9 DEF Next, Tick

-----------------------------------------------------------------------------
\* Rows and verdicts.

\* A window that was looked at, or whose market is over, does not become
\* fresh again.
LEMMA FreshShrinks ==
  ASSUME TypeOK, UNCHANGED <<market, cut>>, UNCHANGED roll \/ (NewMarket /\ slug < market),
         pc' \notin Opening \/ (pc \in Opening /\ OwnKey' = OwnKey)
  PROVE  \A k \in Keys : Fresh(k)' => Fresh(k)
<1>1. slug \in Int /\ market \in Int
  BY DEF TypeOK
<1>2. \A k \in Keys : k[1] \in Int
  BY DEF Keys
<1>3. CASE UNCHANGED roll
  BY <1>3 DEF Fresh, roll
<1>4. CASE NewMarket /\ slug < market
  <2>1. slug' = market
    BY <1>4 DEF NewMarket
  <2>2. \A k \in Keys : k[1] >= market => k[1] > slug /\ k[1] >= market
    BY <1>1, <1>2, <1>4
  <2>3. QED
    BY <1>1, <1>2, <2>1, <2>2 DEF Fresh
<1>5. QED
  BY <1>3, <1>4

\* The next tick's market may be another one.
LEMMA TimeKeepsFresh ==
  ASSUME TypeOK, BeginTick
  PROVE  \A k \in Keys : Fresh(k)' => Fresh(k)
<1>1. slug \in Int /\ market \in Int /\ market' \in Int /\ market <= market'
  BY DEF TypeOK, BeginTick, TimePasses
<1>2. \A k \in Keys : k[1] \in Int
  BY DEF Keys
<1>3. UNCHANGED <<slug, evaluated, cut>> /\ pc' \notin Opening
  BY DEF BeginTick, roll, history, StartCancelling, Goto, Opening
<1>4. \A k \in Keys : k[1] > slug /\ k[1] >= market' => k[1] > slug /\ k[1] >= market
  BY <1>1, <1>2
<1>5. QED
  BY <1>3, <1>4 DEF Fresh

\* After a crash only the markets to come are fresh.
LEMMA CrashKeepsFresh ==
  ASSUME TypeOK, Crash
  PROVE  \A k \in Keys : Fresh(k)' => Fresh(k)
<1>1. slug \in Int /\ market \in Int /\ slug <= market
  BY DEF TypeOK
<1>2. slug' = 0 /\ market' = market /\ cut' = cut \cup {market} /\ pc' = "idle"
  BY DEF Crash, world
<1>3. \A k \in Keys : k[1] \in Int /\ k[1] # 0
  BY DEF Keys
<1>4. \A k \in Keys : Fresh(k)' => k[1] \notin cut /\ k[1] # market /\ k[1] >= market
  BY <1>2, <1>3 DEF Fresh, Opening
<1>5. \A k \in Keys : k[1] # market /\ k[1] >= market => k[1] > slug
  BY <1>1, <1>3
<1>6. QED
  BY <1>4, <1>5 DEF Fresh

\* A step keeps the verdicts of the markets that no crash cut.
VerdictsKept == \A k \in Keys : rows[k].state \in {"skipped", "closed"} /\ k[1] \notin cut =>
                    rows'[k] = rows[k]

\* It writes one row, and that has no verdict, or its market was cut.
WritesOpen(k) == OnlyRow(k) /\ (rows[k].state \in {"none", "open"} \/ k[1] \in cut)

LEMMA WritesKeepVerdicts ==
  ASSUME NEW k \in Keys, WritesOpen(k)
  PROVE  VerdictsKept
<1>1. ASSUME NEW j \in Keys, rows[j].state \in {"skipped", "closed"}, j[1] \notin cut
      PROVE  rows'[j] = rows[j]
  <2>1. j # k
    BY <1>1 DEF WritesOpen
  <2>2. QED
    BY <2>1 DEF WritesOpen, OnlyRow
<1>2. QED
  BY <1>1 DEF VerdictsKept

\* Statements aside, rows stay sound when nothing becomes fresh or followed.
LEMMA RowsUndisturbed ==
  ASSUME RowsSound, rows' = rows,
         \A k \in Keys : Fresh(k)' => Fresh(k),
         Followed' => Followed /\ OwnKey' = OwnKey /\ slug' = slug /\ cut' = cut
  PROVE  RowsSound'
  BY DEF RowsSound

\* The box in memory is closed: its row is written, and it is followed no
\* longer.
LEMMA ClosingRow ==
  ASSUME PlacesTyped, OrdersTyped, MemorySound, rows \in [Keys -> Rows],
         RowsSound, Followed, Store(OwnKey, "closed"), cut' = cut
  PROVE  /\ OwnKey \in Keys /\ WritesOpen(OwnKey)
         /\ ~Followed' /\ (\A k \in Keys : Fresh(k)' => Fresh(k)) => RowsSound'
<1>1. OwnKey \in Keys /\ OwnKey[1] = slug
  BY KeysAreKeys DEF Followed, OwnKey
<1>2. OnlyRow(OwnKey)
  BY <1>1, RowStored DEF RowStates
<1>3. (rows[OwnKey].state = "open" \/ OwnKey[1] \in cut) /\ ~Fresh(OwnKey)
  BY <1>1 DEF RowsSound, Fresh
<1>4. ASSUME ~Followed', \A k \in Keys : Fresh(k)' => Fresh(k) PROVE RowsSound'
  <2>1. \A k \in Keys : Fresh(k)' => k # OwnKey /\ rows[k].state = "none"
    BY <1>3, <1>4 DEF RowsSound
  <2>2. \A k \in Keys : Fresh(k)' => rows'[k].state = "none"
    BY <2>1, <1>2 DEF OnlyRow
  <2>3. QED
    BY <2>2, <1>4 DEF RowsSound
<1>5. QED
  BY <1>1, <1>2, <1>3, <1>4 DEF WritesOpen

\* A window that does not qualify gets a new row.
LEMMA SkippingRow ==
  ASSUME TypeOK, MemorySound, RowsSound, NEW w \in 1..Windows, SkipWindow(w)
  PROVE  <<market, w>> \in Keys /\ WritesOpen(<<market, w>>) /\ RowsSound'
<1>1. /\ pc = "windows" /\ ~entered /\ w \notin evaluated /\ evaluated' = evaluated \cup {w}
      /\ UNCHANGED <<slug, box, market, cut>> /\ pc' = "windows"
      /\ InsertOK(<<market, w>>, "skipped") \/ InsertFails(<<market, w>>, "skipped")
  BY DEF SkipWindow, Evaluate, First, Due, Goto, world, history
<1>2. box = NoBox /\ slug = market /\ slug \in Int
  BY <1>1 DEF MemorySound, Opening, InMarket, Leaving, TypeOK
<1>3. PlacesTyped /\ OrdersTyped /\ rows \in [Keys -> Rows] /\ "skipped" \in RowStates
  BY TypeParts DEF RowStates
<1>4. <<market, w>> \in Keys
  BY <1>3, KeysAreKeys
<1>5. OnlyRow(<<market, w>>)
  BY <1>1, <1>3, <1>4, RowInserted
<1>6. rows[<<market, w>>].state = "none" \/ market \in cut
  BY <1>1, <1>2, <1>4 DEF RowsSound, Fresh
<1>7. \A k \in Keys : Fresh(k)' => Fresh(k) /\ k # <<market, w>>
  BY <1>1, <1>2 DEF Fresh, Opening
<1>8. \A k \in Keys : Fresh(k)' => rows'[k].state = "none"
  BY <1>5, <1>7 DEF RowsSound, OnlyRow
<1>9. ~Followed'
  BY <1>1, <1>2 DEF Followed
<1>10. QED
  BY <1>4, <1>5, <1>6, <1>8, <1>9 DEF RowsSound, WritesOpen

\* The box just posted gets a row of its own, or is dropped.
LEMMA OpeningRow ==
  ASSUME TypeOK, MemorySound, RowsSound, InsertBox \/ InsertBoxFails
  PROVE  Key \in Keys /\ WritesOpen(Key) /\ RowsSound'
<1>1. /\ pc = "insert" /\ UNCHANGED <<slug, evaluated, market, cut>> /\ pc' = "windows"
      /\ InsertOK(Key, "open") \/ InsertFails(Key, "open")
  BY DEF InsertBox, InsertBoxFails, Goto, world, roll, history
<1>2. PlacesTyped /\ OrdersTyped /\ rows \in [Keys -> Rows] /\ "open" \in RowStates
  BY TypeParts DEF RowStates
<1>3. Key \in Keys /\ Key = OwnKey /\ Key[1] = slug /\ box.sec \in evaluated
  BY <1>1, <1>2, KeysAreKeys DEF MemorySound, Opening, OwnKey
<1>4. OnlyRow(Key)
  BY <1>1, <1>2, <1>3, RowInserted
<1>5. rows[Key].state = "none" \/ slug \in cut
  BY <1>1, <1>3 DEF RowsSound, Fresh, Opening
<1>6. slug \in Int
  BY DEF TypeOK
<1>7. \A k \in Keys : Fresh(k)' => Fresh(k) /\ k # Key
  BY <1>1, <1>3, <1>6 DEF Fresh, Opening, OwnKey
<1>8. \A k \in Keys : Fresh(k)' => rows'[k].state = "none"
  BY <1>4, <1>7 DEF RowsSound, OnlyRow
<1>9. WritesOpen(Key)
  BY <1>3, <1>4, <1>5 DEF WritesOpen
<1>10. CASE InsertBox
  <2>1. OwnKey' = Key
    BY <1>1, <1>3, <1>10 DEF InsertBox, OwnKey
  <2>2. rows[Key].state = "none" => rows'[Key].state = "open"
    BY <1>2, <1>3, <1>10, NewRowInserted DEF InsertBox
  <2>3. slug' \notin cut' => rows'[OwnKey'].state = "open"
    BY <1>1, <1>5, <2>1, <2>2
  <2>4. QED
    BY <1>3, <1>8, <1>9, <2>3 DEF RowsSound
<1>11. CASE InsertBoxFails
  <2>1. ~Followed'
    BY <1>11 DEF InsertBoxFails, Followed
  <2>2. QED
    BY <1>3, <1>8, <1>9, <2>1 DEF RowsSound
<1>12. QED
  BY <1>10, <1>11

\* A new process voids rows that are open, and nothing else.
LEMMA RestartRows ==
  ASSUME MemorySound, RowsSound, Restart, rows \in [Keys -> Rows]
  PROVE  RowsSound' /\ VerdictsKept
<1>1. UNCHANGED <<market, slug, evaluated, box, pc, cut>> /\ ~up
  BY DEF Restart, world, roll, history
<1>2. ~Followed'
  BY <1>1 DEF MemorySound, Followed
<1>3. \A k \in Keys : rows[k].state # "open" => rows'[k] = rows[k]
  BY DEF Restart
<1>4. \A k \in Keys : Fresh(k)' => Fresh(k)
  BY <1>1 DEF Fresh, OwnKey
<1>5. \A k \in Keys : Fresh(k)' => rows'[k].state = "none"
  BY <1>3, <1>4 DEF RowsSound
<1>6. QED
  BY <1>2, <1>3, <1>5 DEF RowsSound, VerdictsKept

\* Every step leaves the rows alone, writes one that has no verdict or whose
\* market was cut, or voids open ones.
LEMMA RowsStep ==
  ASSUME TypeOK, MemorySound, RowsSound, [Next]_vars
  PROVE  RowsSound' /\ VerdictsKept
<1>1. rows' = rows => VerdictsKept
  BY DEF VerdictsKept
<1>2. /\ PlacesTyped /\ OrdersTyped /\ rows \in [Keys -> Rows]
      /\ slug \in Int /\ market \in Int /\ slug <= market
  BY TypeParts DEF PlacesTyped
<1>3. CASE InsertBox \/ InsertBoxFails
  BY <1>3, OpeningRow, WritesKeepVerdicts
<1>4. ASSUME NEW w \in 1..Windows, SkipWindow(w) PROVE RowsSound' /\ VerdictsKept
  BY <1>4, SkippingRow, WritesKeepVerdicts
<1>5. CASE DropKilled \/ CloseBox \/ HedgePost
  <2>1. /\ Store(OwnKey, "closed") /\ UNCHANGED roll /\ pc' \notin Opening
        /\ UNCHANGED <<market, cut>>
    BY <1>5 DEF DropKilled, CloseBox, HedgePost, StartCancelling, Goto, Opening, world, history
  <2>2. Followed /\ ~Followed'
    BY <1>5 DEF DropKilled, CloseBox, HedgePost, Followed, StartCancelling, StartSending, Goto, Opening,
                Leaving, Hedging, MemorySound
  <2>3. \A k \in Keys : Fresh(k)' => Fresh(k)
    BY <2>1, FreshShrinks
  <2>4. QED
    BY <1>2, <2>1, <2>2, <2>3, ClosingRow, WritesKeepVerdicts
<1>6. CASE DropRolled
  <2>1. /\ Store(OwnKey, "closed") /\ NewMarket /\ pc' \notin Opening
        /\ UNCHANGED <<market, cut>>
    BY <1>6 DEF DropRolled, FetchBooks, Goto, Opening, world, history
  <2>2. Followed /\ ~Followed' /\ slug < market
    BY <1>2, <1>6 DEF DropRolled, Followed, Opening, Leaving, Hedging, MemorySound
  <2>3. \A k \in Keys : Fresh(k)' => Fresh(k)
    BY <2>1, <2>2, FreshShrinks
  <2>4. QED
    BY <1>2, <2>1, <2>2, <2>3, ClosingRow, WritesKeepVerdicts
<1>7. ASSUME rows' = rows, UNCHANGED <<market, cut>>, UNCHANGED roll \/ (NewMarket /\ slug < market),
             pc' \notin Opening \/ (pc \in Opening /\ OwnKey' = OwnKey),
             Followed' => Followed /\ OwnKey' = OwnKey /\ slug' = slug
      PROVE  RowsSound' /\ VerdictsKept
  <2>1. \A k \in Keys : Fresh(k)' => Fresh(k)
    BY <1>7, FreshShrinks
  <2>2. QED
    BY <1>1, <1>7, <2>1, RowsUndisturbed
<1>8. CASE RollEmpty
  <2>1. /\ rows' = rows /\ NewMarket /\ slug < market /\ pc' \notin Opening /\ ~Followed'
        /\ UNCHANGED <<market, cut>>
    BY <1>2, <1>8 DEF RollEmpty, FetchBooks, Goto, Opening, Followed, world, history
  <2>2. QED
    BY <2>1, <1>7
<1>9. CASE DropClosed
  <2>1. rows' = rows /\ UNCHANGED roll /\ pc' \notin Opening /\ ~Followed' /\ UNCHANGED <<market, cut>>
    BY <1>9 DEF DropClosed, Goto, Opening, Followed, world, history
  <2>2. QED
    BY <2>1, <1>7
<1>10. ASSUME NEW w \in 1..Windows, PassWindow(w) PROVE RowsSound' /\ VerdictsKept
  <2>1. /\ rows' = rows /\ UNCHANGED <<market, slug, box, cut>> /\ evaluated' = evaluated \cup {w}
        /\ pc = "windows" /\ pc' = "windows"
    BY <1>10 DEF PassWindow, Evaluate, Goto, world, history
  <2>2. \A k \in Keys : Fresh(k)' => Fresh(k)
    BY <2>1 DEF Fresh, Opening
  <2>3. Followed' => Followed /\ OwnKey' = OwnKey /\ slug' = slug /\ cut' = cut
    BY <2>1 DEF Followed, OwnKey, Opening, Leaving
  <2>4. QED
    BY <1>1, <2>1, <2>2, <2>3, RowsUndisturbed
<1>11. ASSUME NEW w \in 1..Windows, PostBox(w) PROVE RowsSound' /\ VerdictsKept
  <2>1. /\ rows' = rows /\ UNCHANGED <<market, slug, cut>>
        /\ evaluated' = evaluated \cup {w} /\ w \notin evaluated
        /\ pc = "windows" /\ pc' = "place" /\ box'.sec = w
    BY <1>11 DEF PostBox, Evaluate, First, Due, Goto, world
  <2>2. OwnKey' = <<slug, w>>
    BY <2>1 DEF OwnKey
  <2>3. \A k \in Keys : Fresh(k)' => Fresh(k)
    BY <2>1, <2>2 DEF Fresh, Opening
  <2>4. ~Followed'
    BY <2>1 DEF Followed, Opening
  <2>5. QED
    BY <1>1, <2>1, <2>3, <2>4, RowsUndisturbed
<1>12. CASE PostDry \/ PostRefused \/ \E answered \in BOOLEAN : PostLive(answered)
  <2>1. /\ rows' = rows /\ UNCHANGED roll /\ pc = "posting" /\ pc' \in {"place", "insert"}
        /\ UNCHANGED <<market, cut>>
        /\ \/ box' = box \/ box' = [box EXCEPT !.id[leg] = "dry"]
           \/ box' = [box EXCEPT !.id[leg] = "live"]
    BY <1>12 DEF PostDry, PostRefused, PostLive, AfterLeg, Goto, world, history
  <2>2. box'.sec = box.sec
    BY <1>2, <2>1, LegGetsId DEF OrdersTyped, PlacesTyped
  <2>3. OwnKey' = OwnKey /\ pc \in Opening /\ ~Followed'
    BY <2>1, <2>2 DEF OwnKey, roll, Opening, Followed
  <2>4. QED
    BY <2>1, <2>3, <1>7
<1>13. CASE BeginTick
  <2>1. /\ rows' = rows /\ UNCHANGED <<roll, box, cut>> /\ pc = "idle"
        /\ pc' \notin Opening
    BY <1>13 DEF BeginTick, StartCancelling, Goto, Opening, history
  <2>2. Followed' => Followed /\ OwnKey' = OwnKey /\ slug' = slug /\ cut' = cut
    BY <2>1 DEF Followed, OwnKey, roll, Opening, Leaving
  <2>3. QED
    BY <1>1, <1>13, <2>1, <2>2, TimeKeepsFresh, RowsUndisturbed
<1>14. CASE \/ Fill \/ RequestKill \/ StoreKill \/ Outage \/ UNCHANGED vars
            \/ \E v \in BOOLEAN : SetLive(v)
            \/ CancelLeg \/ SameMarket \/ RollBox \/ KeepBox \/ HedgeBox \/ HedgeCancel
            \/ HedgePlace \/ WindowsDone \/ Place
  <2>1. rows' = rows /\ UNCHANGED <<roll, box, market, cut>>
    BY <1>14 DEF Fill, RequestKill, StoreKill, Outage, vars, SetLive, CancelLeg, SameMarket, RollBox, KeepBox,
                 HedgeBox, HedgeCancel, HedgePlace, WindowsDone, Place, ReadMode, roll, world, history
  <2>2. OwnKey' = OwnKey /\ slug' = slug
    BY <2>1 DEF OwnKey, roll
  <2>3. (pc' \in Opening <=> pc \in Opening) /\ (Followed' => Followed)
    BY <2>1, <1>14 DEF Fill, RequestKill, StoreKill, Outage, vars, sending, SetLive, CancelLeg, SameMarket, RollBox,
                KeepBox, HedgeBox, HedgeCancel, HedgePlace, WindowsDone, Place, ReadMode, FetchBooks,
                StartCancelling, StartSending, Goto, Opening, Leaving, Followed
  <2>4. QED
    BY <2>1, <2>2, <2>3, <1>7
<1>15. CASE Restart
  BY <1>2, <1>15, RestartRows
<1>16. CASE Crash
  <2>1. rows' = rows /\ ~Followed'
    BY <1>16 DEF Crash, Followed
  <2>2. QED
    BY <1>1, <1>16, <2>1, CrashKeepsFresh, RowsUndisturbed
<1>17. QED
  BY <1>3, <1>4, <1>5, <1>6, <1>8, <1>9, <1>10, <1>11, <1>12, <1>13, <1>14, <1>15, <1>16
     DEF Next, Tick

-----------------------------------------------------------------------------
\* The invariant and what follows from it.

LEMMA Dual40Starts == Init => Dual40IInv
<1> SUFFICES ASSUME Init PROVE Dual40IInv
  OBVIOUS
<1> USE Dual40Assumption DEF Dual40Assumption
<1>1. TypeOK
  <2>1. PlacesTyped
    <3>1. market \in 1..MaxMarkets /\ due \in 0..Windows /\ slug \in 0..market
      BY DEF Init
    <3>2. live \in BOOLEAN /\ dark \in BOOLEAN
      BY DEF Init
    <3>3. /\ killReq \in BOOLEAN /\ button \in {"idle", "kill"}
          /\ up \in BOOLEAN /\ pc \in Places
          /\ evaluated \subseteq 1..Windows /\ entered \in BOOLEAN
          /\ leg \in Sides /\ dry \in BOOLEAN /\ why \in {"kill", "roll", "closed"}
      BY DEF Init, Places, Sides
    <3>4. QED
      BY <3>1, <3>2, <3>3 DEF PlacesTyped
  <2>2. OrdersTyped
    <3>1. boxes = <<>> /\ Len(boxes) = 0 /\ box = NoBox /\ resting = {} /\ excused = {}
      BY DEF Init
    <3>2. boxes \in Seq(1..MaxMarkets)
      BY <3>1
    <3>3. NoBox.id \in BoxIds
      BY DEF NoBox, BoxIds
    <3>4. box \in [n : 0..0, sec : 0..Windows, id : BoxIds]
      BY <3>1, <3>3 DEF NoBox
    <3>5. QED
      BY <3>1, <3>2, <3>4 DEF OrdersTyped
  <2>3. CountsTyped /\ faults \in [presses : 0..MaxPresses, errors : 0..MaxFaults,
                                   crashes : 0..MaxFaults]
    BY DEF Init, CountsTyped
  <2>4. rows \in [Keys -> Rows]
    <3>1. NoRow \in Rows
      BY DEF NoRow, Rows, RowStates
    <3>2. QED
      BY <3>1 DEF Init
  <2>5. QED
    BY <2>1, <2>2, <2>3, <2>4, TypeParts
<1>2. MemorySound
  BY DEF Init, MemorySound, InMarket, Opening, Hedging, Leaving
<1>3. OrdersSound
  BY DEF Init, OrdersSound, OrdersAreTracked
<1>4. BoxesCounted
  <2>1. \A m : BoxesOf(m) = {}
    BY DEF Init, BoxesOf
  <2>2. \A m : Allowed(m) \in Nat
    BY DEF Init, Allowed
  <2>3. QED
    BY <2>1, <2>2, FS_EmptySet DEF BoxesCounted
<1>5. LateCounted
  BY DEF Init, LateCounted, OnItsWay
<1>6. FaultsCounted
  BY Dual40Assumption DEF Init, FaultsCounted, Within, Dual40Assumption
<1>7. RowsSound
  <2>1. \A k \in Keys : rows[k].state = "none"
    BY DEF Init, NoRow
  <2>2. ~Followed
    BY DEF Init, Followed
  <2>3. QED
    BY <2>1, <2>2 DEF RowsSound
<1>8. QED
  BY <1>1, <1>2, <1>3, <1>4, <1>5, <1>6, <1>7 DEF Dual40IInv

LEMMA Dual40Steps == Dual40IInv /\ [Next]_vars => Dual40IInv'
<1> SUFFICES ASSUME Dual40IInv, [Next]_vars PROVE Dual40IInv'
  OBVIOUS
<1>1. /\ TypeOK /\ MemorySound /\ OrdersSound /\ BoxesCounted
      /\ LateCounted /\ FaultsCounted /\ RowsSound /\ PlacesTyped /\ OrdersTyped
  BY TypeParts DEF Dual40IInv
<1>2. FaultsCounted'
  BY <1>1, FaultsKept
<1>3. TypeOK'
  BY <1>1, <1>2, TypeKept
<1>4. OrdersTyped'
  BY <1>1, OrdersKept
<1>5. MemorySound'
  BY <1>1, MemoryKept
<1>6. OrdersSound'
  BY <1>1, <1>4, OrdersSoundKept
<1>7. BoxesCounted'
  BY <1>1, <1>3, BoxesKept
<1>8. LateCounted'
  BY <1>1, LateKept
<1>9. RowsSound'
  BY <1>1, RowsStep
<1>10. QED
  BY <1>2, <1>3, <1>5, <1>6, <1>7, <1>8, <1>9 DEF Dual40IInv

\* The invariant of the Dual40 executor holds in every reachable state.
THEOREM Dual40StaysSound == Spec => []Dual40IInv
  BY Dual40Starts, Dual40Steps, PTL DEF Spec

\* The variables of the observer, the client and the tables keep their types.
THEOREM Dual40TypesAreKept == Spec => []TypeOK
<1>1. Dual40IInv => TypeOK
  BY DEF Dual40IInv
<1>2. QED
  BY <1>1, Dual40StaysSound, PTL

\* An order that rests is the box's in memory under its id, or was left behind
\* in one of the known ways (place, Cancel, killAll, InsertDual40Trial).
THEOREM NoOrderIsLost == Spec => []OrdersAreTracked
<1>1. Dual40IInv => OrdersAreTracked
  BY DEF Dual40IInv, OrdersSound
<1>2. QED
  BY <1>1, Dual40StaysSound, PTL

\* A market gets a second box only after a box was dropped without its row or
\* the process died (marketEntered, rollMarket, openRestingBox).
THEOREM OneEntryPerMarket == Spec => []OneBoxPerMarket
<1>1. Dual40IInv => OneBoxPerMarket
  <2> SUFFICES ASSUME Dual40IInv, NEW m \in 1..MaxMarkets
               PROVE  Cardinality(BoxesOf(m)) <= 1 + dropped + faults.crashes
    BY DEF OneBoxPerMarket, BoxesOf
  <2>1. OrdersTyped /\ dropped \in Nat /\ faults.crashes \in Nat
    BY TypeParts DEF Dual40IInv, TypeOK
  <2>2. Cardinality(BoxesOf(m)) \in Nat /\ Cardinality(BoxesOf(m)) <= Allowed(m)
    BY <2>1, BoxesAreFinite DEF Dual40IInv, BoxesCounted
  <2>3. QED
    BY <2>1, <2>2 DEF Allowed
<1>2. QED
  BY <1>1, Dual40StaysSound, PTL

\* Each switch from live to dry mode lets at most one order through, the one
\* place() had read the mode for.
THEOREM OneSlipPerSwitch == Spec => []OneOrderSlipsPerSwitch
<1>1. Dual40IInv => OneOrderSlipsPerSwitch
  BY DEF Dual40IInv, LateCounted, OneOrderSlipsPerSwitch
<1>2. QED
  BY <1>1, Dual40StaysSound, PTL

\* No statement of the observer, in whatever process, changes a row that has its
\* verdict, but for the markets that were on when a process died
\* (InsertDual40Trial, UpdateDual40Trial, newDual40Runtime).
THEOREM StoredVerdictsStand == Spec => VerdictsStand
<1>1. Dual40IInv /\ [Next]_vars => [VerdictsKept]_vars
  BY RowsStep DEF Dual40IInv
<1>2. QED
  BY <1>1, Dual40StaysSound, PTL DEF Spec, VerdictsStand, VerdictsKept
================================================================================
