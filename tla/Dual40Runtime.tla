---------------------------- MODULE Dual40Runtime ----------------------------
(***************************************************************************)
(* The Dual40 executor and its orders (cmd/pm-edge/dual40_shadow.go,       *)
(* internal/clob/client.go, internal/storage/dual40.go), in dry or live    *)
(* mode: the observer goroutine rolls markets, advances the box in memory, *)
(* opens one at the opening windows and sends its orders through the       *)
(* bridge; the buttons of the panel switch live mode on and off and        *)
(* request a kill from other goroutines; statements and requests may fail, *)
(* and the process may die between any two of them.                        *)
(*                                                                         *)
(* Of a box's life (module Dual40Trial) only its end matters here.  A box  *)
(* can only be opened while there is none: marketEntered is set with the   *)
(* active trial and cleared by rollMarket, which removes it; so `box' is   *)
(* the one element of the active map, or the box being opened.  An         *)
(* observer without an executor (shadow mode) sends nothing and is not     *)
(* modelled.                                                               *)
(***************************************************************************)
EXTENDS Integers, Sequences, FiniteSets

CONSTANTS Windows,      \* the number of EntrySeconds
          StartLive,    \* the configured mode: live or dry
          MaxMarkets,   \* bounds: markets,
          MaxPresses,   \* buttons pressed,
          MaxFaults     \* statements and requests that fail, and crashes

ASSUME Dual40Assumption ==
    /\ Windows \in Nat \ {0} /\ MaxMarkets \in Nat \ {0}
    /\ StartLive \in BOOLEAN
    /\ MaxPresses \in Nat /\ MaxFaults \in Nat

VARIABLES
    market, due,   \* of the last tick: the market that was on, the windows that were due
    dark,          \* the inputs of a tick are missing
    \* the buttons
    live,          \* clob.Client.live
    killReq,
    button,        \* "idle", or "kill" between the two stores of RequestKill
    \* the observer
    up,            \* whether the process runs
    pc,            \* where the tick is: see Places
    slug,          \* marketSlug, evaluated, marketEntered
    evaluated, entered,
    box,           \* the active trial with its order ids, or NoBox
    leg,           \* the order being sent or cancelled
    dry,           \* the mode place() read for it
    why,           \* what the orders are cancelled for
    \* outside the process
    resting,       \* orders that rest on the exchange
    rows,          \* dual40_trials, by market and entry second
    faults,        \* [presses, errors, crashes]
    \* history, not in the code
    boxes,         \* the market of every box posted
    excused,       \* orders left behind in a known way
    late, offs,    \* orders accepted in dry mode; times live mode was left
    dropped,       \* boxes posted whose row could not be inserted
    cut            \* markets that were on when the process died

world == <<market, due, dark>>
buttons == <<live, killReq, button>>
roll == <<slug, evaluated, entered>>
sending == <<leg, dry, why>>
history == <<boxes, excused, late, offs, dropped, cut>>
vars == <<world, buttons, up, pc, roll, box, sending, resting, rows, faults, history>>

Sides == {"UP", "DOWN"}
Places == {"idle", "roll", "advance", "windows", "place", "posting", "insert",
           "cancel", "drop", "hedge", "hedgeplace", "hedgepost"}

NoBox == [n |-> 0, sec |-> 0, id |-> [s \in Sides |-> "none"]]
NoRow == [state |-> "none", payload |-> "none", id |-> FALSE]
Keys == (1..MaxMarkets) \X (1..Windows)

\* Orders are named by their box and side.
Order(s) == <<box.n, s>>
OrdersOf(n) == {o \in resting : o[1] = n}

Init == /\ market = 1 /\ due = 0 /\ dark = FALSE
        /\ live = StartLive /\ killReq = FALSE /\ button = "idle"
        /\ up = TRUE /\ pc = "idle"
        /\ slug = 0 /\ evaluated = {} /\ entered = FALSE
        /\ box = NoBox
        /\ leg = "UP" /\ dry = TRUE /\ why = "kill"
        /\ resting = {}
        /\ rows = [k \in Keys |-> NoRow]
        /\ faults = [presses |-> 0, errors |-> 0, crashes |-> 0]
        /\ boxes = <<>> /\ excused = {} /\ late = 0 /\ offs = 0 /\ dropped = 0 /\ cut = {}

Press == /\ faults.presses < MaxPresses
         /\ faults' = [faults EXCEPT !.presses = @ + 1]

Fault(kind) == /\ faults.errors + faults.crashes < MaxFaults
               /\ faults' = [faults EXCEPT ![kind] = @ + 1]

\* A statement or request succeeds, or fails within the bound on errors.
Works == UNCHANGED faults
Fails == Fault("errors")

-----------------------------------------------------------------------------
(***************************************************************************)
(* The world and the buttons.                                              *)
(***************************************************************************)
\* The exchange fills an order: it does not rest any more.  Orders left behind
\* stay, which is the worst they can do.
Fill == /\ \E o \in resting \ excused : resting' = resting \ {o}
        /\ UNCHANGED <<world, buttons, up, pc, roll, box, sending, rows, faults, history>>

\* The price is stale, or the lookup of the market or the trade flow fails, or
\* all are back.  A tick asks for them once, when it starts.
Outage == /\ pc = "idle"
          /\ dark' = ~dark
          /\ UNCHANGED <<market, due, buttons, up, pc, roll, box, sending, resting, rows, faults,
                         history>>

Switch(v) == /\ live' = v
             /\ offs' = IF live /\ ~v THEN offs + 1 ELSE offs

SetLive(v) == /\ up
              /\ Press
              /\ Switch(v)
              /\ UNCHANGED <<world, killReq, button, up, pc, roll, box, sending, resting, rows,
                             boxes, excused, late, dropped, cut>>

\* RequestKill: first dry mode, then the request.
RequestKill == /\ up /\ button = "idle"
               /\ Press
               /\ Switch(FALSE)
               /\ button' = "kill"
               /\ UNCHANGED <<world, killReq, up, pc, roll, box, sending, resting, rows, boxes,
                              excused, late, dropped, cut>>

StoreKill == /\ button = "kill"
             /\ button' = "idle"
             /\ killReq' = TRUE
             /\ UNCHANGED <<world, live, up, pc, roll, box, sending, resting, rows, faults,
                            history>>

SendNothing == leg' = "UP" /\ dry' = TRUE /\ why' = "kill"

\* The process dies; an order on its way may still be accepted.
Crash == /\ up
         /\ Fault("crashes")
         /\ up' = FALSE
         /\ live' = FALSE /\ killReq' = FALSE /\ button' = "idle"
         /\ pc' = "idle" /\ box' = NoBox
         /\ slug' = 0 /\ evaluated' = {} /\ entered' = FALSE
         /\ \/ resting' = resting
            \/ pc = "posting" /\ ~dry /\ resting' = resting \cup {Order(leg)}
         /\ excused' = resting'
         /\ cut' = cut \cup {market}
         /\ SendNothing
         /\ UNCHANGED <<world, rows, boxes, late, offs, dropped>>

\* Mutated form: every row is taken for an open one.
RestartVoidingAll ==
    /\ ~up
    /\ up' = TRUE
    /\ live' = StartLive
    /\ LET void == {k \in Keys : rows[k].state # "none" /\ rows[k].id}
       IN  rows' = [k \in Keys |-> IF k \in void THEN [rows[k] EXCEPT !.state = "closed",
                                                                      !.payload = "closed"]
                                   ELSE rows[k]]
    /\ UNCHANGED <<world, killReq, button, pc, roll, box, sending, resting, faults, history>>

\* newDual40Runtime: the rows still open are void, if they can be written.  A
\* row whose payload never got its id cannot.
Restart == /\ ~up
           /\ up' = TRUE
           /\ live' = StartLive
           /\ LET open == {k \in Keys : rows[k].state = "open"}
                  void == {k \in open : rows[k].payload = "open" /\ rows[k].id}
              IN  \/ rows' = [k \in Keys |-> IF k \in void THEN [rows[k] EXCEPT !.state = "closed",
                                                                             !.payload = "closed"]
                                             ELSE rows[k]]
                  \/ void # {} /\ UNCHANGED rows
           /\ UNCHANGED <<world, killReq, button, pc, roll, box, sending, resting, faults, history>>

-----------------------------------------------------------------------------
(***************************************************************************)
(* Storing a box.                                                          *)
(***************************************************************************)
Key == <<market, box.sec>>

\* UpdateDual40Trial of the box; a failure is only logged.
Store(k, state) ==
    \/ /\ rows' = [rows EXCEPT ![k].state = state, ![k].payload = state, ![k].id = TRUE]
       /\ Works
    \/ Fails /\ UNCHANGED rows

\* InsertDual40Trial: a row of the same market and window stays, but its
\* payload is replaced.
Inserted(k, state) ==
    IF rows[k].state = "none" THEN [state |-> state, payload |-> state, id |-> FALSE]
                              ELSE rows[k]
InsertOK(k, state) ==
    /\ rows' = [rows EXCEPT ![k] = [Inserted(k, state) EXCEPT !.payload = state, !.id = TRUE]]
    /\ Works
InsertFails(k, state) ==
    /\ Fails
    /\ rows' \in {rows, [rows EXCEPT ![k] = Inserted(k, state)]}

-----------------------------------------------------------------------------
(***************************************************************************)
(* The tick.                                                               *)
(***************************************************************************)
Goto(place) == up /\ pc' = place

\* leg, dry and why, when they start to matter and when they do not any more.
StartSending(reason) == leg' = "UP" /\ dry' = TRUE /\ why' = reason

StartCancelling(reason) == Goto("cancel") /\ StartSending(reason)

\* A tick reads the clock once.
TimePasses == /\ \/ market' = market /\ due' \in due..Windows
                 \/ market' \in (market + 1)..MaxMarkets /\ due' \in 0..Windows
              /\ UNCHANGED dark

\* Mutated form: the kill waits for a tick in live mode.
BeginTickKillingWhenLive ==
    /\ pc = "idle" /\ ~dark
    /\ TimePasses
    /\ killReq' = (killReq /\ ~live)
    /\ IF killReq /\ live /\ box # NoBox
       THEN StartCancelling("kill")
       ELSE Goto("roll") /\ UNCHANGED sending
    /\ UNCHANGED <<live, button, up, roll, box, resting, rows, faults, history>>

\* observe returns before the tick while an input is missing; the tick looks for
\* a kill first.
BeginTick ==
    /\ pc = "idle" /\ ~dark
    /\ TimePasses
    /\ killReq' = FALSE
    /\ IF killReq /\ box # NoBox
       THEN StartCancelling("kill")
       ELSE Goto("roll") /\ UNCHANGED sending
    /\ UNCHANGED <<live, button, up, roll, box, resting, rows, faults, history>>

\* Client.Cancel of the leg: nothing in dry mode or for an order that is not
\* known; its error is ignored.
CancelOrder ==
    IF live /\ box.id[leg] = "live"
    THEN \/ /\ resting' = resting \ {Order(leg)}
            /\ excused' = excused \ {Order(leg)}
            /\ Works
         \/ /\ Fails
            /\ excused' = excused \cup ({Order(leg)} \cap resting)
            /\ UNCHANGED resting
    ELSE /\ excused' = IF box.id[leg] = "live"
                       THEN excused \cup ({Order(leg)} \cap resting) ELSE excused
         /\ Works /\ UNCHANGED resting

\* cancelResting.
CancelLeg == /\ pc = "cancel"
             /\ CancelOrder
             /\ IF leg = "UP" THEN Goto("cancel") /\ leg' = "DOWN"
                              ELSE Goto("drop") /\ leg' = "UP"
             /\ UNCHANGED <<world, buttons, up, roll, box, dry, why, rows, boxes, late,
                            offs, dropped, cut>>

\* The key of the active box: of the market it was posted in, which is `slug'.
OwnKey == <<slug, box.sec>>

\* Mutated form: the kill also forgets that the market was entered.
DropKilledForgettingEntry ==
    /\ pc = "drop" /\ why = "kill"
    /\ Store(OwnKey, "closed")
    /\ box' = NoBox
    /\ entered' = FALSE
    /\ Goto("roll")
    /\ UNCHANGED <<world, buttons, up, slug, evaluated, sending, resting, boxes,
                   excused, late, offs, dropped, cut>>

\* killAll: the box is void and followed no longer.
DropKilled == /\ pc = "drop" /\ why = "kill"
              /\ Store(OwnKey, "closed")
              /\ box' = NoBox
              /\ Goto("roll")
              /\ UNCHANGED <<world, buttons, up, roll, sending, resting, boxes, excused, late,
                             offs, dropped, cut>>

NewMarket == slug' = market /\ evaluated' = {} /\ entered' = FALSE

\* Both books are fetched, or the tick ends.
FetchBooks == Goto("advance") \/ Goto("idle")

SameMarket == /\ pc = "roll" /\ slug = market
              /\ FetchBooks
              /\ UNCHANGED <<world, buttons, up, roll, box, sending, resting, rows, faults,
                             history>>

\* rollMarket, with and without a box.
RollEmpty == /\ pc = "roll" /\ slug # market /\ box = NoBox
             /\ NewMarket
             /\ FetchBooks
             /\ UNCHANGED <<world, buttons, up, box, sending, resting, rows, faults,
                            history>>

\* Mutated form: the roll drops a box whose market is over with its orders.
RollBoxUncancelled ==
    /\ pc = "roll" /\ slug # market /\ box # NoBox
    /\ Goto("drop") /\ StartSending("roll")
    /\ UNCHANGED <<world, buttons, up, roll, box, resting, rows, faults, history>>

RollBox == /\ pc = "roll" /\ slug # market /\ box # NoBox
           /\ StartCancelling("roll")
           /\ UNCHANGED <<world, buttons, up, roll, box, resting, rows, faults, history>>

\* The box is settled at its outcome or, without fills or prices, void.
DropRolled == /\ pc = "drop" /\ why = "roll"
              /\ Store(OwnKey, "closed")
              /\ box' = NoBox
              /\ NewMarket
              /\ SendNothing
              /\ FetchBooks
              /\ UNCHANGED <<world, buttons, up, resting, history>>

\* advanceTrials: nothing happens to the box,
KeepBox == /\ pc = "advance"
           /\ Goto("windows")
           /\ UNCHANGED <<world, buttons, up, roll, box, sending, resting, rows, faults,
                          history>>

\* or it is closed and stored, and then its orders are cancelled,
CloseBox == /\ pc = "advance" /\ box # NoBox
            /\ Store(OwnKey, "closed")
            /\ StartCancelling("closed")
            /\ UNCHANGED <<world, buttons, up, roll, box, resting, history>>

\* or one side is hedged: hedgeLive cancels the order of that side first.
HedgeBox == /\ pc = "advance" /\ box # NoBox
            /\ leg' \in Sides
            /\ Goto("hedge")
            /\ UNCHANGED <<world, buttons, up, roll, box, dry, why, resting, rows, faults,
                           history>>

HedgeCancel == /\ pc = "hedge"
               /\ CancelOrder
               /\ Goto("hedgeplace")
               /\ UNCHANGED <<world, buttons, up, roll, box, sending, rows, boxes, late,
                              offs, dropped, cut>>

\* place() reads the mode, then posts the order.
ReadMode(place, posting) ==
    /\ pc = place
    /\ dry' = ~live
    /\ Goto(posting)
    /\ UNCHANGED <<world, buttons, up, roll, box, leg, why, resting, rows, faults, history>>

HedgePlace == ReadMode("hedgeplace", "hedgepost")

\* A marketable order never rests.  The hedged box is stored and closed.
HedgePost == /\ pc = "hedgepost"
             /\ late' = IF dry \/ live THEN late ELSE late + 1
             /\ Store(OwnKey, "closed")
             /\ StartCancelling("closed")
             /\ UNCHANGED <<world, buttons, up, roll, box, resting, boxes, excused, offs,
                            dropped, cut>>

DropClosed == /\ pc = "drop" /\ why = "closed"
              /\ box' = NoBox
              /\ SendNothing
              /\ Goto("windows")
              /\ UNCHANGED <<world, buttons, up, roll, resting, rows, faults, history>>

-----------------------------------------------------------------------------
(***************************************************************************)
(* evaluateOpeningWindows: the due windows, in order.                      *)
(***************************************************************************)
Due == {w \in 1..Windows : w \notin evaluated /\ w <= due}
First(w) == w \in Due /\ \A v \in Due : w <= v

WindowsDone == /\ pc = "windows" /\ Due = {}
               /\ Goto("idle")
               /\ UNCHANGED <<world, buttons, up, roll, box, sending, resting, rows, faults,
                              history>>

Evaluate(w) == pc = "windows" /\ First(w) /\ evaluated' = evaluated \cup {w}

\* One entry a market.
PassWindow(w) == /\ Evaluate(w)
                 /\ entered
                 /\ Goto("windows")
                 /\ UNCHANGED <<world, buttons, up, slug, entered, box, sending,
                                resting, rows, faults, history>>

SkipWindow(w) ==
    /\ Evaluate(w)
    /\ ~entered
    /\ InsertOK(<<market, w>>, "skipped") \/ InsertFails(<<market, w>>, "skipped")
    /\ Goto("windows")
    /\ UNCHANGED <<world, buttons, up, slug, entered, box, sending, resting,
                   history>>

\* NewRestingTrial: the orders are sent before the row is inserted.
PostBox(w) == /\ Evaluate(w)
              /\ ~entered
              /\ box' = [n |-> Len(boxes) + 1, sec |-> w, id |-> [s \in Sides |-> "none"]]
              /\ boxes' = Append(boxes, market)
              /\ leg' = "UP"
              /\ Goto("place")
              /\ UNCHANGED <<world, buttons, up, slug, entered, dry, why, resting,
                             rows, faults, excused, late, offs, dropped, cut>>

Place == ReadMode("place", "posting")

\* Mutated form: the second leg goes out in the mode read for the first.
AfterLegKeepingMode == IF leg = "UP" THEN Goto("posting") /\ leg' = "DOWN" /\ UNCHANGED dry
                                     ELSE Goto("insert") /\ leg' = "UP" /\ dry' = TRUE

AfterLeg == /\ IF leg = "UP" THEN Goto("place") /\ leg' = "DOWN"
                            ELSE Goto("insert") /\ leg' = "UP"
            /\ dry' = TRUE

\* A dry order is only signed.
PostDry == /\ pc = "posting" /\ dry
           /\ box' = [box EXCEPT !.id[leg] = "dry"]
           /\ AfterLeg
           /\ UNCHANGED <<world, buttons, up, roll, why, resting, rows, faults, history>>

\* A live order is accepted; its answer may be lost (8 s timeout) or without
\* an id.
PostLive(answered) ==
    /\ pc = "posting" /\ ~dry
    /\ resting' = resting \cup {Order(leg)}
    /\ late' = IF live THEN late ELSE late + 1
    /\ box' = IF answered THEN [box EXCEPT !.id[leg] = "live"] ELSE box
    /\ excused' = IF answered THEN excused ELSE excused \cup {Order(leg)}
    /\ IF answered THEN Works ELSE Fails
    /\ AfterLeg
    /\ UNCHANGED <<world, buttons, up, roll, why, rows, boxes, offs, dropped, cut>>

PostRefused == /\ pc = "posting"
               /\ AfterLeg
               /\ UNCHANGED <<world, buttons, up, roll, box, why, resting, rows, faults,
                              history>>

InsertBox == /\ pc = "insert"
             /\ InsertOK(Key, "open")
             /\ entered' = TRUE
             /\ Goto("windows")
             /\ UNCHANGED <<world, buttons, up, slug, evaluated, box, sending,
                            resting, history>>

\* Without its row the box is not followed, whatever was sent.
InsertBoxFails == /\ pc = "insert"
                  /\ InsertFails(Key, "open")
                  /\ box' = NoBox
                  /\ excused' = excused \cup OrdersOf(box.n)
                  /\ dropped' = dropped + 1
                  /\ Goto("windows")
                  /\ UNCHANGED <<world, buttons, up, roll, sending, resting, boxes,
                                 late, offs, cut>>

Tick == \/ BeginTick \/ CancelLeg \/ DropKilled \/ SameMarket \/ RollEmpty \/ RollBox
        \/ DropRolled \/ KeepBox \/ CloseBox \/ HedgeBox \/ HedgeCancel
        \/ HedgePlace \/ HedgePost \/ DropClosed \/ WindowsDone
        \/ \E w \in 1..Windows : PassWindow(w) \/ SkipWindow(w) \/ PostBox(w)
        \/ Place \/ PostDry \/ PostRefused \/ \E answered \in BOOLEAN : PostLive(answered)
        \/ InsertBox \/ InsertBoxFails

Next == \/ Fill
        \/ \E v \in BOOLEAN : SetLive(v)
        \/ RequestKill \/ StoreKill
        \/ Crash \/ Restart
        \/ Outage
        \/ Tick

Spec == Init /\ [][Next]_vars

\* The observer is called every second and its requests time out, so a tick goes
\* on, and one with all its inputs starts; the handler of the button is
\* scheduled.  Nothing says that an outage ends.
FairSpec == Spec /\ WF_vars(Tick) /\ WF_vars(StoreKill)

-----------------------------------------------------------------------------
RowStates == {"none", "skipped", "open", "closed"}

TypeOK == /\ market \in 1..MaxMarkets /\ due \in 0..Windows /\ dark \in BOOLEAN
          /\ live \in BOOLEAN /\ killReq \in BOOLEAN /\ button \in {"idle", "kill"}
          /\ up \in BOOLEAN /\ pc \in Places
          /\ slug \in 0..market
          /\ evaluated \subseteq 1..Windows /\ entered \in BOOLEAN
          /\ box \in [n : 0..Len(boxes), sec : 0..Windows,
                      id : [Sides -> {"none", "dry", "live"}]]
          /\ leg \in Sides /\ dry \in BOOLEAN /\ why \in {"kill", "roll", "closed"}
          /\ resting \subseteq (1..Len(boxes)) \X Sides
          /\ rows \in [Keys -> [state : RowStates, payload : RowStates, id : BOOLEAN]]
          /\ faults \in [presses : 0..MaxPresses, errors : 0..MaxFaults,
                         crashes : 0..MaxFaults]
          /\ boxes \in Seq(1..MaxMarkets)
          /\ excused \subseteq resting
          /\ late \in Nat /\ offs \in 0..MaxPresses /\ dropped \in 0..MaxFaults
          /\ cut \subseteq 1..MaxMarkets

\* Every order that rests on the exchange belongs to the box in memory under
\* its id.  An order is only left behind when it could not be cancelled (dry
\* mode, a failed request), when its answer was lost, when its row could not
\* be inserted, or when the process died.
OrdersAreTracked ==
    \A o \in resting \ excused : o[1] = box.n /\ box.id[o[2]] = "live"

\* "TUM acik emirleri iptal" (RequestKill, killAll, the panel's button): when
\* the kill switch drops a box, none of its orders rests on the exchange.
KillCancelsOrders == pc = "drop" /\ why = "kill" => OrdersOf(box.n) = {}

\* "TEK GIRIS/MARKET": a second box is posted in a market only after a box was
\* dropped without its row, or in a new process.
OneBoxPerMarket ==
    \A m \in 1..MaxMarkets :
        Cardinality({n \in 1..Len(boxes) : boxes[n] = m}) <= 1 + dropped + faults.crashes

\* Of the orders sent, at most one slips through each time live mode is left:
\* the one whose mode was read before and that was posted after.
OneOrderSlipsPerSwitch == late <= offs

\* A stored verdict stays as it is through failures, crashes and restarts.  Only
\* the market that was on when the process died is looked at again by the next
\* one, whose inserts and updates may then meet the rows it had.
VerdictsStand ==
    [][\A k \in Keys : rows[k].state \in {"skipped", "closed"} /\ k[1] \notin cut =>
           rows'[k] = rows[k]]_vars

\* A kill that was requested is carried out, once the outages of the inputs end:
\* it waits for a tick, and an outage keeps it, and the orders of the box, waiting.
KillIsServed == <>[]~dark => (killReq ~> ~killReq /\ box = NoBox)
=============================================================================
