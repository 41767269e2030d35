------------------------------- MODULE DeepBook -------------------------------
(***************************************************************************)
(* The full-depth order book of Binance                                    *)
(* (internal/binance/microstructure.go, MicrostructureClient).  Two        *)
(* goroutines write it: run dials, takes a snapshot over REST and applies  *)
(* the differences the websocket sends; runRESTFallback replaces it, once  *)
(* a second, whenever it is not fed by differences or is too old.  Each    *)
(* asks first and locks afterwards, so an answer can be older than what    *)
(* the other has written in the meantime.                                  *)
(*                                                                         *)
(* Updates of the exchange are numbered.  A level's size is named by the   *)
(* update that set it last; a size of zero, which removes the level, is a  *)
(* size like any other.  The fallback asks for 1000 levels a side, the     *)
(* snapshot for 5000: levels are Near (in both answers) or Far (in the     *)
(* snapshot only).  A read deadline that passes is a lost connection.      *)
(***************************************************************************)
EXTENDS Naturals, Sequences

CONSTANTS Near, Far,      \* levels of the book
          Span,           \* those that take each side to 75 USD from its best price
          MaxUpdates,     \* bounds: the last number of an update,
          MaxBookFaults   \* connections lost, dials and requests that fail

Levels == Near \cup Far

ASSUME DeepBookAssumption == /\ Near \cap Far = {} /\ Levels # {}
                             /\ Span \subseteq Levels
                             /\ MaxUpdates \in Nat \ {0}
                             /\ MaxBookFaults \in Nat

VARIABLES
    \* the exchange
    history,       \* history[n]: the book after update n
    \* run and its connection
    deepPc,        \* where run is: see DeepPlaces
    deepLink,      \* "none", "up", "broken" or "closed" (by Stop)
    deepAt,        \* the last update read from the connection
    deepAnswer,    \* the update of the snapshot it was answered, or 0
    deepConn,      \* whether the field conn is set
    \* runRESTFallback
    restPc,        \* "idle", "asked", "answered" or "done"
    restAnswer,    \* the update of the answer
    \* fields of MicrostructureClient
    book,          \* bids and asks: the update that set a level, or 0
    lastUpdateID, source, synchronized,
    bookAge,       \* 0: up to 1.5 s, 1: up to 3 s, 2: older, or no book yet
    \* Stop
    stopping,      \* 0: not called, 1: stopChan is closed, 2: conn is closed too
    bookFaults

deepRun == <<deepPc, deepLink, deepAt, deepAnswer, deepConn>>
deepRest == <<restPc, restAnswer>>
deepFields == <<book, lastUpdateID, source, synchronized, bookAge>>
bookVars == <<history, deepRun, deepRest, deepFields, stopping, bookFaults>>

DeepPlaces == {"top", "dialing", "dialed", "asking", "answered", "reading",
               "dropped", "cleared", "waiting", "done"}

NoBook == [p \in Levels |-> 0]

DeepInit == /\ history = <<[p \in Levels |-> 1]>>
            /\ deepPc = "top" /\ deepLink = "none" /\ deepAt = 0
            /\ deepAnswer = 0 /\ deepConn = FALSE
            /\ restPc = "idle" /\ restAnswer = 0
            /\ book = NoBook /\ lastUpdateID = 0 /\ source = "UNINITIALIZED"
            /\ synchronized = FALSE /\ bookAge = 2
            /\ stopping = 0 /\ bookFaults = 0

-----------------------------------------------------------------------------
(***************************************************************************)
(* The exchange, the network and the clock.                                *)
(***************************************************************************)
Exch == Len(history)

Update == /\ Exch < MaxUpdates
          /\ \E p \in Levels :
                 history' = Append(history, [history[Exch] EXCEPT ![p] = Exch + 1])
          /\ UNCHANGED <<deepRun, deepRest, deepFields, stopping, bookFaults>>

Fault == bookFaults < MaxBookFaults /\ bookFaults' = bookFaults + 1

LinkBreaks == /\ deepLink = "up"
              /\ Fault
              /\ deepLink' = "broken"
              /\ UNCHANGED <<history, deepPc, deepAt, deepAnswer, deepConn, deepRest,
                             deepFields, stopping>>

BookAges == /\ bookAge < 2
            /\ bookAge' = bookAge + 1
            /\ UNCHANGED <<history, deepRun, deepRest, book, lastUpdateID, source,
                           synchronized, stopping, bookFaults>>

-----------------------------------------------------------------------------
(***************************************************************************)
(* run and readLoop.                                                       *)
(***************************************************************************)
MarkDesynced(why) == /\ synchronized' = FALSE
                     /\ source' = why
                     /\ UNCHANGED <<book, lastUpdateID, bookAge>>

CheckStop == /\ deepPc = "top"
             /\ deepPc' = IF stopping > 0 THEN "done" ELSE "dialing"
             /\ UNCHANGED <<history, deepLink, deepAt, deepAnswer, deepConn, deepRest,
                            deepFields, stopping, bookFaults>>

DeepDialFails == /\ deepPc = "dialing"
                 /\ Fault
                 /\ MarkDesynced("CONNECT_FAILED")
                 /\ deepPc' = "waiting"
                 /\ UNCHANGED <<history, deepLink, deepAt, deepAnswer, deepConn, deepRest,
                                stopping>>

DeepDial == /\ deepPc = "dialing"
            /\ deepPc' = "dialed" /\ deepLink' = "up" /\ deepAt' = Exch
            /\ UNCHANGED <<history, deepAnswer, deepConn, deepRest, deepFields, stopping,
                           bookFaults>>

DeepRegister == /\ deepPc = "dialed"
                /\ deepPc' = "asking" /\ deepConn' = TRUE
                /\ UNCHANGED <<history, deepLink, deepAt, deepAnswer, deepRest, deepFields,
                               stopping, bookFaults>>

\* loadSnapshot: the exchange answers, and then the answer is stored.  It comes
\* from after the subscription.
SnapshotAnswered == /\ deepPc = "asking"
                    /\ deepPc' = "answered" /\ deepAnswer' = Exch
                    /\ UNCHANGED <<history, deepLink, deepAt, deepConn, deepRest, deepFields,
                                   stopping, bookFaults>>

SnapshotFails == /\ deepPc \in {"asking", "answered"}
                 /\ Fault
                 /\ MarkDesynced("SNAPSHOT_FAILED")
                 /\ deepPc' = "waiting" /\ deepLink' = "none" /\ deepAnswer' = 0
                 /\ UNCHANGED <<history, deepAt, deepConn, deepRest, stopping>>

LoadSnapshot == /\ deepPc = "answered"
                /\ book' = history[deepAnswer]
                /\ lastUpdateID' = deepAnswer /\ bookAge' = 0
                /\ synchronized' = FALSE /\ source' = "SNAPSHOT"
                /\ deepPc' = "reading" /\ deepAnswer' = 0
                /\ UNCHANGED <<history, deepLink, deepAt, deepConn, deepRest, stopping,
                               bookFaults>>

\* applySide: the levels an event from `first' to `final' touched, with their
\* sizes after `final'.
Applied(first, final) ==
    [p \in Levels |-> IF history[final][p] >= first THEN history[final][p] ELSE book[p]]

\* An event with the updates after deepAt up to `final' is read: it is old, does
\* not follow the book, or is applied.
ApplyDiffUnchecked(final) ==
    \/ /\ final <= lastUpdateID
       /\ UNCHANGED <<deepPc, deepFields>>
    \/ /\ final > lastUpdateID
       /\ book' = Applied(deepAt + 1, final)
       /\ lastUpdateID' = final /\ bookAge' = 0
       /\ synchronized' = TRUE /\ source' = "DIFF"
       /\ UNCHANGED deepPc

ApplyDiff(final) ==
    \/ /\ final <= lastUpdateID
       /\ UNCHANGED <<deepPc, deepFields>>
    \/ /\ final > lastUpdateID
       /\ deepAt + 1 > lastUpdateID + 1
       /\ deepPc' = "dropped"
       /\ UNCHANGED deepFields
    \/ /\ final > lastUpdateID
       /\ deepAt + 1 <= lastUpdateID + 1
       /\ book' = Applied(deepAt + 1, final)
       /\ lastUpdateID' = final /\ bookAge' = 0
       /\ synchronized' = TRUE /\ source' = "DIFF"
       /\ UNCHANGED deepPc

ReadDiff == /\ deepPc = "reading" /\ deepLink = "up"
            /\ \E final \in deepAt + 1 .. Exch : ApplyDiff(final) /\ deepAt' = final
            /\ UNCHANGED <<history, deepLink, deepAnswer, deepConn, deepRest, stopping,
                           bookFaults>>

DeepReadFails == /\ deepPc = "reading" /\ deepLink \in {"broken", "closed"}
                 /\ deepPc' = "dropped"
                 /\ UNCHANGED <<history, deepLink, deepAt, deepAnswer, deepConn, deepRest,
                                deepFields, stopping, bookFaults>>

\* conn.Close, conn = nil; the book is marked afterwards.
DeepClear == /\ deepPc = "dropped"
             /\ deepPc' = "cleared" /\ deepLink' = "none" /\ deepConn' = FALSE
             /\ UNCHANGED <<history, deepAt, deepAnswer, deepRest, deepFields, stopping,
                            bookFaults>>

DeepDisconnected ==
    /\ deepPc = "cleared"
    /\ MarkDesynced("DISCONNECTED")
    /\ deepPc' = IF stopping > 0 THEN "done" ELSE "waiting"
    /\ UNCHANGED <<history, deepLink, deepAt, deepAnswer, deepConn, deepRest, stopping,
                   bookFaults>>

DeepWakes == /\ deepPc = "waiting"
             /\ deepPc' = IF stopping > 0 THEN "done" ELSE "top"
             /\ UNCHANGED <<history, deepLink, deepAt, deepAnswer, deepConn, deepRest,
                            deepFields, stopping, bookFaults>>

-----------------------------------------------------------------------------
(***************************************************************************)
(* runRESTFallback.                                                        *)
(***************************************************************************)
\* Mutated form: only the age is looked at, and a quiet book looks young.
BookNeedsRESTWhenOld == source = "DIFF" /\ bookAge > 0

BookNeedsREST == source # "DIFF" \/ bookAge > 0

RestPoll == /\ restPc = "idle"
            /\ BookNeedsREST
            /\ restPc' = "asked"
            /\ UNCHANGED <<history, deepRun, restAnswer, deepFields, stopping, bookFaults>>

RestAnswered == /\ restPc = "asked"
                /\ restPc' = "answered" /\ restAnswer' = Exch
                /\ UNCHANGED <<history, deepRun, deepFields, stopping, bookFaults>>

RestFails == /\ restPc = "asked"
             /\ Fault
             /\ restPc' = "idle"
             /\ UNCHANGED <<history, deepRun, restAnswer, deepFields, stopping>>

\* The answer replaces the book, whatever the book is by now.
LoadRESTBook ==
    /\ restPc = "answered"
    /\ book' = [p \in Levels |-> IF p \in Near THEN history[restAnswer][p] ELSE 0]
    /\ lastUpdateID' = restAnswer /\ bookAge' = 0
    /\ synchronized' = TRUE /\ source' = "REST"
    /\ restPc' = "idle" /\ restAnswer' = 0
    /\ UNCHANGED <<history, deepRun, stopping, bookFaults>>

RestStops == /\ restPc = "idle" /\ stopping > 0
             /\ restPc' = "done"
             /\ UNCHANGED <<history, deepRun, restAnswer, deepFields, stopping, bookFaults>>

-----------------------------------------------------------------------------
(***************************************************************************)
(* Stop, and what readers are shown.                                       *)
(***************************************************************************)
CloseStopChan == /\ stopping = 0
                 /\ stopping' = 1
                 /\ UNCHANGED <<history, deepRun, deepRest, deepFields, bookFaults>>

\* Mutated form: only the channel is closed.
CloseNothing == /\ stopping = 1
                /\ stopping' = 2
                /\ UNCHANGED <<history, deepRun, deepRest, deepFields, bookFaults>>

CloseConn == /\ stopping = 1
             /\ stopping' = 2
             /\ deepLink' = IF deepConn /\ deepLink # "none" THEN "closed" ELSE deepLink
             /\ UNCHANGED <<history, deepPc, deepAt, deepAnswer, deepConn, deepRest,
                            deepFields, bookFaults>>

\* Snapshot's Ready: in step with the exchange, at most 3 seconds old, and both
\* sides reach 75 USD.
Ready == /\ synchronized /\ bookAge < 2
         /\ \A p \in Span : book[p] > 0

Stopped == deepPc = "done" /\ restPc = "done"

RunStep == \/ CheckStop \/ DeepDial \/ DeepRegister \/ SnapshotAnswered \/ LoadSnapshot
           \/ DeepReadFails \/ DeepClear \/ DeepDisconnected \/ DeepWakes
RestStep == RestPoll \/ RestAnswered \/ LoadRESTBook

DeepNext == \/ Update \/ LinkBreaks \/ BookAges
            \/ RunStep \/ DeepDialFails \/ SnapshotFails \/ ReadDiff
            \/ RestStep \/ RestFails \/ RestStops
            \/ CloseStopChan \/ CloseConn

DeepSpec == DeepInit /\ [][DeepNext]_bookVars

-----------------------------------------------------------------------------
DeepTypeOK ==
    /\ history \in Seq([Levels -> 1..MaxUpdates]) /\ Exch \in 1..MaxUpdates
    /\ deepPc \in DeepPlaces
    /\ deepLink \in {"none", "up", "broken", "closed"}
    /\ deepAt \in 0..Exch /\ deepAnswer \in 0..Exch /\ deepConn \in BOOLEAN
    /\ restPc \in {"idle", "asked", "answered", "done"} /\ restAnswer \in 0..Exch
    /\ book \in [Levels -> 0..MaxUpdates] /\ lastUpdateID \in 0..Exch
    /\ source \in {"UNINITIALIZED", "CONNECT_FAILED", "SNAPSHOT_FAILED", "SNAPSHOT",
                   "DIFF", "REST", "DISCONNECTED"}
    /\ synchronized \in BOOLEAN /\ bookAge \in 0..2
    /\ stopping \in 0..2 /\ bookFaults \in 0..MaxBookFaults

\* However snapshots, differences and late answers of the fallback interleave,
\* the book is the exchange's book at its own update number; of the levels the
\* fallback does not ask for, some may be missing, but none is wrong.
BookIsExact ==
    lastUpdateID > 0 =>
        \A p \in Levels : \/ book[p] = history[lastUpdateID][p]
                          \/ p \in Far /\ book[p] = 0

\* While run reads, the book is as new as what it has read, unless the last to
\* write it was the fallback: only a late answer of the fallback makes run see a
\* gap and give up its connection.
BehindOnlyByFallback ==
    deepPc = "reading" /\ lastUpdateID < deepAt => source = "REST"

\* The fallback's answer does not reach 75 USD.  Readers are not shown Ready until
\* its far levels change, or run takes another snapshot: nothing asks for them.
Cropped == LET missing == {p \in Span : book[p] = 0}
           IN  /\ synchronized /\ bookAge < 2
               /\ missing # {} /\ missing \subseteq Far

\* For liveness: the book is ready, but for what the fallback does not ask for,
\* or Stop has been called.
BookUsable == Ready \/ Cropped \/ stopping > 0

\* Stop is called, and run is not between dialing and registering a connection.
BookMustStop == stopping = 1 /\ deepPc \notin {"dialing", "dialed"}
=============================================================================
