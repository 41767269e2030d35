----------------------------- MODULE FeedProofs -----------------------------
(***************************************************************************)
(* What the feeds hold, for every set of levels, number of updates, window *)
(* length, grace, page size, number of trades, markets and faults: the     *)
(* deep book of Binance, the boundary prices of Chainlink, the market      *)
(* trade stream, the aggressive trade flow, and all of them together.      *)
(***************************************************************************)
EXTENDS Integers, MCFeeds, FiniteSetTheorems, WellFoundedInduction, TLAPS

-----------------------------------------------------------------------------
(***************************************************************************)
(* The deep book.                                                          *)
(***************************************************************************)

\* The exchange never reuses a number: a level keeps the number that set it or
\* gets a later one.
Ordered == \A m, n \in 1..Exch : \A p \in Levels :
              n <= m => history[m][p] = history[n][p] \/ history[m][p] > n

\* An answer that is waiting to be stored has a number, and the snapshot's is
\* not older than the subscription.
Numbered == /\ deepPc = "answered" => deepAnswer >= 1 /\ deepAt <= deepAnswer
            /\ restPc = "answered" => restAnswer >= 1

DeepIInv == DeepTypeOK /\ Ordered /\ Numbered /\ BookIsExact

LEMMA BookConstants == MaxUpdates \in Nat /\ MaxUpdates >= 1 /\ MaxBookFaults \in Nat
  BY DeepBookAssumption DEF DeepBookAssumption

LEMMA DeepInitSound == DeepInit => DeepIInv
<1> SUFFICES ASSUME DeepInit PROVE DeepIInv
  OBVIOUS
<1>1. history \in Seq([Levels -> 1..MaxUpdates]) /\ Len(history) = 1
      /\ \A p \in Levels : history[1][p] = 1
  BY BookConstants DEF DeepInit
<1>2. DeepTypeOK
  <2>1. book \in [Levels -> 0..MaxUpdates]
    <3>1. 0 \in 0..MaxUpdates /\ book = [p \in Levels |-> 0]
      BY BookConstants DEF DeepInit, NoBook
    <3>2. QED
      BY <3>1
  <2>3. deepConn \in BOOLEAN /\ synchronized \in BOOLEAN
    BY DEF DeepInit
  <2>2. Exch = 1 /\ Exch \in 1..MaxUpdates
    BY <1>1, BookConstants DEF Exch
  <2>4. QED
    BY <1>1, <2>1, <2>2, <2>3, BookConstants DEF DeepInit, DeepTypeOK, DeepPlaces
<1>3. Ordered
  BY <1>1 DEF Ordered, Exch
<1>4. Numbered /\ BookIsExact
  BY DEF DeepInit, Numbered, BookIsExact
<1>5. QED
  BY <1>2, <1>3, <1>4 DEF DeepIInv

\* An update adds a book to the history and changes none that is there.
LEMMA UpdateSound == DeepIInv /\ Update => DeepIInv'
<1> SUFFICES ASSUME DeepIInv, Update PROVE DeepIInv'
  OBVIOUS
<1> USE BookConstants
<1> DEFINE next(p) == [history[Exch] EXCEPT ![p] = Exch + 1]
<1>1. PICK q \in Levels : history' = Append(history, next(q))
  BY DEF Update
<1>2. /\ history \in Seq([Levels -> 1..MaxUpdates]) /\ Exch \in 1..MaxUpdates
      /\ Exch < MaxUpdates /\ Exch \in Nat
  BY DEF DeepIInv, DeepTypeOK, Update
<1>3. history[Exch] \in [Levels -> 1..MaxUpdates]
  BY <1>2 DEF Exch
<1>4. next(q) \in [Levels -> 1..MaxUpdates]
  BY <1>2, <1>3
<1>5. /\ history' \in Seq([Levels -> 1..MaxUpdates]) /\ Exch' = Exch + 1
      /\ \A m \in 1..Exch : history'[m] = history[m]
      /\ history'[Exch + 1] = next(q)
  BY <1>1, <1>2, <1>4 DEF Exch
<1> HIDE DEF next
<1>6. DeepTypeOK'
  BY <1>2, <1>5 DEF DeepIInv, DeepTypeOK, Update, deepRun, deepRest, deepFields
<1>7. Ordered'
  <2> SUFFICES ASSUME NEW m \in 1 .. Exch + 1, NEW n \in 1 .. Exch + 1, NEW p \in Levels,
                      n <= m
               PROVE  history'[m][p] = history'[n][p] \/ history'[m][p] > n
    BY <1>5 DEF Ordered
  <2>1. CASE m <= Exch
    <3>1. m \in 1..Exch /\ n \in 1..Exch
      BY <1>2, <2>1
    <3>2. history'[m] = history[m] /\ history'[n] = history[n]
      BY <1>5, <3>1
    <3>3. history[m][p] = history[n][p] \/ history[m][p] > n
      BY <3>1 DEF DeepIInv, Ordered
    <3>4. QED
      BY <3>2, <3>3
  <2>2. CASE m = Exch + 1 /\ n <= Exch
    <3>a. n \in 1..Exch
      BY <1>2, <2>2
    <3>b. \A k \in 1..Exch : history'[k] = history[k]
      BY ONLY <1>5
    <3>1. history'[n] = history[n] /\ n \in 1..Exch
      BY ONLY <3>a, <3>b
    <3>2. next(q)[p] = history[Exch][p] \/ next(q)[p] = Exch + 1
      BY <1>3 DEF next
    <3>3. history[Exch][p] = history[n][p] \/ history[Exch][p] > n
      BY <1>2, <3>1 DEF DeepIInv, Ordered
    <3>4. history'[m][p] = next(q)[p] /\ history'[n][p] = history[n][p]
      BY <1>5, <2>2, <3>1
    <3>5. CASE next(q)[p] = history[Exch][p]
      BY <3>3, <3>4, <3>5
    <3>6. CASE next(q)[p] = Exch + 1
      BY <1>2, <3>1, <3>4, <3>6
    <3>7. QED
      BY <3>2, <3>5, <3>6
  <2>3. CASE m = Exch + 1 /\ n = Exch + 1
    BY <2>3
  <2>4. QED
    BY <1>2, <2>1, <2>2, <2>3
<1>8. BookIsExact'
  <2>1. lastUpdateID \in 0..Exch /\ lastUpdateID' = lastUpdateID /\ book' = book
    BY DEF DeepIInv, DeepTypeOK, Update, deepFields
  <2>2. lastUpdateID > 0 => history'[lastUpdateID] = history[lastUpdateID]
    BY <1>2, <1>5, <2>1
  <2>3. QED
    BY <2>1, <2>2 DEF DeepIInv, BookIsExact
<1>9. QED
  BY <1>6, <1>7, <1>8 DEF DeepIInv, Numbered, Update, deepRun, deepRest

\* Differences are applied only to a book that has everything before them, so
\* the levels they do not name are as the exchange has them.
LEMMA DiffSound == DeepIInv /\ ReadDiff => DeepIInv'
<1> SUFFICES ASSUME DeepIInv, ReadDiff PROVE DeepIInv'
  OBVIOUS
<1> USE BookConstants
<1>1. PICK final \in deepAt + 1 .. Exch : ApplyDiff(final) /\ deepAt' = final
  BY DEF ReadDiff
<1>2. /\ history \in Seq([Levels -> 1..MaxUpdates]) /\ Exch \in 1..MaxUpdates
      /\ deepAt \in 0..Exch /\ lastUpdateID \in 0..Exch /\ Exch = Len(history)
      /\ book \in [Levels -> 0..MaxUpdates]
      /\ final \in 1..Exch
  BY <1>1 DEF DeepIInv, DeepTypeOK, Exch
<1>3. /\ history' = history /\ Exch' = Exch /\ deepLink' = deepLink
      /\ deepAnswer' = deepAnswer /\ deepConn' = deepConn
      /\ restPc' = restPc /\ restAnswer' = restAnswer
      /\ stopping' = stopping /\ bookFaults' = bookFaults
      /\ deepPc = "reading"
  BY DEF ReadDiff, deepRest, Exch
<1>4. deepPc' \in {"reading", "dropped"}
  BY <1>1, <1>3 DEF ApplyDiff
<1>5. Ordered' /\ Numbered'
  BY <1>3, <1>4 DEF DeepIInv, Ordered, Numbered
<1>6. CASE UNCHANGED deepFields
  BY <1>1, <1>2, <1>3, <1>4, <1>5, <1>6
     DEF DeepIInv, DeepTypeOK, BookIsExact, deepFields, DeepPlaces
<1>7. CASE /\ final > lastUpdateID /\ deepAt + 1 <= lastUpdateID + 1
           /\ book' = Applied(deepAt + 1, final)
           /\ lastUpdateID' = final /\ bookAge' = 0
           /\ synchronized' = TRUE /\ source' = "DIFF"
  <2>1. \A p \in Levels : history[final][p] \in 1..MaxUpdates
    BY <1>2
  <2>2. book' \in [Levels -> 0..MaxUpdates]
    BY <1>2, <1>7, <2>1 DEF Applied
  <2>3. DeepTypeOK'
    BY <1>1, <1>2, <1>3, <1>4, <1>7, <2>2 DEF DeepIInv, DeepTypeOK, DeepPlaces
  <2>4. \A p \in Levels : \/ book'[p] = history[final][p]
                          \/ p \in Far /\ book'[p] = 0
    <3> SUFFICES ASSUME NEW p \in Levels
                 PROVE  book'[p] = history[final][p] \/ (p \in Far /\ book'[p] = 0)
      OBVIOUS
    <3>1. book'[p] = IF history[final][p] >= deepAt + 1 THEN history[final][p] ELSE book[p]
      BY <1>7 DEF Applied
    <3>2. CASE history[final][p] >= deepAt + 1
      BY <3>1, <3>2
    <3>3. CASE history[final][p] <= deepAt
      <4>1. lastUpdateID \in 1..Exch /\ history[final][p] <= lastUpdateID
        BY <1>2, <1>7, <2>1, <3>3
      <4>2. history[final][p] = history[lastUpdateID][p] \/ history[final][p] > lastUpdateID
        BY <1>2, <1>7, <4>1 DEF DeepIInv, Ordered
      <4>3. book[p] = history[lastUpdateID][p] \/ (p \in Far /\ book[p] = 0)
        BY <4>1 DEF DeepIInv, BookIsExact
      <4>4. book'[p] = book[p]
        BY <1>2, <2>1, <3>1, <3>3
      <4>5. QED
        BY <1>2, <2>1, <4>1, <4>2, <4>3, <4>4
    <3>4. QED
      BY <1>2, <2>1, <3>2, <3>3
  <2>5. QED
    BY <1>3, <1>5, <1>7, <2>3, <2>4 DEF DeepIInv, BookIsExact
<1>8. QED
  BY <1>1, <1>6, <1>7 DEF ApplyDiff

\* A snapshot or an answer of the fallback is the exchange's book, or what the
\* fallback asks for of it.
LEMMA AnswersSound == DeepIInv /\ (LoadSnapshot \/ LoadRESTBook) => DeepIInv'
<1> SUFFICES ASSUME DeepIInv, LoadSnapshot \/ LoadRESTBook PROVE DeepIInv'
  OBVIOUS
<1> USE BookConstants
<1>1. /\ history \in Seq([Levels -> 1..MaxUpdates]) /\ Exch = Len(history)
      /\ Exch \in 1..MaxUpdates
  BY DEF DeepIInv, DeepTypeOK, Exch
<1>2. CASE LoadSnapshot
  <2>1. deepAnswer \in 1..Exch
    BY <1>2 DEF LoadSnapshot, DeepIInv, DeepTypeOK, Numbered
  <2>2. history[deepAnswer] \in [Levels -> 1..MaxUpdates]
    BY <1>1, <2>1
  <2>3. book' \in [Levels -> 0..MaxUpdates]
    BY <1>2, <2>2 DEF LoadSnapshot
  <2>4. DeepTypeOK'
    <3>1. /\ UNCHANGED <<history, deepLink, deepAt, deepConn, restPc, restAnswer, stopping,
                         bookFaults>>
          /\ deepPc' = "reading" /\ lastUpdateID' = deepAnswer /\ deepAnswer' = 0
          /\ source' = "SNAPSHOT" /\ synchronized' = FALSE /\ bookAge' = 0
      BY <1>2 DEF LoadSnapshot, deepRest
    <3>2. deepConn' \in BOOLEAN /\ synchronized' \in BOOLEAN
      BY <3>1 DEF DeepIInv, DeepTypeOK
    <3>3. /\ Exch' = Exch /\ deepAnswer' \in 0..Exch /\ lastUpdateID' \in 0..Exch
          /\ deepPc' \in DeepPlaces /\ bookAge' \in 0..2
      BY <2>1, <3>1, <1>1 DEF Exch, DeepPlaces
    <3>4. QED
      BY <2>3, <3>1, <3>2, <3>3 DEF DeepIInv, DeepTypeOK
  <2>5. QED
    BY <1>2, <2>1, <2>4
       DEF LoadSnapshot, DeepIInv, Ordered, Numbered, BookIsExact, deepRest, Exch
<1>3. CASE LoadRESTBook
  <2>1. restAnswer \in 1..Exch
    BY <1>3 DEF LoadRESTBook, DeepIInv, DeepTypeOK, Numbered
  <2>2. \A p \in Levels : history[restAnswer][p] \in 1..MaxUpdates
    BY <1>1, <2>1
  <2>3. book' \in [Levels -> 0..MaxUpdates]
    BY <1>3, <2>2 DEF LoadRESTBook
  <2>4. DeepTypeOK'
    BY <1>3, <2>1, <2>3 DEF LoadRESTBook, DeepIInv, DeepTypeOK, deepRun, Exch
  <2>5. \A p \in Levels : \/ book'[p] = history[restAnswer][p]
                          \/ p \in Far /\ book'[p] = 0
    BY <1>3 DEF LoadRESTBook, Levels
  <2>6. QED
    BY <1>3, <2>1, <2>4, <2>5
       DEF LoadRESTBook, DeepIInv, Ordered, Numbered, BookIsExact, deepRun, Exch
<1>4. QED
  BY <1>2, <1>3

\* Every other step leaves the history, the book and its number alone.
Elsewhere == \/ LinkBreaks \/ BookAges
             \/ CheckStop \/ DeepDial \/ DeepRegister \/ SnapshotAnswered
             \/ DeepReadFails \/ DeepClear \/ DeepDisconnected \/ DeepWakes
             \/ DeepDialFails \/ SnapshotFails
             \/ RestPoll \/ RestAnswered \/ RestFails \/ RestStops
             \/ CloseStopChan \/ CloseConn \/ UNCHANGED bookVars

LEMMA ElsewhereSound == DeepIInv /\ Elsewhere => DeepIInv'
<1> SUFFICES ASSUME DeepIInv, Elsewhere PROVE DeepIInv'
  OBVIOUS
<1> USE BookConstants
<1>1. UNCHANGED <<history, book, lastUpdateID>>
  BY DEF Elsewhere, LinkBreaks, BookAges, CheckStop, DeepDial, DeepRegister,
         SnapshotAnswered, DeepReadFails, DeepClear, DeepDisconnected, DeepWakes,
         DeepDialFails, SnapshotFails, RestPoll, RestAnswered, RestFails, RestStops,
         CloseStopChan, CloseConn, MarkDesynced, bookVars, deepFields
<1>2. Exch' = Exch /\ Exch \in 1..MaxUpdates /\ deepAt \in 0..Exch
  BY <1>1 DEF DeepIInv, DeepTypeOK, Exch
<1>3. Numbered'
  BY <1>2 DEF DeepIInv, Numbered,
         Elsewhere, LinkBreaks, BookAges, CheckStop, DeepDial, DeepRegister,
         SnapshotAnswered, DeepReadFails, DeepClear, DeepDisconnected, DeepWakes,
         DeepDialFails, SnapshotFails, RestPoll, RestAnswered, RestFails, RestStops,
         CloseStopChan, CloseConn, bookVars, deepRun, deepRest
<1>4. /\ deepPc' \in DeepPlaces /\ deepLink' \in {"none", "up", "broken", "closed"}
      /\ deepAt' \in 0..Exch /\ deepAnswer' \in 0..Exch /\ deepConn' \in BOOLEAN
  <2> USE DEF DeepIInv, DeepTypeOK, DeepPlaces,
         Elsewhere, LinkBreaks, BookAges, CheckStop, DeepDial, DeepRegister,
         SnapshotAnswered, DeepReadFails, DeepClear, DeepDisconnected, DeepWakes,
         DeepDialFails, SnapshotFails, RestPoll, RestAnswered, RestFails, RestStops,
         CloseStopChan, CloseConn, bookVars, deepRun
  <2>1. deepPc' \in DeepPlaces
    OBVIOUS
  <2>2. deepLink' \in {"none", "up", "broken", "closed"}
    OBVIOUS
  <2>3. deepAt' \in 0..Exch /\ deepAnswer' \in 0..Exch
    BY <1>2
  <2>4. deepConn' = deepConn \/ deepConn' = TRUE \/ deepConn' = FALSE
    OBVIOUS
  <2>5. QED
    BY <2>1, <2>2, <2>3, <2>4
<1>5. /\ restPc' \in {"idle", "asked", "answered", "done"} /\ restAnswer' \in 0..Exch
      /\ stopping' \in 0..2 /\ bookFaults' \in 0..MaxBookFaults
  BY <1>2 DEF DeepIInv, DeepTypeOK, Fault,
         Elsewhere, LinkBreaks, BookAges, CheckStop, DeepDial, DeepRegister,
         SnapshotAnswered, DeepReadFails, DeepClear, DeepDisconnected, DeepWakes,
         DeepDialFails, SnapshotFails, RestPoll, RestAnswered, RestFails, RestStops,
         CloseStopChan, CloseConn, bookVars, deepRest
<1>6. /\ synchronized' \in BOOLEAN /\ bookAge' \in 0..2
      /\ source' \in {"UNINITIALIZED", "CONNECT_FAILED", "SNAPSHOT_FAILED", "SNAPSHOT",
                      "DIFF", "REST", "DISCONNECTED"}
  <2> USE DEF DeepIInv, DeepTypeOK, MarkDesynced,
         Elsewhere, LinkBreaks, BookAges, CheckStop, DeepDial, DeepRegister,
         SnapshotAnswered, DeepReadFails, DeepClear, DeepDisconnected, DeepWakes,
         DeepDialFails, SnapshotFails, RestPoll, RestAnswered, RestFails, RestStops,
         CloseStopChan, CloseConn, bookVars, deepFields
  <2>1. synchronized' = synchronized \/ synchronized' = FALSE
    OBVIOUS
  <2>2. bookAge' \in 0..2
    OBVIOUS
  <2>3. source' \in {"UNINITIALIZED", "CONNECT_FAILED", "SNAPSHOT_FAILED", "SNAPSHOT",
                     "DIFF", "REST", "DISCONNECTED"}
    OBVIOUS
  <2>4. QED
    BY <2>1, <2>2, <2>3
<1>7. DeepTypeOK'
  BY <1>1, <1>2, <1>4, <1>5, <1>6 DEF DeepIInv, DeepTypeOK
<1>8. QED
  BY <1>1, <1>2, <1>3, <1>7 DEF DeepIInv, Ordered, BookIsExact

LEMMA DeepNextSound == DeepIInv /\ [DeepNext]_bookVars => DeepIInv'
  BY UpdateSound, DiffSound, AnswersSound, ElsewhereSound
     DEF DeepNext, RunStep, RestStep, Elsewhere

THEOREM BookStaysSound == DeepSpec => []DeepIInv
  BY DeepInitSound, DeepNextSound, PTL DEF DeepSpec

\* The book is the exchange's book at its own number, however many levels and
\* updates there are and however answers and differences interleave.
THEOREM BookStaysExact == DeepSpec => []BookIsExact
<1>1. DeepIInv => BookIsExact
  BY DEF DeepIInv
<1>2. QED
  BY <1>1, BookStaysSound, PTL

\* Only a late answer of the fallback puts the book behind what run has read, so
\* nothing else can make run see a gap and give up a connection that works.
THEOREM BehindByFallbackOnly == DeepSpec => []BehindOnlyByFallback
<1>1. DeepInit => BehindOnlyByFallback
  BY DEF DeepInit, BehindOnlyByFallback
<1>2. DeepIInv /\ BehindOnlyByFallback /\ [DeepNext]_bookVars => BehindOnlyByFallback'
  <2> SUFFICES ASSUME DeepIInv, BehindOnlyByFallback, [DeepNext]_bookVars
               PROVE  BehindOnlyByFallback'
    OBVIOUS
  <2>1. CASE ReadDiff
    <3>1. PICK final \in deepAt + 1 .. Exch : ApplyDiff(final) /\ deepAt' = final
      BY <2>1 DEF ReadDiff
    <3>2. lastUpdateID \in Nat /\ final \in Nat
      BY <3>1, BookConstants DEF DeepIInv, DeepTypeOK
    <3>3. deepPc' = "dropped" \/ lastUpdateID' >= final
      BY <3>1, <3>2 DEF ApplyDiff, deepFields
    <3>4. QED
      BY <3>1, <3>2, <3>3 DEF BehindOnlyByFallback, ApplyDiff, deepFields
  <2>2. CASE LoadSnapshot
    <3>1. deepAt \in Nat /\ deepAnswer \in Nat /\ deepAt <= deepAnswer
      BY <2>2, BookConstants DEF LoadSnapshot, DeepIInv, DeepTypeOK, Numbered
    <3>2. deepAt' = deepAt /\ lastUpdateID' = deepAnswer
      BY <2>2 DEF LoadSnapshot
    <3>3. QED
      BY <3>1, <3>2 DEF BehindOnlyByFallback
  <2>3. CASE LoadRESTBook
    BY <2>3 DEF LoadRESTBook, BehindOnlyByFallback
  <2>4. CASE Update \/ Elsewhere
    BY <2>4 DEF BehindOnlyByFallback, Update, MarkDesynced,
         Elsewhere, LinkBreaks, BookAges, CheckStop, DeepDial, DeepRegister,
         SnapshotAnswered, DeepReadFails, DeepClear, DeepDisconnected, DeepWakes,
         DeepDialFails, SnapshotFails, RestPoll, RestAnswered, RestFails, RestStops,
         CloseStopChan, CloseConn, bookVars, deepRun, deepFields
  <2>5. QED
    BY <2>1, <2>2, <2>3, <2>4 DEF DeepNext, RunStep, RestStep, Elsewhere
<1>3. QED
  BY <1>1, <1>2, BookStaysSound, PTL DEF DeepSpec
-----------------------------------------------------------------------------
(***************************************************************************)
(* The boundary prices.                                                    *)
(***************************************************************************)

\* Prices come in order, and only a boundary that a price has passed is anchored.
InOrder == /\ (observed = {} /\ lastObserved = 0) \/ lastObserved \in observed
           /\ \A t \in observed : t <= lastObserved
           /\ \A b \in Boundaries : anchors[b] # 0 => b <= lastObserved

FeedIInv == FeedTypeOK /\ InOrder /\ AnchorIsNearest

LEMMA FeedConstants ==
  /\ Window \in Nat /\ Window > 0 /\ Grace \in Nat /\ Grace < Window
  /\ KeepAnchors \in Nat /\ Window <= KeepAnchors
  /\ MaxStamp \in Nat /\ MaxStamp >= 1 /\ MaxFeedFaults \in Nat
  BY FeedAssumption DEF FeedAssumption

\* A number is its multiple of the window and a rest smaller than the window.
LEMMA Division ==
  ASSUME NEW t \in Nat
  PROVE  /\ t \div Window \in Nat /\ t % Window \in 0 .. Window - 1
         /\ t = Window * (t \div Window) + (t % Window)
<1> USE FeedConstants
<1>1. t % Window \in 0 .. Window - 1
  OBVIOUS
<1>2. t \div Window \in Nat
  OBVIOUS
<1>3. t = Window * (t \div Window) + (t % Window)
  OBVIOUS
<1>4. QED
  BY <1>1, <1>2, <1>3

LEMMA OneQuotient ==
  ASSUME NEW q \in Nat, NEW p \in Nat, NEW r \in Nat,
         Window * p <= Window * q + r, Window * q + r < Window * p + Window, r < Window
  PROVE  p = q
<1> USE FeedConstants
<1>1. p < q => Window * p + Window <= Window * q
  OBVIOUS
<1>2. q < p => Window * q + Window <= Window * p
  OBVIOUS
<1>3. Window * p \in Nat /\ Window * q \in Nat
  OBVIOUS
<1>4. QED
  BY <1>1, <1>2, <1>3

\* The boundary before a price is the only one less than a window before it.
LEMMA BoundaryBefore ==
  ASSUME NEW t \in Nat
  PROVE  /\ Boundary(t) \in Nat /\ Boundary(t) <= t /\ t < Boundary(t) + Window
         /\ \A b \in Boundaries : b \in Nat /\ (b <= t /\ t < b + Window => b = Boundary(t))
<1> USE FeedConstants
<1>1. /\ Boundary(t) = Window * (t \div Window)
      /\ Boundary(t) \in Nat /\ Boundary(t) <= t /\ t < Boundary(t) + Window
  BY Division DEF Boundary
<1>2. SUFFICES ASSUME NEW b \in Boundaries
               PROVE  b \in Nat /\ (b <= t /\ t < b + Window => b = Boundary(t))
  BY <1>1
<1>3. PICK s \in 0..MaxStamp : b = Boundary(s)
  BY DEF Boundaries
<1>4. s \in Nat
  BY <1>3
<1>5. b = Window * (s \div Window) /\ b \in Nat
  BY <1>3, <1>4, Division DEF Boundary
<1>6. ASSUME b <= t, t < b + Window
      PROVE  b = Boundary(t)
  <2>1. /\ t \div Window \in Nat /\ s \div Window \in Nat /\ t % Window \in Nat
        /\ t % Window < Window
        /\ t = Window * (t \div Window) + (t % Window)
    BY <1>4, Division
  <2>2. s \div Window = t \div Window
    BY <1>5, <1>6, <2>1, OneQuotient
  <2>3. QED
    BY <1>1, <1>5, <2>2
<1>7. QED
  BY <1>5, <1>6

\* The same for a price within the grace of a boundary.
LEMMA GraceBoundary ==
  ASSUME NEW t \in Nat, NEW b \in Boundaries, b <= t, t <= b + Grace
  PROVE  b = Boundary(t)
  BY BoundaryBefore, FeedConstants

LEMMA FeedInitSound == FeedInit => FeedIInv
<1> SUFFICES ASSUME FeedInit PROVE FeedIInv
  OBVIOUS
<1> USE FeedConstants
<1>1. \A b \in Boundaries : anchors[b] = 0
  BY DEF FeedInit
<1>2. anchors \in [Boundaries -> 0..stamp]
  BY DEF FeedInit
<1>3. observed = {} /\ lastObserved = 0
  BY DEF FeedInit
<1>4. InOrder /\ AnchorIsNearest
  BY <1>1, <1>3 DEF InOrder, AnchorIsNearest
<1>5. feedConn \in BOOLEAN
  BY DEF FeedInit
<1>6. FeedTypeOK
  BY <1>2, <1>5 DEF FeedInit, FeedTypeOK, FeedPlaces
<1>7. QED
  BY <1>4, <1>6 DEF FeedIInv

\* What a price t leaves at a boundary.
LEMMA ObserveSound ==
  ASSUME FeedIInv, NEW t \in lastObserved + 1 .. stamp, Observe(t)
  PROVE  /\ anchors' \in [Boundaries -> 0..stamp]
         /\ observed' \subseteq 1..stamp /\ lastObserved' \in 0..stamp
         /\ current' \in 0..stamp
         /\ InOrder' /\ AnchorIsNearest'
<1> USE FeedConstants
<1>1. /\ lastObserved \in Nat /\ stamp \in Nat /\ t \in Nat /\ t > lastObserved /\ t >= 1
      /\ t <= stamp
      /\ observed \subseteq 1..stamp /\ anchors \in [Boundaries -> 0..stamp]
  BY DEF FeedIInv, FeedTypeOK
<1>2. /\ observed' = observed \cup {t} /\ lastObserved' = t /\ current' = t
      /\ anchors' = [b \in Boundaries |-> IF b + KeepAnchors < t THEN 0
                                          ELSE IF b = Boundary(t) THEN Anchor(t, b)
                                          ELSE anchors[b]]
  BY DEF Observe
<1>3. \A u \in observed : u \in Nat /\ u >= 1 /\ u <= lastObserved
  BY <1>1 DEF FeedIInv, InOrder
<1> DEFINE Nearest(a, b) == /\ a \in observed' /\ Distance(a, b) <= Grace
                            /\ \A u \in observed' : Distance(a, b) <= Distance(u, b)
           Due(b) == \E u \in observed' : b <= u /\ u <= b + Grace
           Good(b) == /\ anchors'[b] \in 0..stamp
                      /\ anchors'[b] # 0 => b <= t /\ Nearest(anchors'[b], b)
                      /\ Due(b) => anchors'[b] # 0 \/ b + KeepAnchors < t
<1>4. \A b \in Boundaries : b \in Nat
  BY <1>1, BoundaryBefore
<1>5. ASSUME NEW b \in Boundaries, b + KeepAnchors < t
      PROVE  Good(b)
  <2>1. anchors'[b] = 0
    BY <1>2, <1>5
  <2>2. QED
    BY <1>1, <1>5, <2>1
<1>6. ASSUME NEW b \in Boundaries, anchors[b] # 0
      PROVE  /\ b <= t /\ Nearest(anchors[b], b)
  <2>1. b \in Nat /\ b <= lastObserved /\ anchors[b] \in observed
    BY <1>4, <1>6 DEF FeedIInv, InOrder, AnchorIsNearest
  <2>2. lastObserved \in observed /\ anchors[b] \in Nat
    BY <1>3, <2>1 DEF FeedIInv, InOrder
  <2>3. /\ Distance(anchors[b], b) <= Grace
        /\ \A u \in observed : Distance(anchors[b], b) <= Distance(u, b)
    BY <1>6 DEF FeedIInv, AnchorIsNearest
  <2>4. Distance(anchors[b], b) <= Distance(lastObserved, b)
    BY <2>2, <2>3
  <2>5. Distance(lastObserved, b) = lastObserved - b /\ Distance(t, b) = t - b
    BY <1>1, <2>1 DEF Distance
  <2>6. Distance(anchors[b], b) \in Int
    BY <2>1, <2>2 DEF Distance
  <2>7. Distance(anchors[b], b) <= Distance(t, b)
    BY <1>1, <2>1, <2>4, <2>5, <2>6
  <2>8. QED
    BY <1>1, <1>2, <2>1, <2>3, <2>7
<1>7. ASSUME NEW b \in Boundaries, ~(b + KeepAnchors < t), b # Boundary(t)
      PROVE  Good(b)
  <2>1. anchors'[b] = anchors[b]
    BY <1>2, <1>7
  <2>2. Due(b) => \E u \in observed : b <= u /\ u <= b + Grace
    BY <1>1, <1>2, <1>7, GraceBoundary
  <2>3. ~(b + KeepAnchors < lastObserved)
    BY <1>1, <1>4, <1>7
  <2>4. Due(b) => anchors[b] # 0
    BY <2>2, <2>3 DEF FeedIInv, AnchorIsNearest
  <2>5. anchors[b] \in 0..stamp
    BY <1>1
  <2>6. QED
    BY <1>6, <2>1, <2>4, <2>5
<1>8. ASSUME NEW b \in Boundaries, b = Boundary(t), ~(b + KeepAnchors < t)
      PROVE  Good(b)
  <2>1. anchors'[b] = Anchor(t, b)
    BY <1>2, <1>8
  <2>2. b \in Nat /\ b <= t /\ Distance(t, b) = t - b
    BY <1>1, <1>8, BoundaryBefore DEF Distance
  <2>3. ~(b + KeepAnchors < lastObserved)
    BY <1>1, <1>8, <2>2
  <2>4. CASE anchors[b] # 0
    <3>1. anchors'[b] = anchors[b]
      BY <2>1, <2>4 DEF Anchor
    <3>2. QED
      BY <1>1, <1>6, <2>4, <3>1
  <2>5. CASE anchors[b] = 0 /\ lastObserved >= b /\ lastObserved # 0
    <3>1. ~ \E u \in observed : b <= u /\ u <= b + Grace
      BY <2>3, <2>5 DEF FeedIInv, AnchorIsNearest
    <3>2. lastObserved \in observed
      BY <2>5 DEF FeedIInv, InOrder
    <3>3. lastObserved > b + Grace /\ t > b + Grace
      BY <1>1, <2>2, <2>5, <3>1, <3>2
    <3>4. Candidate(t, b) = t
      BY <1>1, <2>2, <2>5 DEF Candidate
    <3>5. anchors'[b] = 0
      BY <2>1, <2>2, <2>5, <3>3, <3>4, <1>1 DEF Anchor
    <3>6. ~Due(b)
      BY <1>1, <1>2, <2>2, <3>1, <3>3
    <3>7. QED
      BY <1>1, <3>5, <3>6
  <2>6. CASE anchors[b] = 0 /\ (lastObserved < b \/ lastObserved = 0)
    <3>1. \A u \in observed : u \in Nat /\ u <= lastObserved /\ lastObserved < b
                              /\ lastObserved > 0
      BY <1>1, <1>3, <2>2, <2>6
    <3>2. \A u \in observed : Distance(u, b) = b - u /\ b - lastObserved <= b - u
      BY <1>1, <2>2, <3>1 DEF Distance
    <3>3. CASE lastObserved > 0 /\ lastObserved < b /\ b - lastObserved <= t - b
      <4>1. Candidate(t, b) = lastObserved /\ Distance(lastObserved, b) = b - lastObserved
        BY <1>1, <2>2, <3>3 DEF Candidate, Distance
      <4>2. lastObserved \in observed
        BY <3>3 DEF FeedIInv, InOrder
      <4>3. \A u \in observed' : Distance(lastObserved, b) <= Distance(u, b)
        BY <1>2, <2>2, <3>2, <3>3, <4>1
      <4>4. anchors'[b] = IF b - lastObserved <= Grace THEN lastObserved ELSE 0
        BY <2>1, <2>6, <4>1 DEF Anchor
      <4>5. Due(b) => t - b <= Grace
        BY <1>1, <1>2, <2>2, <3>1
      <4>6. QED
        BY <1>1, <1>2, <2>2, <3>3, <4>1, <4>2, <4>3, <4>4, <4>5
    <3>4. CASE ~(lastObserved > 0 /\ lastObserved < b /\ b - lastObserved <= t - b)
      <4>1. Candidate(t, b) = t
        BY <3>4 DEF Candidate
      <4>2. \A u \in observed' : Distance(t, b) <= Distance(u, b)
        BY <1>1, <1>2, <2>2, <3>1, <3>2, <3>4
      <4>3. anchors'[b] = IF t - b <= Grace THEN t ELSE 0
        BY <2>1, <2>2, <2>6, <4>1 DEF Anchor
      <4>4. Due(b) => t - b <= Grace
        BY <1>1, <1>2, <2>2, <3>1
      <4>5. QED
        BY <1>1, <1>2, <2>2, <4>2, <4>3, <4>4
    <3>5. QED
      BY <3>3, <3>4
  <2>7. QED
    BY <1>1, <2>2, <2>4, <2>5, <2>6
<1>9. \A b \in Boundaries : Good(b)
  BY <1>5, <1>7, <1>8
<1>10. InOrder' /\ AnchorIsNearest'
  BY <1>1, <1>2, <1>3, <1>9 DEF InOrder, AnchorIsNearest
<1>11. anchors' \in [Boundaries -> 0..stamp]
  BY <1>2, <1>9
<1>12. QED
  BY <1>1, <1>2, <1>10, <1>11

LEMMA FeedNextSound == FeedIInv /\ [FeedNext]_feedVars => FeedIInv'
<1> SUFFICES ASSUME FeedIInv, [FeedNext]_feedVars PROVE FeedIInv'
  OBVIOUS
<1> USE FeedConstants
<1>1. CASE ReadPrice
  <2>1. PICK t \in lastObserved + 1 .. stamp : Observe(t)
    BY <1>1 DEF ReadPrice
  <2>2. UNCHANGED <<stamp, feedPc, feedLink, feedConn, feedStopping, feedFaults>>
    BY <1>1 DEF ReadPrice, feedRun
  <2>3. FeedTypeOK'
    BY <2>1, <2>2, ObserveSound DEF FeedIInv, FeedTypeOK
  <2>4. QED
    BY <2>1, <2>3, ObserveSound DEF FeedIInv
<1>2. CASE OracleTicks
  <2>1. /\ stamp' = stamp + 1 /\ stamp < MaxStamp /\ stamp \in 1..MaxStamp
        /\ UNCHANGED <<observed, current, lastObserved, anchors, feedPc, feedLink, feedConn,
                       feedStopping, feedFaults>>
    BY <1>2 DEF OracleTicks, FeedIInv, FeedTypeOK, priceVars, feedRun
  <2>2. 0..stamp \subseteq 0..stamp' /\ 1..stamp \subseteq 1..stamp' /\ stamp' \in 1..MaxStamp
    BY <2>1
  <2>3. FeedTypeOK'
    BY <2>1, <2>2 DEF FeedIInv, FeedTypeOK
  <2>4. QED
    BY <2>1, <2>3 DEF FeedIInv, InOrder, AnchorIsNearest
<1>3. CASE FeedBreaks \/ FeedRunStep \/ FeedDialFails \/ FeedStopChan \/ FeedCloseConn
           \/ UNCHANGED feedVars
  <2> USE <1>3 DEF FeedRunStep, FeedBreaks, FeedDialFails, FeedStopChan, FeedCloseConn, FeedTop,
                   FeedDial, FeedRegister, FeedSubscribe, FeedSubscribeFails, FeedReadFails,
                   FeedClear, FeedWakes, feedVars
  <2>1. UNCHANGED <<stamp, observed, current, lastObserved, anchors>>
    BY DEF priceVars
  <2>2. feedPc' \in FeedPlaces /\ feedLink' \in {"none", "up", "broken", "closed"}
    BY DEF FeedIInv, FeedTypeOK, FeedPlaces, feedRun
  <2>3. feedConn' = feedConn \/ feedConn' = TRUE \/ feedConn' = FALSE
    BY DEF feedRun
  <2>4. feedStopping' \in 0..2 /\ feedFaults' \in 0..MaxFeedFaults
    BY DEF FeedIInv, FeedTypeOK, FeedFault
  <2>5. FeedTypeOK'
    BY <2>1, <2>2, <2>3, <2>4 DEF FeedIInv, FeedTypeOK
  <2>6. QED
    BY <2>1, <2>5 DEF FeedIInv, InOrder, AnchorIsNearest
<1>4. QED
  BY <1>1, <1>2, <1>3 DEF FeedNext

THEOREM FeedStaysSound == FeedSpec => []FeedIInv
  BY FeedInitSound, FeedNextSound, PTL DEF FeedSpec

\* The anchor of a boundary is the nearest of all prices observed and within the
\* grace, whatever prices are lost or late, for every window, grace and retention.
THEOREM AnchorsAreNearest == FeedSpec => []AnchorIsNearest
<1>1. FeedIInv => AnchorIsNearest
  BY DEF FeedIInv
<1>2. QED
  BY <1>1, FeedStaysSound, PTL

-----------------------------------------------------------------------------
(***************************************************************************)
(* The market trade stream.                                                *)
(***************************************************************************)
Entries == [seq : Nat, id : Nat]

FlagsTyped == /\ link \in Links /\ pc \in Places
              /\ connected \in BOOLEAN /\ posting \in BOOLEAN /\ reading \in BOOLEAN
CountsTyped == /\ failures \in Nat /\ pauses \in Nat /\ snapVersion \in Nat /\ pending \in Nat
               /\ version \in Nat /\ nextSeq \in Nat /\ gapCount \in Nat /\ silent \in 0..2
               /\ old \in Nat /\ subscribed \in Nat
               /\ cursor \in Nat /\ gapSeen \in Nat /\ start \in Nat
QueuesTyped == /\ printed \in Seq(Nat) /\ wire \in Seq(Nat) /\ buffer \in Seq(Entries)
               /\ got \in Seq(Nat) /\ excused \subseteq Nat
StreamTyped == FlagsTyped /\ CountsTyped /\ QueuesTyped

\* Every trade that is somewhere was printed, and a number taken was given out.
Named == /\ \A i \in 1..Len(wire) : wire[i] >= 1 /\ wire[i] <= Len(printed)
         /\ \A i \in 1..Len(buffer) : /\ buffer[i].seq >= 1 /\ buffer[i].seq <= nextSeq
                                      /\ buffer[i].id >= 1 /\ buffer[i].id <= Len(printed)
         /\ pending <= Len(printed)
         /\ pc = "appending" => pending >= 1 /\ nextSeq >= 1
         /\ \A i \in 1..Len(got) : got[i] >= 1 /\ got[i] <= Len(printed)
         /\ \A id \in excused : id >= 1 /\ id <= Len(printed)
         /\ start <= Len(printed) /\ cursor <= nextSeq /\ old <= nextSeq
         /\ gapSeen <= gapCount

\* What each place of run says of the connection.
Placed == /\ pc \in {"idle", "dialing", "ended"} => link = "none" /\ wire = <<>>
          /\ pc \in {"idle", "dialing", "subscribed"} => ~connected
          /\ pc \in {"subscribed", "reading", "appending", "ended"} => subscribed = snapVersion
          /\ pc # "idle" => snapVersion >= 1
          /\ snapVersion <= version /\ subscribed <= version
          /\ link = "closed" => subscribed # version
          /\ \A i \in 1..Len(wire) : printed[wire[i]] = subscribed
          /\ posting => ~reading
          /\ ~reading => got = <<>> /\ excused = {}

\* A trade goes through the wire, run's hands and the buffer to the cycle, and
\* none overtakes another.
Queued == /\ \A i, j \in 1..Len(buffer) : i < j => /\ buffer[i].seq < buffer[j].seq
                                                   /\ buffer[i].id < buffer[j].id
          /\ \A i, j \in 1..Len(wire) : i < j => wire[i] < wire[j]
          /\ \A i \in 1..Len(buffer), j \in 1..Len(wire) : buffer[i].id < wire[j]
          /\ pc = "appending" =>
                /\ \A i \in 1..Len(buffer) : buffer[i].seq < nextSeq /\ buffer[i].id < pending
                /\ \A j \in 1..Len(wire) : pending < wire[j]
                /\ \A i \in 1..Len(got) : got[i] < pending
          /\ \A i \in 1..Len(got), j \in 1..Len(wire) : got[i] < wire[j]
          /\ \A i \in 1..Len(got), j \in 1..Len(buffer) :
                buffer[j].seq > cursor => got[i] < buffer[j].id

\* A cycle whose market is subscribed for has its connection, or a gap was counted.
Watched == (reading \/ posting) /\ subscribed = version =>
              \/ reading /\ gapCount > gapSeen
              \/ pc \in {"subscribed", "reading", "appending", "ended"}

\* A trade the cycle was given or can still be given.
Held(id) == \/ \E i \in 1..Len(got) : got[i] = id
            \/ \E i \in 1..Len(buffer) : buffer[i].id = id /\ buffer[i].seq > cursor
            \/ pc = "appending" /\ pending = id /\ nextSeq > cursor
            \/ \E i \in 1..Len(wire) : wire[i] = id

\* Everything it can still be given was printed before id.
Behind(id) == /\ \A i \in 1..Len(buffer) : buffer[i].seq > cursor => buffer[i].id < id
              /\ pc = "appending" /\ nextSeq > cursor => pending < id
              /\ \A i \in 1..Len(wire) : wire[i] < id

\* Of the trades of its market, a cycle was given all up to some moment, but the
\* excused ones.  Until a gap is counted, that is: one that nothing holds any more
\* was the connection's to lose, and everything after it is lost too.
AccountedFor(id) ==
    /\ id \in excused => ~Held(id)
    /\ id \notin excused =>
          /\ (\E i \in 1..Len(got) : got[i] = id) \/ (\A i \in 1..Len(got) : got[i] < id)
          /\ Held(id) \/ (Behind(id) /\ link # "up" /\ subscribed = version)
Accounted == reading /\ gapCount = gapSeen =>
                \A id \in 1..Len(printed) : Own(id) => AccountedFor(id)

StreamIInv == StreamTyped /\ Named /\ Placed /\ Queued /\ Watched /\ Accounted /\ GivenOnceInOrder

LEMMA StreamConstants == /\ MaxTrades \in Nat /\ MaxVersions \in Nat
                         /\ MaxFailures \in Nat /\ MaxPauses \in Nat
  BY StreamAssumption DEF StreamAssumption

\* A set of numbers has a smallest.
LEMMA SmallestNumber ==
  ASSUME NEW S, S \subseteq Nat, S # {}
  PROVE  \E x \in S : \A y \in S : x <= y
<1> DEFINE R == OpToRel(<, Nat)
<1>0. IsWellFoundedOn(R, Nat)
  BY NatLessThanWellFounded
<1> HIDE DEF R
<1>1. PICK x \in S : \A y \in S : ~ (<<y, x>> \in R)
  BY <1>0, WFMin
<1>2. \A y \in S : x <= y
  <2> SUFFICES ASSUME NEW y \in S PROVE x <= y
    OBVIOUS
  <2>1. x \in Nat /\ y \in Nat
    OBVIOUS
  <2>2. ~ (y < x)
    BY <1>1, <2>1 DEF R, OpToRel
  <2>3. QED
    BY <2>1, <2>2
<1>3. QED
  BY <1>2

\* In a buffer numbered in order, the entries above a number are the end of it.
LEMMA AboveIsTheEnd ==
  ASSUME NEW entries \in Seq(Entries), NEW n \in Nat,
         \A i, j \in 1..Len(entries) : i < j => entries[i].seq < entries[j].seq
  PROVE  \E k \in 0..Len(entries) :
            /\ Above(entries, n) = SubSeq(entries, k + 1, Len(entries))
            /\ \A i \in 1..Len(entries) : i <= k <=> entries[i].seq <= n
<1> DEFINE S == {i \in 1..(Len(entries) + 1) : i \in 1..Len(entries) => entries[i].seq > n}
           P(k) == /\ \A i \in 1..k : entries[i].seq <= n
                   /\ k < Len(entries) => entries[k + 1].seq > n
<1>1. Len(entries) \in Nat /\ \A i \in 1..Len(entries) : entries[i].seq \in Nat
  <2>1. Len(entries) \in Nat /\ \A i \in 1..Len(entries) : entries[i] \in Entries
    OBVIOUS
  <2>2. QED
    BY <2>1 DEF Entries
<1>2. S \subseteq Nat /\ Len(entries) + 1 \in S
  <2>1. Len(entries) + 1 \in 1..(Len(entries) + 1) /\ Len(entries) + 1 \notin 1..Len(entries)
    BY <1>1
  <2>2. Len(entries) + 1 \in S
    BY <2>1
  <2>3. QED
    BY <2>2
<1>3. \E x \in S : \A y \in S : x <= y
  <2> HIDE DEF S
  <2> QED
    BY <1>2, SmallestNumber
<1>4. PICK x \in S : \A y \in S : x <= y
  BY <1>3
<1>5. x - 1 \in 0..Len(entries) /\ P(x - 1)
  <2>1. x \in 1..(Len(entries) + 1)
    OBVIOUS
  <2>2. ASSUME NEW i \in 1..(x - 1) PROVE entries[i].seq <= n
    <3>1. i \in 1..Len(entries) /\ i \in 1..(Len(entries) + 1) /\ ~ (x <= i)
      BY <1>1, <2>1
    <3>2. ~ (entries[i].seq > n)
      BY <1>4, <3>1
    <3>3. QED
      BY <1>1, <3>1, <3>2
  <2>3. x - 1 < Len(entries) => entries[(x - 1) + 1].seq > n
    <3>1. x \in S
      BY <1>4
    <3>2. (x - 1) + 1 = x /\ (x - 1 < Len(entries) => x \in 1..Len(entries))
      BY <1>1, <2>1
    <3>3. QED
      BY <3>1, <3>2
  <2>4. QED
    BY <1>1, <2>1, <2>2, <2>3
<1>6. Passed(entries, n) = CHOOSE k \in 0..Len(entries) : P(k)
  BY DEF Passed
<1>7. Passed(entries, n) \in 0..Len(entries) /\ P(Passed(entries, n))
  <2> HIDE DEF P
  <2> QED
    BY <1>5, <1>6
<1>8. \A i \in 1..Len(entries) : i <= Passed(entries, n) <=> entries[i].seq <= n
  <2> SUFFICES ASSUME NEW k \in 0..Len(entries), P(k), NEW i \in 1..Len(entries)
               PROVE i <= k <=> entries[i].seq <= n
    BY <1>7
  <2>1. CASE i <= k
    BY <1>1, <2>1
  <2>2. CASE i = k + 1
    BY <1>1, <2>2
  <2>3. CASE i > k + 1
    <3>1. k < Len(entries) /\ k + 1 \in 1..Len(entries) /\ k + 1 < i
      BY <1>1, <2>3
    <3>2. entries[k + 1].seq > n /\ entries[k + 1].seq < entries[i].seq
      BY <3>1
    <3>3. QED
      BY <1>1, <2>3, <3>1, <3>2
  <2>4. QED
    BY <1>1, <2>1, <2>2, <2>3
<1>9. QED
  BY <1>7, <1>8 DEF Above

LEMMA StreamInitSound == Init => StreamIInv
<1> SUFFICES ASSUME Init PROVE StreamIInv
  OBVIOUS
<1>1. StreamTyped
  <2>1. FlagsTyped
    BY DEF Init, FlagsTyped, Links, Places
  <2>2. CountsTyped
    BY DEF Init, CountsTyped
  <2>3. QueuesTyped
    BY DEF Init, QueuesTyped
  <2>4. QED
    BY <2>1, <2>2, <2>3 DEF StreamTyped
<1>2. Named /\ Placed
  BY DEF Init, Named, Placed
<1>3. Queued /\ Watched /\ Accounted /\ GivenOnceInOrder
  BY DEF Init, Queued, Watched, Accounted, GivenOnceInOrder
<1>4. QED
  BY <1>1, <1>2, <1>3 DEF StreamIInv

LEMMA JoinedLength ==
  ASSUME NEW s \in Seq(Nat), NEW t \in Seq(Nat)
  PROVE  Len(s \o t) = Len(s) + Len(t)
  OBVIOUS

\* The entries a reading takes: the end of the buffer, by their names.
LEMMA ReadingTakesTheEnd ==
  ASSUME NEW entries \in Seq(Entries), NEW n \in Nat, NEW given \in Seq(Nat),
         \A i, j \in 1..Len(entries) : i < j => entries[i].seq < entries[j].seq
  PROVE  LET all == given \o IdsOf(Above(entries, n))
         IN  \E k \in 0..Len(entries) :
               /\ \A i \in 1..Len(entries) : i <= k <=> entries[i].seq <= n
               /\ all \in Seq(Nat) /\ Len(all) = Len(given) + (Len(entries) - k)
               /\ \A i \in 1..Len(given) : all[i] = given[i]
               /\ \A i \in 1..(Len(entries) - k) : all[Len(given) + i] = entries[k + i].id
<1>1. PICK k \in 0..Len(entries) :
            /\ Above(entries, n) = SubSeq(entries, k + 1, Len(entries))
            /\ \A i \in 1..Len(entries) : i <= k <=> entries[i].seq <= n
  BY AboveIsTheEnd
<1>2. Len(entries) \in Nat /\ Len(given) \in Nat
  OBVIOUS
<1> DEFINE end == Above(entries, n)
           all == given \o IdsOf(end)
<1>3. /\ end \in Seq(Entries) /\ Len(end) = Len(entries) - k
      /\ \A i \in 1..(Len(entries) - k) : end[i] = entries[k + i]
  BY <1>1, <1>2
<1> HIDE DEF end
<1>4. \A i \in 1..Len(end) : end[i].id \in Nat
  <2>1. \A i \in 1..Len(end) : end[i] \in Entries
    BY <1>3
  <2>2. QED
    BY <2>1 DEF Entries
<1>5. /\ IdsOf(end) \in Seq(Nat) /\ Len(IdsOf(end)) = Len(end)
      /\ \A i \in 1..Len(end) : IdsOf(end)[i] = end[i].id
  BY <1>3, <1>4 DEF IdsOf
<1>6. /\ all \in Seq(Nat) /\ Len(all) = Len(given) + Len(end)
      /\ \A i \in 1..Len(given) : all[i] = given[i]
      /\ \A i \in 1..Len(end) : all[Len(given) + i] = IdsOf(end)[i]
  <2> DEFINE ids == IdsOf(end)
  <2>1. ids \in Seq(Nat) /\ Len(ids) = Len(end) /\ Len(end) \in Nat
    BY <1>3, <1>5
  <2> HIDE DEF ids
  <2>2. /\ given \o ids \in Seq(Nat) /\ Len(given \o ids) = Len(given) + Len(ids)
        /\ \A i \in 1..Len(given) : (given \o ids)[i] = given[i]
        /\ \A i \in 1..Len(ids) : (given \o ids)[Len(given) + i] = ids[i]
    <3>1. given \o ids \in Seq(Nat)
      BY <2>1
    <3>2. Len(given \o ids) = Len(given) + Len(ids)
      BY <2>1, JoinedLength
    <3>3. \A i \in 1..Len(given) : (given \o ids)[i] = given[i]
      BY <1>2, <2>1
    <3>4. \A i \in 1..Len(ids) : (given \o ids)[Len(given) + i] = ids[i]
      BY <1>2, <2>1
    <3>5. QED
      BY <3>1, <3>2, <3>3, <3>4
  <2>3. QED
    BY <2>1, <2>2 DEF ids
<1>7. \A i \in 1..(Len(entries) - k) : all[Len(given) + i] = entries[k + i].id
  <2> SUFFICES ASSUME NEW i \in 1..(Len(entries) - k)
               PROVE  all[Len(given) + i] = entries[k + i].id
    OBVIOUS
  <2>1. i \in 1..Len(end)
    BY <1>3
  <2>2. QED
    BY <1>3, <1>5, <1>6, <2>1
<1>8. QED
  BY <1>1, <1>3, <1>6, <1>7 DEF end

\* What a pass asks before it reads changes nothing else.
Asking == UNCHANGED <<network, run, fields, posting, reading, cursor, gapSeen, start, got, excused>>

LEMMA AskingChangesNothing == CompareGaps \/ AskHealth \/ UNCHANGED vars => Asking
  BY DEF CompareGaps, AskHealth, Asking, vars, reader

LEMMA StreamFlagsKept == StreamIInv /\ [Next]_vars => FlagsTyped'
<1> SUFFICES ASSUME StreamIInv, [Next]_vars PROVE FlagsTyped'
  OBVIOUS
<1> USE DEF FlagsTyped, Links, Places
<1>0. FlagsTyped
  BY DEF StreamIInv, StreamTyped
<1>1. CASE \E m \in 1..version : Trade(m)
  BY <1>0, <1>1 DEF Trade, run, fields, reader
<1>2. CASE \E how \in {"broken", "stalled"} : Fail(how)
  BY <1>0, <1>2 DEF Fail, run, fields, reader
<1>3. CASE Quiet \/ TwoMinutes \/ Snapshot \/ DialFails \/ Subscribe \/ Register
  BY <1>0, <1>3 DEF Quiet, TwoMinutes, Snapshot, DialFails, Subscribe, Register,
                    network, run, fields, reader
<1>4. CASE ReadMessage \/ AppendTrade \/ ReadFails \/ Cleanup
  BY <1>0, <1>4 DEF ReadMessage, AppendTrade, ReadFails, Cleanup, network, fields, reader
<1>5. CASE TakeNumber \/ StartReading \/ ReadTrades
  BY <1>0, <1>5 DEF TakeNumber, StartReading, ReadTrades, network, run, fields
<1>6. CASE SetAssets \/ StopReading
  BY <1>0, <1>6 DEF SetAssets, StopReading, NotReading, network, run, fields
<1>7. CASE Asking
  BY <1>0, <1>7 DEF Asking, network, run, fields, reader
<1>8. QED
  BY <1>1, <1>2, <1>3, <1>4, <1>5, <1>6, <1>7, AskingChangesNothing DEF Next

LEMMA StreamCountsKept == StreamIInv /\ [Next]_vars => CountsTyped'
<1> SUFFICES ASSUME StreamIInv, [Next]_vars PROVE CountsTyped'
  OBVIOUS
<1> USE DEF CountsTyped
<1>0. CountsTyped /\ QueuesTyped
  BY DEF StreamIInv, StreamTyped
<1>1. CASE \E m \in 1..version : Trade(m)
  BY <1>0, <1>1 DEF Trade, run, fields, reader
<1>2. CASE \E how \in {"broken", "stalled"} : Fail(how)
  BY <1>0, <1>2 DEF Fail, run, fields, reader
<1>3. CASE Quiet
  BY <1>0, <1>3 DEF Quiet, network, run, reader
<1>4. CASE TwoMinutes
  <2>1. old' \in Nat
    <3>1. Len(buffer) \in 1..Len(buffer) /\ buffer[Len(buffer)] \in Entries
      BY <1>0, <1>4 DEF QueuesTyped, TwoMinutes
    <3>2. QED
      BY <1>4, <3>1 DEF Entries, TwoMinutes
  <2>2. QED
    BY <1>0, <1>4, <2>1 DEF TwoMinutes, run, reader
<1>5. CASE Snapshot \/ DialFails \/ Subscribe \/ Register
  <2>1. CASE Snapshot
    BY <1>0, <2>1 DEF Snapshot, network, fields, reader
  <2>2. CASE DialFails
    BY <1>0, <2>2 DEF DialFails, network, fields, reader
  <2>3. CASE Subscribe
    BY <1>0, <2>3 DEF Subscribe, reader
  <2>4. CASE Register
    BY <1>0, <2>4 DEF Register, network, reader
  <2>5. QED
    BY <1>5, <2>1, <2>2, <2>3, <2>4
<1>6. CASE ReadMessage
  <2>1. Head(wire) \in Nat
    BY <1>0, <1>6 DEF ReadMessage, QueuesTyped
  <2>2. QED
    BY <1>0, <1>6, <2>1 DEF ReadMessage, reader
<1>7. CASE AppendTrade \/ ReadFails \/ Cleanup
  <2>1. CASE AppendTrade
    BY <1>0, <2>1 DEF AppendTrade, network, reader
  <2>2. CASE ReadFails
    BY <1>0, <2>2 DEF ReadFails, fields, reader
  <2>3. CASE Cleanup
    <3>1. gapCount' \in Nat /\ subscribed' \in Nat
      BY <1>0, <2>3 DEF Cleanup
    <3>2. QED
      BY <1>0, <2>3, <3>1 DEF Cleanup, network, reader
  <2>4. QED
    BY <1>7, <2>1, <2>2, <2>3
<1>8. CASE TakeNumber \/ ReadTrades
  BY <1>0, <1>8 DEF TakeNumber, ReadTrades, network, run, fields
<1>9. CASE StartReading
  BY <1>0, <1>9 DEF StartReading, network, run, fields, QueuesTyped
<1>10. CASE SetAssets \/ StopReading
  BY <1>0, <1>10 DEF SetAssets, StopReading, NotReading, network, run, fields
<1>11. CASE Asking
  BY <1>0, <1>11 DEF Asking, network, run, fields, reader
<1>12. QED
  BY <1>1, <1>2, <1>3, <1>4, <1>5, <1>6, <1>7, <1>8, <1>9, <1>10, <1>11, AskingChangesNothing DEF Next

\* The buffer with the trade that is being appended is in order too.
LEMMA AppendedInOrder ==
  ASSUME NEW entries \in Seq(Entries), NEW s \in Nat, NEW t \in Nat,
         \A i, j \in 1..Len(entries) : i < j => /\ entries[i].seq < entries[j].seq
                                                /\ entries[i].id < entries[j].id,
         \A i \in 1..Len(entries) : entries[i].seq < s /\ entries[i].id < t
  PROVE  LET all == Append(entries, [seq |-> s, id |-> t])
         IN  /\ all \in Seq(Entries) /\ Len(all) = Len(entries) + 1
             /\ \A i \in 1..Len(entries) : all[i] = entries[i]
             /\ all[Len(entries) + 1] = [seq |-> s, id |-> t]
             /\ \A i, j \in 1..Len(all) : i < j => /\ all[i].seq < all[j].seq
                                                   /\ all[i].id < all[j].id
<1> DEFINE new == [seq |-> s, id |-> t]
           all == Append(entries, new)
<1>1. new \in Entries /\ new.seq = s /\ new.id = t
  BY DEF Entries
<1> HIDE DEF new
<1>2. /\ all \in Seq(Entries) /\ Len(all) = Len(entries) + 1 /\ Len(entries) \in Nat
      /\ \A i \in 1..Len(entries) : all[i] = entries[i]
      /\ all[Len(entries) + 1] = new
  BY <1>1
<1> HIDE DEF all
<1>3. \A i, j \in 1..Len(all) : i < j => all[i].seq < all[j].seq /\ all[i].id < all[j].id
  <2> SUFFICES ASSUME NEW i \in 1..Len(all), NEW j \in 1..Len(all), i < j
               PROVE  all[i].seq < all[j].seq /\ all[i].id < all[j].id
    OBVIOUS
  <2>1. i \in 1..Len(entries)
    BY <1>2
  <2>2. CASE j \in 1..Len(entries)
    BY <1>2, <2>1, <2>2
  <2>3. CASE j = Len(entries) + 1
    BY <1>1, <1>2, <2>1, <2>3
  <2>4. QED
    BY <1>2, <2>2, <2>3
<1>4. QED
  BY <1>2, <1>3 DEF all, new

LEMMA NoneIsTyped == <<>> \in Seq(Nat) /\ <<>> \in Seq(Entries)
  OBVIOUS

LEMMA StreamQueuesKept == StreamIInv /\ [Next]_vars => QueuesTyped'
<1> SUFFICES ASSUME StreamIInv, [Next]_vars PROVE QueuesTyped'
  OBVIOUS
<1> USE DEF QueuesTyped
<1>0. CountsTyped /\ QueuesTyped
  BY DEF StreamIInv, StreamTyped
<1>1. ASSUME NEW m \in 1..version, Trade(m) PROVE QueuesTyped'
  <2>1. Len(printed) + 1 \in Nat /\ m \in Nat
    BY <1>0
  <2>2. Append(printed, m) \in Seq(Nat) /\ Append(wire, Len(printed) + 1) \in Seq(Nat)
    BY <1>0, <2>1
  <2>3. QED
    BY <1>0, <1>1, <2>1, <2>2 DEF Trade, fields, reader
<1>2. ASSUME NEW how \in {"broken", "stalled"}, Fail(how) PROVE QueuesTyped'
  <2>1. wire' \in Seq(Nat)
    <3>1. PICK n \in 0..Len(wire) : wire' = SubSeq(wire, 1, n)
      BY <1>2 DEF Fail
    <3>2. QED
      BY <1>0, <3>1
  <2>2. QED
    BY <1>0, <1>2, <2>1 DEF Fail, fields, reader
<1>3. CASE Quiet \/ TwoMinutes \/ Snapshot \/ DialFails \/ Subscribe \/ Register
  <2>1. /\ printed' = printed /\ buffer' = buffer
        /\ wire' = wire \/ wire' = <<>>
        /\ got' = got /\ excused' = excused
    BY <1>3 DEF Quiet, TwoMinutes, Snapshot, DialFails, Subscribe, Register,
                network, fields, reader
  <2>2. QED
    BY <1>0, <2>1, NoneIsTyped
<1>4. CASE ReadMessage
  <2>1. Tail(wire) \in Seq(Nat)
    BY <1>0, <1>4 DEF ReadMessage
  <2>2. QED
    BY <1>0, <1>4, <2>1 DEF ReadMessage, reader
<1>5. CASE AppendTrade
  <2> DEFINE all == Append(buffer, [seq |-> nextSeq, id |-> pending])
  <2>1. all \in Seq(Entries) /\ \A i, j \in 1..Len(all) : i < j => all[i].seq < all[j].seq
    <3>1. /\ \A i, j \in 1..Len(buffer) : i < j => /\ buffer[i].seq < buffer[j].seq
                                                   /\ buffer[i].id < buffer[j].id
          /\ \A i \in 1..Len(buffer) : buffer[i].seq < nextSeq /\ buffer[i].id < pending
      BY <1>5 DEF AppendTrade, StreamIInv, Queued
    <3>2. nextSeq \in Nat /\ pending \in Nat /\ buffer \in Seq(Entries)
      BY <1>0 DEF CountsTyped
    <3>3. QED
      BY <3>1, <3>2, AppendedInOrder
  <2>2. buffer' = Above(all, old) /\ excused' \subseteq excused \cup {all[i].id : i \in 1..Len(all)}
    BY <1>5 DEF AppendTrade
  <2> HIDE DEF all
  <2>3. \A i \in 1..Len(all) : all[i].id \in Nat
    <3>1. \A i \in 1..Len(all) : all[i] \in Entries
      BY <2>1
    <3>2. QED
      BY <3>1 DEF Entries
  <2>4. Above(all, old) \in Seq(Entries)
    <3>1. PICK k \in 0..Len(all) : Above(all, old) = SubSeq(all, k + 1, Len(all))
      <4>1. old \in Nat
        BY <1>0 DEF CountsTyped
      <4>2. QED
        BY <2>1, <4>1, AboveIsTheEnd
    <3>2. QED
      BY <2>1, <3>1
  <2>5. buffer' \in Seq(Entries) /\ excused' \subseteq Nat
    BY <1>0, <2>2, <2>3, <2>4
  <2>6. QED
    BY <1>0, <1>5, <2>5 DEF AppendTrade, network, reader
<1>6. CASE ReadFails \/ Cleanup
  <2>1. /\ printed' = printed /\ buffer' = buffer
        /\ wire' = wire \/ wire' = <<>>
        /\ got' = got /\ excused' = excused
    BY <1>6 DEF ReadFails, Cleanup, network, fields, reader
  <2>2. QED
    BY <1>0, <2>1, NoneIsTyped
<1>7. CASE ReadTrades
  <2>1. got' \in Seq(Nat)
    <3>1. \A i, j \in 1..Len(buffer) : i < j => buffer[i].seq < buffer[j].seq
      BY DEF StreamIInv, Queued
    <3>2. cursor \in Nat
      BY <1>0 DEF CountsTyped
    <3>3. got \o IdsOf(Above(buffer, cursor)) \in Seq(Nat)
      BY <1>0, <3>1, <3>2, ReadingTakesTheEnd
    <3>4. QED
      BY <1>7, <3>3 DEF ReadTrades
  <2>2. excused' \subseteq Nat
    BY <1>0, <1>7 DEF ReadTrades, CountsTyped
  <2>3. QED
    BY <1>0, <1>7, <2>1, <2>2 DEF ReadTrades, network, fields
<1>8. CASE SetAssets \/ TakeNumber \/ StartReading \/ StopReading
  <2>1. /\ printed' = printed /\ wire' = wire
        /\ buffer' = buffer \/ buffer' = <<>>
        /\ (got' = got /\ excused' = excused) \/ (got' = <<>> /\ excused' = {})
    BY <1>8 DEF SetAssets, TakeNumber, StartReading, StopReading, NotReading,
                network, fields
  <2>2. QED
    BY <1>0, <2>1, NoneIsTyped
<1>9. CASE Asking
  BY <1>0, <1>9 DEF Asking, network, fields, reader
<1>10. QED
  BY <1>1, <1>2, <1>3, <1>4, <1>5, <1>6, <1>7, <1>8, <1>9, AskingChangesNothing DEF Next

LEMMA StreamTypesKept == StreamIInv /\ [Next]_vars => StreamTyped'
  BY StreamFlagsKept, StreamCountsKept, StreamQueuesKept DEF StreamTyped

\* The buffer once the trade is appended, before the old ones are dropped.
Appended == Append(buffer, [seq |-> nextSeq, id |-> pending])

LEMMA AppendedBuffer ==
  StreamIInv /\ AppendTrade =>
     /\ Appended \in Seq(Entries) /\ Len(Appended) = Len(buffer) + 1 /\ Len(buffer) \in Nat
     /\ \A i \in 1..Len(buffer) : Appended[i] = buffer[i]
     /\ Appended[Len(buffer) + 1].seq = nextSeq /\ Appended[Len(buffer) + 1].id = pending
     /\ \A i \in 1..Len(Appended) : Appended[i].seq \in Nat /\ Appended[i].id \in Nat
     /\ \A i, j \in 1..Len(Appended) : i < j => /\ Appended[i].seq < Appended[j].seq
                                                /\ Appended[i].id < Appended[j].id
<1> SUFFICES ASSUME StreamIInv, AppendTrade
             PROVE  /\ Appended \in Seq(Entries) /\ Len(Appended) = Len(buffer) + 1
                    /\ Len(buffer) \in Nat
                    /\ \A i \in 1..Len(buffer) : Appended[i] = buffer[i]
                    /\ Appended[Len(buffer) + 1].seq = nextSeq
                    /\ Appended[Len(buffer) + 1].id = pending
                    /\ \A i \in 1..Len(Appended) : Appended[i].seq \in Nat /\ Appended[i].id \in Nat
                    /\ \A i, j \in 1..Len(Appended) :
                          i < j => /\ Appended[i].seq < Appended[j].seq
                                   /\ Appended[i].id < Appended[j].id
  OBVIOUS
<1>1. /\ \A i, j \in 1..Len(buffer) : i < j => /\ buffer[i].seq < buffer[j].seq
                                               /\ buffer[i].id < buffer[j].id
      /\ \A i \in 1..Len(buffer) : buffer[i].seq < nextSeq /\ buffer[i].id < pending
  BY DEF AppendTrade, StreamIInv, Queued
<1>2. nextSeq \in Nat /\ pending \in Nat /\ buffer \in Seq(Entries)
  BY DEF StreamIInv, StreamTyped, CountsTyped, QueuesTyped
<1>3. /\ Appended \in Seq(Entries) /\ Len(Appended) = Len(buffer) + 1
      /\ \A i \in 1..Len(buffer) : Appended[i] = buffer[i]
      /\ Appended[Len(buffer) + 1] = [seq |-> nextSeq, id |-> pending]
      /\ \A i, j \in 1..Len(Appended) : i < j => /\ Appended[i].seq < Appended[j].seq
                                                 /\ Appended[i].id < Appended[j].id
  BY <1>1, <1>2, AppendedInOrder DEF Appended
<1>4. \A i \in 1..Len(Appended) : Appended[i].seq \in Nat /\ Appended[i].id \in Nat
  <2>1. \A i \in 1..Len(Appended) : Appended[i] \in Entries
    BY <1>3
  <2>2. QED
    BY <2>1 DEF Entries
<1>5. Len(buffer) \in Nat
  BY <1>2
<1>6. QED
  BY <1>3, <1>4, <1>5

\* What is kept is the end of it, and it is what is not two minutes old.
LEMMA PrunedBuffer ==
  StreamIInv /\ AppendTrade =>
     \E k \in 0..Len(Appended) :
        /\ Len(buffer') = Len(Appended) - k
        /\ \A i \in 1..Len(buffer') : k + i \in 1..Len(Appended) /\ buffer'[i] = Appended[k + i]
        /\ \A i \in 1..Len(Appended) : i > k => i - k \in 1..Len(buffer') /\ buffer'[i - k] = Appended[i]
        /\ \A i \in 1..Len(Appended) : i <= k <=> Appended[i].seq <= old
<1> SUFFICES ASSUME StreamIInv, AppendTrade
             PROVE  \E k \in 0..Len(Appended) :
                /\ Len(buffer') = Len(Appended) - k
                /\ \A i \in 1..Len(buffer') : k + i \in 1..Len(Appended) /\ buffer'[i] = Appended[k + i]
                /\ \A i \in 1..Len(Appended) :
                      i > k => i - k \in 1..Len(buffer') /\ buffer'[i - k] = Appended[i]
                /\ \A i \in 1..Len(Appended) : i <= k <=> Appended[i].seq <= old
  OBVIOUS
<1>1. /\ Appended \in Seq(Entries)
      /\ \A i, j \in 1..Len(Appended) : i < j => Appended[i].seq < Appended[j].seq
  BY AppendedBuffer
<1>2. old \in Nat
  BY DEF StreamIInv, StreamTyped, CountsTyped
<1>3. buffer' = Above(Appended, old)
  BY DEF AppendTrade, Appended
<1>4. PICK k \in 0..Len(Appended) :
            /\ Above(Appended, old) = SubSeq(Appended, k + 1, Len(Appended))
            /\ \A i \in 1..Len(Appended) : i <= k <=> Appended[i].seq <= old
  BY <1>1, <1>2, AboveIsTheEnd
<1> DEFINE end == SubSeq(Appended, k + 1, Len(Appended))
<1>5. Len(Appended) \in Nat
  BY <1>1
<1>6. /\ Len(end) = Len(Appended) - k
      /\ \A i \in 1..Len(end) : k + i \in 1..Len(Appended) /\ end[i] = Appended[k + i]
  BY <1>1, <1>5
<1> HIDE DEF end
<1>7. \A i \in 1..Len(Appended) : i > k => i - k \in 1..Len(end) /\ end[i - k] = Appended[i]
  BY <1>5, <1>6
<1>8. buffer' = end
  BY <1>3, <1>4 DEF end
<1>9. QED
  BY <1>4, <1>6, <1>7, <1>8

\* What a reading adds to what the cycle was given.
LEMMA ReadBuffer ==
  StreamIInv /\ ReadTrades =>
     \E k \in 0..Len(buffer) :
        /\ \A i \in 1..Len(buffer) : i <= k <=> buffer[i].seq <= cursor
        /\ Len(got') = Len(got) + (Len(buffer) - k)
        /\ \A i \in 1..Len(got) : got'[i] = got[i]
        /\ \A i \in 1..(Len(buffer) - k) : got'[Len(got) + i] = buffer[k + i].id
<1> SUFFICES ASSUME StreamIInv, ReadTrades
             PROVE  \E k \in 0..Len(buffer) :
                /\ \A i \in 1..Len(buffer) : i <= k <=> buffer[i].seq <= cursor
                /\ Len(got') = Len(got) + (Len(buffer) - k)
                /\ \A i \in 1..Len(got) : got'[i] = got[i]
                /\ \A i \in 1..(Len(buffer) - k) : got'[Len(got) + i] = buffer[k + i].id
  OBVIOUS
<1>1. \A i, j \in 1..Len(buffer) : i < j => buffer[i].seq < buffer[j].seq
  BY DEF StreamIInv, Queued
<1>2. cursor \in Nat /\ buffer \in Seq(Entries) /\ got \in Seq(Nat)
  BY DEF StreamIInv, StreamTyped, CountsTyped, QueuesTyped
<1>3. got' = got \o IdsOf(Above(buffer, cursor))
  BY DEF ReadTrades
<1>4. QED
  BY <1>1, <1>2, <1>3, ReadingTakesTheEnd

\* Where run and the executor only look at the queues.
Looks == \/ Quiet \/ TwoMinutes \/ Snapshot \/ DialFails \/ Subscribe \/ Register
         \/ ReadFails \/ Cleanup \/ TakeNumber \/ StartReading \/ SetAssets \/ StopReading
         \/ Asking

LEMMA LooksKeepQueues ==
  Looks => /\ printed' = printed /\ nextSeq' = nextSeq /\ pending' = pending
           /\ wire' = wire \/ wire' = <<>>
           /\ buffer' = buffer \/ buffer' = <<>>
           /\ (got' = got /\ excused' = excused) \/ (got' = <<>> /\ excused' = {})
           /\ pc' = "appending" => pc = "appending"
<1>1. Quiet \/ TwoMinutes \/ Snapshot \/ DialFails \/ Subscribe \/ Register =>
      /\ printed' = printed /\ nextSeq' = nextSeq /\ pending' = pending
      /\ wire' = wire \/ wire' = <<>>
      /\ buffer' = buffer /\ got' = got /\ excused' = excused
      /\ pc' = "appending" => pc = "appending"
  BY DEF Quiet, TwoMinutes, Snapshot, DialFails, Subscribe, Register, network, run, fields, reader
<1>2. ReadFails \/ Cleanup \/ Asking =>
      /\ printed' = printed /\ nextSeq' = nextSeq /\ pending' = pending
      /\ wire' = wire \/ wire' = <<>>
      /\ buffer' = buffer /\ got' = got /\ excused' = excused
      /\ pc' = "appending" => pc = "appending"
  BY DEF ReadFails, Cleanup, Asking, network, run, fields, reader
<1>3. TakeNumber \/ StartReading \/ SetAssets \/ StopReading =>
      /\ printed' = printed /\ nextSeq' = nextSeq /\ pending' = pending /\ wire' = wire
      /\ buffer' = buffer \/ buffer' = <<>>
      /\ (got' = got /\ excused' = excused) \/ (got' = <<>> /\ excused' = {})
      /\ pc' = pc
  BY DEF TakeNumber, StartReading, SetAssets, StopReading, NotReading, network, run, fields
<1>4. QED
  BY <1>1, <1>2, <1>3 DEF Looks

LEMMA NextLooks ==
  ASSUME [Next]_vars
  PROVE  \/ \E m \in 1..version : Trade(m)
         \/ \E how \in {"broken", "stalled"} : Fail(how)
         \/ ReadMessage \/ AppendTrade \/ ReadTrades \/ Looks
  BY AskingChangesNothing DEF Next, Looks

\* A trade is the last printed, and on the wire the last sent.
LEMMA TradeAdds ==
  ASSUME StreamIInv, NEW m \in 1..version, Trade(m)
  PROVE  /\ Len(printed') = Len(printed) + 1 /\ Len(printed) \in Nat
         /\ \A i \in 1..Len(printed) : printed'[i] = printed[i]
         /\ printed'[Len(printed) + 1] = m
         /\ \/ wire' = wire /\ ~(link = "up" /\ subscribed = m)
            \/ /\ Len(wire') = Len(wire) + 1 /\ link = "up" /\ subscribed = m
               /\ \A i \in 1..Len(wire) : wire'[i] = wire[i]
               /\ wire'[Len(wire) + 1] = Len(printed) + 1
<1>0. printed \in Seq(Nat) /\ wire \in Seq(Nat) /\ m \in Nat /\ Len(printed) + 1 \in Nat
  BY DEF StreamIInv, StreamTyped, QueuesTyped, CountsTyped
<1>1. printed' = Append(printed, m)
  BY DEF Trade
<1>2. /\ Len(printed') = Len(printed) + 1 /\ Len(printed) \in Nat
      /\ \A i \in 1..Len(printed) : printed'[i] = printed[i]
      /\ printed'[Len(printed) + 1] = m
  BY <1>0, <1>1
<1>3. /\ Len(Append(wire, Len(printed) + 1)) = Len(wire) + 1
      /\ \A i \in 1..Len(wire) : Append(wire, Len(printed) + 1)[i] = wire[i]
      /\ Append(wire, Len(printed) + 1)[Len(wire) + 1] = Len(printed) + 1
  BY <1>0
<1>4. \/ wire' = wire /\ ~(link = "up" /\ subscribed = m)
      \/ wire' = Append(wire, Len(printed) + 1) /\ link = "up" /\ subscribed = m
  BY DEF Trade
<1>5. QED
  BY <1>2, <1>3, <1>4

\* A connection that fails loses the end of what is on its way.
LEMMA FailCuts ==
  ASSUME StreamIInv, NEW how, Fail(how)
  PROVE  /\ Len(wire') <= Len(wire) /\ Len(wire) \in Nat /\ Len(wire') \in Nat
         /\ \A i \in 1..Len(wire') : i \in 1..Len(wire) /\ wire'[i] = wire[i]
<1>0. wire \in Seq(Nat) /\ Len(wire) \in Nat
  BY DEF StreamIInv, StreamTyped, QueuesTyped
<1>1. PICK n \in 0..Len(wire) : wire' = SubSeq(wire, 1, n)
  BY DEF Fail
<1>2. Len(SubSeq(wire, 1, n)) = n /\ \A i \in 1..n : SubSeq(wire, 1, n)[i] = wire[i]
  BY <1>0
<1>3. QED
  BY <1>0, <1>1, <1>2

\* Reading a message takes the first.
LEMMA ReadTakes ==
  ASSUME StreamIInv, ReadMessage
  PROVE  /\ pending' = wire[1] /\ 1 \in 1..Len(wire) /\ nextSeq' = nextSeq + 1
         /\ Len(wire') = Len(wire) - 1 /\ Len(wire) \in Nat
         /\ \A i \in 1..Len(wire') : i + 1 \in 1..Len(wire) /\ wire'[i] = wire[i + 1]
         /\ \A i \in 2..Len(wire) : i - 1 \in 1..Len(wire') /\ wire'[i - 1] = wire[i]
<1>0. wire \in Seq(Nat) /\ Len(wire) \in Nat
  BY DEF StreamIInv, StreamTyped, QueuesTyped
<1>1. wire # <<>> /\ pending' = Head(wire) /\ wire' = Tail(wire) /\ nextSeq' = nextSeq + 1
  BY DEF ReadMessage
<1>2. /\ Head(wire) = wire[1] /\ Len(Tail(wire)) = Len(wire) - 1 /\ 1 \in 1..Len(wire)
      /\ \A i \in 1..Len(Tail(wire)) : i + 1 \in 1..Len(wire) /\ Tail(wire)[i] = wire[i + 1]
  BY <1>0, <1>1
<1>3. \A i \in 2..Len(wire) : i - 1 \in 1..Len(wire') /\ (i - 1) + 1 = i
  BY <1>0, <1>1, <1>2
<1>4. QED
  BY <1>0, <1>1, <1>2, <1>3

LEMMA NamedKept == StreamIInv /\ [Next]_vars => Named'
<1> SUFFICES ASSUME StreamIInv, [Next]_vars PROVE Named'
  OBVIOUS
<1>0. Named /\ CountsTyped /\ QueuesTyped
  BY DEF StreamIInv, StreamTyped
<1>n. /\ Len(printed) \in Nat /\ Len(wire) \in Nat /\ Len(buffer) \in Nat /\ Len(got) \in Nat
      /\ \A i \in 1..Len(buffer) : buffer[i].seq \in Nat /\ buffer[i].id \in Nat
  <2>1. \A i \in 1..Len(buffer) : buffer[i] \in Entries
    BY <1>0 DEF QueuesTyped
  <2>2. QED
    BY <1>0, <2>1 DEF QueuesTyped, Entries
<1>1. ASSUME NEW m \in 1..version, Trade(m) PROVE Named'
  <2>1. /\ Len(printed') = Len(printed) + 1
        /\ excused' = excused \/ excused' = excused \cup {Len(printed) + 1}
    BY <1>1, TradeAdds DEF Trade
  <2>2. \A i \in 1..Len(wire') : wire'[i] >= 1 /\ wire'[i] <= Len(printed) + 1
    <3>1. \A i \in 1..Len(wire) : wire[i] \in Nat /\ wire[i] >= 1 /\ wire[i] <= Len(printed) + 1
      BY <1>0, <1>n DEF Named, QueuesTyped
    <3>2. CASE wire' = wire
      BY <3>1, <3>2
    <3>3. CASE /\ Len(wire') = Len(wire) + 1 /\ \A i \in 1..Len(wire) : wire'[i] = wire[i]
               /\ wire'[Len(wire) + 1] = Len(printed) + 1
      BY <1>n, <3>1, <3>3
    <3>4. QED
      BY <1>1, <3>2, <3>3, TradeAdds
  <2>3. \A id \in excused' : id >= 1 /\ id <= Len(printed) + 1
    <3> SUFFICES ASSUME NEW id \in excused' PROVE id >= 1 /\ id <= Len(printed) + 1
      OBVIOUS
    <3>1. CASE id \in excused
      <4>1. id \in Nat /\ id >= 1 /\ id <= Len(printed)
        BY <1>0, <3>1 DEF Named, QueuesTyped
      <4>2. QED
        BY <1>n, <4>1
    <3>2. CASE id = Len(printed) + 1
      BY <1>n, <3>2
    <3>3. QED
      BY <2>1, <3>1, <3>2
  <2>4. UNCHANGED <<buffer, nextSeq, pending, pc, got, start, cursor, old, gapSeen, gapCount>>
    BY <1>1 DEF Trade, run, fields, reader
  <2>5. /\ \A i \in 1..Len(buffer') : /\ buffer'[i].seq >= 1 /\ buffer'[i].seq <= nextSeq'
                                      /\ buffer'[i].id >= 1 /\ buffer'[i].id <= Len(printed')
        /\ \A i \in 1..Len(got') : got'[i] >= 1 /\ got'[i] <= Len(printed')
    <3>1. /\ \A i \in 1..Len(buffer) : /\ buffer[i].seq >= 1 /\ buffer[i].seq <= nextSeq
                                       /\ buffer[i].id >= 1 /\ buffer[i].id <= Len(printed)
          /\ \A i \in 1..Len(got) : got[i] \in Nat /\ got[i] >= 1 /\ got[i] <= Len(printed)
      BY <1>0 DEF Named, QueuesTyped
    <3>2. \A n \in Nat : n <= Len(printed) => n <= Len(printed')
      BY <1>n, <2>1
    <3>3. QED
      BY <1>n, <2>4, <3>1, <3>2
  <2>6. /\ pending <= Len(printed') /\ start <= Len(printed')
        /\ pc = "appending" => pending >= 1 /\ nextSeq >= 1
        /\ cursor <= nextSeq /\ old <= nextSeq /\ gapSeen <= gapCount
    BY <1>0, <1>n, <2>1 DEF Named, CountsTyped
  <2>7. /\ pending' <= Len(printed') /\ start' <= Len(printed')
        /\ pc' = "appending" => pending' >= 1 /\ nextSeq' >= 1
        /\ cursor' <= nextSeq' /\ old' <= nextSeq' /\ gapSeen' <= gapCount'
    BY <2>4, <2>6
  <2>8. /\ \A i \in 1..Len(wire') : wire'[i] >= 1 /\ wire'[i] <= Len(printed')
        /\ \A id \in excused' : id >= 1 /\ id <= Len(printed')
    BY <2>1, <2>2, <2>3
  <2>9. QED
    BY <2>5, <2>7, <2>8, Zenon DEF Named
<1>2. ASSUME NEW how \in {"broken", "stalled"}, Fail(how) PROVE Named'
  <2>2. \A i \in 1..Len(wire') : wire'[i] >= 1 /\ wire'[i] <= Len(printed)
    BY <1>0, <1>2, FailCuts DEF Named
  <2>3. UNCHANGED <<printed, buffer, nextSeq, pending, pc, got, excused, start, cursor, old,
                    gapSeen, gapCount>>
    BY <1>2 DEF Fail, run, fields, reader
  <2>4. QED
    BY <1>0, <2>2, <2>3 DEF Named
<1>3. CASE ReadMessage
  <2>1. /\ pending' = wire[1] /\ 1 \in 1..Len(wire) /\ nextSeq' = nextSeq + 1
        /\ \A i \in 1..Len(wire') : i + 1 \in 1..Len(wire) /\ wire'[i] = wire[i + 1]
    BY <1>3, ReadTakes
  <2>2. UNCHANGED <<printed, buffer, got, excused, start, cursor, old, gapSeen, gapCount>>
    BY <1>3 DEF ReadMessage, reader
  <2>3. \A i \in 1..Len(wire') : wire'[i] >= 1 /\ wire'[i] <= Len(printed)
    BY <1>0, <2>1 DEF Named
  <2>4. \A i \in 1..Len(buffer) : buffer[i].seq <= nextSeq + 1
    BY <1>0, <1>n DEF Named, CountsTyped
  <2>5. pending' >= 1 /\ pending' <= Len(printed) /\ nextSeq + 1 >= 1 /\ nextSeq \in Nat
    BY <1>0, <2>1 DEF Named, CountsTyped
  <2>6. cursor <= nextSeq + 1 /\ old <= nextSeq + 1
    BY <1>0 DEF Named, CountsTyped
  <2>7. QED
    BY <1>0, <2>1, <2>2, <2>3, <2>4, <2>5, <2>6 DEF Named
<1>4. CASE AppendTrade
  <2>1. /\ Len(Appended) = Len(buffer) + 1
        /\ \A i \in 1..Len(buffer) : Appended[i] = buffer[i]
        /\ Appended[Len(buffer) + 1].seq = nextSeq /\ Appended[Len(buffer) + 1].id = pending
    BY <1>4, AppendedBuffer
  <2>2. \A i \in 1..Len(Appended) : /\ Appended[i].seq >= 1 /\ Appended[i].seq <= nextSeq
                                    /\ Appended[i].id >= 1 /\ Appended[i].id <= Len(printed)
    <3> SUFFICES ASSUME NEW i \in 1..Len(Appended)
                 PROVE  /\ Appended[i].seq >= 1 /\ Appended[i].seq <= nextSeq
                        /\ Appended[i].id >= 1 /\ Appended[i].id <= Len(printed)
      OBVIOUS
    <3>1. CASE i \in 1..Len(buffer)
      BY <1>0, <2>1, <3>1 DEF Named
    <3>2. CASE i = Len(buffer) + 1
      <4>1. pc = "appending"
        BY <1>4 DEF AppendTrade
      <4>2. QED
        BY <1>0, <2>1, <3>2, <4>1 DEF Named, CountsTyped
    <3>3. QED
      BY <1>n, <2>1, <3>1, <3>2
  <2>3. \A i \in 1..Len(buffer') : /\ buffer'[i].seq >= 1 /\ buffer'[i].seq <= nextSeq
                                   /\ buffer'[i].id >= 1 /\ buffer'[i].id <= Len(printed)
    <3>1. \A i \in 1..Len(buffer') : \E j \in 1..Len(Appended) : buffer'[i] = Appended[j]
      BY <1>4, PrunedBuffer
    <3>2. QED
      BY <2>2, <3>1
  <2>4. \A id \in excused' : id >= 1 /\ id <= Len(printed)
    <3>1. excused' \subseteq excused \cup {Appended[i].id : i \in 1..Len(Appended)}
      BY <1>4 DEF AppendTrade, Appended
    <3>2. QED
      BY <1>0, <2>2, <3>1 DEF Named
  <2>5. /\ UNCHANGED <<printed, wire, nextSeq, got, start, cursor, old, gapSeen, gapCount>>
        /\ pending' = 0 /\ pc' = "reading"
    BY <1>4 DEF AppendTrade, network, reader
  <2>6. QED
    BY <1>0, <1>n, <2>3, <2>4, <2>5 DEF Named
<1>5. CASE ReadTrades
  <2>1. UNCHANGED <<printed, wire, buffer, nextSeq, pending, pc, start, old, gapSeen, gapCount>>
        /\ cursor' = nextSeq
    BY <1>5 DEF ReadTrades, network, run, fields
  <2>2. \A i \in 1..Len(got') : got'[i] >= 1 /\ got'[i] <= Len(printed)
    <3>1. PICK k \in 0..Len(buffer) :
             /\ Len(got') = Len(got) + (Len(buffer) - k)
             /\ \A i \in 1..Len(got) : got'[i] = got[i]
             /\ \A i \in 1..(Len(buffer) - k) : got'[Len(got) + i] = buffer[k + i].id
      BY <1>5, ReadBuffer
    <3> SUFFICES ASSUME NEW i \in 1..Len(got') PROVE got'[i] >= 1 /\ got'[i] <= Len(printed)
      OBVIOUS
    <3>2. CASE i \in 1..Len(got)
      BY <1>0, <3>1, <3>2 DEF Named
    <3>3. CASE i \notin 1..Len(got)
      <4> DEFINE j == i - Len(got)
      <4>1. j \in 1..(Len(buffer) - k) /\ i = Len(got) + j /\ k + j \in 1..Len(buffer)
        BY <1>n, <3>1, <3>3
      <4>2. QED
        BY <1>0, <3>1, <4>1 DEF Named
    <3>4. QED
      BY <3>2, <3>3
  <2>3. \A id \in excused' : id >= 1 /\ id <= Len(printed)
    BY <1>0, <1>5 DEF ReadTrades, Named
  <2>4. nextSeq <= nextSeq
    BY <1>0 DEF CountsTyped
  <2>5. QED
    BY <1>0, <2>1, <2>2, <2>3, <2>4 DEF Named
<1>6. CASE Looks
  <2>1. start' <= Len(printed) /\ gapSeen' <= gapCount' /\ cursor' <= nextSeq
    <3>1. /\ start <= Len(printed) /\ gapSeen <= gapCount /\ cursor <= nextSeq
          /\ start \in Nat /\ gapSeen \in Nat /\ gapCount \in Nat /\ cursor \in Nat
          /\ nextSeq \in Nat
      BY <1>0 DEF Named, CountsTyped
    <3>2. CASE Quiet \/ TwoMinutes \/ Asking
      BY <3>1, <3>2 DEF Quiet, TwoMinutes, Asking, network, run, fields, reader
    <3>3. CASE Snapshot \/ DialFails \/ Subscribe \/ Register
      BY <3>1, <3>3 DEF Snapshot, DialFails, Subscribe, Register, fields, reader
    <3>4. CASE ReadFails \/ Cleanup
      <4>1. gapCount' = gapCount \/ gapCount' = gapCount + 1
        BY <3>4 DEF ReadFails, Cleanup, fields
      <4>2. UNCHANGED reader
        BY <3>4 DEF ReadFails, Cleanup
      <4>3. gapSeen <= gapCount'
        BY <3>1, <4>1
      <4>4. QED
        BY <3>1, <4>2, <4>3 DEF reader
    <3>5. CASE TakeNumber \/ StartReading
      BY <1>n, <3>1, <3>5 DEF TakeNumber, StartReading, network, fields
    <3>6. CASE SetAssets \/ StopReading
      BY <1>n, <3>1, <3>6 DEF SetAssets, StopReading, NotReading, network, fields
    <3>7. QED
      BY <1>6, <3>2, <3>3, <3>4, <3>5, <3>6 DEF Looks
  <2>3. old' <= nextSeq
    <3>1. CASE TwoMinutes
      <4>1. Len(buffer) \in 1..Len(buffer)
        BY <1>0, <1>n, <3>1 DEF TwoMinutes, QueuesTyped
      <4>2. QED
        BY <1>0, <3>1, <4>1 DEF TwoMinutes, Named
    <3>2. CASE ~TwoMinutes
      <4>1. old' = old
        BY <1>6, <3>2
           DEF Looks, Quiet, Snapshot, DialFails, Subscribe, Register, ReadFails, Cleanup,
               TakeNumber, StartReading, SetAssets, StopReading, Asking, network, run, fields, reader
      <4>2. QED
        BY <1>0, <4>1 DEF Named
    <3>3. QED
      BY <3>1, <3>2
  <2>4. /\ printed' = printed /\ nextSeq' = nextSeq /\ pending' = pending
        /\ wire' = wire \/ wire' = <<>>
        /\ buffer' = buffer \/ buffer' = <<>>
        /\ (got' = got /\ excused' = excused) \/ (got' = <<>> /\ excused' = {})
        /\ pc' = "appending" => pc = "appending"
    BY <1>6, LooksKeepQueues
  <2>5. /\ \A i \in 1..Len(wire') : wire'[i] >= 1 /\ wire'[i] <= Len(printed)
        /\ \A i \in 1..Len(got') : got'[i] >= 1 /\ got'[i] <= Len(printed)
        /\ \A id \in excused' : id >= 1 /\ id <= Len(printed)
    BY <1>0, <2>4 DEF Named
  <2>6. \A i \in 1..Len(buffer') : /\ buffer'[i].seq >= 1 /\ buffer'[i].seq <= nextSeq
                                   /\ buffer'[i].id >= 1 /\ buffer'[i].id <= Len(printed)
    BY <1>0, <2>4 DEF Named
  <2>7. QED
    BY <1>0, <2>1, <2>3, <2>4, <2>5, <2>6 DEF Named
<1>7. QED
  BY <1>1, <1>2, <1>3, <1>4, <1>5, <1>6, NextLooks

LEMMA PlacedKept == StreamIInv /\ [Next]_vars => Placed'
<1> SUFFICES ASSUME StreamIInv, [Next]_vars PROVE Placed'
  OBVIOUS
<1>0. Placed /\ Named /\ CountsTyped /\ FlagsTyped
  BY DEF StreamIInv, StreamTyped
<1>1. ASSUME NEW m \in 1..version, Trade(m) PROVE Placed'
  <2>1. /\ UNCHANGED <<link, pc, connected, subscribed, snapVersion, version, posting, reading, got>>
        /\ excused' = IF reading /\ m = version /\ subscribed # version
                      THEN excused \cup {Len(printed) + 1} ELSE excused
    BY <1>1 DEF Trade, run, fields, reader
  <2>2. \A i \in 1..Len(wire) : printed'[wire[i]] = subscribed /\ wire[i] \in 1..Len(printed)
    <3>1. \A i \in 1..Len(wire) : wire[i] \in 1..Len(printed)
      BY <1>0 DEF Named, StreamIInv, StreamTyped, QueuesTyped
    <3>2. QED
      BY <1>0, <1>1, <3>1, TradeAdds DEF Placed
  <2>3. \A i \in 1..Len(wire') : printed'[wire'[i]] = subscribed
    <3>1. CASE wire' = wire
      BY <2>2, <3>1
    <3>2. CASE /\ Len(wire') = Len(wire) + 1 /\ subscribed = m
               /\ \A i \in 1..Len(wire) : wire'[i] = wire[i]
               /\ wire'[Len(wire) + 1] = Len(printed) + 1
      <4>1. printed'[Len(printed) + 1] = subscribed
        BY <1>1, <3>2, TradeAdds
      <4>2. Len(wire) \in Nat
        BY DEF StreamIInv, StreamTyped, QueuesTyped
      <4>3. QED
        BY <2>2, <3>2, <4>1, <4>2
    <3>3. QED
      BY <1>1, <3>1, <3>2, TradeAdds
  <2>4. pc \in {"idle", "dialing", "ended"} => wire' = <<>>
    BY <1>0, <1>1, TradeAdds DEF Placed
  <2>5. QED
    BY <1>0, <2>1, <2>3, <2>4 DEF Placed
<1>2. ASSUME NEW how \in {"broken", "stalled"}, Fail(how) PROVE Placed'
  <2>1. /\ UNCHANGED <<printed, pc, connected, subscribed, snapVersion, version, posting, reading,
                       got, excused>>
        /\ link = "up" /\ link' = how
    BY <1>2 DEF Fail, run, fields, reader
  <2>2. \A i \in 1..Len(wire') : printed[wire'[i]] = subscribed
    BY <1>0, <1>2, FailCuts DEF Placed
  <2>3. QED
    BY <1>0, <2>1, <2>2 DEF Placed
<1>3. CASE ReadMessage
  <2>1. /\ UNCHANGED <<printed, link, connected, subscribed, snapVersion, version, posting, reading,
                       got, excused>>
        /\ pc = "reading" /\ pc' = "appending"
    BY <1>3 DEF ReadMessage, reader
  <2>2. \A i \in 1..Len(wire') : printed[wire'[i]] = subscribed
    BY <1>0, <1>3, ReadTakes DEF Placed
  <2>3. QED
    BY <1>0, <2>1, <2>2 DEF Placed
<1>4. CASE AppendTrade
  <2>1. /\ UNCHANGED <<printed, link, wire, connected, subscribed, snapVersion, version, posting,
                       reading, got>>
        /\ ~reading => excused' = excused
        /\ pc = "appending" /\ pc' = "reading"
    BY <1>4 DEF AppendTrade, network, reader
  <2>2. QED
    BY <1>0, <2>1 DEF Placed
<1>5. CASE ReadTrades
  <2>1. /\ UNCHANGED <<printed, link, wire, pc, connected, subscribed, snapVersion, version, posting,
                       reading>>
        /\ reading
    BY <1>5 DEF ReadTrades, network, run, fields
  <2>2. QED
    BY <1>0, <2>1 DEF Placed
<1>6. CASE Quiet \/ TwoMinutes
  <2>1. UNCHANGED <<printed, link, wire, pc, connected, subscribed, snapVersion, version, posting,
                    reading, got, excused>>
    BY <1>6 DEF Quiet, TwoMinutes, network, run, reader
  <2>2. QED
    BY <1>0, <2>1 DEF Placed
<1>7. CASE Snapshot \/ DialFails
  BY <1>0, <1>7 DEF Snapshot, DialFails, Placed, CountsTyped, network, fields, reader
<1>8. CASE Subscribe
  BY <1>0, <1>8 DEF Subscribe, Placed, CountsTyped, reader
<1>9. CASE Register
  BY <1>0, <1>9 DEF Register, Placed, network, reader
<1>10. CASE ReadFails
  BY <1>0, <1>10 DEF ReadFails, Placed, fields, reader
<1>11. CASE Cleanup
  <2>1. /\ UNCHANGED <<printed, link, wire, snapVersion, version, posting, reading, got, excused>>
        /\ pc' = "idle" /\ pc = "ended" /\ ~connected'
        /\ subscribed' = 0 \/ subscribed' = subscribed
    BY <1>11 DEF Cleanup, network, reader
  <2>2. link = "none" /\ wire = <<>>
    BY <1>0, <2>1 DEF Placed
  <2>3. QED
    BY <1>0, <2>1, <2>2 DEF Placed, CountsTyped
<1>12. CASE SetAssets
  <2>1. /\ UNCHANGED <<printed, wire, pc, snapVersion, subscribed, connected, posting>>
        /\ version' = version + 1 /\ ~reading' /\ got' = <<>> /\ excused' = {}
        /\ link' = IF connected /\ link # "none" THEN "closed" ELSE link
    BY <1>12 DEF SetAssets, NotReading, run
  <2>2. pc \in {"idle", "dialing", "ended"} => link' = "none"
    BY <1>0, <2>1 DEF Placed
  <2>3. subscribed <= version + 1 /\ subscribed # version + 1 /\ snapVersion <= version + 1
    BY <1>0 DEF Placed, CountsTyped
  <2>4. QED
    BY <1>0, <2>1, <2>2, <2>3 DEF Placed
<1>13. CASE TakeNumber \/ StartReading \/ StopReading
  BY <1>0, <1>13 DEF TakeNumber, StartReading, StopReading, NotReading, Placed, network, run, fields
<1>14. CASE Asking
  BY <1>0, <1>14 DEF Asking, network, run, fields, reader, Placed
<1>15. QED
  BY <1>1, <1>2, <1>3, <1>4, <1>5, <1>6, <1>7, <1>8, <1>9, <1>10, <1>11, <1>12, <1>13, <1>14, AskingChangesNothing DEF Next

LEMMA WatchedKept == StreamIInv /\ [Next]_vars => Watched'
<1> SUFFICES ASSUME StreamIInv, [Next]_vars PROVE Watched'
  OBVIOUS
<1>0. Watched /\ Placed /\ Named /\ CountsTyped /\ FlagsTyped
  BY DEF StreamIInv, StreamTyped
<1>1. CASE \/ \E m \in 1..version : Trade(m)
           \/ \E how \in {"broken", "stalled"} : Fail(how)
           \/ Quiet \/ TwoMinutes
  <2>1. UNCHANGED <<reading, posting, subscribed, version, gapCount, gapSeen, pc>>
    BY <1>1 DEF Trade, Fail, Quiet, TwoMinutes, network, run, fields, reader
  <2>2. QED
    BY <1>0, <2>1 DEF Watched
<1>2. CASE Snapshot \/ DialFails \/ Register \/ ReadMessage \/ AppendTrade \/ ReadFails
  <2>1. /\ UNCHANGED <<reading, posting, subscribed, version, gapCount, gapSeen>>
        /\ pc \in {"subscribed", "reading", "appending", "ended"} =>
              pc' \in {"subscribed", "reading", "appending", "ended"}
    BY <1>2 DEF Snapshot, DialFails, Register, ReadMessage, AppendTrade, ReadFails,
                network, fields, reader
  <2>2. QED
    BY <1>0, <2>1 DEF Watched
<1>3. CASE Subscribe
  BY <1>3 DEF Subscribe, Watched
<1>4. CASE Cleanup
  <2>1. /\ UNCHANGED <<reading, posting, version, gapSeen>>
        /\ pc = "ended"
        /\ gapCount' = IF version = snapVersion THEN gapCount + 1 ELSE gapCount
        /\ subscribed' = IF posting THEN 0 ELSE subscribed
    BY <1>4 DEF Cleanup, reader
  <2>2. subscribed = snapVersion /\ version # 0 /\ (posting => ~reading)
    BY <1>0, <2>1 DEF Placed, CountsTyped
  <2>3. gapCount + 1 > gapSeen
    BY <1>0 DEF Named, CountsTyped
  <2>4. ASSUME (reading \/ posting)', (subscribed = version)' PROVE (gapCount > gapSeen)' /\ reading'
    <3>1. ~posting /\ reading
      BY <2>1, <2>2, <2>4
    <3>2. version = snapVersion
      BY <2>1, <2>2, <2>4, <3>1
    <3>3. QED
      BY <2>1, <2>3, <3>1, <3>2
  <2>5. QED
    BY <2>4 DEF Watched
<1>5. CASE SetAssets \/ StopReading
  <2>1. ~reading' /\ ~posting'
    BY <1>0, <1>5 DEF SetAssets, StopReading, NotReading, Placed
  <2>2. QED
    BY <2>1 DEF Watched
<1>6. CASE TakeNumber
  <2>1. pc' = pc /\ connected
    BY <1>6 DEF TakeNumber, Healthy, run
  <2>2. pc \in {"subscribed", "reading", "appending", "ended"}
    BY <1>0, <2>1 DEF Placed, FlagsTyped, Places
  <2>3. QED
    BY <2>1, <2>2 DEF Watched
<1>7. CASE StartReading
  <2>1. UNCHANGED <<subscribed, version, pc>> /\ posting /\ ~reading
    BY <1>0, <1>7 DEF StartReading, run, fields, Placed
  <2>2. QED
    BY <1>0, <2>1 DEF Watched
<1>8. CASE ReadTrades \/ Asking
  <2>1. UNCHANGED <<reading, posting, subscribed, version, gapCount, gapSeen, pc>>
    BY <1>8 DEF ReadTrades, Asking, network, run, fields, reader
  <2>2. QED
    BY <1>0, <2>1 DEF Watched
<1>9. QED
  BY <1>1, <1>2, <1>3, <1>4, <1>5, <1>6, <1>7, <1>8, AskingChangesNothing DEF Next

LEMMA LooksKeepCursor ==
  StreamIInv /\ Looks => \/ got' = <<>>
                         \/ got' = got /\ cursor' = cursor /\ buffer' = buffer
<1> SUFFICES ASSUME StreamIInv, Looks
             PROVE  got' = <<>> \/ (got' = got /\ cursor' = cursor /\ buffer' = buffer)
  OBVIOUS
<1>1. CASE Quiet \/ TwoMinutes \/ Snapshot \/ DialFails \/ Subscribe \/ Register
  BY <1>1 DEF Quiet, TwoMinutes, Snapshot, DialFails, Subscribe, Register, network, run, fields, reader
<1>2. CASE ReadFails \/ Cleanup \/ StartReading \/ Asking
  BY <1>2 DEF ReadFails, Cleanup, StartReading, Asking, network, run, fields, reader
<1>3. CASE SetAssets \/ StopReading
  BY <1>3 DEF SetAssets, StopReading, NotReading
<1>4. CASE TakeNumber
  BY <1>4 DEF TakeNumber, StreamIInv, Placed
<1>5. QED
  BY <1>1, <1>2, <1>3, <1>4 DEF Looks

LEMMA QueuedKept == StreamIInv /\ [Next]_vars => Queued'
<1> SUFFICES ASSUME StreamIInv, [Next]_vars PROVE Queued'
  OBVIOUS
<1>0. Queued /\ Named /\ Placed /\ CountsTyped
  BY DEF StreamIInv, StreamTyped
<1>n. /\ Len(printed) \in Nat /\ Len(wire) \in Nat /\ Len(buffer) \in Nat /\ Len(got) \in Nat
      /\ \A i \in 1..Len(wire) : wire[i] \in Nat
      /\ \A i \in 1..Len(got) : got[i] \in Nat
      /\ \A i \in 1..Len(buffer) : buffer[i].seq \in Nat /\ buffer[i].id \in Nat
  <2>1. \A i \in 1..Len(buffer) : buffer[i] \in Entries
    BY DEF StreamIInv, StreamTyped, QueuesTyped
  <2>2. QED
    BY <2>1 DEF StreamIInv, StreamTyped, QueuesTyped, Entries
<1>1. ASSUME NEW m \in 1..version, Trade(m) PROVE Queued'
  <2>1. UNCHANGED <<buffer, nextSeq, pending, pc, got, cursor>>
    BY <1>1 DEF Trade, run, fields, reader
  <2>2. CASE wire' = wire
    BY <1>0, <2>1, <2>2 DEF Queued
  <2>3. CASE /\ Len(wire') = Len(wire) + 1
             /\ \A i \in 1..Len(wire) : wire'[i] = wire[i]
             /\ wire'[Len(wire) + 1] = Len(printed) + 1
    <3>1. /\ \A i \in 1..Len(wire) : wire[i] < Len(printed) + 1
          /\ \A i \in 1..Len(buffer) : buffer[i].id < Len(printed) + 1
          /\ \A i \in 1..Len(got) : got[i] < Len(printed) + 1
          /\ pending < Len(printed) + 1
      <4>1. \A i \in 1..Len(wire) : wire[i] < Len(printed) + 1
        BY <1>0, <1>n DEF Named
      <4>2. \A i \in 1..Len(buffer) : buffer[i].id < Len(printed) + 1
        BY <1>0, <1>n DEF Named
      <4>3. \A i \in 1..Len(got) : got[i] < Len(printed) + 1
        BY <1>0, <1>n DEF Named
      <4>4. pending < Len(printed) + 1
        BY <1>0, <1>n DEF Named, CountsTyped
      <4>5. QED
        BY <4>1, <4>2, <4>3, <4>4
    <3>2. \A j \in 1..Len(wire') : j \in 1..Len(wire) \/ j = Len(wire) + 1
      BY <1>n, <2>3
    <3>3. \A i, j \in 1..Len(wire') : i < j => wire'[i] < wire'[j]
      <4> SUFFICES ASSUME NEW i \in 1..Len(wire'), NEW j \in 1..Len(wire'), i < j
                   PROVE  wire'[i] < wire'[j]
        OBVIOUS
      <4>1. i \in 1..Len(wire)
        BY <1>n, <2>3
      <4>2. CASE j \in 1..Len(wire)
        BY <1>0, <2>3, <4>1, <4>2 DEF Queued
      <4>3. CASE j = Len(wire) + 1
        BY <2>3, <3>1, <4>1, <4>3
      <4>4. QED
        BY <3>2, <4>2, <4>3
    <3>4. /\ \A i \in 1..Len(buffer), j \in 1..Len(wire') : buffer[i].id < wire'[j]
          /\ \A i \in 1..Len(got), j \in 1..Len(wire') : got[i] < wire'[j]
          /\ pc = "appending" => \A j \in 1..Len(wire') : pending < wire'[j]
      BY <1>0, <2>3, <3>1, <3>2 DEF Queued
    <3>5. QED
      BY <1>0, <2>1, <3>3, <3>4 DEF Queued
  <2>4. QED
    BY <1>1, <2>2, <2>3, TradeAdds
<1>2. ASSUME NEW how \in {"broken", "stalled"}, Fail(how) PROVE Queued'
  <2>1. UNCHANGED <<buffer, nextSeq, pending, pc, got, cursor>>
    BY <1>2 DEF Fail, run, fields, reader
  <2>2. \A i \in 1..Len(wire') : i \in 1..Len(wire) /\ wire'[i] = wire[i]
    BY <1>2, FailCuts
  <2>3. QED
    BY <1>0, <2>1, <2>2 DEF Queued
<1>3. CASE ReadMessage
  <2>1. /\ pending' = wire[1] /\ 1 \in 1..Len(wire) /\ nextSeq' = nextSeq + 1
        /\ \A i \in 1..Len(wire') : i + 1 \in 1..Len(wire) /\ wire'[i] = wire[i + 1]
    BY <1>3, ReadTakes
  <2>2. UNCHANGED <<buffer, got, cursor>>
    BY <1>3 DEF ReadMessage, reader
  <2>3. \A i \in 1..Len(buffer) : buffer[i].seq < nextSeq + 1
    BY <1>0, <1>n DEF Named, CountsTyped
  <2>4. /\ \A i, j \in 1..Len(wire') : i < j => wire'[i] < wire'[j]
        /\ \A j \in 1..Len(wire') : wire[1] < wire'[j]
    <3>1. \A i, j \in 1..Len(wire') : i < j => i + 1 < j + 1
      BY <1>n
    <3>2. \A j \in 1..Len(wire') : 1 < j + 1
      BY <1>n
    <3>3. QED
      BY <1>0, <2>1, <3>1, <3>2 DEF Queued
  <2>5. /\ \A i \in 1..Len(buffer), j \in 1..Len(wire') : buffer[i].id < wire'[j]
        /\ \A i \in 1..Len(got), j \in 1..Len(wire') : got[i] < wire'[j]
        /\ \A i \in 1..Len(buffer) : buffer[i].id < wire[1]
        /\ \A i \in 1..Len(got) : got[i] < wire[1]
    BY <1>0, <2>1 DEF Queued
  <2>6. QED
    BY <1>0, <2>1, <2>2, <2>3, <2>4, <2>5 DEF Queued
<1>4. CASE AppendTrade
  <2>1. /\ Len(Appended) = Len(buffer) + 1
        /\ \A i \in 1..Len(buffer) : Appended[i] = buffer[i]
        /\ Appended[Len(buffer) + 1].seq = nextSeq /\ Appended[Len(buffer) + 1].id = pending
        /\ \A i, j \in 1..Len(Appended) : i < j => /\ Appended[i].seq < Appended[j].seq
                                                   /\ Appended[i].id < Appended[j].id
    BY <1>4, AppendedBuffer
  <2>2. PICK k \in 0..Len(Appended) :
           \A i \in 1..Len(buffer') : k + i \in 1..Len(Appended) /\ buffer'[i] = Appended[k + i]
    BY <1>4, PrunedBuffer
  <2>3. UNCHANGED <<wire, got, cursor>> /\ pc = "appending" /\ pc' = "reading"
    BY <1>4 DEF AppendTrade, network, reader
  <2>4. \A i \in 1..Len(Appended) : i \in 1..Len(buffer) \/ i = Len(buffer) + 1
    BY <1>n, <2>1
  <2>5. /\ \A i \in 1..Len(Appended), j \in 1..Len(wire) : Appended[i].id < wire[j]
        /\ \A i \in 1..Len(got), j \in 1..Len(Appended) :
              Appended[j].seq > cursor => got[i] < Appended[j].id
    BY <1>0, <2>1, <2>3, <2>4 DEF Queued
  <2>6. \A i, j \in 1..Len(buffer') : i < j => /\ buffer'[i].seq < buffer'[j].seq
                                               /\ buffer'[i].id < buffer'[j].id
    <3> SUFFICES ASSUME NEW i \in 1..Len(buffer'), NEW j \in 1..Len(buffer'), i < j
                 PROVE  buffer'[i].seq < buffer'[j].seq /\ buffer'[i].id < buffer'[j].id
      OBVIOUS
    <3>1. k + i < k + j
      BY <1>n, <2>1
    <3>2. QED
      BY <2>1, <2>2, <3>1
  <2>7. QED
    BY <1>0, <2>2, <2>3, <2>5, <2>6 DEF Queued
<1>5. CASE ReadTrades
  <2>1. UNCHANGED <<wire, buffer, nextSeq, pending, pc>> /\ cursor' = nextSeq
    BY <1>5 DEF ReadTrades, network, run, fields
  <2>2. PICK k \in 0..Len(buffer) :
           /\ Len(got') = Len(got) + (Len(buffer) - k)
           /\ \A i \in 1..Len(got) : got'[i] = got[i]
           /\ \A i \in 1..(Len(buffer) - k) : got'[Len(got) + i] = buffer[k + i].id
    BY <1>5, ReadBuffer
  <2>3. \A i \in 1..Len(got') : \/ \E j \in 1..Len(got) : got'[i] = got[j]
                                \/ \E j \in 1..Len(buffer) : got'[i] = buffer[j].id
    <3> SUFFICES ASSUME NEW i \in 1..Len(got'), i \notin 1..Len(got)
                 PROVE  \E j \in 1..Len(buffer) : got'[i] = buffer[j].id
      BY <2>2
    <3> DEFINE j == i - Len(got)
    <3>1. j \in 1..(Len(buffer) - k) /\ i = Len(got) + j /\ k + j \in 1..Len(buffer)
      BY <1>n, <2>2
    <3>2. QED
      BY <2>2, <3>1
  <2>4. /\ \A i \in 1..Len(got'), j \in 1..Len(wire) : got'[i] < wire[j]
        /\ pc = "appending" => \A i \in 1..Len(got') : got'[i] < pending
    BY <1>0, <2>3 DEF Queued
  <2>5. \A j \in 1..Len(buffer) : ~(buffer[j].seq > nextSeq)
    BY <1>0, <1>n DEF Named, CountsTyped
  <2>6. QED
    BY <1>0, <2>1, <2>4, <2>5 DEF Queued
<1>6. CASE Looks
  <2>1. /\ nextSeq' = nextSeq /\ pending' = pending
        /\ wire' = wire \/ wire' = <<>>
        /\ buffer' = buffer \/ buffer' = <<>>
        /\ got' = got \/ got' = <<>>
        /\ pc' = "appending" => pc = "appending"
    BY <1>6, LooksKeepQueues
  <2>2. got' = <<>> \/ (got' = got /\ cursor' = cursor /\ buffer' = buffer)
    BY <1>6, LooksKeepCursor
  <2>3. /\ \A i, j \in 1..Len(buffer') : i < j => /\ buffer'[i].seq < buffer'[j].seq
                                                  /\ buffer'[i].id < buffer'[j].id
        /\ \A i, j \in 1..Len(wire') : i < j => wire'[i] < wire'[j]
        /\ \A i \in 1..Len(buffer'), j \in 1..Len(wire') : buffer'[i].id < wire'[j]
    BY <1>0, <2>1 DEF Queued
  <2>4. pc' = "appending" =>
           /\ \A i \in 1..Len(buffer') : buffer'[i].seq < nextSeq' /\ buffer'[i].id < pending'
           /\ \A j \in 1..Len(wire') : pending' < wire'[j]
           /\ \A i \in 1..Len(got') : got'[i] < pending'
    BY <1>0, <2>1 DEF Queued
  <2>5. /\ \A i \in 1..Len(got'), j \in 1..Len(wire') : got'[i] < wire'[j]
        /\ \A i \in 1..Len(got'), j \in 1..Len(buffer') :
              buffer'[j].seq > cursor' => got'[i] < buffer'[j].id
    BY <1>0, <2>1, <2>2 DEF Queued
  <2>6. QED
    BY <2>3, <2>4, <2>5 DEF Queued
<1>7. QED
  BY <1>1, <1>2, <1>3, <1>4, <1>5, <1>6, NextLooks

LEMMA OrderKept == StreamIInv /\ [Next]_vars => GivenOnceInOrder'
<1> SUFFICES ASSUME StreamIInv, [Next]_vars PROVE GivenOnceInOrder'
  OBVIOUS
<1>0. GivenOnceInOrder /\ Queued
  BY DEF StreamIInv
<1>1. CASE got' = got \/ got' = <<>>
  BY <1>0, <1>1 DEF GivenOnceInOrder
<1>2. CASE ReadTrades
  <2>n. /\ Len(buffer) \in Nat /\ Len(got) \in Nat
        /\ \A i \in 1..Len(buffer) : buffer[i].seq \in Nat
    <3>1. \A i \in 1..Len(buffer) : buffer[i] \in Entries
      BY DEF StreamIInv, StreamTyped, QueuesTyped
    <3>2. QED
      BY <3>1 DEF StreamIInv, StreamTyped, QueuesTyped, Entries
  <2>1. PICK k \in 0..Len(buffer) :
           /\ \A i \in 1..Len(buffer) : i <= k <=> buffer[i].seq <= cursor
           /\ Len(got') = Len(got) + (Len(buffer) - k)
           /\ \A i \in 1..Len(got) : got'[i] = got[i]
           /\ \A i \in 1..(Len(buffer) - k) : got'[Len(got) + i] = buffer[k + i].id
    BY <1>2, ReadBuffer
  <2>2. \A i \in 1..(Len(buffer) - k) : k + i \in 1..Len(buffer) /\ buffer[k + i].seq > cursor
    <3>1. \A i \in 1..(Len(buffer) - k) : k + i \in 1..Len(buffer) /\ ~(k + i <= k)
      BY <2>n
    <3>2. cursor \in Nat
      BY DEF StreamIInv, StreamTyped, CountsTyped
    <3>3. QED
      BY <2>n, <2>1, <3>1, <3>2
  <2> SUFFICES ASSUME NEW i \in 1..Len(got'), NEW j \in 1..Len(got'), i < j PROVE got'[i] < got'[j]
    BY DEF GivenOnceInOrder
  <2>3. CASE j \in 1..Len(got)
    <3>1. i \in 1..Len(got)
      BY <2>n, <2>3, <2>1
    <3>2. QED
      BY <1>0, <2>1, <2>3, <3>1 DEF GivenOnceInOrder
  <2>4. CASE j \notin 1..Len(got)
    <3> DEFINE b == j - Len(got)
    <3>1. b \in 1..(Len(buffer) - k) /\ j = Len(got) + b
      BY <2>n, <2>1, <2>4
    <3>2. got'[j] = buffer[k + b].id /\ k + b \in 1..Len(buffer) /\ buffer[k + b].seq > cursor
      BY <2>1, <2>2, <3>1
    <3>3. CASE i \in 1..Len(got)
      BY <1>0, <2>1, <3>2, <3>3 DEF Queued
    <3>4. CASE i \notin 1..Len(got)
      <4> DEFINE a == i - Len(got)
      <4>1. a \in 1..(Len(buffer) - k) /\ i = Len(got) + a /\ k + a < k + b
        <5>1. /\ Len(got) \in Nat /\ Len(buffer) \in Nat /\ k \in 0..Len(buffer)
              /\ i \in Int /\ i > Len(got) /\ i <= Len(got) + (Len(buffer) - k)
              /\ b \in Int /\ i < Len(got) + b
          BY <2>n, <2>1, <3>1, <3>4
        <5> HIDE DEF b
        <5>2. QED
          BY <5>1
      <4>2. got'[i] = buffer[k + a].id /\ k + a \in 1..Len(buffer)
        BY <2>1, <2>2, <4>1
      <4>3. QED
        BY <1>0, <3>2, <4>1, <4>2 DEF Queued
    <3>5. QED
      BY <3>3, <3>4
  <2>5. QED
    BY <2>3, <2>4
<1>3. CASE ReadMessage \/ AppendTrade \/ Looks \/ (\E m \in 1..version : Trade(m))
           \/ (\E how \in {"broken", "stalled"} : Fail(how))
  <2>1. got' = got \/ got' = <<>>
    BY <1>3, LooksKeepQueues DEF ReadMessage, AppendTrade, Trade, Fail, reader
  <2>2. QED
    BY <1>1, <2>1
<1>4. QED
  BY <1>2, <1>3, NextLooks

LEMMA AccountedKept == StreamIInv /\ [Next]_vars => Accounted'
<1> SUFFICES ASSUME StreamIInv, [Next]_vars PROVE Accounted'
  OBVIOUS
<1>0. Queued /\ Named /\ Placed /\ Watched /\ Accounted /\ CountsTyped /\ FlagsTyped
  BY DEF StreamIInv, StreamTyped
<1>n. /\ Len(printed) \in Nat /\ Len(wire) \in Nat /\ Len(buffer) \in Nat /\ Len(got) \in Nat
      /\ \A i \in 1..Len(wire) : wire[i] \in Nat
      /\ \A i \in 1..Len(got) : got[i] \in Nat
      /\ \A i \in 1..Len(buffer) : buffer[i].seq \in Nat /\ buffer[i].id \in Nat
  <2>1. \A i \in 1..Len(buffer) : buffer[i] \in Entries
    BY DEF StreamIInv, StreamTyped, QueuesTyped
  <2>2. QED
    BY <2>1 DEF StreamIInv, StreamTyped, QueuesTyped, Entries
<1>w. \A id \in 1..Len(printed) : Own(id) /\ subscribed # version =>
         \A i \in 1..Len(wire) : wire[i] # id
  BY <1>0 DEF Placed, Own
<1>1. ASSUME NEW m \in 1..version, Trade(m) PROVE Accounted'
  <2>1. /\ UNCHANGED <<buffer, nextSeq, pending, pc, got, cursor, reading, start, version, gapCount,
                       gapSeen, link, subscribed>>
        /\ excused' = IF reading /\ m = version /\ subscribed # version
                      THEN excused \cup {Len(printed) + 1} ELSE excused
    BY <1>1 DEF Trade, run, fields, reader
  <2>2. /\ Len(printed') = Len(printed) + 1
        /\ \A i \in 1..Len(printed) : printed'[i] = printed[i]
        /\ printed'[Len(printed) + 1] = m
        /\ \/ wire' = wire /\ ~(link = "up" /\ subscribed = m)
           \/ /\ Len(wire') = Len(wire) + 1 /\ link = "up" /\ subscribed = m
              /\ \A i \in 1..Len(wire) : wire'[i] = wire[i]
              /\ wire'[Len(wire) + 1] = Len(printed) + 1
    BY <1>1, TradeAdds
  <2> SUFFICES ASSUME reading, gapCount = gapSeen, NEW id \in 1..Len(printed'), Own(id)'
               PROVE  AccountedFor(id)'
    BY <2>1 DEF Accounted
  <2>3. CASE id \in 1..Len(printed)
    <3>1. Own(id) /\ AccountedFor(id) /\ id # Len(printed) + 1
      BY <1>0, <1>n, <2>1, <2>2, <2>3 DEF Own, Accounted
    <3>2. id \in excused' <=> id \in excused
      BY <2>1, <3>1
    <3>3. Held(id)' <=> Held(id)
      <4>1. (\E i \in 1..Len(wire') : wire'[i] = id) <=> (\E i \in 1..Len(wire) : wire[i] = id)
        <5>1. CASE wire' = wire
          BY <5>1
        <5>2. CASE /\ Len(wire') = Len(wire) + 1
                   /\ \A i \in 1..Len(wire) : wire'[i] = wire[i]
                   /\ wire'[Len(wire) + 1] = Len(printed) + 1
          <6>1. /\ \A i \in 1..Len(wire) : i \in 1..Len(wire')
                /\ \A i \in 1..Len(wire') : i \in 1..Len(wire) \/ i = Len(wire) + 1
            BY <1>n, <5>2
          <6>2. QED
            BY <3>1, <5>2, <6>1
        <5>3. QED
          BY <2>2, <5>1, <5>2
      <4>2. QED
        BY <2>1, <4>1 DEF Held
    <3>4. Behind(id) /\ link # "up" => Behind(id)'
      BY <2>1, <2>2 DEF Behind
    <3>5. QED
      BY <2>1, <3>1, <3>2, <3>3, <3>4 DEF AccountedFor
  <2>4. CASE id = Len(printed) + 1
    <3>1. m = version
      BY <2>1, <2>2, <2>4 DEF Own
    <3>2. /\ \A i \in 1..Len(wire) : wire[i] < id
          /\ \A i \in 1..Len(buffer) : buffer[i].id < id
          /\ \A i \in 1..Len(got) : got[i] < id
          /\ pending < id
      <4>1. \A i \in 1..Len(wire) : wire[i] < Len(printed) + 1
        BY <1>0, <1>n DEF Named
      <4>2. \A i \in 1..Len(buffer) : buffer[i].id < Len(printed) + 1
        BY <1>0, <1>n DEF Named
      <4>3. \A i \in 1..Len(got) : got[i] < Len(printed) + 1
        BY <1>0, <1>n DEF Named
      <4>4. pending < Len(printed) + 1
        BY <1>0, <1>n DEF Named, CountsTyped
      <4>5. QED
        BY <2>4, <4>1, <4>2, <4>3, <4>4
    <3>3. CASE subscribed # version
      <4>1. id \in excused' /\ wire' = wire
        BY <2>1, <2>2, <2>4, <3>1, <3>3
      <4>2. ~Held(id)'
        <5>1. /\ \A i \in 1..Len(wire) : wire[i] # id
              /\ \A i \in 1..Len(buffer) : buffer[i].id # id
              /\ \A i \in 1..Len(got) : got[i] # id
              /\ pending # id
          BY <1>0, <1>n, <3>2 DEF CountsTyped
        <5>2. QED
          BY <2>1, <4>1, <5>1 DEF Held
      <4>3. QED
        BY <4>1, <4>2 DEF AccountedFor
    <3>4. CASE subscribed = version
      <4>1. id \notin excused'
        BY <1>0, <1>n, <2>1, <2>4, <3>4 DEF Named, StreamIInv, StreamTyped, QueuesTyped
      <4>2. \A i \in 1..Len(got') : got'[i] < id
        BY <2>1, <3>2
      <4>3. Held(id)' \/ (Behind(id)' /\ link # "up")
        <5>1. CASE link = "up"
          <6>1. Len(wire) + 1 \in 1..Len(wire') /\ wire'[Len(wire) + 1] = id
            BY <1>n, <2>2, <2>4, <3>1, <3>4, <5>1
          <6>2. QED
            BY <6>1 DEF Held
        <5>2. CASE link # "up"
          <6>1. wire' = wire
            BY <2>2, <5>2
          <6>2. QED
            BY <2>1, <3>2, <5>2, <6>1 DEF Behind
        <5>3. QED
          BY <5>1, <5>2
      <4>4. QED
        BY <2>1, <3>4, <4>1, <4>2, <4>3 DEF AccountedFor
    <3>5. QED
      BY <3>3, <3>4
  <2>5. QED
    BY <1>n, <2>2, <2>3, <2>4
<1>2. ASSUME NEW how \in {"broken", "stalled"}, Fail(how) PROVE Accounted'
  <2>1. /\ UNCHANGED <<printed, buffer, nextSeq, pending, pc, got, excused, cursor, reading, start,
                       version, gapCount, gapSeen, subscribed>>
        /\ link' # "up" /\ link = "up"
    BY <1>2 DEF Fail, run, fields, reader
  <2>2. /\ Len(wire') \in Nat /\ Len(wire') <= Len(wire)
        /\ \A i \in 1..Len(wire') : i \in 1..Len(wire) /\ wire'[i] = wire[i]
    BY <1>2, FailCuts
  <2> SUFFICES ASSUME reading, gapCount = gapSeen, NEW id \in 1..Len(printed), Own(id)
               PROVE  AccountedFor(id)'
    BY <2>1 DEF Accounted, Own
  <2>3. AccountedFor(id)
    BY <1>0 DEF Accounted
  <2>4. Held(id)' => Held(id)
    BY <2>1, <2>2 DEF Held
  <2>5. ASSUME Held(id), ~Held(id)' PROVE Behind(id)' /\ subscribed = version
    <3>1. PICK i \in 1..Len(wire) : wire[i] = id
      BY <2>1, <2>5 DEF Held
    <3>2. subscribed = version
      BY <1>w, <3>1
    <3>3. /\ \A j \in 1..Len(buffer) : buffer[j].id < id
          /\ pc = "appending" => pending < id
      BY <1>0, <3>1 DEF Queued
    <3>4. \A j \in 1..Len(wire') : wire'[j] < id
      <4> SUFFICES ASSUME NEW j \in 1..Len(wire') PROVE wire'[j] < id
        OBVIOUS
      <4>1. ~(i <= j)
        <5>1. i \notin 1..Len(wire')
          BY <2>2, <2>5, <3>1 DEF Held
        <5>2. QED
          BY <1>n, <2>2, <5>1
      <4>2. j < i /\ j \in 1..Len(wire)
        BY <1>n, <2>2, <4>1
      <4>3. QED
        BY <1>0, <2>2, <3>1, <4>2 DEF Queued
    <3>5. QED
      BY <2>1, <3>2, <3>3, <3>4 DEF Behind
  <2>6. QED
    BY <2>1, <2>3, <2>4, <2>5 DEF AccountedFor
<1>3. CASE ReadMessage
  <2>1. /\ UNCHANGED <<printed, buffer, got, excused, cursor, reading, start, version, gapCount,
                       gapSeen, link, subscribed>>
        /\ pc = "reading" /\ pc' = "appending"
    BY <1>3 DEF ReadMessage, reader
  <2>2. /\ pending' = wire[1] /\ 1 \in 1..Len(wire) /\ nextSeq' = nextSeq + 1
        /\ \A i \in 1..Len(wire') : i + 1 \in 1..Len(wire) /\ wire'[i] = wire[i + 1]
        /\ \A i \in 2..Len(wire) : i - 1 \in 1..Len(wire') /\ wire'[i - 1] = wire[i]
    BY <1>3, ReadTakes
  <2>3. nextSeq + 1 > cursor
    BY <1>0 DEF Named, CountsTyped
  <2> SUFFICES ASSUME reading, gapCount = gapSeen, NEW id \in 1..Len(printed), Own(id)
               PROVE  AccountedFor(id)'
    BY <2>1 DEF Accounted, Own
  <2>4. AccountedFor(id)
    BY <1>0 DEF Accounted
  <2>5. Held(id) <=> Held(id)'
    <3>1. (\E i \in 1..Len(wire) : wire[i] = id)
          <=> pending' = id \/ (\E i \in 1..Len(wire') : wire'[i] = id)
      <4>1. \A i \in 1..Len(wire) : i = 1 \/ i \in 2..Len(wire)
        BY <1>n
      <4>2. QED
        BY <2>2, <4>1
    <3>2. nextSeq' > cursor'
      BY <2>1, <2>2, <2>3
    <3>3. QED
      BY <2>1, <3>1, <3>2 DEF Held
  <2>6. Behind(id) => Behind(id)'
    BY <2>1, <2>2 DEF Behind
  <2>7. QED
    BY <2>1, <2>4, <2>5, <2>6 DEF AccountedFor
<1>4. CASE AppendTrade
  <2>1. /\ UNCHANGED <<printed, wire, nextSeq, got, cursor, reading, start, version, gapCount,
                       gapSeen, link, subscribed>>
        /\ pc = "appending" /\ pc' = "reading"
    BY <1>4 DEF AppendTrade, network, reader
  <2>2. /\ Len(Appended) = Len(buffer) + 1
        /\ \A i \in 1..Len(buffer) : Appended[i] = buffer[i]
        /\ Appended[Len(buffer) + 1].seq = nextSeq /\ Appended[Len(buffer) + 1].id = pending
        /\ \A i \in 1..Len(Appended) : Appended[i].seq \in Nat /\ Appended[i].id \in Nat
        /\ \A i, j \in 1..Len(Appended) : i < j => Appended[i].id < Appended[j].id
    BY <1>4, AppendedBuffer
  <2>3. PICK k \in 0..Len(Appended) :
           /\ \A i \in 1..Len(buffer') : k + i \in 1..Len(Appended) /\ buffer'[i] = Appended[k + i]
           /\ \A i \in 1..Len(Appended) :
                 i > k => i - k \in 1..Len(buffer') /\ buffer'[i - k] = Appended[i]
           /\ \A i \in 1..Len(Appended) : i <= k <=> Appended[i].seq <= old
    BY <1>4, PrunedBuffer
  <2> DEFINE Lost == {Appended[i].id :
                        i \in {j \in 1..Len(Appended) : Appended[j].seq <= old /\ Appended[j].seq > cursor}}
  <2>4. reading => excused' = excused \cup Lost
    BY <1>4 DEF AppendTrade, Appended
  <2>5. \A i \in 1..Len(Appended) : i \in 1..Len(buffer) \/ i = Len(buffer) + 1
    BY <1>n, <2>2
  <2>6. \A i, j \in 1..Len(Appended) : Appended[i].id = Appended[j].id => i = j
    <3>1. \A i, j \in 1..Len(Appended) : i < j \/ i = j \/ j < i
      BY <1>n, <2>2
    <3>2. QED
      BY <2>2, <3>1
  <2> SUFFICES ASSUME reading, gapCount = gapSeen, NEW id \in 1..Len(printed), Own(id)
               PROVE  AccountedFor(id)'
    BY <2>1 DEF Accounted, Own
  <2>7. AccountedFor(id)
    BY <1>0 DEF Accounted
  <2>8. ASSUME NEW i \in 1..Len(Appended), Appended[i].id = id, Appended[i].seq > cursor PROVE Held(id)
    <3>1. CASE i \in 1..Len(buffer)
      BY <2>2, <2>8, <3>1 DEF Held
    <3>2. CASE i = Len(buffer) + 1
      BY <2>1, <2>2, <2>8, <3>2 DEF Held
    <3>3. QED
      BY <2>5, <3>1, <3>2
  <2>9. Held(id)' => Held(id)
    <3>1. \A i \in 1..Len(buffer') : k + i \in 1..Len(Appended) /\ buffer'[i] = Appended[k + i]
      BY <2>3
    <3>2. QED
      BY <2>1, <2>8, <3>1 DEF Held
  <2>10. Behind(id) => Behind(id)'
    <3> SUFFICES ASSUME Behind(id) PROVE Behind(id)'
      OBVIOUS
    <3>1. \A i \in 1..Len(Appended) : Appended[i].seq > cursor => Appended[i].id < id
      BY <2>1, <2>2, <2>5 DEF Behind
    <3>2. QED
      BY <2>1, <2>3, <3>1 DEF Behind
  <2>11. ASSUME id \in excused' PROVE ~Held(id)'
    <3>1. CASE id \in excused
      BY <2>7, <2>9, <3>1 DEF AccountedFor
    <3>2. CASE id \in Lost
      <4>1. PICK i \in 1..Len(Appended) :
               Appended[i].id = id /\ Appended[i].seq <= old /\ Appended[i].seq > cursor
        BY <3>2
      <4>2. /\ \A j \in 1..Len(got) : got[j] < id
            /\ \A j \in 1..Len(wire) : id < wire[j]
        <5>1. CASE i \in 1..Len(buffer)
          BY <1>0, <2>2, <4>1, <5>1 DEF Queued
        <5>2. CASE i = Len(buffer) + 1
          BY <1>0, <2>1, <2>2, <4>1, <5>2 DEF Queued
        <5>3. QED
          BY <2>5, <5>1, <5>2
      <4>3. \A j \in 1..Len(buffer') : buffer'[j].id # id
        <5> SUFFICES ASSUME NEW j \in 1..Len(buffer'), buffer'[j].id = id PROVE FALSE
          OBVIOUS
        <5>1. k + j \in 1..Len(Appended) /\ Appended[k + j].id = id
          BY <2>3
        <5>2. k + j = i
          BY <2>6, <4>1, <5>1
        <5>3. k + j <= k
          BY <2>3, <4>1, <5>1, <5>2
        <5>4. QED
          BY <1>n, <2>2, <5>3
      <4>4. /\ \A j \in 1..Len(got) : got[j] # id
            /\ \A j \in 1..Len(wire) : wire[j] # id
        BY <1>n, <4>2
      <4>5. QED
        BY <2>1, <4>3, <4>4 DEF Held
    <3>3. QED
      BY <2>4, <2>11, <3>1, <3>2
  <2>12. ASSUME id \notin excused', Held(id) PROVE Held(id)'
    <3>1. CASE \E i \in 1..Len(Appended) : Appended[i].id = id /\ Appended[i].seq > cursor
      <4>1. PICK i \in 1..Len(Appended) : Appended[i].id = id /\ Appended[i].seq > cursor
        BY <3>1
      <4>2. ~(Appended[i].seq <= old)
        BY <2>4, <2>12, <4>1
      <4>3. i > k
        BY <1>n, <2>2, <2>3, <4>2
      <4>4. i - k \in 1..Len(buffer') /\ buffer'[i - k] = Appended[i]
        BY <2>3, <4>3
      <4>5. QED
        BY <2>1, <4>1, <4>4 DEF Held
    <3>2. CASE (\E i \in 1..Len(got) : got[i] = id) \/ (\E i \in 1..Len(wire) : wire[i] = id)
      BY <2>1, <3>2 DEF Held
    <3>3. CASE \E i \in 1..Len(buffer) : buffer[i].id = id /\ buffer[i].seq > cursor
      <4>1. \A i \in 1..Len(buffer) : i \in 1..Len(Appended)
        BY <1>n, <2>2
      <4>2. QED
        BY <2>2, <3>1, <3>3, <4>1
    <3>4. CASE pending = id /\ nextSeq > cursor
      <4>1. Len(buffer) + 1 \in 1..Len(Appended)
        BY <1>n, <2>2
      <4>2. QED
        BY <2>2, <3>1, <3>4, <4>1
    <3>5. QED
      BY <2>12, <3>2, <3>3, <3>4 DEF Held
  <2>13. id \notin excused' => id \notin excused
    BY <2>4
  <2>14. QED
    BY <2>1, <2>7, <2>10, <2>11, <2>12, <2>13 DEF AccountedFor
<1>5. CASE ReadTrades
  <2>1. /\ UNCHANGED <<printed, wire, buffer, nextSeq, pending, pc, reading, start, version, gapCount,
                       gapSeen, link, subscribed>>
        /\ cursor' = nextSeq
        /\ excused' = IF pc = "appending" THEN excused \cup {pending} ELSE excused
    BY <1>5 DEF ReadTrades, network, run, fields
  <2>2. PICK k \in 0..Len(buffer) :
           /\ \A i \in 1..Len(buffer) : i <= k <=> buffer[i].seq <= cursor
           /\ Len(got') = Len(got) + (Len(buffer) - k)
           /\ \A i \in 1..Len(got) : got'[i] = got[i]
           /\ \A i \in 1..(Len(buffer) - k) : got'[Len(got) + i] = buffer[k + i].id
    BY <1>5, ReadBuffer
  <2>n. /\ cursor \in Nat
        /\ \A i \in 1..Len(buffer) : buffer[i].seq \in Nat
    BY <1>0, <1>n DEF CountsTyped
  <2>3. \A i \in 1..Len(got') :
           \/ \E j \in 1..Len(got) : got'[i] = got[j]
           \/ \E j \in 1..Len(buffer) : got'[i] = buffer[j].id /\ buffer[j].seq > cursor
    <3> SUFFICES ASSUME NEW i \in 1..Len(got'), i \notin 1..Len(got)
                 PROVE  \E j \in 1..Len(buffer) : got'[i] = buffer[j].id /\ buffer[j].seq > cursor
      BY <2>2
    <3> DEFINE j == i - Len(got)
    <3>1. j \in 1..(Len(buffer) - k) /\ i = Len(got) + j /\ k + j \in 1..Len(buffer) /\ ~(k + j <= k)
      BY <1>n, <2>2
    <3>2. ~(buffer[k + j].seq <= cursor)
      BY <2>2, <3>1
    <3> HIDE DEF j
    <3>3. buffer[k + j].seq > cursor
      BY ONLY <2>n, <3>1, <3>2
    <3>4. QED
      BY <2>2, <3>1, <3>3
  <2>4. \A j \in 1..Len(buffer) : buffer[j].seq > cursor => \E i \in 1..Len(got') : got'[i] = buffer[j].id
    <3> SUFFICES ASSUME NEW j \in 1..Len(buffer), buffer[j].seq > cursor
                 PROVE  \E i \in 1..Len(got') : got'[i] = buffer[j].id
      OBVIOUS
    <3>1. ~(j <= k)
      BY <1>0, <1>n, <2>2 DEF CountsTyped
    <3>2. /\ j - k \in 1..(Len(buffer) - k) /\ k + (j - k) = j
          /\ Len(got) + (j - k) \in 1..Len(got')
      BY <1>n, <2>2, <3>1
    <3>3. QED
      BY <2>2, <3>2
  <2>5. \A j \in 1..Len(buffer) : ~(buffer[j].seq > cursor')
    BY <1>0, <1>n, <2>1 DEF Named, CountsTyped
  <2>6. ~(nextSeq > cursor')
    BY <1>0, <2>1 DEF CountsTyped
  <2> SUFFICES ASSUME reading, gapCount = gapSeen, NEW id \in 1..Len(printed), Own(id)
               PROVE  AccountedFor(id)'
    BY <2>1 DEF Accounted, Own
  <2>7. AccountedFor(id)
    BY <1>0 DEF Accounted
  <2>8. Held(id)' => Held(id)
    <3>1. CASE \E i \in 1..Len(got') : got'[i] = id
      <4>1. \/ \E j \in 1..Len(got) : got[j] = id
            \/ \E j \in 1..Len(buffer) : buffer[j].id = id /\ buffer[j].seq > cursor
        BY ONLY <2>3, <3>1
      <4>2. QED
        BY ONLY <4>1 DEF Held
    <3>2. CASE \E i \in 1..Len(wire) : wire[i] = id
      BY <3>2 DEF Held
    <3>3. QED
      BY <2>1, <2>5, <2>6, <3>1, <3>2 DEF Held
  <2>9. ASSUME Held(id), ~(pc = "appending" /\ pending = id) PROVE Held(id)'
    <3>1. CASE \E i \in 1..Len(got) : got[i] = id
      <4>1. \A i \in 1..Len(got) : i \in 1..Len(got')
        BY <1>n, <2>2
      <4>2. QED
        BY <2>2, <3>1, <4>1 DEF Held
    <3>2. CASE \E i \in 1..Len(buffer) : buffer[i].id = id /\ buffer[i].seq > cursor
      BY <2>4, <3>2 DEF Held
    <3>3. CASE \E i \in 1..Len(wire) : wire[i] = id
      BY <2>1, <3>3 DEF Held
    <3>4. QED
      BY <2>9, <3>1, <3>2, <3>3 DEF Held
  <2>10. Behind(id) => Behind(id)'
    BY <2>1, <2>5, <2>6 DEF Behind
  <2>11. ASSUME id \in excused' PROVE ~Held(id)'
    <3>1. CASE id \in excused
      BY <2>7, <2>8, <3>1 DEF AccountedFor
    <3>2. CASE pc = "appending" /\ id = pending
      <4>1. /\ \A i \in 1..Len(got) : got[i] < id
            /\ \A i \in 1..Len(buffer) : buffer[i].id < id
            /\ \A i \in 1..Len(wire) : id < wire[i]
        BY <1>0, <3>2 DEF Queued
      <4>2. /\ \A i \in 1..Len(got) : got[i] # id
            /\ \A i \in 1..Len(buffer) : buffer[i].id # id
            /\ \A i \in 1..Len(wire) : wire[i] # id
        BY <1>n, <4>1
      <4>3. \A i \in 1..Len(got') : got'[i] # id
        BY <2>3, <4>2
      <4>4. QED
        BY <2>1, <2>5, <2>6, <4>2, <4>3 DEF Held
    <3>3. QED
      BY <2>1, <2>11, <3>1, <3>2
  <2>12. ASSUME id \notin excused'
         PROVE  (\E i \in 1..Len(got') : got'[i] = id) \/ (\A i \in 1..Len(got') : got'[i] < id)
    <3>1. id \notin excused /\ ~(pc = "appending" /\ pending = id)
      BY <2>1, <2>12
    <3>2. Held(id) \/ Behind(id)
      BY <2>1, <2>7, <3>1 DEF AccountedFor
    <3>3. CASE \E i \in 1..Len(got) : got[i] = id
      <4>1. \A i \in 1..Len(got) : i \in 1..Len(got')
        BY <1>n, <2>2
      <4>2. QED
        BY <2>2, <3>3, <4>1
    <3>4. CASE \A i \in 1..Len(got) : got[i] < id
      <4>1. CASE \E i \in 1..Len(buffer) : buffer[i].id = id /\ buffer[i].seq > cursor
        BY <2>4, <4>1
      <4>2. CASE \E i \in 1..Len(wire) : wire[i] = id
        <5>1. \A i \in 1..Len(buffer) : buffer[i].id < id
          BY <1>0, <4>2 DEF Queued
        <5>2. QED
          BY <2>3, <3>4, <5>1
      <4>3. CASE Behind(id)
        BY <2>3, <3>4, <4>3 DEF Behind
      <4>4. CASE \E i \in 1..Len(got) : got[i] = id
        BY <1>n, <3>4, <4>4
      <4>5. QED
        BY <3>1, <3>2, <4>1, <4>2, <4>3, <4>4 DEF Held
    <3>5. QED
      BY <2>7, <3>1, <3>3, <3>4 DEF AccountedFor
  <2>13. id \notin excused' => id \notin excused /\ ~(pc = "appending" /\ pending = id)
    BY <2>1
  <2>14. QED
    BY <2>1, <2>7, <2>9, <2>10, <2>11, <2>12, <2>13 DEF AccountedFor
<1>6. CASE ReadFails
  <2>1. /\ UNCHANGED <<printed, buffer, nextSeq, pending, got, excused, cursor, reading, start, version,
                       gapCount, gapSeen, subscribed>>
        /\ pc = "reading" /\ pc' = "ended" /\ wire' = <<>> /\ link' = "none"
        /\ link = "closed" \/ wire = <<>>
    BY <1>6 DEF ReadFails, fields, reader
  <2> SUFFICES ASSUME reading, gapCount = gapSeen, NEW id \in 1..Len(printed), Own(id)
               PROVE  AccountedFor(id)'
    BY <2>1 DEF Accounted, Own
  <2>2. AccountedFor(id)
    BY <1>0 DEF Accounted
  <2>3. \A i \in 1..Len(wire) : wire[i] # id
    <3>1. CASE wire = <<>>
      BY <3>1
    <3>2. CASE link = "closed"
      BY <1>0, <1>w, <3>2 DEF Placed
    <3>3. QED
      BY <2>1, <3>1, <3>2
  <2>4. /\ \A i \in 1..Len(wire') : FALSE
    BY <2>1
  <2>5. Held(id)' <=> Held(id)
    BY <2>1, <2>3, <2>4 DEF Held
  <2>6. Behind(id) => Behind(id)'
    BY <2>1, <2>4 DEF Behind
  <2>7. QED
    BY <2>1, <2>2, <2>5, <2>6 DEF AccountedFor
<1>7. CASE Subscribe
  <2>1. /\ UNCHANGED <<printed, buffer, nextSeq, pending, got, excused, cursor, reading, start, version,
                       gapCount, gapSeen>>
        /\ pc = "dialing" /\ pc' = "subscribed" /\ wire' = <<>>
    BY <1>7 DEF Subscribe, reader
  <2>2. wire = <<>>
    BY <1>0, <2>1 DEF Placed
  <2> SUFFICES ASSUME reading, gapCount = gapSeen, NEW id \in 1..Len(printed), Own(id)
               PROVE  AccountedFor(id)'
    BY <2>1 DEF Accounted, Own
  <2>3. AccountedFor(id)
    BY <1>0 DEF Accounted
  <2>4. Held(id)' <=> Held(id)
    BY <2>1, <2>2 DEF Held
  <2>5. subscribed # version
    BY <1>0, <2>1 DEF Watched, CountsTyped
  <2>6. QED
    BY <2>1, <2>3, <2>4, <2>5 DEF AccountedFor
<1>8. CASE Cleanup
  <2>1. /\ UNCHANGED <<printed, wire, link, buffer, nextSeq, pending, got, excused, cursor, reading,
                       start, version, gapSeen, posting>>
        /\ pc = "ended" /\ pc' = "idle"
        /\ gapCount' = IF version = snapVersion THEN gapCount + 1 ELSE gapCount
        /\ subscribed' = IF posting THEN 0 ELSE subscribed
    BY <1>8 DEF Cleanup, network, reader
  <2>2. gapCount' = gapSeen' => gapCount' = gapCount /\ gapCount = gapSeen
    <3>1. gapCount + 1 # gapSeen
      BY <1>0 DEF Named, CountsTyped
    <3>2. QED
      BY <2>1, <3>1
  <2> SUFFICES ASSUME reading, gapCount = gapSeen, NEW id \in 1..Len(printed), Own(id)
               PROVE  AccountedFor(id)'
    BY <2>1, <2>2 DEF Accounted, Own
  <2>3. AccountedFor(id) /\ subscribed' = subscribed
    BY <1>0, <2>1 DEF Accounted, Placed
  <2>4. (Held(id)' <=> Held(id)) /\ (Behind(id) => Behind(id)')
    BY <2>1 DEF Held, Behind
  <2>5. QED
    BY <2>1, <2>3, <2>4 DEF AccountedFor
<1>9. CASE Quiet \/ TwoMinutes \/ Snapshot \/ DialFails \/ Register \/ Asking
  <2>1. /\ UNCHANGED <<printed, wire, link, buffer, nextSeq, pending, got, excused, cursor, reading,
                       start, version, gapCount, gapSeen, subscribed>>
        /\ pc = "appending" <=> pc' = "appending"
    BY <1>9 DEF Quiet, TwoMinutes, Snapshot, DialFails, Register, Asking, network, run, fields, reader
  <2> SUFFICES ASSUME reading, gapCount = gapSeen, NEW id \in 1..Len(printed), Own(id)
               PROVE  AccountedFor(id)'
    BY <2>1 DEF Accounted, Own
  <2>2. AccountedFor(id)
    BY <1>0 DEF Accounted
  <2>3. (Held(id)' <=> Held(id)) /\ (Behind(id) => Behind(id)')
    BY <2>1 DEF Held, Behind
  <2>4. QED
    BY <2>1, <2>2, <2>3 DEF AccountedFor
<1>10. CASE SetAssets \/ StopReading \/ TakeNumber
  <2>1. ~reading'
    BY <1>10 DEF SetAssets, StopReading, TakeNumber, NotReading
  <2>2. QED
    BY <2>1 DEF Accounted
<1>11. CASE StartReading
  <2>1. printed' = printed /\ start' = Len(printed)
    BY <1>11 DEF StartReading, network
  <2>2. \A id \in 1..Len(printed') : ~(Own(id)')
    BY <1>n, <2>1 DEF Own
  <2>3. QED
    BY <2>2 DEF Accounted
<1>12. QED
  BY <1>1, <1>2, <1>3, <1>4, <1>5, <1>6, <1>7, <1>8, <1>9, <1>10, <1>11, AskingChangesNothing DEF Next

LEMMA StreamNextSound == StreamIInv /\ [Next]_vars => StreamIInv'
BY StreamTypesKept, NamedKept, PlacedKept, QueuedKept, WatchedKept, AccountedKept, OrderKept
   DEF StreamIInv

\* The invariant above: typing, where everything is, the order of the queues, and
\* what became of every trade of a cycle's market.
THEOREM StreamStaysSound == Spec => []StreamIInv
<1>1. QED
  BY StreamInitSound, StreamNextSound, PTL DEF Spec

\* No trade is given to a cycle twice or out of order, for any number of trades,
\* markets, failures and pauses (TradesAfter, market_stream.go).
THEOREM TradesInOrder == Spec => []GivenOnceInOrder
<1>1. StreamIInv => GivenOnceInOrder
  BY DEF StreamIInv
<1>2. QED
  BY StreamStaysSound, <1>1, PTL

\* Until a gap is counted, a cycle is given every trade of its market up to some
\* moment, but those lost in one of the four known ways.
THEOREM HolesAreKnown == Spec => []OnlyKnownHoles
<1>1. StreamIInv => OnlyKnownHoles
  <2> SUFFICES ASSUME StreamIInv, reading, gapCount = gapSeen, NEW id \in 1..Len(printed)
               PROVE  /\ Hole(id) => id \in excused
                      /\ Own(id) /\ id \in excused => id \notin GivenIds
    BY DEF OnlyKnownHoles
  <2>1. Own(id) => AccountedFor(id)
    BY DEF StreamIInv, Accounted
  <2>2. \A i \in 1..Len(got) : got[i] \in Nat
    BY DEF StreamIInv, StreamTyped, QueuesTyped
  <2>3. Len(printed) \in Nat
    BY DEF StreamIInv, StreamTyped, QueuesTyped
  <2>4. (\E i \in 1..Len(got) : got[i] = id) <=> id \in GivenIds
    BY DEF GivenIds
  <2>5. Hole(id) => id \in excused
    <3> SUFFICES ASSUME Hole(id), id \notin excused PROVE FALSE
      OBVIOUS
    <3>1. \A i \in 1..Len(got) : got[i] < id
      BY <2>1, <2>4 DEF Hole, AccountedFor
    <3>2. PICK i \in 1..Len(got) : got[i] > id
      BY DEF Hole
    <3>3. QED
      BY <2>2, <2>3, <3>1, <3>2
  <2>6. Own(id) /\ id \in excused => id \notin GivenIds
    BY <2>1, <2>4 DEF AccountedFor, Held
  <2>7. QED
    BY <2>5, <2>6
<1>2. QED
  BY StreamStaysSound, <1>1, PTL

\* A loss that is on its way to be counted.
Losing == version = snapVersion /\ (link \in {"stalled", "broken"} \/ pc = "ended")

\* The bounds of the model reach the counters of the code: a number is given to a
\* trade that was printed, and every gap is a failure of its own.
Counted == /\ Len(printed) <= MaxTrades /\ failures <= MaxFailures /\ pauses <= MaxPauses
           /\ version <= MaxVersions
           /\ \A i \in 1..Len(printed) : printed[i] >= 1 /\ printed[i] <= version
           /\ nextSeq + Len(wire) <= Len(printed)
           /\ gapCount <= failures
           /\ Losing => gapCount < failures

Bounded == Counted /\ asked \in 0..2

LEMMA TypedByElement ==
  ASSUME NEW S, NEW T, NEW s \in Seq(S), \A i \in 1..Len(s) : s[i] \in T
  PROVE  s \in Seq(T)
  OBVIOUS

LEMMA CountedKept == StreamIInv /\ Counted /\ [Next]_vars => Counted'
<1> SUFFICES ASSUME StreamIInv, Counted, [Next]_vars PROVE Counted'
  OBVIOUS
<1>0. /\ Placed /\ CountsTyped
      /\ MaxTrades \in Nat /\ MaxVersions \in Nat
      /\ MaxFailures \in Nat /\ MaxPauses \in Nat
  BY StreamConstants DEF StreamIInv, StreamTyped
<1>n. /\ Len(printed) \in Nat /\ Len(wire) \in Nat
      /\ \A i \in 1..Len(printed) : printed[i] \in Nat
  BY DEF StreamIInv, StreamTyped, QueuesTyped
<1>1. ASSUME NEW m \in 1..version, Trade(m) PROVE Counted'
  <2>1. /\ UNCHANGED <<link, failures, pauses, version, snapVersion, pc, nextSeq, gapCount>>
        /\ Len(printed) + 1 <= MaxTrades
    BY <1>1 DEF Trade, run, fields
  <2>2. /\ Len(printed') = Len(printed) + 1
        /\ \A i \in 1..Len(printed) : printed'[i] = printed[i]
        /\ printed'[Len(printed) + 1] = m
        /\ wire' = wire \/ Len(wire') = Len(wire) + 1
    BY <1>1, TradeAdds
  <2>3. \A i \in 1..Len(printed') : printed'[i] >= 1 /\ printed'[i] <= version
    <3>1. \A i \in 1..Len(printed') : i \in 1..Len(printed) \/ i = Len(printed) + 1
      BY <1>n, <2>2
    <3>2. m >= 1 /\ m <= version
      BY <1>0 DEF CountsTyped
    <3>3. QED
      BY <2>2, <3>1, <3>2 DEF Counted
  <2>4. nextSeq + Len(wire') <= Len(printed) + 1
    BY <1>0, <1>n, <2>2 DEF Counted, CountsTyped
  <2>5. QED
    BY <2>1, <2>2, <2>3, <2>4 DEF Counted, Losing
<1>2. ASSUME NEW how \in {"broken", "stalled"}, Fail(how) PROVE Counted'
  <2>1. /\ UNCHANGED <<printed, pauses, version, snapVersion, pc, nextSeq, gapCount>>
        /\ failures < MaxFailures /\ failures' = failures + 1
    BY <1>2 DEF Fail, run, fields
  <2>2. Len(wire') \in Nat /\ Len(wire') <= Len(wire)
    BY <1>2, FailCuts
  <2>3. /\ failures + 1 <= MaxFailures /\ gapCount <= failures + 1 /\ gapCount < failures + 1
        /\ nextSeq + Len(wire') <= Len(printed)
    BY <1>0, <1>n, <2>1, <2>2 DEF Counted, CountsTyped
  <2>4. QED
    BY <2>1, <2>3 DEF Counted, Losing
<1>3. CASE ReadMessage
  <2>1. /\ UNCHANGED <<printed, link, failures, pauses, version, snapVersion, gapCount>>
        /\ pc' = "appending"
    BY <1>3 DEF ReadMessage
  <2>2. nextSeq' = nextSeq + 1 /\ Len(wire') = Len(wire) - 1
    BY <1>3, ReadTakes
  <2>3. (nextSeq + 1) + (Len(wire) - 1) <= Len(printed)
    BY <1>0, <1>n DEF Counted, CountsTyped
  <2>4. QED
    BY <2>1, <2>2, <2>3 DEF Counted, Losing
<1>4. CASE ReadFails \/ Subscribe
  <2>1. /\ UNCHANGED <<printed, failures, pauses, version, snapVersion, nextSeq, gapCount>>
        /\ wire' = <<>>
        /\ Losing' => Losing
    <3>1. CASE ReadFails
      BY <1>0, <3>1 DEF ReadFails, Losing, Placed, fields
    <3>2. CASE Subscribe
      BY <3>2 DEF Subscribe, Losing
    <3>3. QED
      BY <1>4, <3>1, <3>2
  <2>2. nextSeq + 0 <= Len(printed) /\ Len(<<>>) = 0
    BY <1>0, <1>n DEF Counted, CountsTyped
  <2>3. QED
    BY <2>1, <2>2 DEF Counted
<1>5. CASE Cleanup
  <2>1. /\ UNCHANGED <<printed, link, wire, failures, pauses, version, snapVersion, nextSeq>>
        /\ pc = "ended" /\ pc' = "idle"
        /\ gapCount' = IF version = snapVersion THEN gapCount + 1 ELSE gapCount
    BY <1>5 DEF Cleanup, network
  <2>2. ~Losing'
    BY <1>0, <2>1 DEF Losing, Placed
  <2>3. version = snapVersion => gapCount + 1 <= failures
    BY <1>0, <2>1 DEF Counted, Losing, CountsTyped
  <2>4. QED
    BY <2>1, <2>2, <2>3 DEF Counted
<1>6. CASE SetAssets
  <2>1. /\ UNCHANGED <<printed, wire, failures, pauses, snapVersion, nextSeq, gapCount>>
        /\ version < MaxVersions /\ version' = version + 1
    BY <1>6 DEF SetAssets, run
  <2>2. /\ version + 1 <= MaxVersions /\ version + 1 # snapVersion
        /\ \A i \in 1..Len(printed) : printed[i] <= version + 1
    BY <1>0, <1>n, <2>1 DEF Counted, CountsTyped, Placed
  <2>3. QED
    BY <2>1, <2>2 DEF Counted, Losing
<1>7. CASE TwoMinutes
  <2>1. /\ UNCHANGED <<printed, link, wire, failures, version, snapVersion, pc, nextSeq, gapCount>>
        /\ pauses < MaxPauses /\ pauses' = pauses + 1
    BY <1>7 DEF TwoMinutes, run
  <2>2. pauses + 1 <= MaxPauses
    BY <1>0, <2>1 DEF CountsTyped
  <2>3. QED
    BY <2>1, <2>2 DEF Counted, Losing
<1>8. CASE Snapshot
  <2>1. /\ UNCHANGED <<printed, link, wire, failures, pauses, version, nextSeq, gapCount>>
        /\ pc = "idle" /\ pc' = "dialing"
    BY <1>8 DEF Snapshot, network, fields
  <2>2. ~Losing'
    BY <1>0, <2>1 DEF Losing, Placed
  <2>3. QED
    BY <2>1, <2>2 DEF Counted
<1>9. CASE DialFails \/ Register \/ AppendTrade \/ Quiet
  <2>1. /\ UNCHANGED <<printed, link, wire, failures, pauses, version, snapVersion, nextSeq, gapCount>>
        /\ pc' # "ended" \/ pc' = pc
    BY <1>9 DEF DialFails, Register, AppendTrade, Quiet, network, run, fields
  <2>2. QED
    BY <2>1 DEF Counted, Losing
<1>10. CASE TakeNumber \/ StartReading \/ ReadTrades \/ StopReading \/ Asking
  <2>1. UNCHANGED <<printed, link, wire, failures, pauses, version, snapVersion, pc, nextSeq, gapCount>>
    BY <1>10 DEF TakeNumber, StartReading, ReadTrades, StopReading, Asking, network, run, fields
  <2>2. QED
    BY <2>1 DEF Counted, Losing
<1>11. QED
  BY <1>1, <1>2, <1>3, <1>4, <1>5, <1>6, <1>7, <1>8, <1>9, <1>10, AskingChangesNothing DEF Next

LEMMA AskedKept == asked \in 0..2 /\ [Next]_vars => asked' \in 0..2
<1> SUFFICES ASSUME asked \in 0..2, [Next]_vars PROVE asked' \in 0..2
  OBVIOUS
<1>1. CASE \/ \E m \in 1..version : Trade(m)
           \/ \E how \in {"broken", "stalled"} : Fail(how)
           \/ Quiet \/ TwoMinutes \/ Snapshot \/ DialFails \/ Subscribe \/ Register
  BY <1>1 DEF Trade, Fail, Quiet, TwoMinutes, Snapshot, DialFails, Subscribe, Register, reader
<1>2. CASE \/ ReadMessage \/ AppendTrade \/ ReadFails \/ Cleanup
           \/ SetAssets \/ TakeNumber \/ StartReading \/ StopReading
  BY <1>2 DEF ReadMessage, AppendTrade, ReadFails, Cleanup, SetAssets, TakeNumber, StartReading,
              StopReading, reader
<1>3. CASE CompareGaps \/ AskHealth \/ ReadTrades \/ UNCHANGED vars
  BY <1>3 DEF CompareGaps, AskHealth, ReadTrades, vars, reader
<1>4. QED
  BY <1>1, <1>2, <1>3 DEF Next

LEMMA BoundedKept == StreamIInv /\ Bounded /\ [Next]_vars => Bounded'
BY CountedKept, AskedKept DEF Bounded

LEMMA BoundedAtFirst == Init => Bounded
<1>1. Init => Len(printed) = 0 /\ Len(wire) = 0
  BY DEF Init
<1>2. QED
  BY <1>1, StreamConstants DEF Init, Bounded, Counted, Losing

LEMMA BoundsAreTypes == StreamIInv /\ Bounded => TypeOK
<1> SUFFICES ASSUME StreamIInv, Bounded PROVE TypeOK
  OBVIOUS
<1>0. /\ FlagsTyped /\ CountsTyped /\ QueuesTyped /\ Named /\ Placed
      /\ MaxTrades \in Nat /\ MaxVersions \in Nat /\ MaxFailures \in Nat /\ MaxPauses \in Nat
  BY StreamConstants DEF StreamIInv, StreamTyped
<1>n. Len(printed) \in Nat /\ Len(wire) \in Nat /\ Len(buffer) \in Nat /\ Len(got) \in Nat
  BY <1>0 DEF QueuesTyped
<1>1. printed \in Seq(1..MaxVersions)
  <2>1. \A i \in 1..Len(printed) : printed[i] \in 1..MaxVersions
    <3>1. \A i \in 1..Len(printed) : printed[i] \in Nat
      BY <1>0 DEF QueuesTyped
    <3>2. QED
      BY <1>0, <3>1 DEF Bounded, Counted, CountsTyped
  <2>2. QED
    BY <1>0, <2>1, TypedByElement DEF QueuesTyped
<1>2. wire \in Seq(1..MaxTrades)
  <2>1. \A i \in 1..Len(wire) : wire[i] \in 1..MaxTrades
    <3>1. \A i \in 1..Len(wire) : wire[i] \in Nat
      BY <1>0 DEF QueuesTyped
    <3>2. QED
      BY <1>0, <1>n, <3>1 DEF Bounded, Counted, Named
  <2>2. QED
    BY <1>0, <2>1, TypedByElement DEF QueuesTyped
<1>3. got \in Seq(1..Len(printed))
  <2>1. \A i \in 1..Len(got) : got[i] \in 1..Len(printed)
    <3>1. \A i \in 1..Len(got) : got[i] \in Nat
      BY <1>0 DEF QueuesTyped
    <3>2. QED
      BY <1>0, <1>n, <3>1 DEF Named
  <2>2. QED
    BY <1>0, <2>1, TypedByElement DEF QueuesTyped
<1>4. buffer \in Seq([seq : 1..nextSeq, id : 1..Len(printed)])
  <2>1. \A i \in 1..Len(buffer) : buffer[i] \in Entries
    BY <1>0 DEF QueuesTyped
  <2>2. \A i \in 1..Len(buffer) : buffer[i] \in [seq : 1..nextSeq, id : 1..Len(printed)]
    <3> SUFFICES ASSUME NEW i \in 1..Len(buffer)
                 PROVE  buffer[i] \in [seq : 1..nextSeq, id : 1..Len(printed)]
      OBVIOUS
    <3>1. buffer[i].seq \in Nat /\ buffer[i].id \in Nat
          /\ buffer[i] = [seq |-> buffer[i].seq, id |-> buffer[i].id]
      BY <2>1 DEF Entries
    <3>2. buffer[i].seq \in 1..nextSeq /\ buffer[i].id \in 1..Len(printed)
      BY <1>0, <1>n, <3>1 DEF Named, CountsTyped
    <3>3. QED
      BY <3>1, <3>2
  <2>3. QED
    BY <1>0, <2>2, TypedByElement DEF QueuesTyped
<1>5. excused \subseteq 1..Len(printed)
  <2> SUFFICES ASSUME NEW id \in excused PROVE id \in 1..Len(printed)
    OBVIOUS
  <2>1. id \in Nat
    BY <1>0 DEF QueuesTyped
  <2>2. QED
    BY <1>0, <1>n, <2>1 DEF Named
<1>6. /\ failures \in 0..MaxFailures /\ pauses \in 0..MaxPauses /\ version \in 0..MaxVersions
      /\ snapVersion \in 0..version /\ subscribed \in 0..version /\ silent \in 0..2
  BY <1>0 DEF CountsTyped, Bounded, Counted, Placed
<1>7. /\ pending \in 0..Len(printed) /\ start \in 0..Len(printed)
      /\ nextSeq \in 0..MaxTrades /\ old \in 0..nextSeq /\ cursor \in 0..nextSeq
  BY <1>0, <1>n DEF CountsTyped, Bounded, Counted, Named
<1>8. gapCount \in 0..MaxFailures /\ gapSeen \in 0..gapCount
  BY <1>0 DEF CountsTyped, Bounded, Counted, Named
<1>9. /\ link \in Links /\ pc \in Places /\ connected \in BOOLEAN
      /\ posting \in BOOLEAN /\ reading \in BOOLEAN
  BY <1>0 DEF FlagsTyped
<1>10. Len(printed) <= MaxTrades
  BY DEF Bounded, Counted
<1>11. QED
  BY <1>1, <1>2, <1>3, <1>4, <1>5, <1>6, <1>7, <1>8, <1>9, <1>10 DEF TypeOK, Bounded

\* TypeOK of the stream, with the bounds the constants give its counters.
THEOREM StreamTypesAreKept == Spec => []TypeOK
<1>1. QED
  BY StreamStaysSound, BoundedAtFirst, BoundsAreTypes, BoundedKept, PTL DEF Spec

\* A connection that failed by itself leaves that state by a gap that is counted or
\* by a new market: the safety part of LossIsCounted.
THEOREM NoLossUncounted ==
  Spec => [][Failed /\ ~Failed' => gapCount' > gapCount \/ version' # version]_vars
<1>1. StreamIInv /\ [Next]_vars =>
         [Failed /\ ~Failed' => gapCount' > gapCount \/ version' # version]_vars
  <2> SUFFICES ASSUME StreamIInv, Next, Failed, ~Failed'
               PROVE  gapCount' > gapCount \/ version' # version
    OBVIOUS
  <2>0. Placed /\ CountsTyped
    BY DEF StreamIInv, StreamTyped
  <2>1. CASE Cleanup
    <3>1. gapCount' = gapCount + 1
      BY <2>1 DEF Cleanup, Failed
    <3>2. gapCount + 1 > gapCount
      BY <2>0 DEF CountsTyped
    <3>3. QED
      BY <3>1, <3>2
  <2>2. CASE SetAssets
    <3>1. version' = version + 1 /\ version + 1 # version
      BY <2>0, <2>2 DEF SetAssets, CountsTyped
    <3>2. QED
      BY <3>1
  <2>3. CASE ReadMessage \/ AppendTrade \/ ReadFails \/ Quiet \/ TwoMinutes
    BY <2>3 DEF Failed, ReadMessage, AppendTrade, ReadFails, Quiet, TwoMinutes, network, run, fields
  <2>4. CASE Snapshot \/ DialFails \/ Subscribe \/ Register
    BY <2>4 DEF Failed, Snapshot, DialFails, Subscribe, Register
  <2>5. CASE (\E m \in 1..version : Trade(m)) \/ (\E how \in {"broken", "stalled"} : Fail(how))
    BY <2>5 DEF Failed, Trade, Fail, run, fields
  <2>6. CASE TakeNumber \/ StartReading \/ ReadTrades \/ StopReading \/ Asking
    BY <2>6 DEF Failed, TakeNumber, StartReading, ReadTrades, StopReading, Asking, network, run, fields
  <2>7. QED
    BY <2>1, <2>2, <2>3, <2>4, <2>5, <2>6, AskingChangesNothing DEF Next
<1>2. QED
  BY StreamStaysSound, <1>1, PTL DEF Spec
-----------------------------------------------------------------------------
(***************************************************************************)
(* The aggressive trade flow.                                              *)
(***************************************************************************)

\* The exchange numbers its trades in the order they happen.
Sorted == /\ \A i \in 1..Len(market) : At(i) <= clock
          /\ \A i, j \in 1..Len(market) : i <= j => At(i) <= At(j)

\* What the pages have brought so far: every trade of the window below the one the
\* next page starts at, and when the last page is read every trade that happened
\* before the window ends.
Fetched ==
    /\ pulling # "idle" => /\ windowEnd >= Retention
                           /\ \A i \in rows : InWindow(i)
    /\ page = 0 => fromId = 0 /\ rows = {}
    /\ pulling = "paging" /\ page > 0 =>
          /\ fromId \in 1 .. Len(market) + 1
          /\ \A i \in 1..Len(market) : InWindow(i) /\ i < fromId => i \in rows
    /\ pulling = "complete" =>
          \A i \in 1..Len(market) : InWindow(i) /\ At(i) < windowEnd => i \in rows

AggTyped == /\ AggTypeOK /\ clock >= Retention /\ Len(market) <= MaxAggTrades

AggIInv == AggTyped /\ Sorted /\ Fetched /\ FlowIsExact

LEMMA AggConstants == /\ Retention \in Nat /\ Retention >= 1
                      /\ PageSize \in Nat /\ PageSize >= 1
                      /\ MaxPages \in Nat /\ MaxPages >= 1
                      /\ MaxAggTrades \in Nat /\ MaxTicks \in Nat /\ MaxPageFaults \in Nat
  BY AggAssumption DEF AggAssumption

\* A set of numbers up to n has a largest one, and Max finds it.
LEMMA LargestNumber ==
  ASSUME NEW n \in Nat, NEW S \in SUBSET (1..n), S # {}
  PROVE  Max(S) \in S /\ \A j \in S : j <= Max(S)
<1> DEFINE T == {n - i : i \in S}
<1>1. \A i \in S : i \in Nat /\ n - i \in Nat
  <2> SUFFICES ASSUME NEW i \in S PROVE i \in Nat /\ n - i \in Nat
    OBVIOUS
  <2>1. i \in 1..n
    OBVIOUS
  <2>2. QED
    BY <2>1
<1>2. T \subseteq Nat /\ T # {}
  BY <1>1
<1>3. \E x \in T : \A y \in T : x <= y
  <2> HIDE DEF T
  <2>1. QED
    BY <1>2, SmallestNumber
<1>4. PICK i \in S : \A j \in S : n - i <= n - j
  BY <1>3
<1>5. \A j \in S : i >= j
  BY <1>1, <1>4
<1>6. Max(S) \in S /\ \A j \in S : Max(S) >= j
  BY <1>5 DEF Max
<1>7. QED
  BY <1>1, <1>6

LEMMA NumbersAreFinite ==
  ASSUME NEW n \in Nat, NEW S \in SUBSET (1..n)
  PROVE  IsFiniteSet(S) /\ Cardinality(S) \in Nat
<1>1. IsFiniteSet(1..n)
  BY FS_Interval
<1>2. IsFiniteSet(S)
  BY <1>1, FS_Subset
<1>3. QED
  BY <1>2, FS_CardinalityType

\* A page holds the first of the wanted trades and no gap; a page that is not full
\* holds them all.
LEMMA PagesHaveNoGap ==
  ASSUME NEW n \in Nat, NEW W \in SUBSET (1..n)
  PROVE  /\ FirstPage(W) \subseteq W
         /\ \A i \in FirstPage(W), j \in W : j < i => j \in FirstPage(W)
         /\ Cardinality(FirstPage(W)) < PageSize => FirstPage(W) = W
         /\ ~ (Cardinality(FirstPage(W)) < PageSize) => FirstPage(W) # {}
<1> DEFINE Below(i) == {j \in W : j < i}
           F == FirstPage(W)
<1>1. F \subseteq W /\ \A i \in W : i \in F <=> Cardinality(Below(i)) < PageSize
  BY DEF FirstPage
<1>2. /\ \A i \in W : i \in Nat /\ Below(i) \subseteq 1..n
                      /\ IsFiniteSet(Below(i)) /\ Cardinality(Below(i)) \in Nat
      /\ IsFiniteSet(F) /\ Cardinality(F) \in Nat
  <2>1. ASSUME NEW i \in W
        PROVE  i \in Nat /\ Below(i) \in SUBSET (1..n)
    <3>1. i \in 1..n
      OBVIOUS
    <3>2. i \in Nat
      BY <3>1
    <3>3. \A j \in Below(i) : j \in 1..n
      OBVIOUS
    <3>4. QED
      BY <3>2, <3>3
  <2>2. ASSUME NEW i \in W
        PROVE  IsFiniteSet(Below(i)) /\ Cardinality(Below(i)) \in Nat
    <3> HIDE DEF Below
    <3>1. QED
      BY <2>1, <2>2, NumbersAreFinite
  <2>3. F \in SUBSET (1..n)
    BY <1>1
  <2>4. QED
    BY <2>1, <2>2, <2>3, NumbersAreFinite
<1>3. ASSUME NEW i \in F, NEW j \in W, j < i
      PROVE  j \in F
  <2>1. i \in W /\ i \in Nat /\ j \in Nat /\ \A k \in W : k \in Nat
    BY <1>1, <1>2
  <2>2. Below(j) \in SUBSET Below(i)
    <3>1. \A k \in Below(j) : k \in W /\ k < i
      BY <2>1, <1>3
    <3>2. QED
      BY <3>1
  <2>3. /\ IsFiniteSet(Below(i)) /\ Cardinality(Below(i)) \in Nat
        /\ Cardinality(Below(j)) \in Nat /\ Cardinality(Below(i)) < PageSize
    BY <1>1, <1>2, <2>1
  <2> HIDE DEF Below
  <2>4. Cardinality(Below(j)) <= Cardinality(Below(i))
    BY <2>2, <2>3, FS_Subset
  <2>5. QED
    BY <1>1, <2>3, <2>4, AggConstants
<1>4. ASSUME Cardinality(F) < PageSize
      PROVE  F = W
  <2> SUFFICES ASSUME F # W PROVE FALSE
    OBVIOUS
  <2>1. W \ F # {} /\ W \ F \subseteq Nat
    BY <1>1, <1>2
  <2>2. PICK x \in W \ F : \A y \in W \ F : x <= y
    BY <2>1, SmallestNumber
  <2>3. \A k \in W : k \in Nat
    BY <1>2
  <2>4. Below(x) \in SUBSET F
    <3>1. \A k \in Below(x) : k \in W /\ ~ (x <= k)
      BY <2>2, <2>3
    <3>2. \A k \in Below(x) : k \in F
      BY <2>2, <3>1
    <3>3. QED
      BY <3>2
  <2>5. Cardinality(Below(x)) \in Nat
    BY <1>2, <2>2
  <2> HIDE DEF Below
  <2>6. Cardinality(Below(x)) <= Cardinality(F)
    BY <1>2, <2>4, FS_Subset
  <2>7. Cardinality(Below(x)) < PageSize
    BY <1>2, <1>4, <2>5, <2>6, AggConstants
  <2>8. QED
    BY <1>1, <2>2, <2>7
<1>5. ASSUME ~ (Cardinality(F) < PageSize)
      PROVE  F # {}
  <2>1. Cardinality({}) < PageSize
    BY FS_EmptySet, AggConstants
  <2>2. QED
    BY <1>5, <2>1
<1>6. QED
  BY <1>1, <1>3, <1>4, <1>5

LEMMA MarketTyped ==
  AggTyped => /\ clock \in Nat /\ Len(market) \in Nat /\ Cutoff \in Nat
              /\ \A i \in 1..Len(market) : /\ i \in Nat /\ i \in AggIds
                                           /\ At(i) \in Nat /\ market[i].buy \in BOOLEAN
<1> SUFFICES ASSUME AggTyped
             PROVE  /\ clock \in Nat /\ Len(market) \in Nat /\ Cutoff \in Nat
                    /\ \A i \in 1..Len(market) : /\ i \in Nat /\ i \in AggIds
                                                 /\ At(i) \in Nat /\ market[i].buy \in BOOLEAN
  OBVIOUS
<1>1. /\ market \in Seq([at : Nat, buy : BOOLEAN]) /\ Len(market) \in Nat
      /\ Len(market) <= MaxAggTrades /\ clock \in Nat /\ clock >= Retention
  BY DEF AggTyped, AggTypeOK
<1>2. clock - Retention \in Nat
  BY <1>1, AggConstants
<1>3. ASSUME NEW i \in 1..Len(market)
      PROVE  i \in Nat /\ i \in AggIds /\ At(i) \in Nat /\ market[i].buy \in BOOLEAN
  <2>1. i \in Nat /\ i \in AggIds
    BY <1>1, AggConstants DEF AggIds
  <2>2. market[i] \in [at : Nat, buy : BOOLEAN]
    <3> DEFINE R == [at : Nat, buy : BOOLEAN]
    <3>1. market \in Seq(R)
      BY <1>1
    <3> HIDE DEF R
    <3>2. market[i] \in R
      BY <3>1
    <3>3. QED
      BY <3>2 DEF R
  <2>3. QED
    BY <2>1, <2>2 DEF At
<1>4. QED
  BY <1>1, <1>2, <1>3 DEF Cutoff

LEMMA AggInitSound == AggInit => AggIInv
<1> SUFFICES ASSUME AggInit PROVE AggIInv
  OBVIOUS
<1>1. market = <<>> /\ Len(market) = 0 /\ market \in Seq([at : Nat, buy : BOOLEAN])
  BY DEF AggInit
<1>2. AggTyped
  BY <1>1, AggConstants DEF AggInit, AggTyped, AggTypeOK
<1>3. Sorted
  BY <1>1 DEF Sorted
<1>4. Fetched
  BY DEF AggInit, Fetched
<1>5. FlowIsExact
  <2>1. \A id \in AggIds : trades[id][TRUE] = 0 /\ trades[id][FALSE] = 0
    BY DEF AggInit
  <2>2. \A id \in AggIds : id \in Nat /\ id >= 1 /\ ~ (id <= 0)
    BY AggConstants DEF AggIds
  <2>3. QED
    BY <1>1, <2>1, <2>2 DEF AggInit, FlowIsExact
<1>6. QED
  BY <1>2, <1>3, <1>4, <1>5 DEF AggIInv

\* A new trade is not older than any that is there or than the window being read.
LEMMA TradeHappensSound == AggIInv /\ TradeHappens => AggIInv'
<1> SUFFICES ASSUME AggIInv, TradeHappens PROVE AggIInv'
  OBVIOUS
<1> DEFINE n == Len(market)
<1>1. /\ AggTyped /\ Sorted /\ Fetched /\ FlowIsExact /\ AggTypeOK
      /\ n \in Nat /\ n < MaxAggTrades /\ clock \in Nat
  BY MarketTyped DEF AggIInv, AggTyped, TradeHappens
<1>2. PICK buy \in BOOLEAN : market' = Append(market, [at |-> clock, buy |-> buy])
  BY DEF TradeHappens
<1>3. UNCHANGED <<clock, sent, pulling, windowEnd, page, fromId, rows, trades, seenIds,
                  reconciled, pageFaults>>
  BY DEF TradeHappens, aggPull, aggFields
<1>4. /\ market' \in Seq([at : Nat, buy : BOOLEAN]) /\ Len(market') = n + 1
      /\ \A i \in 1..n : market'[i] = market[i]
      /\ market'[n + 1] = [at |-> clock, buy |-> buy]
  BY <1>1, <1>2 DEF AggTypeOK
<1>5. /\ \A i \in 1..n : At(i)' = At(i)
      /\ \A i : i = n + 1 => At(i)' = clock
      /\ \A i \in 1 .. n + 1 : i \in 1..n \/ i = n + 1
      /\ 1..n \subseteq 1 .. n + 1
  <2>1. \A i \in 1..n : At(i)' = At(i)
    BY <1>4 DEF At
  <2>2. \A i : i = n + 1 => At(i)' = clock
    BY <1>4 DEF At
  <2>3. QED
    BY <1>1, <2>1, <2>2
<1>6. AggTyped'
  <2>1. /\ sent' \in 0 .. n + 1 /\ fromId' \in 0 .. (n + 1) + 1
        /\ rows' \subseteq 1 .. n + 1 /\ seenIds' \subseteq 1 .. n + 1
        /\ n + 1 <= MaxAggTrades
    BY <1>1, <1>3, <1>5, AggConstants DEF AggTypeOK
  <2>2. QED
    BY <1>1, <1>3, <1>4, <2>1 DEF AggTyped, AggTypeOK
<1>7. Sorted'
  <2>1. \A i \in 1..n : At(i) <= clock /\ At(i) \in Nat /\ i \in Nat /\ i <= n
    BY <1>1, MarketTyped DEF Sorted
  <2>2. \A i \in 1 .. n + 1 : At(i)' <= clock'
    BY <1>1, <1>3, <1>5, <2>1
  <2>3. \A i, j \in 1 .. n + 1 : i <= j => At(i)' <= At(j)'
    <3>1. \A i, j \in 1..n : i <= j => At(i) <= At(j)
      BY <1>1 DEF Sorted
    <3>2. \A i \in 1..n : ~ (n + 1 <= i)
      BY <1>1, <2>1
    <3>3. clock <= clock
      BY <1>1
    <3> HIDE DEF n
    <3>4. QED
      BY <1>5, <2>1, <3>1, <3>2, <3>3
  <2>4. QED
    BY <1>4, <2>2, <2>3 DEF Sorted
<1>8. Fetched'
  <2>1. windowEnd \in Nat /\ windowEnd <= clock /\ rows \subseteq 1..n
        /\ fromId \in 0 .. n + 1
    BY <1>1 DEF AggTypeOK
  <2>2. \A i \in 1..n : InWindow(i)' <=> InWindow(i)
    BY <1>3, <1>5 DEF InWindow
  <2>3. ~ (clock < windowEnd) /\ ~ (n + 1 < fromId)
    BY <1>1, <2>1
  <2>4. pulling # "idle" => windowEnd >= Retention /\ \A i \in rows' : InWindow(i)'
    BY <1>1, <1>3, <2>1, <2>2 DEF Fetched
  <2>5. page = 0 => fromId = 0 /\ rows = {}
    BY <1>1 DEF Fetched
  <2>6. ASSUME pulling = "paging", page > 0
        PROVE  /\ fromId \in 1 .. (n + 1) + 1
               /\ \A i \in 1 .. n + 1 : InWindow(i)' /\ i < fromId => i \in rows
    <3>1. fromId \in 1 .. n + 1 /\ \A i \in 1..n : InWindow(i) /\ i < fromId => i \in rows
      BY <1>1, <2>6 DEF Fetched
    <3>2. fromId \in 1 .. (n + 1) + 1
      BY <1>1, <3>1
    <3>3. QED
      BY <1>5, <2>2, <2>3, <3>1, <3>2
  <2>7. ASSUME pulling = "complete"
        PROVE  \A i \in 1 .. n + 1 : InWindow(i)' /\ At(i)' < windowEnd => i \in rows
    <3>1. \A i \in 1..n : InWindow(i) /\ At(i) < windowEnd => i \in rows
      BY <1>1, <2>7 DEF Fetched
    <3>2. QED
      BY <1>5, <2>2, <2>3, <3>1
  <2>8. QED
    BY <1>3, <1>4, <2>4, <2>5, <2>6, <2>7 DEF Fetched
<1>9. FlowIsExact'
  <2>1. Cutoff' = Cutoff
    BY <1>3 DEF Cutoff
  <2>2. ~ (clock < reconciled)
    BY <1>1 DEF AggTypeOK
  <2>3. ASSUME NEW id \in AggIds
        PROVE  /\ trades'[id][TRUE] + trades'[id][FALSE] = IF id \in seenIds' THEN 1 ELSE 0
               /\ id <= Len(market') /\ At(id)' >= Cutoff' /\ At(id)' < reconciled'
                     => trades'[id][market'[id].buy] = 1
    <3>1. /\ trades[id][TRUE] + trades[id][FALSE] = IF id \in seenIds THEN 1 ELSE 0
          /\ id <= n /\ At(id) >= Cutoff /\ At(id) < reconciled
                => trades[id][market[id].buy] = 1
      BY <1>1 DEF FlowIsExact
    <3>2. trades'[id][TRUE] + trades'[id][FALSE] = IF id \in seenIds' THEN 1 ELSE 0
      BY <1>3, <3>1
    <3>3. ASSUME id <= Len(market'), At(id)' >= Cutoff', At(id)' < reconciled'
          PROVE  trades'[id][market'[id].buy] = 1
      <4>1. id \in Nat /\ id >= 1
        BY AggConstants DEF AggIds
      <4>2. id \in 1..n \/ id = n + 1
        BY <1>1, <1>4, <3>3, <4>1
      <4>3. id # n + 1
        BY <1>3, <1>5, <2>2, <3>3
      <4>4. id \in 1..n /\ id <= n
        BY <1>1, <4>2, <4>3
      <4>5. QED
        BY <1>3, <1>4, <1>5, <2>1, <3>1, <3>3, <4>4
    <3>4. QED
      BY <3>2, <3>3
  <2>4. QED
    BY <2>3 DEF FlowIsExact
<1>10. QED
  BY <1>6, <1>7, <1>8, <1>9 DEF AggIInv

\* As time passes, trades only become too old.
LEMMA ClockTicksSound == AggIInv /\ ClockTicks => AggIInv'
<1> SUFFICES ASSUME AggIInv, ClockTicks PROVE AggIInv'
  OBVIOUS
<1>1. /\ AggTyped /\ Sorted /\ Fetched /\ FlowIsExact /\ AggTypeOK /\ clock \in Nat
      /\ clock >= Retention
  BY MarketTyped DEF AggIInv, AggTyped
<1>2. /\ clock' = clock + 1
      /\ UNCHANGED <<market, sent, pulling, windowEnd, page, fromId, rows, trades, seenIds,
                     reconciled, pageFaults>>
  BY DEF ClockTicks, aggPull, aggFields
<1>3. \A x : At(x)' = At(x)
  BY <1>2 DEF At
<1>4. /\ clock + 1 \in Nat /\ clock + 1 >= Retention /\ 0..clock \subseteq 0 .. clock + 1
      /\ \A t \in Nat : t <= clock => t <= clock + 1
  BY <1>1, AggConstants
<1>5. AggTyped'
  BY <1>1, <1>2, <1>4 DEF AggTyped, AggTypeOK
<1>6. Sorted'
  BY <1>1, <1>2, <1>3, <1>4, MarketTyped DEF Sorted
<1>7. Fetched'
  BY <1>1, <1>2, <1>3 DEF Fetched, InWindow
<1>8. \A t \in Nat : t >= Cutoff' => t >= Cutoff
  <2>1. Cutoff' = (clock + 1) - Retention
    BY <1>2 DEF Cutoff
  <2>2. \A t \in Nat : t >= (clock + 1) - Retention => t >= clock - Retention
    BY <1>1, AggConstants
  <2>3. QED
    BY <2>1, <2>2 DEF Cutoff
<1>9. FlowIsExact'
  <2>1. ASSUME NEW id \in AggIds, id <= Len(market), At(id) >= Cutoff', At(id) < reconciled
        PROVE  trades[id][market[id].buy] = 1
    <3>1. id \in 1..Len(market)
      BY <1>1, <2>1, AggConstants, MarketTyped DEF AggIds
    <3>2. At(id) >= Cutoff
      BY <1>1, <1>8, <2>1, <3>1, MarketTyped
    <3>3. QED
      BY <1>1, <2>1, <3>2 DEF FlowIsExact
  <2>2. QED
    BY <1>1, <1>2, <1>3, <2>1 DEF FlowIsExact
<1>10. QED
  BY <1>5, <1>6, <1>7, <1>9 DEF AggIInv

\* One more row of a trade that no row held makes one; a row of another changes none.
LEMMA OneRowMore ==
  ASSUME NEW a \in Nat, NEW b \in Nat
  PROVE  /\ a + 0 = a /\ b + 0 = b /\ 0 + a = a /\ 0 + b = b
         /\ a + b = 0 => a = 0 /\ b = 0 /\ a + 1 = 1 /\ b + 1 = 1
         /\ 0 + 0 = 0 /\ 1 + 0 = 1 /\ 0 + 1 = 1
  OBVIOUS

\* A trade of the websocket is held once, and what is too old goes from the rows and
\* from the seen-set alike.
LEMMA WsTradeSound == AggIInv /\ WsTrade => AggIInv'
<1> SUFFICES ASSUME AggIInv, WsTrade PROVE AggIInv'
  OBVIOUS
<1>1. /\ AggTyped /\ Sorted /\ Fetched /\ FlowIsExact /\ AggTypeOK /\ clock \in Nat
      /\ Len(market) \in Nat /\ Cutoff \in Nat
  BY MarketTyped DEF AggIInv, AggTyped
<1>2. PICK id \in sent + 1 .. Len(market), buy \in BOOLEAN : Record(id, buy) /\ sent' = id
  BY DEF WsTrade
<1>3. /\ UNCHANGED <<clock, market, pulling, windowEnd, page, fromId, rows,
                     reconciled, pageFaults>>
      /\ Cutoff' = Cutoff /\ \A x : At(x)' = At(x)
  BY DEF WsTrade, aggPull, Cutoff, At
<1>4. id \in 1..Len(market)
  BY <1>1, <1>2 DEF AggTypeOK
<1>5. Sorted' /\ Fetched'
  BY <1>1, <1>3 DEF Sorted, Fetched, InWindow
<1>6. CASE At(id) < Cutoff \/ id \in seenIds
  <2>1. trades' = trades /\ seenIds' = seenIds
    BY <1>2, <1>6 DEF Record
  <2>2. AggTyped'
    BY <1>1, <1>2, <1>3, <1>4, <2>1 DEF AggTyped, AggTypeOK
  <2>3. FlowIsExact'
    BY <1>1, <1>3, <2>1 DEF FlowIsExact
  <2>4. QED
    BY <1>5, <2>2, <2>3 DEF AggIInv
<1>7. CASE ~ (At(id) < Cutoff \/ id \in seenIds)
  <2>1. /\ trades' = [i \in AggIds |-> [b \in BOOLEAN |->
                         IF i > Len(market) \/ At(i) < Cutoff THEN 0
                         ELSE trades[i][b] + (IF i = id /\ b = buy THEN 1 ELSE 0)]]
        /\ seenIds' = {i \in seenIds \cup {id} : At(i) >= Cutoff}
    BY <1>2, <1>7 DEF Record
  <2>2. \A i \in AggIds, b \in BOOLEAN : i \in Nat /\ trades[i][b] \in Nat
    BY <1>1, AggConstants DEF AggTypeOK, AggIds
  <2>3. trades' \in [AggIds -> [BOOLEAN -> Nat]]
    <3>1. \A i \in AggIds, b \in BOOLEAN :
             (IF i > Len(market) \/ At(i) < Cutoff THEN 0
              ELSE trades[i][b] + (IF i = id /\ b = buy THEN 1 ELSE 0)) \in Nat
      BY <2>2
    <3>2. QED
      BY <2>1, <3>1
  <2>4. AggTyped'
    <3>1. seenIds' \subseteq 1..Len(market)
      BY <1>1, <1>4, <2>1 DEF AggTypeOK
    <3>2. QED
      BY <1>1, <1>2, <1>3, <1>4, <2>3, <3>1 DEF AggTyped, AggTypeOK
  <2>5. \A i \in AggIds, b \in BOOLEAN :
           trades'[i][b] = IF i > Len(market) \/ At(i) < Cutoff THEN 0
                           ELSE trades[i][b] + (IF i = id /\ b = buy THEN 1 ELSE 0)
    BY <2>1
  <2>6. ASSUME NEW i \in AggIds
        PROVE  /\ trades'[i][TRUE] + trades'[i][FALSE] = IF i \in seenIds' THEN 1 ELSE 0
               /\ i <= Len(market) /\ At(i) >= Cutoff /\ At(i) < reconciled
                     => trades'[i][market[i].buy] = 1
    <3>1. /\ trades[i][TRUE] + trades[i][FALSE] = IF i \in seenIds THEN 1 ELSE 0
          /\ i <= Len(market) /\ At(i) >= Cutoff /\ At(i) < reconciled
                => trades[i][market[i].buy] = 1
          /\ i \in Nat /\ i >= 1
          /\ trades[i][TRUE] \in Nat /\ trades[i][FALSE] \in Nat
      <4>1. i \in Nat /\ i >= 1
        BY AggConstants DEF AggIds
      <4>2. trades[i][TRUE] \in Nat /\ trades[i][FALSE] \in Nat
        BY <2>2
      <4>3. QED
        BY <1>1, <4>1, <4>2 DEF FlowIsExact
    <3>2. i \in seenIds' <=> (i \in seenIds \/ i = id) /\ At(i) >= Cutoff
      BY <2>1
    <3>3. CASE i > Len(market) \/ At(i) < Cutoff
      <4>1. trades'[i][TRUE] = 0 /\ trades'[i][FALSE] = 0
        BY <2>5, <3>3
      <4>2. ~ (i \in seenIds')
        <5>1. i \in seenIds \cup {id} => i \in 1..Len(market)
          BY <1>1, <1>4 DEF AggTypeOK
        <5>2. i \in 1..Len(market) => ~ (i > Len(market)) /\ At(i) \in Nat
          BY <1>1, MarketTyped
        <5>3. At(i) < Cutoff /\ At(i) \in Nat => ~ (At(i) >= Cutoff)
          BY <1>1
        <5>4. QED
          BY <3>2, <3>3, <5>1, <5>2, <5>3
      <4>3. i <= Len(market) => At(i) \in Nat
        BY <1>1, <3>1, MarketTyped
      <4>4. ~ (i <= Len(market) /\ At(i) >= Cutoff)
        BY <1>1, <3>1, <3>3, <4>3
      <4>5. QED
        BY <4>1, <4>2, <4>4
    <3>4. CASE ~ (i > Len(market) \/ At(i) < Cutoff) /\ i # id
      <4>1. trades'[i][TRUE] = trades[i][TRUE] /\ trades'[i][FALSE] = trades[i][FALSE]
        <5>1. \A b \in BOOLEAN : trades'[i][b] = trades[i][b] + 0
          BY <2>5, <3>4
        <5>2. /\ trades'[i][TRUE] = trades[i][TRUE] + 0
              /\ trades'[i][FALSE] = trades[i][FALSE] + 0
          BY <5>1
        <5>3. QED
          BY <3>1, <5>2, OneRowMore
      <4>2. i \in 1..Len(market)
        BY <1>1, <3>1, <3>4
      <4>3. At(i) >= Cutoff /\ market[i].buy \in BOOLEAN
        BY <1>1, <3>4, <4>2, MarketTyped
      <4>4. i \in seenIds' <=> i \in seenIds
        BY <3>2, <3>4, <4>3
      <4>5. i <= Len(market) /\ At(i) >= Cutoff /\ At(i) < reconciled
               => trades'[i][market[i].buy] = 1
        BY <3>1, <4>1, <4>3
      <4>6. QED
        BY <3>1, <4>1, <4>4, <4>5
    <3>5. CASE ~ (i > Len(market) \/ At(i) < Cutoff) /\ i = id
      <4>1. At(i) >= Cutoff
        BY <1>1, <1>4, <3>5, MarketTyped
      <4>2. /\ i \in seenIds' /\ ~ (i \in seenIds)
            /\ trades[i][TRUE] + trades[i][FALSE] = 0
        BY <1>7, <3>1, <3>2, <3>5, <4>1
      <4>3. trades[i][TRUE] = 0 /\ trades[i][FALSE] = 0
        BY <3>1, <4>2, OneRowMore
      <4>4. trades'[i][TRUE] + trades'[i][FALSE] = 1
        <5>1. /\ trades'[i][TRUE] = trades[i][TRUE] + (IF TRUE = buy THEN 1 ELSE 0)
              /\ trades'[i][FALSE] = trades[i][FALSE] + (IF FALSE = buy THEN 1 ELSE 0)
          BY <2>5, <3>5
        <5>2. CASE buy = TRUE
          <6>1. /\ trades'[i][TRUE] = trades[i][TRUE] + 1
                /\ trades'[i][FALSE] = trades[i][FALSE] + 0
            BY <5>1, <5>2
          <6>2. trades'[i][TRUE] = 1 /\ trades'[i][FALSE] = 0
            BY <4>3, <6>1, OneRowMore
          <6>3. QED
            BY <6>2, OneRowMore
        <5>3. CASE buy = FALSE
          <6>1. /\ trades'[i][TRUE] = trades[i][TRUE] + 0
                /\ trades'[i][FALSE] = trades[i][FALSE] + 1
            BY <5>1, <5>3
          <6>2. trades'[i][TRUE] = 0 /\ trades'[i][FALSE] = 1
            BY <4>3, <6>1, OneRowMore
          <6>3. QED
            BY <6>2, OneRowMore
        <5>4. QED
          BY <5>2, <5>3
      <4>5. market[i].buy \in BOOLEAN
        BY <1>1, <1>4, <3>5, MarketTyped
      <4>6. ~ (i <= Len(market) /\ At(i) >= Cutoff /\ At(i) < reconciled)
        <5>1. trades[i][market[i].buy] = 0
          BY <4>3, <4>5
        <5>2. QED
          BY <3>1, <5>1
      <4>7. QED
        BY <4>2, <4>4, <4>6
    <3>6. QED
      BY <3>3, <3>4, <3>5
  <2>7. FlowIsExact'
    BY <1>3, <2>6 DEF FlowIsExact
  <2>8. QED
    BY <1>5, <2>4, <2>7 DEF AggIInv
<1>8. QED
  BY <1>6, <1>7

\* The pages and their order: what is read of a window has no gap.
LEMMA FetchPageSound == AggIInv /\ FetchPage => AggTyped' /\ Fetched'
<1> SUFFICES ASSUME AggIInv, FetchPage PROVE AggTyped' /\ Fetched'
  OBVIOUS
<1> DEFINE n == Len(market)
           W == IF page = 0 THEN {i \in 1..Len(market) : InWindow(i)}
                            ELSE fromId..Len(market)
           A == PageAnswer
           R == rows \cup {i \in A : InWindow(i)}
<1>1. /\ AggTyped /\ Sorted /\ Fetched /\ AggTypeOK /\ clock \in Nat /\ n \in Nat
      /\ \A i \in 1..n : i \in Nat /\ At(i) \in Nat
      /\ windowEnd \in Nat /\ page \in Nat /\ page <= MaxPages
      /\ pulling = "paging" /\ page < MaxPages
  <2>1. AggTyped /\ Sorted /\ Fetched /\ AggTypeOK
    BY DEF AggIInv, AggTyped
  <2>2. /\ clock \in Nat /\ n \in Nat
        /\ \A i \in 1..n : i \in Nat /\ At(i) \in Nat
    BY <2>1, MarketTyped
  <2>3. windowEnd \in Nat /\ page \in Nat /\ page <= MaxPages
    BY <2>1, <2>2, AggConstants DEF AggTypeOK
  <2>4. pulling = "paging" /\ page < MaxPages
    BY DEF FetchPage
  <2>5. QED
    BY <2>1, <2>2, <2>3, <2>4
<1>2. /\ page' = page + 1 /\ rows' = R
      /\ pulling' = IF LastPage(A) THEN "complete" ELSE "paging"
      /\ fromId' = IF LastPage(A) THEN 0 ELSE Max(A) + 1
      /\ UNCHANGED <<clock, market, sent, windowEnd, trades, seenIds, reconciled, pageFaults>>
      /\ \A i : InWindow(i)' = InWindow(i) /\ At(i)' = At(i)
  BY DEF FetchPage, aggFields, InWindow, At
<1>3. /\ page # 0 => fromId \in 1 .. n + 1
      /\ \A i \in 1..n : InWindow(i) /\ page # 0 /\ i < fromId => i \in rows
      /\ page = 0 => rows = {}
      /\ \A i \in rows : InWindow(i)
      /\ windowEnd >= Retention
  BY <1>1 DEF Fetched
<1>4. W \in SUBSET (1..n)
  <2>1. CASE page = 0
    BY <2>1
  <2>2. CASE page # 0
    <3>1. fromId \in Nat /\ fromId >= 1
      BY <1>1, <1>3, <2>2
    <3>2. fromId..n \subseteq 1..n
      BY <1>1, <3>1
    <3>3. QED
      BY <2>2, <3>2
  <2>3. QED
    BY <2>1, <2>2
<1>5. \A i \in 1..n : InWindow(i) => i \in rows \/ i \in W
  <2>1. CASE page = 0
    BY <2>1
  <2>2. CASE page # 0
    BY <1>1, <1>3, <2>2
  <2>3. QED
    BY <2>1, <2>2
<1>6. A = FirstPage(W)
  BY DEF PageAnswer
<1> HIDE DEF W, A
<1>7. /\ A \subseteq W
      /\ \A i \in A, j \in W : j < i => j \in A
      /\ Cardinality(A) < PageSize => A = W
      /\ ~ (Cardinality(A) < PageSize) => A # {}
  <2>1. n \in Nat
    BY <1>1
  <2> HIDE DEF n
  <2>2. QED
    BY <1>4, <1>6, <2>1, PagesHaveNoGap
<1>8. A \subseteq 1..n
  BY <1>4, <1>7
<1>9. R \subseteq 1..n /\ \A i \in R : InWindow(i)
  BY <1>1, <1>3, <1>8 DEF AggTypeOK
<1>10. page + 1 \in 0..MaxPages /\ page + 1 # 0
  BY <1>1, AggConstants
<1>11. CASE LastPage(A)
  <2>1. ASSUME NEW i \in 1..n, InWindow(i), At(i) < windowEnd
        PROVE  i \in R
    <3>1. i \in rows \/ i \in W
      BY <1>5, <2>1
    <3>2. CASE i \in rows
      BY <3>2
    <3>3. CASE i \in W /\ Cardinality(A) < PageSize
      BY <1>7, <2>1, <3>3
    <3>4. CASE i \in W /\ \E j \in A : At(j) >= windowEnd
      <4>1. PICK j \in A : At(j) >= windowEnd
        BY <3>4
      <4>2. j \in 1..n /\ j \in Nat /\ i \in Nat /\ At(j) \in Nat /\ At(i) \in Nat
        BY <1>1, <1>8
      <4>3. ~ (At(j) <= At(i))
        BY <1>1, <2>1, <4>1, <4>2
      <4>4. ~ (j <= i)
        BY <1>1, <4>2, <4>3 DEF Sorted
      <4>5. i < j
        BY <4>2, <4>4
      <4>6. i \in A
        BY <1>7, <3>4, <4>5
      <4>7. QED
        BY <2>1, <4>6
    <3>5. QED
      BY <1>11, <3>1, <3>2, <3>3, <3>4 DEF LastPage
  <2>2. AggTyped'
    <3>1. pulling' = "complete" /\ fromId' = 0 /\ 0 \in 0 .. n + 1
      BY <1>1, <1>2, <1>11
    <3>2. QED
      BY <1>1, <1>2, <1>9, <1>10, <3>1 DEF AggTyped, AggTypeOK
  <2>3. Fetched'
    BY <1>2, <1>3, <1>9, <1>10, <1>11, <2>1 DEF Fetched
  <2>4. QED
    BY <2>2, <2>3
<1>12. CASE ~ LastPage(A)
  <2>1. A # {}
    BY <1>7, <1>12 DEF LastPage
  <2>2. Max(A) \in A /\ \A j \in A : j <= Max(A)
    BY <1>1, <1>8, <2>1, LargestNumber
  <2>3. Max(A) \in 1..n /\ Max(A) \in Nat
    BY <1>1, <1>8, <2>2
  <2>4. Max(A) + 1 \in 1 .. n + 1 /\ Max(A) + 1 \in 0 .. n + 1
    BY <1>1, <2>3
  <2>5. ASSUME NEW i \in 1..n, InWindow(i), i < Max(A) + 1
        PROVE  i \in R
    <3>1. i \in rows \/ i \in W
      BY <1>5, <2>5
    <3>2. i \in Nat /\ (i = Max(A) \/ i < Max(A))
      BY <1>1, <2>3, <2>5
    <3>3. i \in rows \/ i \in A
      BY <1>7, <2>2, <3>1, <3>2
    <3>4. QED
      BY <2>5, <3>3
  <2>6. AggTyped'
    BY <1>1, <1>2, <1>9, <1>10, <1>12, <2>4 DEF AggTyped, AggTypeOK
  <2>7. Fetched'
    BY <1>2, <1>3, <1>9, <1>10, <1>12, <2>4, <2>5 DEF Fetched
  <2>8. QED
    BY <2>6, <2>7
<1>13. QED
  BY <1>11, <1>12

\* Reading pages leaves the trades of the exchange and the flow alone.
Pulls == WindowStarts \/ FetchPage \/ PageFails \/ TooManyPages

LEMMA PullsSound == AggIInv /\ Pulls => AggIInv'
<1> SUFFICES ASSUME AggIInv, Pulls PROVE AggIInv'
  OBVIOUS
<1>1. /\ AggTyped /\ Sorted /\ Fetched /\ FlowIsExact /\ AggTypeOK /\ clock \in Nat
      /\ clock >= Retention /\ Len(market) \in Nat
  BY MarketTyped DEF AggIInv, AggTyped
<1>2. /\ UNCHANGED <<clock, market, sent, trades, seenIds, reconciled>>
      /\ Cutoff' = Cutoff /\ \A x : At(x)' = At(x)
  BY DEF Pulls, WindowStarts, FetchPage, PageFails, TooManyPages, aggFields, Cutoff, At
<1>3. Sorted'
  BY <1>1, <1>2 DEF Sorted
<1>4. FlowIsExact'
  BY <1>1, <1>2 DEF FlowIsExact
<1>5. CASE WindowStarts
  <2>1. /\ pulling' = "paging" /\ windowEnd' = clock /\ page' = 0 /\ fromId' = 0
        /\ rows' = {} /\ pageFaults' = pageFaults
    BY <1>5 DEF WindowStarts
  <2>2. AggTyped'
    BY <1>1, <1>2, <2>1, AggConstants DEF AggTyped, AggTypeOK
  <2>3. Fetched'
    BY <1>1, <2>1 DEF Fetched
  <2>4. QED
    BY <1>3, <1>4, <2>2, <2>3 DEF AggIInv
<1>6. CASE FetchPage
  BY <1>3, <1>4, <1>6, FetchPageSound DEF AggIInv
<1>7. CASE PageFails \/ TooManyPages
  <2>1. /\ pulling = "paging" /\ page' = 0 /\ fromId' = 0 /\ rows' = {}
        /\ \/ pulling' = pulling /\ windowEnd' = windowEnd
           \/ pulling' = "idle" /\ windowEnd' = 0
    BY <1>7 DEF PageFails, TooManyPages, GiveUpHost
  <2>2. pageFaults' \in 0..MaxPageFaults
    BY <1>1, <1>7, AggConstants DEF PageFails, TooManyPages, AggTypeOK
  <2>3. AggTyped'
    BY <1>1, <1>2, <2>1, <2>2, AggConstants DEF AggTyped, AggTypeOK
  <2>4. Fetched'
    BY <1>1, <2>1 DEF Fetched
  <2>5. QED
    BY <1>3, <1>4, <2>3, <2>4 DEF AggIInv
<1>8. QED
  BY <1>5, <1>6, <1>7 DEF Pulls

\* What is stored is the window as the exchange has it, and what the websocket
\* brought after its end.
LEMMA ReconcileSound == AggIInv /\ Reconcile => AggIInv'
<1> SUFFICES ASSUME AggIInv, Reconcile PROVE AggIInv'
  OBVIOUS
<1>1. /\ AggTyped /\ Sorted /\ Fetched /\ FlowIsExact /\ AggTypeOK /\ clock \in Nat
      /\ Len(market) \in Nat
  BY MarketTyped DEF AggIInv, AggTyped
<1>2. /\ trades' = [i \in AggIds |-> [b \in BOOLEAN |-> FromREST(i, b) +
                       (IF i <= Len(market) /\ At(i) > windowEnd THEN trades[i][b] ELSE 0)]]
      /\ seenIds' = rows \cup {i \in seenIds : At(i) > windowEnd}
      /\ reconciled' = windowEnd /\ pulling = "complete"
      /\ pulling' = "idle" /\ windowEnd' = 0 /\ page' = 0 /\ fromId' = 0 /\ rows' = {}
      /\ UNCHANGED <<clock, market, sent, pageFaults>>
  BY DEF Reconcile
<1>3. Cutoff' = Cutoff /\ \A x : At(x)' = At(x)
  BY <1>2 DEF Cutoff, At
<1>4. /\ windowEnd \in Nat /\ windowEnd <= clock /\ windowEnd >= Retention
      /\ rows \subseteq 1..Len(market) /\ seenIds \subseteq 1..Len(market)
      /\ \A i \in rows : InWindow(i)
      /\ \A i \in 1..Len(market) : InWindow(i) /\ At(i) < windowEnd => i \in rows
  BY <1>1, <1>2 DEF Fetched, AggTypeOK
<1>5. \A i \in AggIds, b \in BOOLEAN :
         /\ i \in Nat /\ i >= 1 /\ trades[i][b] \in Nat
         /\ trades'[i][b] = FromREST(i, b) +
               (IF i <= Len(market) /\ At(i) > windowEnd THEN trades[i][b] ELSE 0)
  <2>1. \A i \in AggIds : i \in Nat /\ i >= 1
    BY AggConstants DEF AggIds
  <2>2. \A i \in AggIds, b \in BOOLEAN : trades[i][b] \in Nat
    BY <1>1 DEF AggTypeOK
  <2>3. \A i \in AggIds, b \in BOOLEAN :
           trades'[i][b] = FromREST(i, b) +
               (IF i <= Len(market) /\ At(i) > windowEnd THEN trades[i][b] ELSE 0)
    BY <1>2
  <2>4. QED
    BY <2>1, <2>2, <2>3
<1>6. AggTyped'
  <2>1. \A i \in AggIds, b \in BOOLEAN :
           FromREST(i, b) +
               (IF i <= Len(market) /\ At(i) > windowEnd THEN trades[i][b] ELSE 0) \in Nat
    BY <1>5 DEF FromREST
  <2>2. trades' \in [AggIds -> [BOOLEAN -> Nat]]
    BY <1>2, <2>1
  <2>3. seenIds' \subseteq 1..Len(market)
    BY <1>2, <1>4
  <2>4. /\ windowEnd' \in 0..clock /\ reconciled' \in 0..clock /\ page' \in 0..MaxPages
        /\ fromId' \in 0 .. Len(market) + 1 /\ rows' \subseteq 1..Len(market)
        /\ pulling' \in {"idle", "paging", "complete"}
    BY <1>1, <1>2, <1>4, AggConstants
  <2>5. QED
    BY <1>1, <1>2, <2>2, <2>3, <2>4 DEF AggTyped, AggTypeOK
<1>7. Sorted' /\ Fetched'
  BY <1>1, <1>2, <1>3 DEF Sorted, Fetched
<1>8. ASSUME NEW i \in AggIds
      PROVE  /\ trades'[i][TRUE] + trades'[i][FALSE] = IF i \in seenIds' THEN 1 ELSE 0
             /\ i <= Len(market) /\ At(i) >= Cutoff /\ At(i) < windowEnd
                   => trades'[i][market[i].buy] = 1
  <2>1. /\ trades[i][TRUE] + trades[i][FALSE] = IF i \in seenIds THEN 1 ELSE 0
        /\ i \in Nat /\ i >= 1 /\ trades[i][TRUE] \in Nat /\ trades[i][FALSE] \in Nat
    <3>1. i \in Nat /\ i >= 1 /\ trades[i][TRUE] \in Nat /\ trades[i][FALSE] \in Nat
      BY <1>5
    <3>2. QED
      BY <1>1, <3>1 DEF FlowIsExact
  <2>2. i \in seenIds' <=> i \in rows \/ (i \in seenIds /\ At(i) > windowEnd)
    BY <1>2
  <2>3. CASE i \in rows
    <3>1. i \in 1..Len(market) /\ At(i) \in Nat /\ market[i].buy \in BOOLEAN
      BY <1>1, <1>4, <2>3, MarketTyped
    <3>2. ~ (At(i) > windowEnd)
      BY <1>4, <2>3, <3>1 DEF InWindow
    <3>3. /\ trades'[i][market[i].buy] = 1 + 0
          /\ trades'[i][~ market[i].buy] = 0 + 0
      BY <1>5, <2>3, <3>1, <3>2 DEF FromREST
    <3>4. /\ trades'[i][market[i].buy] = 1
          /\ trades'[i][~ market[i].buy] = 0
      BY <3>3, OneRowMore
    <3>5. CASE market[i].buy = TRUE
      <4>1. trades'[i][TRUE] = 1 /\ trades'[i][FALSE] = 0
        BY <3>4, <3>5
      <4>2. QED
        BY <2>2, <2>3, <3>4, <4>1, OneRowMore
    <3>6. CASE market[i].buy = FALSE
      <4>1. trades'[i][TRUE] = 0 /\ trades'[i][FALSE] = 1
        BY <3>4, <3>6
      <4>2. QED
        BY <2>2, <2>3, <3>4, <4>1, OneRowMore
    <3>7. QED
      BY <3>1, <3>5, <3>6
  <2>4. CASE ~ (i \in rows) /\ i <= Len(market) /\ At(i) > windowEnd
    <3>1. /\ trades'[i][TRUE] = 0 + trades[i][TRUE]
          /\ trades'[i][FALSE] = 0 + trades[i][FALSE]
      BY <1>5, <2>4 DEF FromREST
    <3>2. 0 + trades[i][TRUE] = trades[i][TRUE] /\ 0 + trades[i][FALSE] = trades[i][FALSE]
      BY <2>1, OneRowMore
    <3>3. trades'[i][TRUE] = trades[i][TRUE] /\ trades'[i][FALSE] = trades[i][FALSE]
      BY <3>1, <3>2
    <3>4. ~ (At(i) < windowEnd)
      <4>1. i \in 1..Len(market)
        BY <1>1, <2>1, <2>4
      <4>2. At(i) \in Nat
        BY <1>1, <4>1, MarketTyped
      <4>3. QED
        BY <1>4, <2>4, <4>2
    <3>5. QED
      BY <2>1, <2>2, <2>4, <3>3, <3>4
  <2>5. CASE ~ (i \in rows) /\ ~ (i <= Len(market) /\ At(i) > windowEnd)
    <3>1. /\ trades'[i][TRUE] = 0 + 0
          /\ trades'[i][FALSE] = 0 + 0
      BY <1>5, <2>5 DEF FromREST
    <3>2. trades'[i][TRUE] = 0 /\ trades'[i][FALSE] = 0
      BY <3>1, OneRowMore
    <3>3. ~ (i \in seenIds')
      <4>1. i \in seenIds => i <= Len(market)
        BY <1>1, <1>4, <2>1
      <4>2. QED
        BY <2>2, <2>5, <4>1
    <3>4. ~ (i <= Len(market) /\ At(i) >= Cutoff /\ At(i) < windowEnd)
      <4>1. SUFFICES ASSUME i <= Len(market), At(i) >= Cutoff, At(i) < windowEnd PROVE FALSE
        OBVIOUS
      <4>2. i \in 1..Len(market)
        BY <1>1, <2>1, <4>1
      <4>3. At(i) \in Nat
        BY <1>1, <4>2, MarketTyped
      <4>4. At(i) >= windowEnd - Retention
        <5>1. At(i) >= clock - Retention
          BY <4>1 DEF Cutoff
        <5>2. QED
          BY <1>1, <1>4, <4>3, <5>1, AggConstants
      <4>5. At(i) <= windowEnd
        BY <1>4, <4>1, <4>3
      <4>6. InWindow(i)
        BY <4>4, <4>5 DEF InWindow
      <4>7. i \in rows
        BY <1>4, <4>1, <4>2, <4>6
      <4>8. QED
        BY <2>5, <4>7
    <3>5. QED
      BY <3>2, <3>3, <3>4, OneRowMore
  <2>6. QED
    BY <2>3, <2>4, <2>5
<1>9. FlowIsExact'
  BY <1>2, <1>3, <1>8 DEF FlowIsExact
<1>10. QED
  BY <1>6, <1>7, <1>9 DEF AggIInv

LEMMA AggNextSound == AggIInv /\ [AggNext]_aggVars => AggIInv'
<1> SUFFICES ASSUME AggIInv, [AggNext]_aggVars PROVE AggIInv'
  OBVIOUS
<1>1. CASE UNCHANGED aggVars
  BY <1>1 DEF aggVars, aggPull, aggFields, AggIInv, AggTyped, AggTypeOK, Sorted, Fetched,
              FlowIsExact, InWindow, At, Cutoff
<1>2. CASE AggNext
  BY <1>2, TradeHappensSound, ClockTicksSound, WsTradeSound, PullsSound, ReconcileSound
     DEF AggNext, Pulls
<1>3. QED
  BY <1>1, <1>2

\* The invariant of the aggressive trade flow, types included.
THEOREM FlowStaysSound == AggSpec => []AggIInv
<1>1. QED
  BY AggInitSound, AggNextSound, PTL DEF AggSpec

\* A trade that arrives late, twice, with a wrong side or while the pages of the window
\* are being read is in the flow once, and with the side of the exchange when it is
\* older than the last window stored, whatever the size and the cap of the pages.
THEOREM FlowStaysExact == AggSpec => []FlowIsExact
<1>1. AggIInv => FlowIsExact
  BY DEF AggIInv
<1>2. QED
  BY FlowStaysSound, <1>1, PTL

-----------------------------------------------------------------------------
(***************************************************************************)
(* The feeds together.                                                     *)
(***************************************************************************)
LEMMA PriceTypesKept == PriceTypeOK /\ [PriceNext]_priceFeedVars => PriceTypeOK'
<1> SUFFICES ASSUME PriceTypeOK, [PriceNext]_priceFeedVars PROVE PriceTypeOK'
  OBVIOUS
<1> USE PriceAssumption DEF PriceAssumption, PriceTypeOK, WsPlaces
<1>1. CASE UNCHANGED priceFeedVars
  BY <1>1 DEF priceFeedVars, wsRun
<1>2. CASE PriceAges \/ WsReads
  BY <1>2 DEF PriceAges, WsReads, wsRun
<1>3. CASE WsBreaks \/ WsDialFails \/ PollFails
  <2>1. MaxPriceFaults \in Nat /\ PriceFault
    BY <1>3 DEF WsBreaks, WsDialFails, PollFails
  <2>2. priceFaults' \in 0..MaxPriceFaults
    BY <2>1 DEF PriceFault
  <2>3. CASE WsBreaks
    BY <2>2, <2>3 DEF WsBreaks
  <2>4. CASE WsDialFails
    BY <2>2, <2>4 DEF WsDialFails, WsMoves
  <2>5. CASE PollFails
    BY <2>2, <2>5 DEF PollFails, wsRun
  <2>6. QED
    BY <1>3, <2>3, <2>4, <2>5
<1>4. CASE WsTop \/ WsDial \/ WsRegister \/ WsConnected
  BY <1>4 DEF WsTop, WsDial, WsRegister, WsConnected, WsMoves
<1>5. CASE WsReadFails \/ WsDisconnected \/ WsClear \/ WsWakes
  BY <1>5 DEF WsReadFails, WsDisconnected, WsClear, WsWakes, WsMoves
<1>6. CASE PollStep \/ PollStops
  BY <1>6 DEF PollStep, PollPrice, PollDepth, PriceAnswered, DepthAnswered, PollStops, wsRun
<1>7. CASE WsStopChan \/ WsCloseConn
  BY <1>7 DEF WsStopChan, WsCloseConn, wsRun
<1>8. QED
  BY <1>1, <1>2, <1>3, <1>4, <1>5, <1>6, <1>7 DEF PriceNext, WsRunStep

FeedsIInv == StreamIInv /\ Bounded /\ DeepIInv /\ AggIInv /\ FeedIInv /\ PriceTypeOK

\* A step of one feed is a step of that feed, and leaves the others as they are.
LEMMA OneFeedRuns ==
  [MCNext]_feedsVars => /\ [Next]_vars /\ [DeepNext]_bookVars /\ [AggNext]_aggVars
                        /\ [FeedNext]_feedVars /\ [PriceNext]_priceFeedVars
BY DEF MCNext, Runs, StreamRuns, BookRuns, FlowRuns, ChainlinkRuns, PriceRuns,
       feedsVars, streamVars

\* The invariant of all the feeds, whichever of them runs.
THEOREM FeedsStaySound == MCSpec => []FeedsIInv
<1>1. MCInit => FeedsIInv
  <2>1. PriceInit => PriceTypeOK
    <3>1. 0 \in 0..MaxPriceFaults /\ 0 \in 0..2
      BY PriceAssumption DEF PriceAssumption
    <3>2. QED
      BY <3>1 DEF PriceInit, PriceTypeOK, WsPlaces
  <2>2. QED
    BY <2>1, StreamInitSound, BoundedAtFirst, DeepInitSound, AggInitSound, FeedInitSound
       DEF MCInit, FeedsIInv
<1>2. FeedsIInv /\ [MCNext]_feedsVars => FeedsIInv'
  <2> SUFFICES ASSUME FeedsIInv, [MCNext]_feedsVars PROVE FeedsIInv'
    OBVIOUS
  <2>1. /\ [Next]_vars /\ [DeepNext]_bookVars /\ [AggNext]_aggVars
        /\ [FeedNext]_feedVars /\ [PriceNext]_priceFeedVars
    BY OneFeedRuns
  <2>2. StreamIInv' /\ Bounded'
    BY <2>1, StreamNextSound, BoundedKept DEF FeedsIInv
  <2>3. DeepIInv' /\ AggIInv'
    BY <2>1, DeepNextSound, AggNextSound DEF FeedsIInv
  <2>4. FeedIInv' /\ PriceTypeOK'
    BY <2>1, FeedNextSound, PriceTypesKept DEF FeedsIInv
  <2>5. QED
    BY <2>2, <2>3, <2>4 DEF FeedsIInv
<1>3. QED
  BY <1>1, <1>2, PTL DEF MCSpec

\* Every variable of every feed keeps the values the constants allow it.
THEOREM FeedsTypesAreKept == MCSpec => []FeedsTypeOK
<1>1. FeedsIInv => FeedsTypeOK
  BY BoundsAreTypes DEF FeedsIInv, FeedsTypeOK, DeepIInv, AggIInv, AggTyped, FeedIInv
<1>2. QED
  BY FeedsStaySound, <1>1, PTL
=============================================================================
