-------------------------- MODULE MarketTradeStream --------------------------
(***************************************************************************)
(* The public trade stream (internal/polymarket/market_stream.go): one     *)
(* goroutine (run) dials, subscribes, numbers and buffers the trades it    *)
(* reads; the paper executor, in another goroutine, changes the assets     *)
(* when the market changes and collects the trades after the sequence      *)
(* number it saw last (cmd/pm-edge/arb_shadow.go, processPaper).           *)
(*                                                                         *)
(* The steps are the code's critical sections and the points between them: *)
(* what run reads before dialing and uses afterwards (the assets and their *)
(* version), and the sequence number it takes before it locks the buffer.  *)
(* A list of assets is named by the version SetAssets gives it; markets    *)
(* only follow one another, so no list comes back.  Version 0 is the empty *)
(* list.  A trade is named by its place in `printed'.                      *)
(*                                                                         *)
(* A pass of the executor asks for the gap count, the health and the       *)
(* trades one after the other, each under the lock; to post a cycle it     *)
(* asks for the last number and then for the gap count.                    *)
(***************************************************************************)
EXTENDS Naturals, Sequences

CONSTANTS MaxTrades,     \* bounds: trades the exchange prints,
          MaxVersions,   \* asset lists,
          MaxFailures,   \* connections lost or stalled,
          MaxPauses      \* times two minutes pass without a read

ASSUME StreamAssumption ==
    /\ MaxTrades \in Nat /\ MaxVersions \in Nat
    /\ MaxFailures \in Nat /\ MaxPauses \in Nat

VARIABLES
    \* the exchange and the network
    printed,      \* the asset list of every trade printed so far
    link,         \* the connection: see Links
    wire,         \* trades sent on it and not read
    failures, pauses,
    \* run
    pc,           \* where run is: see Places
    snapVersion,  \* the version it subscribes for
    pending,      \* the trade it numbered and has not appended, or 0
    \* fields of MarketTradeStream
    version, buffer, nextSeq, connected, gapCount,
    silent,       \* age of lastRead: 0 recent, 1 too old, 2 past the read deadline
    old,          \* buffered trades up to this number are two minutes old
    subscribed,   \* the version last subscribed for (not in the code)
    \* the executor
    posting,      \* whether it has read the number of a cycle it is posting
    reading,      \* whether it follows a cycle
    cursor,       \* the cycle's LastTradeSeq
    gapSeen,      \* and StreamGapCount
    asked,        \* which of a pass's questions were answered: 0 none, 1 the gap
                  \* count, 2 the health as well
    start,        \* trades printed when the cycle was posted
    got,          \* trades it was given since, of any market
    excused       \* trades it lost in a way the stream does not notice: see below

network == <<printed, link, wire, failures, pauses>>
run == <<pc, snapVersion, pending>>
fields == <<version, buffer, nextSeq, connected, gapCount, silent, old, subscribed>>
reader == <<posting, reading, cursor, gapSeen, asked, start, got>>
vars == <<network, run, fields, reader, excused>>

\* none; delivering; silent but open; lost; closed by SetAssets.
Links == {"none", "up", "stalled", "broken", "closed"}
Places == {"idle", "dialing", "subscribed", "reading", "appending", "ended"}

Init == /\ printed = <<>> /\ link = "none" /\ wire = <<>> /\ failures = 0 /\ pauses = 0
        /\ pc = "idle" /\ snapVersion = 0 /\ pending = 0
        /\ version = 0 /\ buffer = <<>> /\ nextSeq = 0 /\ connected = FALSE
        /\ gapCount = 0 /\ silent = 0 /\ old = 0 /\ subscribed = 0
        /\ posting = FALSE /\ reading = FALSE /\ cursor = 0 /\ gapSeen = 0
        /\ asked = 0 /\ start = 0 /\ got = <<>> /\ excused = {}

-----------------------------------------------------------------------------
(***************************************************************************)
(* The exchange and the network.                                           *)
(***************************************************************************)
\* A trade of market m, the current one or an earlier one (nothing subscribes
\* for a later one, and a cycle of it starts after it).  Of the current market,
\* it is lost unnoticed when no connection has subscribed for that market yet.
Trade(m) ==
    LET id   == Len(printed) + 1
        sent == link = "up" /\ subscribed = m
    IN  /\ id <= MaxTrades
        /\ printed' = Append(printed, m)
        /\ wire' = IF sent THEN Append(wire, id) ELSE wire
        /\ excused' = IF reading /\ m = version /\ subscribed # version
                      THEN excused \cup {id} ELSE excused
        /\ UNCHANGED <<link, failures, pauses, run, fields, reader>>

\* The connection fails, at once or by falling silent; some of what was on its
\* way still arrives.
Fail(how) ==
    /\ link = "up"
    /\ failures < MaxFailures
    /\ failures' = failures + 1
    /\ link' = how
    /\ \E n \in 0..Len(wire) : wire' = SubSeq(wire, 1, n)
    /\ UNCHANGED <<printed, pauses, run, fields, reader, excused>>

\* Time on a silent connection: no trade and no PONG.
Quiet == /\ link = "stalled" /\ wire = <<>>
         /\ pc = "reading"
         /\ silent < 2
         /\ silent' = silent + 1
         /\ UNCHANGED <<network, run, version, buffer, nextSeq, connected, gapCount,
                        old, subscribed, reader, excused>>

\* What is buffered becomes two minutes old.
TwoMinutes == /\ pauses < MaxPauses
              /\ buffer # <<>>
              /\ pauses' = pauses + 1
              /\ old' = buffer[Len(buffer)].seq
              /\ UNCHANGED <<printed, link, wire, failures, run, version, buffer, nextSeq,
                             connected, gapCount, silent, subscribed, reader, excused>>

-----------------------------------------------------------------------------
(***************************************************************************)
(* run and readLoop.                                                       *)
(***************************************************************************)
Snapshot == /\ pc = "idle"
            /\ version > 0
            /\ pc' = "dialing"
            /\ snapVersion' = version
            /\ UNCHANGED <<network, pending, fields, reader, excused>>

DialFails == /\ pc = "dialing"
             /\ pc' = "idle"
             /\ UNCHANGED <<network, snapVersion, pending, fields, reader, excused>>

Subscribe == /\ pc = "dialing"
             /\ pc' = "subscribed"
             /\ link' = "up"
             /\ wire' = <<>>
             /\ subscribed' = snapVersion
             /\ UNCHANGED <<printed, failures, pauses, snapVersion, pending, version, buffer,
                            nextSeq, connected, gapCount, silent, old, reader, excused>>

\* Only now is the connection visible to SetAssets.
Register == /\ pc = "subscribed"
            /\ pc' = "reading"
            /\ connected' = TRUE
            /\ silent' = 0
            /\ UNCHANGED <<network, snapVersion, pending, version, buffer, nextSeq, gapCount,
                           old, subscribed, reader, excused>>

\* A message is read and numbered; the buffer is not locked yet.
ReadMessage == /\ pc = "reading"
               /\ wire # <<>>
               /\ link # "closed"
               /\ pc' = "appending"
               /\ pending' = Head(wire)
               /\ wire' = Tail(wire)
               /\ nextSeq' = nextSeq + 1
               /\ silent' = 0
               /\ UNCHANGED <<printed, link, failures, pauses, snapVersion, version, buffer,
                              connected, gapCount, old, subscribed, reader, excused>>

\* Entries are numbered in the order of the buffer: those above n are its end.
Passed(entries, n) ==
    CHOOSE k \in 0..Len(entries) : /\ \A i \in 1..k : entries[i].seq <= n
                                   /\ k < Len(entries) => entries[k + 1].seq > n
Above(entries, n) == SubSeq(entries, Passed(entries, n) + 1, Len(entries))

\* The trade is appended and the old ones at the front are dropped, read or not.
AppendTrade ==
    LET all == Append(buffer, [seq |-> nextSeq, id |-> pending])
        unread == {i \in 1..Len(all) : all[i].seq <= old /\ all[i].seq > cursor}
    IN  /\ pc = "appending"
        /\ pc' = "reading"
        /\ pending' = 0
        /\ buffer' = Above(all, old)
        /\ excused' = IF reading THEN excused \cup {all[i].id : i \in unread} ELSE excused
        /\ UNCHANGED <<network, snapVersion, version, nextSeq, connected, gapCount, silent,
                       old, subscribed, reader>>

ReadFails == /\ pc = "reading"
             /\ \/ link = "closed"
                \/ wire = <<>> /\ link = "broken"
                \/ wire = <<>> /\ link = "stalled" /\ silent = 2
             /\ pc' = "ended"
             /\ link' = "none"
             /\ wire' = <<>>
             /\ UNCHANGED <<printed, failures, pauses, snapVersion, pending, fields, reader,
                            excused>>

\* Mutated form: a connection that fails by itself is taken for a change of assets.
CleanupWithoutGap ==
    /\ pc = "ended"
    /\ pc' = "idle"
    /\ connected' = FALSE
    /\ UNCHANGED <<network, snapVersion, pending, version, buffer, nextSeq, gapCount, silent,
                   old, subscribed, reader, excused>>

\* A connection that ends is a gap unless the assets changed meanwhile.  A cycle
\* that has its number and not yet its gap count takes this gap for an old one:
\* until a connection subscribes again nothing tells it what is lost.
Cleanup == /\ pc = "ended"
           /\ pc' = "idle"
           /\ connected' = FALSE
           /\ gapCount' = IF version = snapVersion THEN gapCount + 1 ELSE gapCount
           /\ subscribed' = IF posting THEN 0 ELSE subscribed
           /\ UNCHANGED <<network, snapVersion, pending, version, buffer, nextSeq, silent,
                          old, reader, excused>>

-----------------------------------------------------------------------------
(***************************************************************************)
(* The executor.                                                           *)
(***************************************************************************)
Healthy == connected /\ silent = 0

NotReading == /\ reading' = FALSE
              /\ cursor' = 0 /\ gapSeen' = 0 /\ start' = 0 /\ got' = <<>>
              /\ excused' = {}

\* SetAssets on a new market, which also ends the cycle of the old one.  Only
\* a registered connection is closed.
SetAssets == /\ version < MaxVersions /\ ~posting /\ asked = 0
             /\ version' = version + 1
             /\ buffer' = <<>>
             /\ link' = IF connected /\ link # "none" THEN "closed" ELSE link
             /\ NotReading
             /\ UNCHANGED <<printed, wire, failures, pauses, run, nextSeq, connected, gapCount,
                            silent, old, subscribed, posting, asked>>

\* NewPaperCycle, when the stream is healthy, with LastSeq()
TakeNumber == /\ ~reading /\ ~posting /\ Healthy
              /\ posting' = TRUE
              /\ cursor' = nextSeq
              /\ UNCHANGED <<network, run, fields, reading, gapSeen, asked, start, got, excused>>

\* and GapCount().
StartReading == /\ posting
                /\ posting' = FALSE
                /\ reading' = TRUE
                /\ gapSeen' = gapCount
                /\ start' = Len(printed)
                /\ UNCHANGED <<network, run, fields, cursor, asked, got, excused>>

\* A pass that finds another gap count voids the cycle (StopReading); one that
\* finds the stream unhealthy leaves it to the next.
CompareGaps == /\ reading /\ asked = 0
               /\ gapCount = gapSeen
               /\ asked' = 1
               /\ UNCHANGED <<network, run, fields, posting, reading, cursor, gapSeen, start, got,
                              excused>>

AskHealth == /\ asked = 1
             /\ asked' = IF Healthy THEN 2 ELSE 0
             /\ UNCHANGED <<network, run, fields, posting, reading, cursor, gapSeen, start, got,
                            excused>>

IdsOf(entries) == [i \in 1..Len(entries) |-> entries[i].id]

\* Mutated form: the last trade seen is given again.
ReadTradesAgain ==
    /\ reading /\ asked = 2
    /\ asked' = 0
    /\ got' = got \o IdsOf(Above(buffer, IF cursor = 0 THEN 0 ELSE cursor - 1))
    /\ cursor' = nextSeq
    /\ UNCHANGED <<network, run, fields, posting, reading, gapSeen, start, excused>>

\* TradesAfter: the buffered trades beyond the cursor, of every market; then the
\* cursor moves to the last number taken.  A trade that was numbered and not
\* appended is lost.
ReadTrades == /\ reading /\ asked = 2
              /\ asked' = 0
              /\ got' = got \o IdsOf(Above(buffer, cursor))
              /\ cursor' = nextSeq
              /\ excused' = IF pc = "appending" THEN excused \cup {pending} ELSE excused
              /\ UNCHANGED <<network, run, fields, posting, reading, gapSeen, start>>

\* The cycle ends: a verdict, or a gap in the stream.
StopReading == /\ reading /\ asked = 0
               /\ NotReading
               /\ UNCHANGED <<network, run, fields, posting, asked>>

Next == \/ \E m \in 1..version : Trade(m)
        \/ \E how \in {"broken", "stalled"} : Fail(how)
        \/ Quiet \/ TwoMinutes
        \/ Snapshot \/ DialFails \/ Subscribe \/ Register
        \/ ReadMessage \/ AppendTrade \/ ReadFails \/ Cleanup
        \/ SetAssets \/ TakeNumber \/ StartReading
        \/ CompareGaps \/ AskHealth \/ ReadTrades \/ StopReading

Spec == Init /\ [][Next]_vars

\* The goroutine is scheduled, ReadMessage returns an error once there is one,
\* and the read deadline passes.
FairSpec == /\ Spec
            /\ WF_vars(ReadMessage) /\ WF_vars(AppendTrade)
            /\ WF_vars(Quiet) /\ WF_vars(ReadFails) /\ WF_vars(Cleanup)

-----------------------------------------------------------------------------
TypeOK == /\ printed \in Seq(1..MaxVersions) /\ Len(printed) <= MaxTrades
          /\ link \in Links
          /\ wire \in Seq(1..MaxTrades)
          /\ failures \in 0..MaxFailures /\ pauses \in 0..MaxPauses
          /\ pc \in Places
          /\ snapVersion \in 0..version
          /\ pending \in 0..Len(printed)
          /\ version \in 0..MaxVersions
          /\ buffer \in Seq([seq : 1..nextSeq, id : 1..Len(printed)])
          /\ nextSeq \in 0..MaxTrades
          /\ connected \in BOOLEAN
          /\ gapCount \in 0..MaxFailures
          /\ silent \in 0..2
          /\ old \in 0..nextSeq
          /\ subscribed \in 0..version
          /\ posting \in BOOLEAN /\ reading \in BOOLEAN
          /\ cursor \in 0..nextSeq
          /\ gapSeen \in 0..gapCount
          /\ asked \in 0..2
          /\ start \in 0..Len(printed)
          /\ got \in Seq(1..Len(printed))
          /\ excused \subseteq 1..Len(printed)

\* A trade of its market printed since the cycle was posted.
Own(id) == id > start /\ printed[id] = version
GivenIds == {got[i] : i \in 1..Len(got)}

\* It was not given, and a later one was.
Hole(id) == /\ Own(id)
            /\ id \notin GivenIds
            /\ \E i \in 1..Len(got) : got[i] > id

\* While its gap count stands, a cycle is given every trade of its market up to
\* some moment.  Four things alone can take one out of the middle: it was numbered
\* and not yet appended when TradesAfter read the last number; it was two minutes
\* old and unread when another came; no connection had subscribed for the market
\* yet; or none had again since a gap was counted between the two readings the
\* cycle was posted with.  Those are gone for good.  In particular a connection
\* lost later and a stalled one never make a hole, until the gap is counted; then
\* only the pass that had compared the counts before reads once more.
OnlyKnownHoles == reading /\ gapCount = gapSeen =>
                             \A id \in 1..Len(printed) :
                                 /\ Hole(id) => id \in excused
                                 /\ Own(id) /\ id \in excused => id \notin GivenIds

\* "A WebSocket data gap invalidates the cycle instead of inventing PnL": while
\* its gap count stands no trade is missing from the middle of what a cycle was
\* given.
NoSilentHole == reading /\ gapCount = gapSeen => \A id \in 1..Len(printed) : ~Hole(id)

\* No trade is given twice, and none out of order, across reconnections,
\* changes of assets and pruning.
GivenOnceInOrder == \A i, j \in 1..Len(got) : i < j => got[i] < got[j]

\* A connection that fails while its market is current does not go unnoticed for
\* ever, and when it is noticed it is counted as a gap, unless the market changes
\* first.
Failed == /\ \/ pc \in {"reading", "appending"} /\ link \in {"broken", "stalled"}
             \/ pc = "ended"
          /\ version = snapVersion
LossIsCounted == /\ Failed ~> ~Failed
                 /\ [][Failed /\ ~Failed' => gapCount' > gapCount \/ version' # version]_vars
=============================================================================
