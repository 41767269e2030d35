-------------------------- MODULE ArbShadowRuntime --------------------------
(***************************************************************************)
(* The maker paper executor around its cycles (cmd/pm-edge/arb_shadow.go,  *)
(* internal/storage/arb.go): one pass a second, in a goroutine of its own  *)
(* and never two at once, that moves the active cycle and stores it; a     *)
(* database whose statements may fail; a process that may die between any  *)
(* two statements and restores the newest open row when it comes back.     *)
(*                                                                         *)
(* The cycle itself is what module MakerPair promises of it, with the loss *)
(* bound of module ArbPaperCycle; the trade stream is its gap count and    *)
(* its health (module MarketTradeStream).  A pass asks the stream for its  *)
(* gap count, for its health and for its trades one after the other, each  *)
(* under the lock of its own: the stream may count a gap between any two.  *)
(***************************************************************************)
EXTENDS Integers, Sequences, FiniteSets

CONSTANTS Initial,      \* paperInitialBalance
          Reserve,      \* the planned cost of a cycle, the most it can lose
          Gain,         \* what a full pair wins
          MaxMarkets,   \* bounds: markets, rows, stream gaps,
          MaxCycles,
          MaxGaps,
          MaxErrors,    \* failed statements
          MaxCrashes

ASSUME RuntimeAssumption ==
    /\ Initial \in Nat /\ Reserve \in Nat \ {0} /\ Gain \in Nat
    /\ MaxMarkets \in Nat \ {0} /\ MaxCycles \in Nat
    /\ MaxGaps \in Nat /\ MaxErrors \in Nat /\ MaxCrashes \in Nat

VARIABLES
    market,     \* the market the evaluation loop is on
    \* arbShadowRuntime
    active,     \* the cycle in memory, or NoCycle
    step,       \* where the pass is, "idle" when not busy
    mc,         \* the market the pass was started for
    \* the stream
    gapCount, healthy,
    \* the database
    rows,       \* arb_paper_cycles: the payload of each row
    up,         \* whether the process runs
    errors, crashes,
    \* history, not in the code
    missed,     \* rows whose cycle has missed trades of its market: a gap was
                \* counted since it took the count, or its process died
    late,       \* rows for which a gap was counted in the pass under way, or
                \* in the one of their verdict, after it had compared the counts
    resumed     \* rows restored by a later process

process == <<active, step, mc>>
stream == <<gapCount, healthy>>
faults == <<errors, crashes>>
history == <<missed, late, resumed>>
vars == <<market, process, stream, rows, up, faults, history>>

Trusted == {"paired", "stranded", "unfilled"}
Statuses == {"open", "void"} \cup Trusted
Steps == {"idle", "books", "process", "close", "update", "health", "read", "store",
          "post", "insert", "payload"}

\* `by' is the part of Reason that tells a market change from a normal verdict.
Cycle(m, gaps) == [id |-> 0, market |-> m, status |-> "open", bought |-> FALSE,
                   gaps |-> gaps, pnl |-> 0, by |-> "advance"]
NoCycle == [Cycle(0, 0) EXCEPT !.status = "void"]
Cycles == [id : 0..MaxCycles, market : 0..MaxMarkets, status : Statuses, bought : BOOLEAN,
           gaps : 0..MaxGaps, pnl : {-Reserve, 0, Gain}, by : {"advance", "market"}]

IsOpen(c) == c.status = "open"
OpenRows == {i \in DOMAIN rows : IsOpen(rows[i])}

\* Rows whose verdict is still to come.
Undecided == {i \in OpenRows : i = active.id => IsOpen(active)}

\* GetArbPaperStatsByTimeframe sums the profits of the rows, open ones with the
\* 0 they have.  A profit is one of three, so the sum counts the other two.
RowsWith(pnl) == {i \in DOMAIN rows : rows[i].pnl = pnl}
Cash == Initial + Gain * Cardinality(RowsWith(Gain)) - Reserve * Cardinality(RowsWith(-Reserve))

Init == /\ market = 1
        /\ active = NoCycle /\ step = "idle" /\ mc = 0
        /\ gapCount = 0 /\ healthy = FALSE
        /\ rows = <<>>
        /\ up = TRUE
        /\ errors = 0 /\ crashes = 0
        /\ missed = {} /\ late = {} /\ resumed = {}

-----------------------------------------------------------------------------
(***************************************************************************)
(* The world.                                                              *)
(***************************************************************************)
NextMarket == /\ market < MaxMarkets
              /\ market' = market + 1
              /\ UNCHANGED <<process, stream, rows, up, faults, history>>

StreamGap == /\ up
             /\ gapCount < MaxGaps
             /\ gapCount' = gapCount + 1
             /\ healthy' = FALSE
             /\ missed' = missed \cup Undecided
             /\ late' = IF step \in {"health", "read"}
                        THEN late \cup (Undecided \cap {active.id}) ELSE late
             /\ UNCHANGED <<market, process, rows, up, faults, resumed>>

StreamHealth == /\ up
                /\ healthy' = ~healthy
                /\ UNCHANGED <<market, process, gapCount, rows, up, faults, history>>

\* What the process had in memory is lost, and so are the trades until a new
\* stream is connected.
Crash == /\ up
         /\ crashes < MaxCrashes
         /\ crashes' = crashes + 1
         /\ up' = FALSE
         /\ active' = NoCycle /\ step' = "idle" /\ mc' = 0
         /\ missed' = missed \cup OpenRows
         /\ UNCHANGED <<market, stream, rows, errors, late, resumed>>

\* Mutated form: the newest row is restored, open or not.
RestartWithNewest(ok) ==
    /\ ~up
    /\ up' = TRUE
    /\ gapCount' = 0 /\ healthy' = FALSE
    /\ active' = IF rows = <<>> THEN NoCycle ELSE [rows[Len(rows)] EXCEPT !.status = "open"]
    /\ UNCHANGED <<market, step, mc, rows, faults, history>>

\* newArbShadowRuntime: a new stream, and the payload of the newest open row
\* as it was stored last.  A failed query restores nothing.
Restart(ok) ==
    LET newest == CHOOSE i \in OpenRows : \A j \in OpenRows : j <= i
    IN  /\ ~up
        /\ up' = TRUE
        /\ gapCount' = 0 /\ healthy' = FALSE
        /\ IF ok /\ OpenRows # {}
           THEN /\ active' = rows[newest]
                /\ resumed' = resumed \cup {newest}
           ELSE UNCHANGED <<active, resumed>>
        /\ ok \/ errors < MaxErrors
        /\ errors' = IF ok THEN errors ELSE errors + 1
        /\ UNCHANGED <<market, step, mc, rows, crashes, missed, late>>

-----------------------------------------------------------------------------
(***************************************************************************)
(* One pass: Submit and processPaper.                                      *)
(***************************************************************************)
\* Only while the process runs; what a step leaves alone unless it says so.
Goto(next) == up /\ step' = next
World == <<market, stream, up, crashes, history>>

\* The pass before this one is over: what it let through it has stored.
Submit == /\ step = "idle"
          /\ Goto("books")
          /\ mc' = market
          /\ late' = late \ Undecided
          /\ UNCHANGED <<market, active, stream, rows, up, faults, missed, resumed>>

\* Both books are fetched and the snapshot is stored, or the pass ends.
Fetch == /\ step = "books"
         /\ Goto("process") \/ Goto("idle")
         /\ UNCHANGED <<active, mc, rows, errors, World>>

\* ClosePaperCycleForMarketChange.  A cycle closed before, whose row could not
\* be written, is dropped without another attempt.
CloseOld ==
    /\ step = "process"
    /\ active # NoCycle
    /\ active.market # mc
    /\ IF IsOpen(active)
       THEN /\ Goto("close")
            /\ \E pnl \in {-Reserve, 0} :
                 active' = IF active.bought
                           THEN [active EXCEPT !.status = "stranded", !.by = "market",
                                               !.pnl = pnl]
                           ELSE [active EXCEPT !.status = "unfilled", !.by = "market"]
       ELSE Goto("update") /\ active' = NoCycle
    /\ UNCHANGED <<mc, rows, errors, World>>

KeepOld == /\ step = "process"
           /\ active = NoCycle \/ active.market = mc
           /\ Goto("update")
           /\ UNCHANGED <<active, mc, rows, errors, World>>

\* UpdateArbPaperCycle, which refuses a cycle without an id; on failure the
\* pass ends and the cycle stays as it is in memory.  A closed cycle is let
\* go once it is stored.
Stored(next) ==
    /\ active.id > 0
    /\ rows' = [rows EXCEPT ![active.id] = active]
    /\ active' = IF IsOpen(active) THEN active ELSE NoCycle
    /\ Goto(next)
    /\ UNCHANGED <<mc, errors, World>>

NotStored == /\ active.id = 0 \/ errors < MaxErrors
             /\ errors' = IF active.id = 0 THEN errors ELSE errors + 1
             /\ Goto("idle")
             /\ UNCHANGED <<active, mc, rows, World>>

StoreClosed == step = "close" /\ (Stored("update") \/ NotStored)

NoActive == /\ step = "update"
            /\ active = NoCycle
            /\ Goto("post")
            /\ UNCHANGED <<active, mc, rows, errors, World>>

\* InvalidatePaperCycleDataGap, when the stream counted a gap since posting.
Invalidate == /\ step = "update"
              /\ active # NoCycle
              /\ gapCount # active.gaps
              /\ IF IsOpen(active)
                 THEN active' = [active EXCEPT !.status = "void", !.pnl = 0] /\ Goto("store")
                 ELSE active' = NoCycle /\ Goto("post")
              /\ UNCHANGED <<mc, rows, errors, World>>

\* Mutated form: a cycle goes on whatever the stream has counted.
SameGapsUnchecked == /\ step = "update"
                     /\ active # NoCycle
                     /\ Goto("health")
                     /\ UNCHANGED <<active, mc, rows, errors, World>>

\* GapCount is what it was at the posting: the first of the three questions.
SameGaps == /\ step = "update"
            /\ active # NoCycle
            /\ gapCount = active.gaps
            /\ Goto("health")
            /\ UNCHANGED <<active, mc, rows, errors, World>>

\* Mutated form: a pass that cannot advance the cycle lets it go.
UnhealthyLettingGo == /\ step = "health"
                      /\ ~healthy
                      /\ active' = NoCycle
                      /\ Goto("post")
                      /\ UNCHANGED <<mc, rows, errors, World>>

\* Healthy is the second question.
Unhealthy == /\ step = "health"
             /\ ~healthy
             /\ active' = IF IsOpen(active) THEN active ELSE NoCycle
             /\ Goto("post")
             /\ UNCHANGED <<mc, rows, errors, World>>

StillHealthy == /\ step = "health"
                /\ healthy
                /\ Goto("read")
                /\ UNCHANGED <<active, mc, rows, errors, World>>

\* TradesAfter is the third, and AdvancePaperCycle makes of its answer
\* nothing, a fill, or a verdict with its profit.
Advance ==
    /\ step = "read"
    /\ \/ /\ ~IsOpen(active)
          /\ active' = NoCycle /\ Goto("post")
       \/ /\ IsOpen(active)
          /\ active' = active /\ Goto("post")
       \/ /\ IsOpen(active)
          /\ \/ active' = [active EXCEPT !.bought = TRUE]
             \/ active' = [active EXCEPT !.bought = TRUE, !.status = "paired", !.pnl = Gain]
             \/ \E pnl \in {-Reserve, 0} :
                  active' = [active EXCEPT !.bought = TRUE, !.status = "stranded", !.pnl = pnl]
             \/ ~active.bought /\ active' = [active EXCEPT !.status = "unfilled"]
          /\ Goto("store")
    /\ UNCHANGED <<mc, rows, errors, World>>

StoreActive == step = "store" /\ (Stored("post") \/ NotStored)

\* The stream has to be healthy for a posting; the balance is asked for next.
MayPost == /\ step = "post"
           /\ active = NoCycle
           /\ healthy
           /\ Goto("insert")
           /\ UNCHANGED <<active, mc, rows, errors, World>>

\* Mutated form: the balance is not asked for.
InsertOnCredit == /\ step = "insert"
                  /\ Len(rows) < MaxCycles
                  /\ rows' = Append(rows, Cycle(mc, gapCount))
                  /\ Goto("payload")
                  /\ UNCHANGED <<active, mc, errors, World>>

\* The first statement of InsertArbPaperCycle: the payload has no id yet.  The
\* gaps are counted now, not when the stream was found healthy.
Insert == /\ step = "insert"
          /\ Cash >= Reserve
          /\ Len(rows) < MaxCycles
          /\ rows' = Append(rows, Cycle(mc, gapCount))
          /\ Goto("payload")
          /\ UNCHANGED <<active, mc, errors, World>>

NothingToPost == /\ step \in {"post", "insert"}
                 /\ Goto("idle")
                 /\ UNCHANGED <<active, mc, rows, errors, World>>

\* The second statement stores the id in the payload; only then is the cycle
\* the active one.
SetPayload == /\ step = "payload"
              /\ rows' = [rows EXCEPT ![Len(rows)].id = Len(rows)]
              /\ active' = rows'[Len(rows)]
              /\ Goto("idle")
              /\ UNCHANGED <<mc, errors, World>>

PayloadFails == /\ step = "payload"
                /\ errors < MaxErrors
                /\ errors' = errors + 1
                /\ Goto("idle")
                /\ UNCHANGED <<active, mc, rows, World>>

Next == \/ NextMarket \/ StreamGap \/ StreamHealth \/ Crash
        \/ \E ok \in BOOLEAN : Restart(ok)
        \/ Submit \/ Fetch \/ CloseOld \/ KeepOld \/ StoreClosed
        \/ NoActive \/ Invalidate \/ SameGaps \/ Unhealthy \/ StillHealthy
        \/ Advance \/ StoreActive
        \/ MayPost \/ Insert \/ NothingToPost \/ SetPayload \/ PayloadFails

Spec == Init /\ [][Next]_vars

-----------------------------------------------------------------------------
TypeOK == /\ market \in 1..MaxMarkets
          /\ active \in Cycles
          /\ step \in Steps
          /\ mc \in 0..market
          /\ gapCount \in 0..MaxGaps
          /\ healthy \in BOOLEAN
          /\ rows \in Seq(Cycles)
          /\ \A i \in DOMAIN rows : rows[i].id \in {0, i}
          /\ up \in BOOLEAN
          /\ errors \in 0..MaxErrors /\ crashes \in 0..MaxCrashes
          /\ missed \subseteq DOMAIN rows
          /\ late \subseteq DOMAIN rows
          /\ resumed \subseteq DOMAIN rows

\* "A WebSocket data gap invalidates the cycle instead of inventing PnL": a
\* cycle that missed trades is stored with no profit and no loss.
NoPnLAfterGap == \A i \in missed : rows[i].pnl = 0

\* Of the cycles one process followed from its own posting to a verdict of
\* AdvancePaperCycle, one that missed trades is trusted only when the gap was
\* counted inside the very pass of the verdict, after that pass had compared
\* the counts (GapCount, Healthy and TradesAfter are three calls): no gap of an
\* earlier pass, of a statement that failed or of a pass that was cut short
\* lets such a verdict through.
GapInvalidatesInProcess ==
    \A i \in DOMAIN rows :
        rows[i].status \in Trusted /\ i \in missed =>
            i \in resumed \/ rows[i].by = "market" \/ i \in late

\* A stored verdict is never taken back or rewritten, whatever is restored.
VerdictsAreFinal ==
    [][\A i \in DOMAIN rows : ~IsOpen(rows[i]) => rows'[i] = rows[i]]_vars

\* Rows that are open and that no cycle in memory will close: each was left by
\* a statement that failed or by a process that died.
Orphans == {i \in OpenRows : active.id # i /\ ~(step = "payload" /\ i = Len(rows))}
OrphansNeedAFault == Cardinality(Orphans) <= errors + crashes

\* The cash check at posting covers the cycle it posts: the balance only goes
\* below zero with the losses of orphans restored later.
CashCoversLosses == Cash >= -(Reserve * (errors + crashes))
=============================================================================
