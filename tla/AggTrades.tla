------------------------------ MODULE AggTrades ------------------------------
(***************************************************************************)
(* The aggressive trade flow of Binance (internal/binance/                 *)
(* microstructure.go, MicrostructureClient.trades).  The websocket adds    *)
(* trades one by one (recordTradeWithID); once a second the REST fallback  *)
(* fetches the whole window of the last 65 seconds, page by page, and      *)
(* replaces everything up to the end of that window                        *)
(* (reconcileRESTAggTradeWindow).  The end is fixed before the first page  *)
(* is asked for, and trades go on happening and arriving meanwhile.        *)
(*                                                                         *)
(* A trade is named by its aggregate ID, its place in `market', and is     *)
(* either a buy or a sell; amounts are left out.  The rows of trades carry *)
(* no ID in the code and are added up whatever their order: the model says *)
(* of every trade how many rows hold it, as a buy and as a sell.           *)
(***************************************************************************)
EXTENDS Naturals, Sequences, FiniteSets, FiniteSetsExt

CONSTANTS Retention,      \* tradeFlowRetention, in ticks of the clock
          PageSize,       \* aggTradeRESTPageSize
          MaxPages,       \* aggTradeRESTMaxPages
          MaxAggTrades,   \* bounds: trades, ticks,
          MaxTicks,
          MaxPageFaults   \* and requests that fail

ASSUME AggAssumption == /\ Retention \in Nat \ {0} /\ PageSize \in Nat \ {0}
                        /\ MaxPages \in Nat \ {0}
                        /\ {MaxAggTrades, MaxTicks, MaxPageFaults} \subseteq Nat

VARIABLES
    clock, market,   \* market[id]: a trade [at, buy] of the exchange
    sent,            \* the last trade the websocket has delivered or lost
    \* loadRESTAggTradesFallback
    pulling,         \* "idle", "paging" or "complete"
    windowEnd,       \* the end of the window it fetches
    page, fromId,    \* pages read so far, and where the next one starts
    rows,            \* the trades it has read
    \* fields of MicrostructureClient
    trades,          \* trades[id][buy]: the rows that hold it on that side
    seenIds,         \* seenAggTradeIDs
    reconciled,      \* the end of the last window stored
    pageFaults

aggPull == <<pulling, windowEnd, page, fromId, rows>>
aggFields == <<trades, seenIds, reconciled>>
aggVars == <<clock, market, sent, aggPull, aggFields, pageFaults>>

AggIds == 1..MaxAggTrades

AggInit == /\ clock = Retention /\ market = <<>> /\ sent = 0
           /\ pulling = "idle" /\ windowEnd = 0 /\ page = 0 /\ fromId = 0
           /\ rows = {}
           /\ trades = [id \in AggIds |-> [buy \in BOOLEAN |-> 0]] /\ seenIds = {} /\ reconciled = 0
           /\ pageFaults = 0

At(id) == market[id].at

-----------------------------------------------------------------------------
(***************************************************************************)
(* The exchange and the clock.                                             *)
(***************************************************************************)
TradeHappens == /\ Len(market) < MaxAggTrades
                /\ \E buy \in BOOLEAN :
                       market' = Append(market, [at |-> clock, buy |-> buy])
                /\ UNCHANGED <<clock, sent, aggPull, aggFields, pageFaults>>

ClockTicks == /\ clock < Retention + MaxTicks
              /\ clock' = clock + 1
              /\ UNCHANGED <<market, sent, aggPull, aggFields, pageFaults>>

-----------------------------------------------------------------------------
(***************************************************************************)
(* The websocket.  Trades come in order; any may come late, with a wrong   *)
(* side, or never.                                                         *)
(***************************************************************************)
Cutoff == clock - Retention

Record(id, buy) ==
    IF At(id) < Cutoff \/ id \in seenIds
    THEN UNCHANGED <<trades, seenIds>>
    ELSE /\ trades' = [i \in AggIds |-> [b \in BOOLEAN |->
                          IF i > Len(market) \/ At(i) < Cutoff THEN 0
                          ELSE trades[i][b] + (IF i = id /\ b = buy THEN 1 ELSE 0)]]
         /\ seenIds' = {i \in seenIds \cup {id} : At(i) >= Cutoff}

WsTrade == /\ \E id \in sent + 1 .. Len(market), buy \in BOOLEAN :
                  Record(id, buy) /\ sent' = id
           /\ UNCHANGED <<clock, market, aggPull, reconciled, pageFaults>>

-----------------------------------------------------------------------------
(***************************************************************************)
(* loadRESTAggTradesFallback.                                              *)
(***************************************************************************)
\* The exchange answers with the first ones it is asked for.
FirstPage(wanted) == {i \in wanted : Cardinality({j \in wanted : j < i}) < PageSize}

WindowStarts == /\ pulling = "idle"
                /\ pulling' = "paging" /\ windowEnd' = clock
                /\ page' = 0 /\ fromId' = 0 /\ rows' = {}
                /\ UNCHANGED <<clock, market, sent, aggFields, pageFaults>>

InWindow(i) == At(i) >= windowEnd - Retention /\ At(i) <= windowEnd

\* The first page is asked for by time, the others by ID.
PageAnswer == FirstPage(IF page = 0 THEN {i \in 1..Len(market) : InWindow(i)}
                                    ELSE fromId..Len(market))

LastPage(ids) == Cardinality(ids) < PageSize \/ \E i \in ids : At(i) >= windowEnd

\* Mutated form: one page more than the cap.
FetchPageOverCap ==
    /\ pulling = "paging" /\ page <= MaxPages
    /\ page' = page + 1
    /\ rows' = rows \cup {i \in PageAnswer : InWindow(i)}
    /\ pulling' = IF LastPage(PageAnswer) THEN "complete" ELSE "paging"
    /\ fromId' = IF LastPage(PageAnswer) THEN 0 ELSE Max(PageAnswer) + 1
    /\ UNCHANGED <<clock, market, sent, windowEnd, aggFields, pageFaults>>

FetchPage == /\ pulling = "paging" /\ page < MaxPages
             /\ page' = page + 1
             /\ rows' = rows \cup {i \in PageAnswer : InWindow(i)}
             /\ pulling' = IF LastPage(PageAnswer) THEN "complete" ELSE "paging"
             /\ fromId' = IF LastPage(PageAnswer) THEN 0 ELSE Max(PageAnswer) + 1
             /\ UNCHANGED <<clock, market, sent, windowEnd, aggFields, pageFaults>>

\* A request fails, or the cap on pages is met.  The next host is asked for the
\* same window, and after the last host the fallback gives up.
GiveUpHost == \/ /\ page' = 0 /\ fromId' = 0 /\ rows' = {}
                 /\ UNCHANGED <<pulling, windowEnd>>
              \/ /\ pulling' = "idle" /\ windowEnd' = 0 /\ page' = 0
                 /\ fromId' = 0 /\ rows' = {}

PageFails == /\ pulling = "paging" /\ page < MaxPages
             /\ pageFaults < MaxPageFaults
             /\ pageFaults' = pageFaults + 1
             /\ GiveUpHost
             /\ UNCHANGED <<clock, market, sent, aggFields>>

TooManyPages == /\ pulling = "paging" /\ page = MaxPages
                /\ GiveUpHost
                /\ UNCHANGED <<clock, market, sent, aggFields, pageFaults>>

\* The row of REST, once and with its side.
FromREST(i, b) == IF i \in rows /\ b = market[i].buy THEN 1 ELSE 0

\* Mutated form: what the websocket brought while the pages were read goes too.
ReconcileAll ==
    /\ pulling = "complete"
    /\ trades' = [i \in AggIds |-> [b \in BOOLEAN |-> FromREST(i, b)]]
    /\ seenIds' = rows \cup {i \in seenIds : At(i) > windowEnd}
    /\ reconciled' = windowEnd
    /\ pulling' = "idle" /\ windowEnd' = 0 /\ page' = 0 /\ fromId' = 0 /\ rows' = {}
    /\ UNCHANGED <<clock, market, sent, pageFaults>>

Reconcile ==
    /\ pulling = "complete"
    /\ trades' = [i \in AggIds |-> [b \in BOOLEAN |-> FromREST(i, b) +
                     (IF i <= Len(market) /\ At(i) > windowEnd THEN trades[i][b] ELSE 0)]]
    /\ seenIds' = rows \cup {i \in seenIds : At(i) > windowEnd}
    /\ reconciled' = windowEnd
    /\ pulling' = "idle" /\ windowEnd' = 0 /\ page' = 0 /\ fromId' = 0 /\ rows' = {}
    /\ UNCHANGED <<clock, market, sent, pageFaults>>

AggNext == \/ TradeHappens \/ ClockTicks \/ WsTrade
           \/ WindowStarts \/ FetchPage \/ PageFails \/ TooManyPages \/ Reconcile

AggSpec == AggInit /\ [][AggNext]_aggVars

-----------------------------------------------------------------------------
AggTypeOK ==
    /\ clock \in Nat /\ market \in Seq([at : Nat, buy : BOOLEAN])
    /\ sent \in 0..Len(market)
    /\ pulling \in {"idle", "paging", "complete"} /\ windowEnd \in 0..clock
    /\ page \in 0..MaxPages /\ fromId \in 0 .. Len(market) + 1
    /\ rows \subseteq 1..Len(market)
    /\ trades \in [AggIds -> [BOOLEAN -> Nat]]
    /\ seenIds \subseteq 1..Len(market)
    /\ reconciled \in 0..clock /\ pageFaults \in 0..MaxPageFaults

\* A trade that arrives late, twice (over the websocket and over REST) or with a
\* wrong side, or only while the pages are being read, is in the flow once: the
\* held trades are those of the seen-set, none counts twice, and every trade of
\* the exchange before the end of the last window stored, and not yet too old, is
\* held with the exchange's side.  (A trade in the very millisecond the window
\* ends may be missing until the next one.)
FlowIsExact ==
    \A id \in AggIds :
       /\ trades[id][TRUE] + trades[id][FALSE] = IF id \in seenIds THEN 1 ELSE 0
       /\ id <= Len(market) /\ At(id) >= Cutoff /\ At(id) < reconciled
             => trades[id][market[id].buy] = 1
=============================================================================
