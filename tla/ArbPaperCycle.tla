---------------------------- MODULE ArbPaperCycle ----------------------------
(***************************************************************************)
(* The life of one maker paper cycle (internal/arb/paper.go): a BUY rests  *)
(* on the safer side first; once it is full a completion BUY is posted on  *)
(* the other side, repriced upwards but never above the price that keeps   *)
(* the required edge; deadlines, a market change or a gap in the trade     *)
(* stream end the cycle.                                                   *)
(*                                                                         *)
(* AdvancePaperCycle is one action per outcome of a call, all of them with *)
(* the same inputs: the two current books and the batch of trades printed  *)
(* since the previous call.  A call with an invalid book, or on a closed   *)
(* cycle, returns without touching anything and is a stuttering step.      *)
(***************************************************************************)
EXTENDS ArbPricing

CONSTANTS Size,             \* OrderSize
          OrderTTL,         \* the four durations of PaperConfig, in ticks
          SoftCompletion,
          MaxStranded,
          StopBeforeEnd,
          MarketEnd,        \* when the market closes
          MaxTime,          \* bound on the clock
          UpBooks,          \* the books the CLOB may answer for each token
          DownBooks,
          Batches           \* [volume, swept, age]: what printed at or below
                            \* our price, and how old the first such print is

Sides == {"UP", "DOWN"}
Other(side) == IF side = "UP" THEN "DOWN" ELSE "UP"

Prices == 1..(Dollar - 1)

\* One book as ArbPricing reads it.  Selling 0 shares brings nothing.
IsBook(b) == /\ b.bid \in Prices /\ b.ask \in Prices /\ b.tick \in Prices
             /\ ValidBook(b)
             /\ b.queue \in [Prices -> Nat]
             /\ b.sell \in [0..Size -> Nat]

ASSUME CycleAssumption ==
    /\ Size \in Nat \ {0}
    /\ OrderTTL \in Nat /\ SoftCompletion \in Nat
    /\ MaxStranded \in Nat /\ StopBeforeEnd \in Nat
    /\ MarketEnd \in Nat /\ MaxTime \in Nat
    /\ \A b \in UpBooks \cup DownBooks : IsBook(b)
    /\ \A t \in Batches : t.volume \in Nat /\ t.swept \in BOOLEAN /\ t.age \in Int

VARIABLES cycle,     \* the PaperCycle, or NoCycle
          lastBook,  \* the books of the last call (LastUpBestBid and so on)
          now

vars == <<cycle, lastBook, now>>

FirstPhase == {"RESTING_FIRST", "FIRST_PARTIAL"}
SecondPhase == {"COMPLETING", "COMPLETION_PARTIAL"}
Legacy == {"RESTING_PAIR", "ONE_LEG_FILLED"}
OpenStatuses == FirstPhase \cup SecondPhase \cup Legacy
Terminal == {"COMPLETED", "EXPIRED_NO_FILL", "STRANDED_TIMEOUT", "DATA_GAP_INVALID"}

NoTime == -1 - 2 * MaxTime   \* an empty timestamp: before every clock value

BookPairs == {b \in [Sides -> UpBooks \cup DownBooks] :
                 b["UP"] \in UpBooks /\ b["DOWN"] \in DownBooks}

IsOpen(c) == c.status \in OpenStatuses
SecondSide(c) == Other(c.firstSide)
Ceiling(c) == c.completionMax[SecondSide(c)]

-----------------------------------------------------------------------------
(***************************************************************************)
(* Posting a cycle: Engine.Evaluate and NewPaperCycle.  Which of two       *)
(* eligible sides goes first is a comparison of risk scores the cycle does *)
(* not depend on.                                                          *)
(***************************************************************************)
NewPaperCycle(books, side) ==
    LET price  == [s \in Sides |-> MakerBuyPrice(books[s])]
        second == CompletionStartPrice(price[side], books[Other(side)])
    IN  [status |-> "RESTING_FIRST",
         firstSide |-> side,
         firstPrice |-> price[side],
         firstFilled |-> 0,
         firstQueue |-> books[side].queue[price[side]],
         secondPrice |-> second,
         secondFilled |-> 0,
         secondNotional |-> 0,
         secondQueue |-> 0,
         completionMax |-> [s \in Sides |-> CompletionMax(price[Other(s)], books[s])],
         createdAt |-> now,
         firstPartialAt |-> NoTime,
         postedAt |-> NoTime,
         locked |-> 0,
         paper |-> 0]

NoCycle == [status |-> "NONE", firstSide |-> "UP", firstPrice |-> 0, firstFilled |-> 0,
            firstQueue |-> 0, secondPrice |-> 0, secondFilled |-> 0, secondNotional |-> 0,
            secondQueue |-> 0, completionMax |-> [s \in Sides |-> 0], createdAt |-> 0,
            firstPartialAt |-> NoTime, postedAt |-> NoTime, locked |-> 0, paper |-> 0]

Post(books, side) ==
    /\ cycle.status = "NONE"
    /\ \A s \in Sides : MakerBuyPrice(books[s]) > 0
    /\ PathEligible(books[side], books[Other(side)])
    /\ cycle' = NewPaperCycle(books, side)
    /\ lastBook' = books
    /\ UNCHANGED now

-----------------------------------------------------------------------------
\* Mutated form: an incomplete pair only times out once its completion order
\* was posted.
StrandedExpiredOnceActive(c) ==
    /\ c.firstPartialAt # NoTime
    /\ c.secondPrice > 0
    /\ c.status \in SecondPhase
    /\ \/ now - c.firstPartialAt >= MaxStranded
       \/ MarketEnd - now <= StopBeforeEnd

\* strandedExpired: the clock of an incomplete pair starts at its first fill.
StrandedExpired(c) ==
    /\ c.firstPartialAt # NoTime
    /\ \/ now - c.firstPartialAt >= MaxStranded
       \/ MarketEnd - now <= StopBeforeEnd

\* eventOrNow: an exchange timestamp more than a second ahead is not believed.
EventOrNow(t) == IF t > now + 1 THEN now ELSE t

\* The first leg fills at one price and the second only after it is full, so
\* min(up, down) is secondFilled and its cost in each leg is exact.
Matched(c) == Lesser(c.firstFilled, c.secondFilled)
LockedPnL(c) == Matched(c) * (Dollar - c.firstPrice) - c.secondNotional
Unmatched(c) == c.firstFilled - Matched(c)

\* Mutated form: the unmatched shares are paid for twice.
TimedOutPayingTwice(c, books) ==
    [c EXCEPT !.status = "STRANDED_TIMEOUT",
              !.locked = LockedPnL(c),
              !.paper = LockedPnL(c) - books[c.firstSide].sell[Unmatched(c)]
                                     - Unmatched(c) * c.firstPrice]

\* timeoutStranded: the unmatched shares are sold into the current bids.
TimedOut(c, books) ==
    [c EXCEPT !.status = "STRANDED_TIMEOUT",
              !.locked = LockedPnL(c),
              !.paper = LockedPnL(c) + books[c.firstSide].sell[Unmatched(c)]
                                     - Unmatched(c) * c.firstPrice]

\* addFill and the bookkeeping of a fill of the first order.
AfterFirst(batch) ==
    LET remaining == Size - cycle.firstFilled
        bought == FilledBy(batch.volume, batch.swept, remaining, cycle.firstQueue)
    IN  [cycle EXCEPT
           !.firstQueue = QueueAfter(batch.volume, batch.swept, remaining, @),
           !.firstFilled = @ + bought,
           !.firstPartialAt = IF bought > 0 /\ @ = NoTime
                              THEN EventOrNow(now - batch.age) ELSE @,
           !.status = IF cycle.firstFilled + bought > 0 THEN "FIRST_PARTIAL" ELSE @]

\* The completion order posted from book b, or none (price 0) yet.
WithCompletion(c, b) ==
    LET price == CompletionPrice(Ceiling(c), b)
    IN  [c EXCEPT !.secondPrice = price,
                  !.secondQueue = IF price > 0 THEN b.queue[price] ELSE @]

\* The first leg is full: the completion order is posted now, and the batch
\* that filled the first leg is not offered to it.
FirstLegFull(books, batch) ==
    LET c == AfterFirst(batch)
    IN  /\ cycle.status \in FirstPhase
        /\ c.firstFilled = Size
        /\ cycle' = WithCompletion([c EXCEPT !.status = "COMPLETING", !.postedAt = now],
                                   books[SecondSide(c)])

RestingExpired == \/ now - cycle.createdAt >= OrderTTL
                  \/ MarketEnd - now <= StopBeforeEnd

\* Mutated form: the order's lifetime also ends a partially filled one.
ExpireNoFillWhenPartial(books, batch) ==
    LET c == AfterFirst(batch)
    IN  /\ cycle.status \in FirstPhase
        /\ c.firstFilled < Size
        /\ RestingExpired
        /\ cycle' = [c EXCEPT !.status = "EXPIRED_NO_FILL"]

ExpireNoFill(books, batch) ==
    LET c == AfterFirst(batch)
    IN  /\ cycle.status \in FirstPhase
        /\ c.status = "RESTING_FIRST"
        /\ RestingExpired
        /\ cycle' = [c EXCEPT !.status = "EXPIRED_NO_FILL"]

FirstLegTimesOut(books, batch) ==
    LET c == AfterFirst(batch)
    IN  /\ cycle.status \in FirstPhase
        /\ c.firstFilled < Size
        /\ c.status = "FIRST_PARTIAL"
        /\ StrandedExpired(c)
        /\ cycle' = TimedOut(c, books)

FirstLegRests(books, batch) ==
    LET c == AfterFirst(batch)
    IN  /\ cycle.status \in FirstPhase
        /\ c.firstFilled < Size
        /\ IF c.status = "RESTING_FIRST" THEN ~RestingExpired ELSE ~StrandedExpired(c)
        /\ cycle' = c

-----------------------------------------------------------------------------
AwaitingPrice == cycle.status \in SecondPhase /\ cycle.secondPrice = 0

ActivateCompletion(books, batch) ==
    /\ AwaitingPrice
    /\ CompletionPrice(Ceiling(cycle), books[SecondSide(cycle)]) > 0
    /\ cycle' = WithCompletion(cycle, books[SecondSide(cycle)])

KeepAwaiting(books, batch) ==
    /\ AwaitingPrice
    /\ CompletionPrice(Ceiling(cycle), books[SecondSide(cycle)]) = 0
    /\ cycle' = IF StrandedExpired(cycle) THEN TimedOut(cycle, books) ELSE cycle

AfterSecond(batch) ==
    LET remaining == Size - cycle.secondFilled
        bought == FilledBy(batch.volume, batch.swept, remaining, cycle.secondQueue)
    IN  [cycle EXCEPT
           !.secondQueue = QueueAfter(batch.volume, batch.swept, remaining, @),
           !.secondFilled = @ + bought,
           !.secondNotional = @ + bought * cycle.secondPrice,
           !.status = IF cycle.secondFilled + bought > 0 THEN "COMPLETION_PARTIAL" ELSE @]

CompletionResting == cycle.status \in SecondPhase /\ cycle.secondPrice > 0

\* Mutated form: one share short of the order size counts as complete.
CompletePairOneShort(books, batch) ==
    LET c == AfterSecond(batch)
    IN  /\ CompletionResting
        /\ c.secondFilled >= Size - 1
        /\ cycle' = [c EXCEPT !.status = "COMPLETED",
                              !.locked = LockedPnL(c),
                              !.paper = LockedPnL(c)]

\* completeCycle.  A fill that arrives with or after the deadline still counts.
CompletePair(books, batch) ==
    LET c == AfterSecond(batch)
    IN  /\ CompletionResting
        /\ c.secondFilled = Size
        /\ cycle' = [c EXCEPT !.status = "COMPLETED",
                              !.locked = LockedPnL(c),
                              !.paper = LockedPnL(c)]

CompletionTimesOut(books, batch) ==
    LET c == AfterSecond(batch)
    IN  /\ CompletionResting
        /\ c.secondFilled < Size
        /\ StrandedExpired(c)
        /\ cycle' = TimedOut(c, books)

\* The order moves up with its book; it loses its place in the queue.
CompletionRests(books, batch) ==
    LET c      == AfterSecond(batch)
        b      == books[SecondSide(c)]
        urgent == now - c.postedAt >= SoftCompletion
        price  == Repriced(c.secondPrice, Ceiling(c), b, urgent)
    IN  /\ CompletionResting
        /\ c.secondFilled < Size
        /\ ~StrandedExpired(c)
        /\ cycle' = IF price > c.secondPrice
                    THEN [c EXCEPT !.secondPrice = price, !.secondQueue = b.queue[price]]
                    ELSE c

\* An open row of the previous executor is closed at the first call.
InvalidateLegacy(books, batch) ==
    /\ cycle.status \in Legacy
    /\ cycle' = [cycle EXCEPT !.status = "DATA_GAP_INVALID", !.paper = 0]

AdvancePaperCycle(books, batch) ==
    /\ \/ FirstLegFull(books, batch)
       \/ ExpireNoFill(books, batch)
       \/ FirstLegTimesOut(books, batch)
       \/ FirstLegRests(books, batch)
       \/ ActivateCompletion(books, batch)
       \/ KeepAwaiting(books, batch)
       \/ CompletePair(books, batch)
       \/ CompletionTimesOut(books, batch)
       \/ CompletionRests(books, batch)
       \/ InvalidateLegacy(books, batch)
    /\ lastBook' = books
    /\ UNCHANGED now

InvalidateDataGap ==
    /\ IsOpen(cycle)
    /\ cycle' = [cycle EXCEPT !.status = "DATA_GAP_INVALID", !.paper = 0, !.locked = 0]
    /\ UNCHANGED <<lastBook, now>>

\* ClosePaperCycleForMarketChange: unmatched shares are marked at the bid of
\* the last book seen, for all of them.
CloseForMarketChange ==
    /\ IsOpen(cycle)
    /\ cycle' = IF cycle.firstFilled = 0
                THEN [cycle EXCEPT !.status = "EXPIRED_NO_FILL"]
                ELSE [cycle EXCEPT
                        !.status = "STRANDED_TIMEOUT",
                        !.locked = LockedPnL(cycle),
                        !.paper = LockedPnL(cycle) + Unmatched(cycle)
                                    * (lastBook[cycle.firstSide].bid - cycle.firstPrice)]
    /\ UNCHANGED <<lastBook, now>>

\* Time, bounded by MaxTime.
Tick == /\ now < MaxTime
        /\ now' = now + 1
        /\ UNCHANGED <<cycle, lastBook>>

\* The process starts without a cycle, or with an open row left by the
\* previous executor, which the new fields leave without prices or times.
LegacyRow(status, price) ==
    [NoCycle EXCEPT !.status = status,
                    !.firstPrice = price,
                    !.firstFilled = IF status = "ONE_LEG_FILLED" THEN Size ELSE 0]

Init == /\ cycle \in {NoCycle} \cup {LegacyRow(s, p) : s \in Legacy, p \in Prices}
        /\ lastBook \in BookPairs
        /\ now = 0

Next == \/ \E books \in BookPairs, side \in Sides : Post(books, side)
        \/ \E books \in BookPairs, batch \in Batches : AdvancePaperCycle(books, batch)
        \/ InvalidateDataGap
        \/ CloseForMarketChange
        \/ Tick

Spec == Init /\ [][Next]_vars

\* The once-a-second loop keeps calling AdvancePaperCycle as long as the books
\* can be fetched and the stream is healthy, and the clock does not stop.
FairSpec == /\ Spec
            /\ WF_vars(Tick)
            /\ WF_vars(\E books \in BookPairs, batch \in Batches :
                          AdvancePaperCycle(books, batch))

-----------------------------------------------------------------------------
PaperCycles ==
    [status : {"NONE"} \cup OpenStatuses \cup Terminal,
     firstSide : Sides,
     firstPrice : 0..(Dollar - 1),
     firstFilled : 0..Size,
     firstQueue : Nat,
     secondPrice : 0..(Dollar - 1),
     secondFilled : 0..Size,
     secondNotional : Nat,
     secondQueue : Nat,
     completionMax : [Sides -> Nat],
     createdAt : Nat,
     firstPartialAt : Int,
     postedAt : Int,
     locked : Int,
     paper : Int]

\* Every field keeps to the values the code's types and sizes allow.
TypeOK == /\ cycle \in PaperCycles
          /\ lastBook \in BookPairs
          /\ now \in Nat

\* The accounts behind the verdicts, true after every step: the second leg is
\* bought only once the first is full, never above the ceiling fixed when the
\* cycle was posted, so what was paid for it leaves the edge and the buffer on
\* every share; profit is booked by the verdict and not before.  The
\* properties below follow from it (module ArbPaperCycleProofs).
Accounted(c) ==
    LET most == Dollar - c.firstPrice - MinEdge - Buffer
    IN  /\ c.status = "NONE" => c.firstFilled = 0
        /\ c.status \in FirstPhase => c.firstFilled < Size
        /\ c.status = "RESTING_FIRST" => c.firstFilled = 0
        /\ c.status = "FIRST_PARTIAL" => c.firstFilled > 0
        /\ c.status \in FirstPhase \cup SecondPhase /\ Ceiling(c) > 0 => Ceiling(c) <= most
        /\ c.status \in SecondPhase =>
              /\ c.firstFilled = Size
              /\ c.secondFilled < Size
              /\ c.secondPrice <= Ceiling(c)
              /\ c.secondNotional <= c.secondFilled * most
        /\ c.status \in {"NONE", "EXPIRED_NO_FILL"} \cup FirstPhase \cup Legacy =>
              c.secondFilled = 0 /\ c.secondNotional = 0
        /\ c.status \in {"NONE"} \cup OpenStatuses => c.locked = 0 /\ c.paper = 0

AccountsBalance == Accounted(cycle)

\* Whatever the cycle matched before its verdict locked at least the paper
\* edge and the operational buffer per pair: no sequence of partial fills and
\* upward reprices of the completion order buys a pair at a loss.
MatchedPairsKeepTheEdge ==
    cycle.status \in {"COMPLETED", "STRANDED_TIMEOUT"} =>
        cycle.locked >= cycle.secondFilled * (MinEdge + Buffer)

\* A verdict says what was bought: COMPLETED is a full pair, EXPIRED_NO_FILL
\* bought nothing, STRANDED_TIMEOUT holds unmatched shares.
VerdictMatchesFills ==
    /\ cycle.status = "COMPLETED" => cycle.firstFilled = Size /\ cycle.secondFilled = Size
    /\ cycle.status = "EXPIRED_NO_FILL" => cycle.firstFilled = 0 /\ cycle.secondFilled = 0
    /\ cycle.status = "STRANDED_TIMEOUT" => cycle.secondFilled < cycle.firstFilled

\* The cash check at posting reserves the planned cost of both legs.  Whatever
\* way the cycle ends, and at any moment before, it has not lost more than the
\* first leg's share of that reserve.
LossWithinReserve == cycle.paper >= -(Size * cycle.firstPrice)

\* The completion order is post-only on the book it was priced from, stays
\* under its economic ceiling, and only ever moves up.
CompletionPricedSafely ==
    [][LET c == cycle'
       IN  /\ c.status \in SecondPhase
           /\ c.secondPrice # cycle.secondPrice
           /\ c.secondPrice > 0
           => /\ c.secondPrice < lastBook'[SecondSide(c)].ask
              /\ c.secondPrice <= Ceiling(c)
              /\ cycle.status \in SecondPhase => c.secondPrice > cycle.secondPrice]_vars

\* "a 5-second hard stranded-risk window" (docs/maker-arb-shadow.md): once it
\* is over, or the market is about to close, no completion order is posted.
NoPostingPastHardWindow ==
    [][LET c == cycle'
       IN  /\ c.status \in SecondPhase
           /\ c.secondPrice > 0
           /\ cycle.status \in FirstPhase \/ cycle.secondPrice = 0
           => ~StrandedExpired(c)]_vars

\* "Trades from the batch that completed the first leg cannot retroactively
\* fill the second leg" (docs/maker-arb-shadow.md), and a verdict is final.
OneLegPerBatch ==
    [][/\ cycle'.secondFilled # cycle.secondFilled => cycle.firstFilled = Size
       /\ cycle.status \in Terminal => cycle' = cycle]_vars

\* While the loop runs, an open cycle reaches a verdict.
EventuallyClosed == IsOpen(cycle) ~> cycle.status \in Terminal

-----------------------------------------------------------------------------
(***************************************************************************)
(* The cycle keeps the promise of MakerPair.                               *)
(***************************************************************************)
StageOf(c) == IF c.status \in OpenStatuses THEN "open"
              ELSE [NONE |-> "none", COMPLETED |-> "paired", STRANDED_TIMEOUT |-> "stranded",
                    EXPIRED_NO_FILL |-> "unfilled", DATA_GAP_INVALID |-> "void"][c.status]

Pair == INSTANCE MakerPair WITH Margin <- MinEdge + Buffer,
                                stage <- StageOf(cycle),
                                first <- cycle.firstFilled,
                                second <- cycle.secondFilled,
                                locked <- cycle.locked

\* ArbPaperCycle implements MakerPair.
ImplementsMakerPair == Pair!PairSpec
=============================================================================
