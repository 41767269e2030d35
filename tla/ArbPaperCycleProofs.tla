------------------------- MODULE ArbPaperCycleProofs -------------------------
(***************************************************************************)
(* The safety properties of a maker paper cycle, for every order size,     *)
(* edge, buffer, timeout, set of books and set of trade batches.           *)
(*                                                                         *)
(* The inductive invariant is Sound(cycle): the accounts (Accounted) with  *)
(* what the verdicts say of them.  One lemma per outcome of a call shows   *)
(* that it leaves a sound record; the invariance proof then only has to    *)
(* match each action with its lemma.                                       *)
(***************************************************************************)
EXTENDS ArbPaperCycle, TLAPS

-----------------------------------------------------------------------------
(***************************************************************************)
(* Facts about the price operators of ArbPricing, for every tick, edge and *)
(* book.                                                                   *)
(***************************************************************************)
\* Rounding down to a tick never rounds up.
LEMMA FloorIsBelow ==
  ASSUME NEW v \in Int, NEW tick \in Nat \ {0}
  PROVE  FloorToTick(v, tick) \in Int /\ FloorToTick(v, tick) <= v
  BY DEF FloorToTick

\* The numbers of a book the prices are computed from.
PricedBook(b) == /\ b.bid \in Nat /\ b.ask \in Nat /\ b.tick \in Nat
                 /\ ValidBook(b)

LEMMA PostOnlyIsBelowAsk ==
  ASSUME NEW b, PricedBook(b)
  PROVE  PostOnlyCeiling(b) \in Int /\ PostOnlyCeiling(b) < b.ask
<1>1. b.ask - b.tick \in Int /\ b.tick \in Nat \ {0} /\ b.ask - b.tick < b.ask
  BY DEF PricedBook, ValidBook
<1>2. QED
  BY <1>1, FloorIsBelow DEF PostOnlyCeiling, PricedBook

\* A maker price is below the ask it must not touch.
LEMMA MakerPriceIsBelowAsk ==
  ASSUME NEW b, PricedBook(b)
  PROVE  MakerBuyPrice(b) \in 0..(b.ask - 1)
<1>1. /\ FloorToTick(b.bid, b.tick) \in Int
      /\ FloorToTick(b.bid + b.tick, b.tick) \in Int
  BY FloorIsBelow DEF PricedBook, ValidBook
<1>2. QED
  BY <1>1 DEF MakerBuyPrice, PricedBook, ValidBook

\* Whoever buys the first leg at `filled' and the second at the completion
\* ceiling or below keeps the edge and the buffer.
LEMMA CompletionMaxKeepsTheEdge ==
  ASSUME NEW filled \in Nat, NEW b, PricedBook(b)
  PROVE  /\ CompletionMax(filled, b) \in Nat
         /\ CompletionMax(filled, b) > 0 =>
                CompletionMax(filled, b) <= Dollar - filled - MinEdge - Buffer
<1>1. Dollar - filled - MinEdge - Buffer \in Int
  BY PricingAssumption DEF PricingAssumption
<1>2. /\ FloorToTick(Dollar - filled - MinEdge - Buffer, b.tick) \in Int
      /\ FloorToTick(Dollar - filled - MinEdge - Buffer, b.tick)
            <= Dollar - filled - MinEdge - Buffer
  BY <1>1, FloorIsBelow DEF PricedBook, ValidBook
<1>3. PostOnlyCeiling(b) \in Int
  BY PostOnlyIsBelowAsk
<1>4. QED
  BY <1>1, <1>2, <1>3 DEF CompletionMax, Lesser, Greater

\* The planned price of the second leg is a price of its book.
LEMMA StartPriceIsBelowAsk ==
  ASSUME NEW filled \in Nat, NEW b, PricedBook(b)
  PROVE  CompletionStartPrice(filled, b) \in 0..(b.ask - 1)
<1>1. CompletionMax(filled, b) \in Nat
  BY CompletionMaxKeepsTheEdge
<1>2. MakerBuyPrice(b) \in 0..(b.ask - 1)
  BY MakerPriceIsBelowAsk
<1>3. PostOnlyCeiling(b) \in Int
  BY PostOnlyIsBelowAsk
<1>4. QED
  BY <1>1, <1>2, <1>3 DEF CompletionStartPrice, Lesser, PricedBook, ValidBook

\* A completion order is posted below the ask and within its ceiling.
LEMMA CompletionPriceIsSafe ==
  ASSUME NEW ceiling \in Nat, NEW b, PricedBook(b)
  PROVE  /\ CompletionPrice(ceiling, b) \in 0..(b.ask - 1)
         /\ CompletionPrice(ceiling, b) <= ceiling
<1>1. MakerBuyPrice(b) \in 0..(b.ask - 1)
  BY MakerPriceIsBelowAsk
<1>2. PostOnlyCeiling(b) \in Int
  BY PostOnlyIsBelowAsk
<1>3. Lesser(ceiling, PostOnlyCeiling(b)) \in Int
  BY <1>2 DEF Lesser
<1>4. FloorToTick(Lesser(ceiling, PostOnlyCeiling(b)), b.tick) \in Int
  BY <1>3, FloorIsBelow DEF PricedBook, ValidBook
<1>5. QED
  BY <1>1, <1>4 DEF CompletionPrice, PricedBook, ValidBook

\* A repriced order moves up, stays within its ceiling and below the ask.
LEMMA RepricedIsSafe ==
  ASSUME NEW current \in Nat, NEW ceiling \in Nat, current <= ceiling,
         NEW urgent \in BOOLEAN, NEW b, PricedBook(b)
  PROVE  LET p == Repriced(current, ceiling, b, urgent)
         IN  /\ p \in Nat /\ p >= current /\ p <= ceiling
             /\ p # current => p < b.ask
<1>1. PostOnlyCeiling(b) \in Int
  BY PostOnlyIsBelowAsk
<1>2. Lesser(ceiling, PostOnlyCeiling(b)) \in Int
  BY <1>1 DEF Lesser
<1>3. /\ FloorToTick(Lesser(ceiling, PostOnlyCeiling(b)), b.tick) \in Int
      /\ FloorToTick(b.bid + b.tick, b.tick) \in Int
      /\ FloorToTick(ceiling, b.tick) \in Int
      /\ FloorToTick(ceiling, b.tick) <= ceiling
  BY <1>2, FloorIsBelow DEF PricedBook, ValidBook
<1>4. QED
  BY <1>1, <1>3 DEF Repriced, Lesser, PricedBook, ValidBook

-----------------------------------------------------------------------------
(***************************************************************************)
(* What a sound cycle is.                                                  *)
(***************************************************************************)

Sound(c) ==
    /\ c \in PaperCycles
    /\ Accounted(c)
    /\ c.status \in {"COMPLETED", "STRANDED_TIMEOUT"} =>
           c.locked >= c.secondFilled * (MinEdge + Buffer)
    /\ c.status = "COMPLETED" => c.firstFilled = Size /\ c.secondFilled = Size
    /\ c.status = "EXPIRED_NO_FILL" => c.firstFilled = 0 /\ c.secondFilled = 0
    /\ c.status = "STRANDED_TIMEOUT" => c.secondFilled < c.firstFilled
    /\ c.paper >= -(Size * c.firstPrice)

IInv == /\ Sound(cycle)
        /\ lastBook \in BookPairs
        /\ now \in Nat

-----------------------------------------------------------------------------
\* Constants and books.

LEMMA Constants ==
  /\ Dollar \in Nat \ {0} /\ MinEdge \in Nat \ {0} /\ Buffer \in Nat \ {0}
  /\ Size \in Nat \ {0} /\ MaxTime \in Nat
  /\ Prices = 1..(Dollar - 1)
  BY PricingAssumption, CycleAssumption DEF PricingAssumption, CycleAssumption, Prices

\* Every book the loop hands over is a book, on the side it was asked for.
LEMMA BooksAreBooks ==
  ASSUME NEW books \in BookPairs, NEW s \in Sides
  PROVE  IsBook(books[s]) /\ PricedBook(books[s]) /\ books[s].ask < Dollar
<1>1. books["UP"] \in UpBooks /\ books["DOWN"] \in DownBooks
  BY DEF BookPairs
<1>2. IsBook(books[s])
  BY <1>1, CycleAssumption DEF CycleAssumption, Sides
<1>3. /\ books[s].bid \in 1..(Dollar - 1) /\ books[s].ask \in 1..(Dollar - 1)
      /\ books[s].tick \in 1..(Dollar - 1)
      /\ ValidBook(books[s])
  BY <1>2 DEF IsBook, Prices
<1>4. books[s].ask < Dollar
  BY <1>3 DEF ValidBook
<1>5. PricedBook(books[s])
  BY <1>3 DEF PricedBook
<1>6. QED
  BY <1>2, <1>4, <1>5

\* What a batch buys is part of what the order still wants.
LEMMA FillIsPart ==
  ASSUME NEW t \in Batches, NEW remaining \in Nat, NEW queue \in Nat
  PROVE  /\ FilledBy(t.volume, t.swept, remaining, queue) \in 0..remaining
         /\ QueueAfter(t.volume, t.swept, remaining, queue) \in Nat
<1>1. t.volume \in Nat /\ t.swept \in BOOLEAN
  BY CycleAssumption DEF CycleAssumption
<1>2. /\ Lesser(remaining, Greater(0, t.volume - queue)) \in 0..remaining
      /\ Greater(0, queue - t.volume) \in Nat
  BY <1>1 DEF Lesser, Greater
<1>3. remaining \in 0..remaining /\ 0 \in Nat
  OBVIOUS
<1>4. QED
  BY <1>2, <1>3, Zenon DEF FilledBy, QueueAfter

-----------------------------------------------------------------------------
\* Arithmetic of the accounts.

\* Buying more at no more than `most' a share keeps the whole cost under it.
LEMMA CostStaysBelow ==
  ASSUME NEW held \in Nat, NEW bought \in Nat, NEW cost \in Nat,
         NEW price \in Nat, NEW most \in Int,
         cost <= held * most, price <= most
  PROVE  cost + bought * price <= (held + bought) * most
<1>1. bought * price <= bought * most
  OBVIOUS
<1>2. (held + bought) * most = held * most + bought * most
  OBVIOUS
<1>3. bought * price \in Int /\ bought * most \in Int /\ held * most \in Int
  OBVIOUS
<1>4. QED
  BY <1>1, <1>2, <1>3

LEMMA TimesGrows ==
  ASSUME NEW a \in Nat, NEW b \in Nat, NEW price \in Nat, a <= b
  PROVE  a * price <= b * price
  OBVIOUS

LEMMA TimesIsNat ==
  ASSUME NEW a \in Nat, NEW b \in Nat
  PROVE  a * b \in Nat
  OBVIOUS

\* Selling what costs at most `most' a share for `gross' leaves the rest.
LEMMA MarginIsKept ==
  ASSUME NEW held \in Nat, NEW cost \in Nat, NEW gross \in Int, NEW margin \in Int,
         cost <= held * (gross - margin)
  PROVE  held * gross - cost >= held * margin
<1>1. held * (gross - margin) = held * gross - held * margin
  OBVIOUS
<1>2. held * gross \in Int /\ held * margin \in Int
  OBVIOUS
<1>3. QED
  BY <1>1, <1>2

-----------------------------------------------------------------------------
\* The fields of a cycle.

LEMMA FieldTypes ==
  ASSUME NEW c \in PaperCycles
  PROVE  /\ c.status \in {"NONE"} \cup OpenStatuses \cup Terminal
         /\ c.firstSide \in Sides /\ SecondSide(c) \in Sides
         /\ c.firstPrice \in Nat /\ c.firstPrice < Dollar
         /\ c.firstFilled \in Nat /\ c.firstFilled <= Size
         /\ c.firstQueue \in Nat
         /\ c.secondPrice \in Nat /\ c.secondPrice < Dollar
         /\ c.secondFilled \in Nat /\ c.secondFilled <= Size
         /\ c.secondNotional \in Nat
         /\ c.secondQueue \in Nat
         /\ c.completionMax \in [Sides -> Nat] /\ Ceiling(c) \in Nat
         /\ c.createdAt \in Nat
         /\ c.firstPartialAt \in Int /\ c.postedAt \in Int
         /\ c.locked \in Int /\ c.paper \in Int
<1>1. /\ c.status \in {"NONE"} \cup OpenStatuses \cup Terminal
      /\ c.firstSide \in Sides
      /\ c.firstPrice \in 0..(Dollar - 1)
      /\ c.firstFilled \in 0..Size
      /\ c.firstQueue \in Nat
      /\ c.secondPrice \in 0..(Dollar - 1)
      /\ c.secondFilled \in 0..Size
      /\ c.secondNotional \in Nat
      /\ c.secondQueue \in Nat
      /\ c.completionMax \in [Sides -> Nat]
      /\ c.createdAt \in Nat
      /\ c.firstPartialAt \in Int /\ c.postedAt \in Int
      /\ c.locked \in Int /\ c.paper \in Int
  BY DEF PaperCycles
<1>2. SecondSide(c) \in Sides
  BY DEF SecondSide, Other, Sides
<1>3. Ceiling(c) \in Nat
  BY <1>1, <1>2 DEF Ceiling
<1>4. /\ c.firstPrice \in Nat /\ c.firstPrice < Dollar
      /\ c.secondPrice \in Nat /\ c.secondPrice < Dollar
  BY <1>1, Constants
<1>5. /\ c.firstFilled \in Nat /\ c.firstFilled <= Size
      /\ c.secondFilled \in Nat /\ c.secondFilled <= Size
  BY <1>1, Constants
<1>6. QED
  BY <1>1, <1>2, <1>3, <1>4, <1>5

\* The verdict of a cycle whose unmatched shares are sold for `proceeds'.
LEMMA StrandedIsSound ==
  ASSUME NEW c \in PaperCycles, NEW proceeds \in Nat,
         c.secondFilled < c.firstFilled,
         c.secondNotional <= c.secondFilled * (Dollar - c.firstPrice - MinEdge - Buffer)
  PROVE  Sound([c EXCEPT !.status = "STRANDED_TIMEOUT",
                         !.locked = LockedPnL(c),
                         !.paper = LockedPnL(c) + proceeds - Unmatched(c) * c.firstPrice])
<1> DEFINE d == [c EXCEPT !.status = "STRANDED_TIMEOUT",
                          !.locked = LockedPnL(c),
                          !.paper = LockedPnL(c) + proceeds - Unmatched(c) * c.firstPrice]
<1>1. /\ c.firstPrice \in Nat /\ c.firstFilled \in Nat /\ c.secondFilled \in Nat
      /\ c.secondNotional \in Nat /\ c.firstFilled <= Size
  BY FieldTypes
<1>2. Matched(c) = c.secondFilled
  BY <1>1 DEF Matched, Lesser
<1>3. /\ LockedPnL(c) = c.secondFilled * (Dollar - c.firstPrice) - c.secondNotional
      /\ Unmatched(c) = c.firstFilled - c.secondFilled
  BY <1>2 DEF LockedPnL, Unmatched
<1>4. /\ LockedPnL(c) \in Int /\ Unmatched(c) \in Nat /\ Unmatched(c) <= Size
      /\ Unmatched(c) * c.firstPrice \in Nat
  <2>1. Dollar - c.firstPrice \in Int
    BY <1>1, Constants
  <2>2. c.secondFilled * (Dollar - c.firstPrice) \in Int
    BY <1>1, <2>1
  <2>3. LockedPnL(c) \in Int
    <3> HIDE DEF d
    <3>1. \A x \in Int : x - c.secondNotional \in Int
      BY <1>1
    <3>2. QED
      BY <1>3, <2>2, <3>1
  <2>4. Unmatched(c) \in Nat /\ Unmatched(c) <= Size
    <3>1. Size \in Nat
      BY Constants
    <3>2. c.firstFilled - c.secondFilled \in Nat /\ c.firstFilled - c.secondFilled <= Size
      BY ONLY <1>1, <3>1, c.secondFilled <= c.firstFilled
    <3>3. QED
      BY <1>3, <3>2
  <2>5. Unmatched(c) * c.firstPrice \in Nat
    BY <1>1, <2>4, TimesIsNat
  <2>6. QED
    BY <2>3, <2>4, <2>5
<1>5. LockedPnL(c) >= c.secondFilled * (MinEdge + Buffer)
  <2>1. c.secondNotional <= c.secondFilled * ((Dollar - c.firstPrice) - (MinEdge + Buffer))
    BY <1>1, Constants
  <2>2. Dollar - c.firstPrice \in Int /\ MinEdge + Buffer \in Int
    <3>1. Dollar \in Int /\ c.firstPrice \in Int /\ MinEdge \in Int /\ Buffer \in Int
      BY <1>1, Constants
    <3>2. QED
      BY <3>1
  <2>3. QED
    BY <1>1, <1>3, <2>1, <2>2, MarginIsKept
<1>6. c.secondFilled * (MinEdge + Buffer) >= 0
  BY <1>1, Constants
<1>7. Unmatched(c) * c.firstPrice <= Size * c.firstPrice
  BY <1>1, <1>4, Constants, TimesGrows
<1>8. LockedPnL(c) + proceeds - Unmatched(c) * c.firstPrice >= -(Size * c.firstPrice)
  <2>1. Size * c.firstPrice \in Nat /\ c.secondFilled * (MinEdge + Buffer) \in Int
    <3>1. Size \in Nat /\ MinEdge + Buffer \in Nat
      BY Constants
    <3>2. QED
      BY <1>1, <3>1, TimesIsNat
  <2>2. QED
    BY <1>4, <1>5, <1>6, <1>7, <2>1
<1>9. /\ d.status = "STRANDED_TIMEOUT"
      /\ d.locked = LockedPnL(c)
      /\ d.paper = LockedPnL(c) + proceeds - Unmatched(c) * c.firstPrice
      /\ d.firstPrice = c.firstPrice
      /\ d.firstFilled = c.firstFilled
      /\ d.secondFilled = c.secondFilled
  BY DEF PaperCycles
<1>10. d \in PaperCycles
  <2>1. LockedPnL(c) + proceeds - Unmatched(c) * c.firstPrice \in Int
    BY <1>4
  <2>2. QED
    BY <1>4, <2>1 DEF PaperCycles, Terminal
<1>11. Accounted(d)
  BY <1>9 DEF Accounted, FirstPhase, SecondPhase, Legacy, OpenStatuses
<1>12. QED
  BY <1>5, <1>8, <1>9, <1>10, <1>11 DEF Sound

\* timeoutStranded sells the unmatched shares for what the bids bring.
LEMMA TimedOutIsSound ==
  ASSUME NEW c \in PaperCycles, NEW books \in BookPairs,
         c.secondFilled < c.firstFilled,
         c.secondNotional <= c.secondFilled * (Dollar - c.firstPrice - MinEdge - Buffer)
  PROVE  Sound(TimedOut(c, books))
<1>1. /\ c.firstSide \in Sides /\ c.firstFilled \in Nat /\ c.firstFilled <= Size
      /\ c.secondFilled \in Nat
  BY FieldTypes
<1>2. IsBook(books[c.firstSide])
  BY <1>1, BooksAreBooks
<1>3. Unmatched(c) \in 0..Size
  BY <1>1, Constants DEF Unmatched, Matched, Lesser
<1>4. books[c.firstSide].sell[Unmatched(c)] \in Nat
  BY <1>2, <1>3 DEF IsBook
<1>5. QED
  BY <1>4, StrandedIsSound DEF TimedOut

\* The verdict of a full pair.
LEMMA PairIsSound ==
  ASSUME NEW c \in PaperCycles,
         c.firstFilled = Size, c.secondFilled = Size,
         c.secondNotional <= c.secondFilled * (Dollar - c.firstPrice - MinEdge - Buffer)
  PROVE  Sound([c EXCEPT !.status = "COMPLETED", !.locked = LockedPnL(c),
                         !.paper = LockedPnL(c)])
<1> DEFINE d == [c EXCEPT !.status = "COMPLETED", !.locked = LockedPnL(c),
                          !.paper = LockedPnL(c)]
<1>1. /\ c.firstPrice \in Nat /\ c.firstFilled \in Nat /\ c.secondFilled \in Nat
      /\ c.secondNotional \in Nat
  BY FieldTypes
<1>2. LockedPnL(c) = c.secondFilled * (Dollar - c.firstPrice) - c.secondNotional
  BY <1>1 DEF LockedPnL, Matched, Lesser
<1>3. LockedPnL(c) \in Int
  <2>1. Dollar - c.firstPrice \in Int
    BY <1>1, Constants
  <2>2. c.secondFilled * (Dollar - c.firstPrice) \in Int
    BY <1>1, <2>1
  <2>3. QED
    BY <1>1, <1>2, <2>2
<1>4. LockedPnL(c) >= c.secondFilled * (MinEdge + Buffer)
  <2>1. c.secondNotional <= c.secondFilled * ((Dollar - c.firstPrice) - (MinEdge + Buffer))
    BY <1>1, Constants
  <2>2. Dollar - c.firstPrice \in Int /\ MinEdge + Buffer \in Int
    BY <1>1, Constants
  <2>3. QED
    BY <1>1, <1>2, <2>1, <2>2, MarginIsKept
<1>5. LockedPnL(c) >= -(Size * c.firstPrice)
  <2>1. c.secondFilled * (MinEdge + Buffer) \in Nat /\ Size * c.firstPrice \in Nat
    BY <1>1, Constants
  <2>2. QED
    BY <1>3, <1>4, <2>1
<1>6. /\ d.status = "COMPLETED" /\ d.locked = LockedPnL(c) /\ d.paper = LockedPnL(c)
      /\ d.firstPrice = c.firstPrice /\ d.firstFilled = c.firstFilled
      /\ d.secondFilled = c.secondFilled
  BY DEF PaperCycles
<1>7. d \in PaperCycles
  BY <1>3 DEF PaperCycles, Terminal
<1>8. Accounted(d)
  BY <1>6 DEF Accounted, FirstPhase, SecondPhase, Legacy, OpenStatuses
<1>9. QED
  BY <1>4, <1>5, <1>6, <1>7, <1>8 DEF Sound

-----------------------------------------------------------------------------
\* The records the handlers build before they decide.

\* A batch on the first order: still the first leg, maybe more of it.
LEMMA AfterFirstFacts ==
  ASSUME NEW batch \in Batches, now \in Nat,
         Sound(cycle), cycle.status \in FirstPhase
  PROVE  /\ AfterFirst(batch) \in PaperCycles
         /\ AfterFirst(batch).firstPrice = cycle.firstPrice
         /\ AfterFirst(batch).firstSide = cycle.firstSide
         /\ AfterFirst(batch).completionMax = cycle.completionMax
         /\ AfterFirst(batch).secondFilled = 0
         /\ AfterFirst(batch).secondNotional = 0
         /\ AfterFirst(batch).locked = 0
         /\ AfterFirst(batch).paper = 0
         /\ AfterFirst(batch).status \in FirstPhase
         /\ AfterFirst(batch).status = "RESTING_FIRST" <=> AfterFirst(batch).firstFilled = 0
<1> DEFINE remaining == Size - cycle.firstFilled
           bought == FilledBy(batch.volume, batch.swept, remaining, cycle.firstQueue)
           c == AfterFirst(batch)
<1>1. /\ cycle \in PaperCycles
      /\ cycle.firstFilled \in Nat /\ cycle.firstFilled <= Size
      /\ cycle.firstQueue \in Nat /\ cycle.firstPartialAt \in Int
      /\ cycle.secondFilled = 0 /\ cycle.secondNotional = 0
      /\ cycle.locked = 0 /\ cycle.paper = 0
      /\ cycle.status = "RESTING_FIRST" => cycle.firstFilled = 0
      /\ cycle.status = "FIRST_PARTIAL" => cycle.firstFilled > 0
  BY FieldTypes DEF Sound, Accounted, OpenStatuses
<1>2. remaining \in Nat
  BY <1>1, Constants
<1>3. /\ bought \in 0..remaining
      /\ QueueAfter(batch.volume, batch.swept, remaining, cycle.firstQueue) \in Nat
  BY <1>1, <1>2, FillIsPart
<1>4. cycle.firstFilled + bought \in 0..Size
  BY <1>1, <1>3, Constants
<1>5. (IF bought > 0 /\ cycle.firstPartialAt = NoTime
       THEN EventOrNow(now - batch.age) ELSE cycle.firstPartialAt) \in Int
  BY <1>1, CycleAssumption DEF EventOrNow, CycleAssumption
<1> DEFINE status == IF cycle.firstFilled + bought > 0 THEN "FIRST_PARTIAL" ELSE cycle.status
<1>6. /\ status \in FirstPhase
      /\ status = "RESTING_FIRST" <=> cycle.firstFilled + bought = 0
  BY <1>1, <1>3 DEF FirstPhase
<1>7. c = [cycle EXCEPT
             !.firstQueue = QueueAfter(batch.volume, batch.swept, remaining, @),
             !.firstFilled = @ + bought,
             !.firstPartialAt = IF bought > 0 /\ @ = NoTime
                                THEN EventOrNow(now - batch.age) ELSE @,
             !.status = status]
  BY <1>1 DEF AfterFirst, PaperCycles
<1> HIDE DEF bought, status, remaining, c
<1>8. c \in PaperCycles
  BY <1>1, <1>3, <1>4, <1>5, <1>6, <1>7 DEF PaperCycles, OpenStatuses
<1>9. /\ c.firstPrice = cycle.firstPrice /\ c.firstSide = cycle.firstSide
      /\ c.completionMax = cycle.completionMax
      /\ c.secondFilled = cycle.secondFilled /\ c.secondNotional = cycle.secondNotional
      /\ c.locked = cycle.locked /\ c.paper = cycle.paper
      /\ c.status = status /\ c.firstFilled = cycle.firstFilled + bought
  BY <1>1, <1>7 DEF PaperCycles
<1>10. QED
  BY <1>1, <1>6, <1>8, <1>9 DEF c

\* Posting the completion order touches nothing but the order.
LEMMA WithCompletionFacts ==
  ASSUME NEW c \in PaperCycles, NEW b, IsBook(b), PricedBook(b), b.ask < Dollar
  PROVE  /\ WithCompletion(c, b) \in PaperCycles
         /\ WithCompletion(c, b).secondPrice = CompletionPrice(Ceiling(c), b)
         /\ WithCompletion(c, b).secondPrice <= Ceiling(c)
         /\ WithCompletion(c, b).status = c.status
         /\ WithCompletion(c, b).firstSide = c.firstSide
         /\ WithCompletion(c, b).firstPrice = c.firstPrice
         /\ WithCompletion(c, b).firstFilled = c.firstFilled
         /\ WithCompletion(c, b).completionMax = c.completionMax
         /\ WithCompletion(c, b).secondFilled = c.secondFilled
         /\ WithCompletion(c, b).secondNotional = c.secondNotional
         /\ WithCompletion(c, b).locked = c.locked
         /\ WithCompletion(c, b).paper = c.paper
<1> DEFINE price == CompletionPrice(Ceiling(c), b)
           queue == IF price > 0 THEN b.queue[price] ELSE c.secondQueue
           d == [c EXCEPT !.secondPrice = price, !.secondQueue = queue]
<1>1. Ceiling(c) \in Nat /\ c.secondQueue \in Nat
  BY FieldTypes
<1>2. price \in 0..(b.ask - 1) /\ price <= Ceiling(c)
  BY <1>1, CompletionPriceIsSafe
<1>3. price \in 0..(Dollar - 1)
  BY <1>2, Constants DEF PricedBook
<1> HIDE DEF price
<1>4. queue \in Nat
  <2>1. price > 0 => price \in Prices
    BY <1>3, Constants DEF Prices
  <2>2. price > 0 => b.queue[price] \in Nat
    BY <2>1 DEF IsBook
  <2>3. QED
    BY <1>1, <2>2
<1>5. WithCompletion(c, b) = d
  BY DEF WithCompletion, PaperCycles, price
<1> HIDE DEF queue
<1>6. d \in PaperCycles
  BY <1>3, <1>4 DEF PaperCycles
<1>7. /\ d.secondPrice = price
      /\ d.status = c.status /\ d.firstSide = c.firstSide
      /\ d.firstPrice = c.firstPrice /\ d.firstFilled = c.firstFilled
      /\ d.completionMax = c.completionMax /\ d.secondFilled = c.secondFilled
      /\ d.secondNotional = c.secondNotional
      /\ d.locked = c.locked /\ d.paper = c.paper
  BY DEF PaperCycles
<1> HIDE DEF d
<1>8. QED
  BY <1>2, <1>5, <1>6, <1>7 DEF price

\* A batch on the completion order: what it buys costs at most the ceiling.
LEMMA AfterSecondFacts ==
  ASSUME NEW batch \in Batches, Sound(cycle), CompletionResting
  PROVE  /\ AfterSecond(batch) \in PaperCycles
         /\ AfterSecond(batch).firstSide = cycle.firstSide
         /\ AfterSecond(batch).firstPrice = cycle.firstPrice
         /\ AfterSecond(batch).firstFilled = Size
         /\ AfterSecond(batch).completionMax = cycle.completionMax
         /\ AfterSecond(batch).secondPrice = cycle.secondPrice
         /\ AfterSecond(batch).secondNotional <=
               AfterSecond(batch).secondFilled
                  * (Dollar - AfterSecond(batch).firstPrice - MinEdge - Buffer)
         /\ AfterSecond(batch).locked = 0
         /\ AfterSecond(batch).paper = 0
         /\ AfterSecond(batch).status \in SecondPhase
<1> DEFINE remaining == Size - cycle.secondFilled
           bought == FilledBy(batch.volume, batch.swept, remaining, cycle.secondQueue)
           most == Dollar - cycle.firstPrice - MinEdge - Buffer
           status == IF cycle.secondFilled + bought > 0
                     THEN "COMPLETION_PARTIAL" ELSE cycle.status
           c == AfterSecond(batch)
<1>1. /\ cycle \in PaperCycles
      /\ cycle.status \in SecondPhase /\ cycle.secondPrice > 0
      /\ cycle.firstPrice \in Nat /\ cycle.secondPrice \in Nat
      /\ cycle.secondFilled \in Nat /\ cycle.secondFilled <= Size
      /\ cycle.secondNotional \in Nat /\ cycle.secondQueue \in Nat
      /\ Ceiling(cycle) \in Nat
  BY FieldTypes DEF Sound, CompletionResting
<1>2. /\ cycle.firstFilled = Size
      /\ cycle.secondPrice <= Ceiling(cycle)
      /\ cycle.secondNotional <= cycle.secondFilled * most
      /\ Ceiling(cycle) > 0 => Ceiling(cycle) <= most
      /\ cycle.locked = 0 /\ cycle.paper = 0
  BY <1>1 DEF Sound, Accounted, OpenStatuses
<1>3. most \in Int /\ cycle.secondPrice <= most
  <2>1. Dollar \in Int /\ MinEdge \in Int /\ Buffer \in Int
    BY Constants
  <2>2. most \in Int
    BY <1>1, <2>1
  <2> HIDE DEF most
  <2>3. Ceiling(cycle) > 0
    BY ONLY <1>1, <1>2
  <2>4. cycle.secondPrice <= most
    BY ONLY <1>1, <1>2, <2>2, <2>3
  <2>5. QED
    BY <2>2, <2>4
<1>4. remaining \in Nat
  BY <1>1, Constants
<1>5. /\ bought \in 0..remaining
      /\ QueueAfter(batch.volume, batch.swept, remaining, cycle.secondQueue) \in Nat
  BY <1>1, <1>4, FillIsPart
<1>6. bought \in Nat /\ cycle.secondFilled + bought \in 0..Size
  BY <1>1, <1>5, Constants
<1>7. c = [cycle EXCEPT
             !.secondQueue = QueueAfter(batch.volume, batch.swept, remaining, @),
             !.secondFilled = @ + bought,
             !.secondNotional = @ + bought * cycle.secondPrice,
             !.status = status]
  BY <1>1 DEF AfterSecond, PaperCycles
<1>8. status \in SecondPhase
  BY <1>1 DEF SecondPhase
<1> HIDE DEF bought, status, remaining, c, most
<1>9. cycle.secondNotional + bought * cycle.secondPrice \in Nat
  BY <1>1, <1>6
<1>10. cycle.secondNotional + bought * cycle.secondPrice
          <= (cycle.secondFilled + bought) * most
  BY <1>1, <1>2, <1>3, <1>6, CostStaysBelow
<1>11. c \in PaperCycles
  BY <1>1, <1>5, <1>6, <1>7, <1>8, <1>9 DEF PaperCycles, OpenStatuses
<1>12. /\ c.firstSide = cycle.firstSide /\ c.firstPrice = cycle.firstPrice
       /\ c.firstFilled = cycle.firstFilled /\ c.completionMax = cycle.completionMax
       /\ c.secondPrice = cycle.secondPrice
       /\ c.secondFilled = cycle.secondFilled + bought
       /\ c.secondNotional = cycle.secondNotional + bought * cycle.secondPrice
       /\ c.locked = cycle.locked /\ c.paper = cycle.paper
       /\ c.status = status
  BY <1>1, <1>7 DEF PaperCycles
<1>13. c.secondNotional <= c.secondFilled
                             * (Dollar - c.firstPrice - MinEdge - Buffer)
  BY <1>10, <1>12 DEF most
<1>14. QED
  BY <1>2, <1>8, <1>11, <1>12, <1>13 DEF c

-----------------------------------------------------------------------------
\* A sound open record stays sound as long as it is worth nothing yet.
LEMMA OpenIsSound ==
  ASSUME NEW c \in PaperCycles, Accounted(c),
         c.status \in {"NONE"} \cup OpenStatuses
  PROVE  Sound(c)
<1>1. c.paper = 0 /\ c.firstPrice \in Nat
  BY FieldTypes DEF Accounted
<1>2. c.paper >= -(Size * c.firstPrice)
  BY <1>1, Constants
<1>3. c.status \notin {"COMPLETED", "STRANDED_TIMEOUT", "EXPIRED_NO_FILL"}
  BY DEF OpenStatuses, FirstPhase, SecondPhase, Legacy
<1>4. QED
  BY <1>2, <1>3 DEF Sound

-----------------------------------------------------------------------------
\* The steps.

LEMMA PostIsSound ==
  ASSUME IInv, NEW books \in BookPairs, NEW side \in Sides, Post(books, side)
  PROVE  IInv'
<1> DEFINE other == Other(side)
           price == [s \in Sides |-> MakerBuyPrice(books[s])]
           c == NewPaperCycle(books, side)
<1>1. other \in Sides /\ other # side /\ Other(other) = side
  BY DEF Other, Sides
<1>2. /\ IsBook(books[side]) /\ PricedBook(books[side]) /\ books[side].ask < Dollar
      /\ IsBook(books[other]) /\ PricedBook(books[other]) /\ books[other].ask < Dollar
  BY <1>1, BooksAreBooks
<1>3. \A s \in Sides : price[s] \in Nat /\ price[s] < Dollar
  <2>1. \A s \in Sides : MakerBuyPrice(books[s]) \in 0..(books[s].ask - 1)
    BY BooksAreBooks, MakerPriceIsBelowAsk
  <2>2. \A s \in Sides : books[s].ask \in Nat /\ books[s].ask < Dollar
    BY BooksAreBooks DEF PricedBook
  <2>3. QED
    BY <2>1, <2>2, Constants
<1>4. price[side] > 0
  BY DEF Post
<1>5. CompletionStartPrice(price[side], books[other]) \in 0..(Dollar - 1)
  <2>1. CompletionStartPrice(price[side], books[other]) \in 0..(books[other].ask - 1)
    BY <1>2, <1>3, StartPriceIsBelowAsk
  <2>2. QED
    BY <1>2, <2>1, Constants DEF PricedBook
<1>6. \A s \in Sides : CompletionMax(price[Other(s)], books[s]) \in Nat
  BY <1>3, BooksAreBooks, CompletionMaxKeepsTheEdge DEF Other, Sides
<1>7. CompletionMax(price[side], books[other]) > 0 =>
         CompletionMax(price[side], books[other]) <= Dollar - price[side] - MinEdge - Buffer
  BY <1>2, <1>3, CompletionMaxKeepsTheEdge
<1>8. books[side].queue[price[side]] \in Nat
  <2>1. price[side] \in Prices
    BY <1>3, <1>4, Constants
  <2>2. books[side].queue \in [Prices -> Nat]
    BY <1>2 DEF IsBook
  <2> HIDE DEF price
  <2>3. QED
    BY <2>1, <2>2
<1>9. NoTime \in Int
  BY Constants DEF NoTime
<1>10. now \in Nat
  BY DEF IInv
<1>11. c = [status |-> "RESTING_FIRST",
            firstSide |-> side,
            firstPrice |-> price[side],
            firstFilled |-> 0,
            firstQueue |-> books[side].queue[price[side]],
            secondPrice |-> CompletionStartPrice(price[side], books[other]),
            secondFilled |-> 0,
            secondNotional |-> 0,
            secondQueue |-> 0,
            completionMax |-> [s \in Sides |-> CompletionMax(price[Other(s)], books[s])],
            createdAt |-> now,
            firstPartialAt |-> NoTime,
            postedAt |-> NoTime,
            locked |-> 0,
            paper |-> 0]
  BY DEF NewPaperCycle
<1>12. price[side] \in 0..(Dollar - 1) /\ 0 \in 0..Size
  BY <1>3, Constants
<1> HIDE DEF price, other, c
<1>13. c \in PaperCycles
  BY <1>5, <1>6, <1>8, <1>9, <1>10, <1>11, <1>12 DEF PaperCycles, OpenStatuses, FirstPhase
<1>14. Ceiling(c) = CompletionMax(price[side], books[other])
  <2>1. SecondSide(c) = other
    BY <1>11 DEF SecondSide, other
  <2>2. QED
    BY <1>1, <1>11, <2>1 DEF Ceiling
<1>15. Accounted(c)
  BY <1>7, <1>11, <1>14, Constants
     DEF Accounted, FirstPhase, SecondPhase, Legacy, OpenStatuses
<1>16. Sound(c)
  BY <1>11, <1>13, <1>15, OpenIsSound DEF OpenStatuses, FirstPhase
<1>17. QED
  BY <1>16 DEF IInv, Post, c

\* A call on the first order, whatever it decides.
LEMMA FirstLegIsSound ==
  ASSUME IInv, NEW books \in BookPairs, NEW batch \in Batches,
         \/ FirstLegFull(books, batch)
         \/ ExpireNoFill(books, batch)
         \/ FirstLegTimesOut(books, batch)
         \/ FirstLegRests(books, batch)
  PROVE  Sound(cycle')
<1> DEFINE c == AfterFirst(batch)
           most == Dollar - c.firstPrice - MinEdge - Buffer
<1>1. cycle.status \in FirstPhase /\ Sound(cycle) /\ now \in Nat
  BY DEF IInv, FirstLegFull, ExpireNoFill, FirstLegTimesOut, FirstLegRests
<1>2. /\ c \in PaperCycles
      /\ c.firstPrice = cycle.firstPrice /\ c.firstSide = cycle.firstSide
      /\ c.completionMax = cycle.completionMax
      /\ c.secondFilled = 0 /\ c.secondNotional = 0
      /\ c.locked = 0 /\ c.paper = 0
      /\ c.status \in FirstPhase
      /\ c.status = "RESTING_FIRST" <=> c.firstFilled = 0
  BY <1>1, AfterFirstFacts
<1> HIDE DEF c
<1>3. Ceiling(c) = Ceiling(cycle)
  BY <1>2 DEF Ceiling, SecondSide
<1>4. Ceiling(c) > 0 => Ceiling(c) <= most
  BY <1>1, <1>2, <1>3 DEF Sound, Accounted
<1>5. c.firstFilled \in Nat /\ c.firstFilled <= Size /\ c.firstPrice \in Nat
  BY <1>2, FieldTypes
<1>6. c.secondNotional <= c.secondFilled * most
  <2>1. most \in Int
    BY <1>5, Constants
  <2>2. QED
    BY <1>2, <2>1
<1>7. CASE FirstLegFull(books, batch)
  <2> DEFINE posted == [c EXCEPT !.status = "COMPLETING", !.postedAt = now]
             b == books[SecondSide(c)]
             d == WithCompletion(posted, b)
  <2>1. cycle' = d /\ c.firstFilled = Size
    <3>1. SecondSide(posted) = SecondSide(c)
      BY <1>2 DEF SecondSide, PaperCycles
    <3>2. QED
      BY <1>7, <3>1 DEF FirstLegFull, c
  <2>2. posted \in PaperCycles
    <3>1. now \in Int /\ "COMPLETING" \in {"NONE"} \cup OpenStatuses \cup Terminal
      BY <1>1 DEF OpenStatuses, SecondPhase
    <3>2. QED
      BY <1>2, <3>1 DEF PaperCycles
  <2>3. /\ posted.status = "COMPLETING" /\ posted.firstSide = c.firstSide
        /\ posted.firstPrice = c.firstPrice /\ posted.firstFilled = c.firstFilled
        /\ posted.completionMax = c.completionMax
        /\ posted.secondFilled = 0 /\ posted.secondNotional = 0
        /\ posted.locked = 0 /\ posted.paper = 0
    BY <1>2 DEF PaperCycles
  <2>4. IsBook(b) /\ PricedBook(b) /\ b.ask < Dollar
    <3>1. SecondSide(c) \in Sides
      BY <1>2, FieldTypes
    <3>2. QED
      BY <3>1, BooksAreBooks
  <2> HIDE DEF posted, b
  <2>5. /\ d \in PaperCycles
        /\ d.secondPrice <= Ceiling(posted)
        /\ d.status = "COMPLETING" /\ d.firstSide = c.firstSide
        /\ d.firstPrice = c.firstPrice /\ d.firstFilled = Size
        /\ d.completionMax = c.completionMax
        /\ d.secondFilled = 0 /\ d.secondNotional = 0
        /\ d.locked = 0 /\ d.paper = 0
    BY <2>1, <2>2, <2>3, <2>4, WithCompletionFacts
  <2>6. Ceiling(posted) = Ceiling(c) /\ Ceiling(d) = Ceiling(c)
    BY <2>3, <2>5 DEF Ceiling, SecondSide
  <2> HIDE DEF d
  <2>7. Accounted(d)
    <3>1. 0 < Size /\ 0 <= 0 * most
      BY <1>5, Constants
    <3>2. QED
      BY <1>4, <2>5, <2>6, <3>1
         DEF Accounted, FirstPhase, SecondPhase, Legacy, OpenStatuses
  <2>8. QED
    BY <2>1, <2>5, <2>7, OpenIsSound DEF OpenStatuses, SecondPhase
<1>8. CASE ExpireNoFill(books, batch)
  <2> DEFINE d == [c EXCEPT !.status = "EXPIRED_NO_FILL"]
  <2>1. cycle' = d /\ c.firstFilled = 0
    BY <1>2, <1>8 DEF ExpireNoFill, c
  <2>2. /\ d \in PaperCycles /\ d.status = "EXPIRED_NO_FILL"
        /\ d.firstPrice = c.firstPrice /\ d.firstFilled = 0
        /\ d.secondFilled = 0 /\ d.secondNotional = 0
        /\ d.locked = 0 /\ d.paper = 0
    BY <1>2, <2>1 DEF PaperCycles, Terminal
  <2> HIDE DEF d
  <2>3. Accounted(d)
    BY <2>2 DEF Accounted, FirstPhase, SecondPhase, Legacy, OpenStatuses
  <2>4. d.paper >= -(Size * d.firstPrice)
    BY <1>5, <2>2, Constants
  <2>5. QED
    BY <2>1, <2>2, <2>3, <2>4 DEF Sound
<1>9. CASE FirstLegTimesOut(books, batch)
  <2>1. cycle' = TimedOut(c, books) /\ c.firstFilled > 0
    BY <1>2, <1>5, <1>9 DEF FirstLegTimesOut, c
  <2>2. QED
    BY <1>2, <1>6, <2>1, TimedOutIsSound
<1>10. CASE FirstLegRests(books, batch)
  <2>1. cycle' = c /\ c.firstFilled < Size
    BY <1>10 DEF FirstLegRests, c
  <2>2. c.status = "FIRST_PARTIAL" => c.firstFilled > 0
    BY <1>2, <1>5
  <2>3. Accounted(c)
    BY <1>2, <1>4, <2>1, <2>2
       DEF Accounted, FirstPhase, SecondPhase, Legacy, OpenStatuses
  <2>4. QED
    BY <1>2, <2>1, <2>3, OpenIsSound DEF OpenStatuses
<1>11. QED
  BY <1>7, <1>8, <1>9, <1>10

\* A call on the completion order, or on the wait for one.
LEMMA SecondLegIsSound ==
  ASSUME IInv, NEW books \in BookPairs, NEW batch \in Batches,
         \/ ActivateCompletion(books, batch)
         \/ KeepAwaiting(books, batch)
         \/ CompletePair(books, batch)
         \/ CompletionTimesOut(books, batch)
         \/ CompletionRests(books, batch)
  PROVE  Sound(cycle')
<1> DEFINE most == Dollar - cycle.firstPrice - MinEdge - Buffer
<1>1. Sound(cycle) /\ cycle \in PaperCycles /\ cycle.status \in SecondPhase
  BY DEF IInv, Sound, ActivateCompletion, KeepAwaiting, CompletePair,
         CompletionTimesOut, CompletionRests, AwaitingPrice, CompletionResting
<1>2. /\ cycle.firstFilled = Size
      /\ cycle.secondFilled < Size
      /\ cycle.secondPrice <= Ceiling(cycle)
      /\ cycle.secondNotional <= cycle.secondFilled * most
      /\ Ceiling(cycle) > 0 => Ceiling(cycle) <= most
      /\ cycle.locked = 0 /\ cycle.paper = 0
  BY <1>1 DEF Sound, Accounted, OpenStatuses
<1>3. CASE ActivateCompletion(books, batch)
  <2> DEFINE b == books[SecondSide(cycle)]
             d == WithCompletion(cycle, b)
  <2>1. cycle' = d
    BY <1>3 DEF ActivateCompletion
  <2>2. IsBook(b) /\ PricedBook(b) /\ b.ask < Dollar
    <3>1. SecondSide(cycle) \in Sides
      BY <1>1, FieldTypes
    <3>2. QED
      BY <3>1, BooksAreBooks
  <2> HIDE DEF b
  <2>3. /\ d \in PaperCycles
        /\ d.secondPrice <= Ceiling(cycle)
        /\ d.status = cycle.status /\ d.firstSide = cycle.firstSide
        /\ d.firstPrice = cycle.firstPrice /\ d.firstFilled = cycle.firstFilled
        /\ d.completionMax = cycle.completionMax
        /\ d.secondFilled = cycle.secondFilled
        /\ d.secondNotional = cycle.secondNotional
        /\ d.locked = cycle.locked /\ d.paper = cycle.paper
    BY <1>1, <2>2, WithCompletionFacts
  <2>4. Ceiling(d) = Ceiling(cycle)
    BY <2>3 DEF Ceiling, SecondSide
  <2> HIDE DEF d
  <2>5. Accounted(d)
    BY <1>1, <1>2, <2>3, <2>4
       DEF Accounted, FirstPhase, SecondPhase, Legacy, OpenStatuses
  <2>6. QED
    BY <1>1, <2>1, <2>3, <2>5, OpenIsSound DEF OpenStatuses
<1>4. CASE KeepAwaiting(books, batch)
  <2>1. Sound(TimedOut(cycle, books))
    BY <1>1, <1>2, TimedOutIsSound
  <2>2. QED
    BY <1>1, <1>4, <2>1 DEF KeepAwaiting
<1>5. ASSUME CompletionResting
      PROVE  /\ AfterSecond(batch) \in PaperCycles
             /\ AfterSecond(batch).firstSide = cycle.firstSide
             /\ AfterSecond(batch).firstPrice = cycle.firstPrice
             /\ AfterSecond(batch).firstFilled = Size
             /\ AfterSecond(batch).completionMax = cycle.completionMax
             /\ AfterSecond(batch).secondPrice = cycle.secondPrice
             /\ AfterSecond(batch).secondNotional <=
                   AfterSecond(batch).secondFilled
                      * (Dollar - AfterSecond(batch).firstPrice - MinEdge - Buffer)
             /\ AfterSecond(batch).locked = 0
             /\ AfterSecond(batch).paper = 0
             /\ AfterSecond(batch).status \in SecondPhase
  BY <1>1, <1>5, AfterSecondFacts
<1> DEFINE c == AfterSecond(batch)
<1>6. CASE CompletePair(books, batch)
  <2>1. /\ c.secondFilled = Size
        /\ cycle' = [c EXCEPT !.status = "COMPLETED", !.locked = LockedPnL(c),
                              !.paper = LockedPnL(c)]
    BY <1>6 DEF CompletePair
  <2>2. CompletionResting
    BY <1>6 DEF CompletePair
  <2>3. QED
    BY <1>5, <2>1, <2>2, PairIsSound
<1>7. CASE CompletionTimesOut(books, batch)
  <2>1. c.secondFilled < Size /\ cycle' = TimedOut(c, books) /\ CompletionResting
    BY <1>7 DEF CompletionTimesOut
  <2>2. QED
    BY <1>5, <2>1, TimedOutIsSound
<1>8. CASE CompletionRests(books, batch)
  <2> DEFINE b == books[SecondSide(c)]
             urgent == now - c.postedAt >= SoftCompletion
             price == Repriced(c.secondPrice, Ceiling(c), b, urgent)
             d == IF price > c.secondPrice
                  THEN [c EXCEPT !.secondPrice = price, !.secondQueue = b.queue[price]]
                  ELSE c
  <2>1. cycle' = d /\ c.secondFilled < Size /\ CompletionResting
    BY <1>8 DEF CompletionRests
  <2>2. /\ c \in PaperCycles
        /\ c.firstSide = cycle.firstSide /\ c.firstPrice = cycle.firstPrice
        /\ c.firstFilled = Size /\ c.completionMax = cycle.completionMax
        /\ c.secondPrice = cycle.secondPrice
        /\ c.secondNotional <=
              c.secondFilled * (Dollar - c.firstPrice - MinEdge - Buffer)
        /\ c.locked = 0 /\ c.paper = 0
        /\ c.status \in SecondPhase
    BY <1>5, <2>1
  <2>3. urgent \in BOOLEAN
    OBVIOUS
  <2> HIDE DEF c, urgent
  <2>4. /\ c.secondPrice \in Nat /\ c.secondPrice < Dollar
        /\ Ceiling(c) \in Nat /\ SecondSide(c) \in Sides
    BY <2>2, FieldTypes
  <2>5. IsBook(b) /\ PricedBook(b) /\ b.ask < Dollar
    BY <2>4, BooksAreBooks
  <2> HIDE DEF b
  <2>6. Ceiling(c) = Ceiling(cycle)
    BY <2>2 DEF Ceiling, SecondSide
  <2>7. c.secondPrice <= Ceiling(c)
    BY <1>2, <2>2, <2>6
  <2>8. /\ price \in Nat /\ price <= Ceiling(c)
        /\ price # c.secondPrice => price < b.ask
    BY <2>3, <2>4, <2>5, <2>7, RepricedIsSafe
  <2> HIDE DEF price
  <2>9. /\ d \in PaperCycles
        /\ d.secondPrice <= Ceiling(c)
        /\ d.status = c.status /\ d.firstSide = c.firstSide
        /\ d.firstPrice = c.firstPrice /\ d.firstFilled = c.firstFilled
        /\ d.completionMax = c.completionMax
        /\ d.secondFilled = c.secondFilled /\ d.secondNotional = c.secondNotional
        /\ d.locked = c.locked /\ d.paper = c.paper
    <3>1. CASE price > c.secondPrice
      <4>1. price \in 0..(Dollar - 1) /\ price \in Prices
        BY <2>4, <2>5, <2>8, <3>1, Constants DEF PricedBook
      <4>2. b.queue[price] \in Nat
        BY <2>5, <4>1 DEF IsBook
      <4>3. d = [c EXCEPT !.secondPrice = price, !.secondQueue = b.queue[price]]
        BY <3>1
      <4>4. QED
        BY <2>2, <2>8, <4>1, <4>2, <4>3 DEF PaperCycles
    <3>2. CASE ~(price > c.secondPrice)
      BY <2>2, <2>7, <3>2
    <3>3. QED
      BY <3>1, <3>2
  <2> HIDE DEF d
  <2>10. Ceiling(d) = Ceiling(c)
    BY <2>9 DEF Ceiling, SecondSide
  <2>11. Accounted(d)
    BY <1>2, <2>1, <2>2, <2>6, <2>9, <2>10
       DEF Accounted, FirstPhase, SecondPhase, Legacy, OpenStatuses
  <2>12. QED
    BY <2>1, <2>2, <2>9, <2>11, OpenIsSound DEF OpenStatuses
<1>9. QED
  BY <1>3, <1>4, <1>6, <1>7, <1>8

\* What every open record still owes: less bought second than first once
\* anything is bought, at no more than the ceiling allows.
LEMMA OpenOwes ==
  ASSUME NEW c, Sound(c), IsOpen(c)
  PROVE  /\ c \in PaperCycles /\ c.locked = 0 /\ c.paper = 0
         /\ c.firstFilled > 0 => c.secondFilled < c.firstFilled
         /\ c.firstFilled = 0 => c.secondFilled = 0 /\ c.secondNotional = 0
         /\ c.secondNotional <= c.secondFilled * (Dollar - c.firstPrice - MinEdge - Buffer)
<1> DEFINE most == Dollar - c.firstPrice - MinEdge - Buffer
<1>1. /\ c \in PaperCycles
      /\ c.firstPrice \in Nat /\ c.firstFilled \in Nat /\ c.secondFilled \in Nat
      /\ c.secondNotional \in Nat
  BY FieldTypes DEF Sound
<1>2. c.status \in FirstPhase \cup SecondPhase \cup Legacy
  BY DEF IsOpen, OpenStatuses
<1>3. c.locked = 0 /\ c.paper = 0
  BY <1>2 DEF Sound, Accounted, OpenStatuses
<1>4. CASE c.status \in FirstPhase \cup Legacy
  <2>1. c.secondFilled = 0 /\ c.secondNotional = 0
    BY <1>4 DEF Sound, Accounted
  <2>2. most \in Int
    BY <1>1, Constants
  <2>3. 0 <= 0 * most
    BY <2>2
  <2>4. QED
    BY <1>1, <1>3, <2>1, <2>3
<1>5. CASE c.status \in SecondPhase
  BY <1>1, <1>3, <1>5, Constants DEF Sound, Accounted
<1>6. QED
  BY <1>2, <1>4, <1>5

\* An open record that bought nothing on either leg may be closed as such.
LEMMA UnfilledIsSound ==
  ASSUME NEW c, Sound(c), IsOpen(c), c.firstFilled = 0
  PROVE  Sound([c EXCEPT !.status = "EXPIRED_NO_FILL"])
<1> DEFINE d == [c EXCEPT !.status = "EXPIRED_NO_FILL"]
<1>1. /\ c \in PaperCycles /\ c.secondFilled = 0 /\ c.secondNotional = 0
      /\ c.locked = 0 /\ c.paper = 0 /\ c.firstPrice \in Nat
  BY OpenOwes, FieldTypes
<1>2. /\ d \in PaperCycles /\ d.status = "EXPIRED_NO_FILL"
      /\ d.firstPrice = c.firstPrice /\ d.firstFilled = 0
      /\ d.secondFilled = 0 /\ d.secondNotional = 0
      /\ d.locked = 0 /\ d.paper = 0
  BY <1>1 DEF PaperCycles, Terminal
<1> HIDE DEF d
<1>3. Accounted(d)
  BY <1>2 DEF Accounted, FirstPhase, SecondPhase, Legacy, OpenStatuses
<1>4. d.paper >= -(Size * d.firstPrice)
  BY <1>1, <1>2, Constants
<1>5. QED
  BY <1>2, <1>3, <1>4 DEF Sound, d

\* Untrusted data: the cycle is worth nothing.
LEMMA VoidIsSound ==
  ASSUME Sound(cycle), IsOpen(cycle),
         \/ cycle' = [cycle EXCEPT !.status = "DATA_GAP_INVALID", !.paper = 0]
         \/ cycle' = [cycle EXCEPT !.status = "DATA_GAP_INVALID", !.paper = 0, !.locked = 0]
  PROVE  Sound(cycle')
<1>1. /\ cycle \in PaperCycles /\ cycle.locked = 0
      /\ cycle.firstPrice \in Nat /\ cycle.firstPrice < Dollar
  BY OpenOwes, FieldTypes
<1>2. cycle' = [cycle EXCEPT !.status = "DATA_GAP_INVALID", !.paper = 0, !.locked = 0]
  BY <1>1 DEF PaperCycles
<1>3. "DATA_GAP_INVALID" \in Terminal /\ 0 \in Int
  BY DEF Terminal
<1>4. cycle' \in PaperCycles
  BY <1>1, <1>2, <1>3 DEF PaperCycles
<1>5. /\ cycle'.status = "DATA_GAP_INVALID"
      /\ cycle'.firstPrice = cycle.firstPrice /\ cycle'.paper = 0
  BY <1>1, <1>2 DEF PaperCycles
<1>6. Accounted(cycle')
  BY <1>5 DEF Accounted, FirstPhase, SecondPhase, Legacy, OpenStatuses
<1>7. cycle'.paper >= -(Size * cycle'.firstPrice)
  BY <1>1, <1>5, Constants
<1>8. QED
  BY <1>4, <1>5, <1>6, <1>7 DEF Sound

\* A market change marks the unmatched shares at the last bid.
LEMMA MarketChangeIsSound ==
  ASSUME IInv, CloseForMarketChange
  PROVE  Sound(cycle')
<1>1. Sound(cycle) /\ IsOpen(cycle) /\ lastBook \in BookPairs
  BY DEF IInv, CloseForMarketChange
<1>2. /\ cycle \in PaperCycles
      /\ cycle.firstFilled > 0 => cycle.secondFilled < cycle.firstFilled
      /\ cycle.secondNotional <= cycle.secondFilled
                                   * (Dollar - cycle.firstPrice - MinEdge - Buffer)
  BY <1>1, OpenOwes
<1>3. /\ cycle.firstSide \in Sides /\ cycle.firstPrice \in Nat
      /\ cycle.firstFilled \in Nat /\ cycle.secondFilled \in Nat
  BY <1>2, FieldTypes
<1>4. CASE cycle.firstFilled = 0
  BY <1>1, <1>4, UnfilledIsSound DEF CloseForMarketChange
<1>5. CASE cycle.firstFilled # 0
  <2> DEFINE bid == lastBook[cycle.firstSide].bid
             proceeds == Unmatched(cycle) * bid
  <2>1. bid \in Nat
    BY <1>1, <1>3, BooksAreBooks DEF PricedBook
  <2>2. Unmatched(cycle) \in Nat
    BY <1>3 DEF Unmatched, Matched, Lesser
  <2>3. proceeds \in Nat
    BY <2>1, <2>2
  <2>4. Unmatched(cycle) * (bid - cycle.firstPrice)
           = proceeds - Unmatched(cycle) * cycle.firstPrice
    <3> HIDE DEF bid
    <3>1. QED
      BY <1>3, <2>1, <2>2
  <2>5. LockedPnL(cycle) \in Int
    <3>1. Dollar - cycle.firstPrice \in Int /\ Matched(cycle) \in Nat
          /\ cycle.secondNotional \in Nat
      BY <1>2, <1>3, FieldTypes, Constants DEF Matched, Lesser
    <3>2. Matched(cycle) * (Dollar - cycle.firstPrice) \in Int
      BY <3>1
    <3>3. QED
      BY <3>1, <3>2 DEF LockedPnL
  <2>6. Unmatched(cycle) * cycle.firstPrice \in Int
    BY <1>3, <2>2
  <2>7. Sound([cycle EXCEPT !.status = "STRANDED_TIMEOUT",
                            !.locked = LockedPnL(cycle),
                            !.paper = LockedPnL(cycle) + proceeds
                                        - Unmatched(cycle) * cycle.firstPrice])
    <3>1. cycle.secondFilled < cycle.firstFilled
      BY <1>2, <1>3, <1>5
    <3> HIDE DEF proceeds
    <3>2. QED
      BY <1>2, <2>3, <3>1, StrandedIsSound
  <2>8. cycle' = [cycle EXCEPT !.status = "STRANDED_TIMEOUT",
                               !.locked = LockedPnL(cycle),
                               !.paper = LockedPnL(cycle)
                                   + Unmatched(cycle) * (bid - cycle.firstPrice)]
    BY <1>5 DEF CloseForMarketChange
  <2>9. LockedPnL(cycle) + Unmatched(cycle) * (bid - cycle.firstPrice)
           = LockedPnL(cycle) + proceeds - Unmatched(cycle) * cycle.firstPrice
    <3> HIDE DEF bid, proceeds
    <3>1. QED
      BY <2>3, <2>4, <2>5, <2>6
  <2>10. QED
    BY <2>7, <2>8, <2>9
<1>6. QED
  BY <1>4, <1>5

-----------------------------------------------------------------------------
LEMMA InitIsSound ==
  ASSUME Init
  PROVE  IInv
<1>1. NoTime \in Int /\ 0 \in 0..Size /\ Size \in 0..Size /\ 0 \in 0..(Dollar - 1)
  BY Constants DEF NoTime
<1>2. /\ NoCycle \in PaperCycles /\ NoCycle.status = "NONE" /\ NoCycle.firstFilled = 0
      /\ NoCycle.secondFilled = 0 /\ NoCycle.secondNotional = 0
      /\ NoCycle.locked = 0 /\ NoCycle.paper = 0
  BY <1>1 DEF NoCycle, PaperCycles, Sides
<1>3. Sound(NoCycle)
  <2>1. Accounted(NoCycle)
    BY <1>2 DEF Accounted, FirstPhase, SecondPhase, Legacy
  <2>2. QED
    BY <1>2, <2>1, OpenIsSound
<1>4. ASSUME NEW status \in Legacy, NEW price \in Prices
      PROVE  Sound(LegacyRow(status, price))
  <2> DEFINE row == LegacyRow(status, price)
             filled == IF status = "ONE_LEG_FILLED" THEN Size ELSE 0
  <2>1. price \in 0..(Dollar - 1) /\ filled \in 0..Size
    BY <1>1, Constants
  <2>2. row = [NoCycle EXCEPT !.status = status, !.firstPrice = price,
                              !.firstFilled = filled]
    BY DEF LegacyRow
  <2> HIDE DEF row, filled
  <2>3. /\ row \in PaperCycles /\ row.status = status
        /\ row.secondFilled = 0 /\ row.secondNotional = 0
        /\ row.locked = 0 /\ row.paper = 0
    <3>1. status \in {"NONE"} \cup OpenStatuses \cup Terminal
      BY DEF OpenStatuses
    <3> HIDE DEF NoCycle
    <3>2. QED
      BY <1>2, <2>1, <2>2, <3>1 DEF PaperCycles
  <2>4. Accounted(row)
    BY <2>3 DEF Accounted, FirstPhase, SecondPhase, Legacy
  <2>5. QED
    BY <2>3, <2>4, OpenIsSound DEF row, OpenStatuses
<1>5. QED
  BY <1>3, <1>4 DEF Init, IInv

LEMMA StepIsSound ==
  ASSUME IInv, [Next]_vars
  PROVE  IInv'
<1>1. ASSUME NEW books \in BookPairs, NEW side \in Sides, Post(books, side)
      PROVE  IInv'
  BY <1>1, PostIsSound
<1>2. ASSUME NEW books \in BookPairs, NEW batch \in Batches,
             AdvancePaperCycle(books, batch)
      PROVE  IInv'
  <2>1. Sound(cycle')
    <3>1. CASE InvalidateLegacy(books, batch)
      <4>1. Sound(cycle) /\ IsOpen(cycle)
        BY <3>1 DEF IInv, InvalidateLegacy, IsOpen, OpenStatuses
      <4>2. QED
        BY <3>1, <4>1, VoidIsSound DEF InvalidateLegacy
    <3>2. QED
      BY <1>2, <3>1, FirstLegIsSound, SecondLegIsSound DEF AdvancePaperCycle
  <2>2. QED
    BY <1>2, <2>1 DEF AdvancePaperCycle, IInv
<1>3. CASE InvalidateDataGap
  <2>1. Sound(cycle')
    BY <1>3, VoidIsSound DEF IInv, InvalidateDataGap
  <2>2. QED
    BY <1>3, <2>1 DEF IInv, InvalidateDataGap
<1>4. CASE CloseForMarketChange
  <2>1. Sound(cycle')
    BY <1>4, MarketChangeIsSound
  <2>2. QED
    BY <1>4, <2>1 DEF IInv, CloseForMarketChange
<1>5. CASE Tick
  BY <1>5 DEF IInv, Tick
<1>6. CASE UNCHANGED vars
  BY <1>6 DEF IInv, vars
<1>7. QED
  BY <1>1, <1>2, <1>3, <1>4, <1>5, <1>6 DEF Next

-----------------------------------------------------------------------------
\* The accounts of the cycle stay sound whatever the market does.
THEOREM CycleStaysSound == Spec => []IInv
<1>1. Init => IInv
  BY InitIsSound
<1>2. IInv /\ [Next]_vars => IInv'
  BY StepIsSound
<1>3. QED
  BY <1>1, <1>2, PTL DEF Spec

\* Every field keeps its type.
THEOREM TypesAreKept == Spec => []TypeOK
<1>1. IInv => TypeOK
  BY DEF IInv, Sound, TypeOK
<1>2. QED
  BY <1>1, CycleStaysSound, PTL

\* The accounts behind the verdicts balance after every step.
THEOREM AccountsAlwaysBalance == Spec => []AccountsBalance
<1>1. IInv => AccountsBalance
  BY DEF IInv, Sound, AccountsBalance
<1>2. QED
  BY <1>1, CycleStaysSound, PTL

\* However the fills and the reprices interleave, every pair the cycle matched
\* keeps at least the paper edge and the operational buffer.
THEOREM NoPairIsBoughtAtALoss == Spec => []MatchedPairsKeepTheEdge
<1>1. IInv => MatchedPairsKeepTheEdge
  BY DEF IInv, Sound, MatchedPairsKeepTheEdge
<1>2. QED
  BY <1>1, CycleStaysSound, PTL

\* COMPLETED is a full pair, EXPIRED_NO_FILL nothing at all, STRANDED_TIMEOUT
\* an excess of the first leg.
THEOREM VerdictsAreRight == Spec => []VerdictMatchesFills
<1>1. IInv => VerdictMatchesFills
  BY DEF IInv, Sound, VerdictMatchesFills
<1>2. QED
  BY <1>1, CycleStaysSound, PTL

\* No cycle loses more than what was reserved for its first leg.
THEOREM LossesAreReserved == Spec => []LossWithinReserve
<1>1. IInv => LossWithinReserve
  BY DEF IInv, Sound, LossWithinReserve
<1>2. QED
  BY <1>1, CycleStaysSound, PTL
=============================================================================
