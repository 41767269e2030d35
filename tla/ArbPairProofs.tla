---------------------------- MODULE ArbPairProofs ----------------------------
(***************************************************************************)
(* ArbPaperCycle implements MakerPair, for every order size, edge, buffer, *)
(* timeout, set of books and set of trade batches: each outcome of a call  *)
(* is one step of the abstract pair, or none.                              *)
(***************************************************************************)
EXTENDS ArbPaperCycleProofs

\* The stage of a record is decided by its status.
LEMMA Stages ==
  ASSUME NEW c
  PROVE  /\ c.status = "NONE" => StageOf(c) = "none"
         /\ c.status \in OpenStatuses => StageOf(c) = "open"
         /\ c.status = "COMPLETED" => StageOf(c) = "paired"
         /\ c.status = "STRANDED_TIMEOUT" => StageOf(c) = "stranded"
         /\ c.status = "EXPIRED_NO_FILL" => StageOf(c) = "unfilled"
         /\ c.status = "DATA_GAP_INVALID" => StageOf(c) = "void"
  BY DEF StageOf, OpenStatuses, FirstPhase, SecondPhase, Legacy

\* What MakerPair may see of a record, typed.
LEMMA Seen ==
  ASSUME NEW c, Sound(c)
  PROVE  /\ c \in PaperCycles
         /\ c.firstFilled \in Nat /\ c.firstFilled <= Size
         /\ c.secondFilled \in Nat /\ c.secondFilled <= Size
         /\ c.locked \in Int
         /\ Size \in Nat /\ MinEdge + Buffer \in Nat
<1>1. c \in PaperCycles
  BY DEF Sound
<1>2. QED
  BY <1>1, FieldTypes, Constants

-----------------------------------------------------------------------------
\* Steps of the pair, from what a step of the cycle does to its record.

\* The first leg grows with an empty second one, or the second grows with a
\* full first one.
LegsGrow(c, d) ==
  \/ /\ c.secondFilled = 0 /\ d.secondFilled = 0
     /\ d.firstFilled >= c.firstFilled
  \/ /\ c.firstFilled = Size /\ d.firstFilled = Size
     /\ d.secondFilled >= c.secondFilled

\* An open record that stays open buys of one leg or of none.
LEMMA OpenStays ==
  ASSUME Sound(cycle), Sound(cycle'), IsOpen(cycle), IsOpen(cycle'),
         LegsGrow(cycle, cycle'), cycle'.secondFilled < Size
  PROVE  Pair!PairNext \/ UNCHANGED Pair!pairVars
<1>1. /\ cycle.locked = 0 /\ cycle'.locked = 0
  BY OpenOwes
<1>2. StageOf(cycle) = "open" /\ StageOf(cycle') = "open"
  BY Stages DEF IsOpen
<1>3. /\ cycle.firstFilled \in Nat /\ cycle'.firstFilled \in Nat
      /\ cycle'.firstFilled <= Size
      /\ cycle.secondFilled \in Nat /\ cycle'.secondFilled \in Nat
      /\ Size \in Nat
  BY Seen
<1>4. CASE cycle'.firstFilled # cycle.firstFilled
  <2>1. /\ cycle.secondFilled = 0 /\ cycle'.secondFilled = 0
        /\ cycle'.firstFilled \in (cycle.firstFilled + 1)..Size
    BY <1>3, <1>4 DEF LegsGrow
  <2>2. Pair!BuyFirst
    BY <1>1, <1>2, <2>1 DEF Pair!BuyFirst
  <2>3. QED
    BY <2>2 DEF Pair!PairNext
<1>5. CASE cycle'.firstFilled = cycle.firstFilled /\ cycle'.secondFilled # cycle.secondFilled
  <2>1. /\ cycle.firstFilled = Size
        /\ cycle'.secondFilled \in (cycle.secondFilled + 1)..(Size - 1)
    BY <1>3, <1>5 DEF LegsGrow
  <2>2. Pair!BuySecond
    BY <1>1, <1>2, <1>5, <2>1 DEF Pair!BuySecond
  <2>3. QED
    BY <2>2 DEF Pair!PairNext
<1>6. CASE cycle'.firstFilled = cycle.firstFilled /\ cycle'.secondFilled = cycle.secondFilled
  BY <1>1, <1>2, <1>6 DEF Pair!pairVars
<1>7. QED
  BY <1>4, <1>5, <1>6

\* Giving up.
LEMMA StrandedStep ==
  ASSUME Sound(cycle), Sound(cycle'), IsOpen(cycle),
         cycle'.status = "STRANDED_TIMEOUT", LegsGrow(cycle, cycle'),
         cycle'.firstFilled < Size \/ cycle'.firstFilled = cycle.firstFilled
  PROVE  Pair!PairNext
<1>1. StageOf(cycle) = "open" /\ StageOf(cycle') = "stranded"
  BY Stages DEF IsOpen
<1>2. /\ cycle.firstFilled \in Nat /\ cycle'.firstFilled \in Nat
      /\ cycle'.firstFilled <= Size
      /\ cycle.secondFilled \in Nat /\ cycle'.secondFilled \in Nat
      /\ Size \in Nat /\ cycle'.locked \in Int
  BY Seen
<1>3. /\ cycle'.secondFilled < cycle'.firstFilled
      /\ cycle'.locked >= cycle'.secondFilled * (MinEdge + Buffer)
  BY DEF Sound
<1>4. cycle'.firstFilled > 0 /\ cycle'.secondFilled < Size
  BY <1>2, <1>3
<1>5. \/ /\ cycle'.firstFilled \in cycle.firstFilled..(Size - 1)
         /\ cycle.secondFilled = 0 /\ cycle'.secondFilled = 0
      \/ /\ cycle'.firstFilled = cycle.firstFilled /\ cycle.firstFilled = Size
         /\ cycle'.secondFilled \in cycle.secondFilled..(Size - 1)
  BY <1>2, <1>4 DEF LegsGrow
<1>6. QED
  BY <1>1, <1>2, <1>3, <1>4, <1>5 DEF Pair!Strand, Pair!PairNext

\* Nothing was bought.
LEMMA UnfilledStep ==
  ASSUME Sound(cycle), IsOpen(cycle), cycle.firstFilled = 0,
         cycle'.status = "EXPIRED_NO_FILL", cycle'.firstFilled = 0,
         cycle'.secondFilled = 0, cycle'.locked = 0
  PROVE  Pair!PairNext
<1>1. cycle.secondFilled = 0 /\ cycle.locked = 0
  BY OpenOwes
<1>2. StageOf(cycle) = "open" /\ StageOf(cycle') = "unfilled"
  BY Stages DEF IsOpen
<1>3. QED
  BY <1>1, <1>2 DEF Pair!Unfilled, Pair!PairNext

\* Data that cannot be trusted.
LEMMA VoidStep ==
  ASSUME Sound(cycle), IsOpen(cycle),
         \/ cycle' = [cycle EXCEPT !.status = "DATA_GAP_INVALID", !.paper = 0]
         \/ cycle' = [cycle EXCEPT !.status = "DATA_GAP_INVALID", !.paper = 0, !.locked = 0]
  PROVE  Pair!PairNext
<1>1. cycle \in PaperCycles /\ cycle.locked = 0
  BY OpenOwes
<1>2. cycle' = [cycle EXCEPT !.status = "DATA_GAP_INVALID", !.paper = 0, !.locked = 0]
  BY <1>1 DEF PaperCycles
<1>3. /\ cycle'.status = "DATA_GAP_INVALID" /\ cycle'.locked = 0
      /\ cycle'.firstFilled = cycle.firstFilled
      /\ cycle'.secondFilled = cycle.secondFilled
  BY <1>1, <1>2 DEF PaperCycles
<1>4. StageOf(cycle) = "open" /\ StageOf(cycle') = "void"
  BY <1>3, Stages DEF IsOpen
<1>5. QED
  BY <1>1, <1>3, <1>4 DEF Pair!Void, Pair!PairNext

-----------------------------------------------------------------------------
\* The actions of the cycle.

LEMMA PostStep ==
  ASSUME IInv, NEW books \in BookPairs, NEW side \in Sides, Post(books, side)
  PROVE  Pair!PairNext
<1>1. cycle.status = "NONE" /\ cycle' = NewPaperCycle(books, side)
  BY DEF Post
<1>2. /\ cycle.firstFilled = 0 /\ cycle.secondFilled = 0 /\ cycle.locked = 0
  BY <1>1 DEF IInv, Sound, Accounted
<1>3. /\ cycle'.status = "RESTING_FIRST" /\ cycle'.firstFilled = 0
      /\ cycle'.secondFilled = 0 /\ cycle'.locked = 0
  BY <1>1 DEF NewPaperCycle
<1>4. StageOf(cycle) = "none" /\ StageOf(cycle') = "open"
  BY <1>1, <1>3, Stages DEF OpenStatuses, FirstPhase
<1>5. QED
  BY <1>2, <1>3, <1>4 DEF Pair!Open, Pair!PairNext

\* What timeoutStranded leaves of a record.
LEMMA TimedOutFacts ==
  ASSUME NEW c \in PaperCycles, NEW books
  PROVE  /\ TimedOut(c, books).status = "STRANDED_TIMEOUT"
         /\ TimedOut(c, books).firstFilled = c.firstFilled
         /\ TimedOut(c, books).secondFilled = c.secondFilled
  BY DEF TimedOut, PaperCycles

\* A batch never takes shares away.
LEMMA FirstGrows ==
  ASSUME NEW batch \in Batches, Sound(cycle), cycle.status \in FirstPhase
  PROVE  AfterFirst(batch).firstFilled >= cycle.firstFilled
<1> DEFINE remaining == Size - cycle.firstFilled
           bought == FilledBy(batch.volume, batch.swept, remaining, cycle.firstQueue)
<1>1. /\ cycle \in PaperCycles /\ cycle.firstFilled \in Nat
      /\ cycle.firstFilled <= Size /\ cycle.firstQueue \in Nat
  BY FieldTypes DEF Sound
<1>2. remaining \in Nat
  BY <1>1, Constants
<1>3. bought \in Nat
  <2>1. bought \in 0..remaining
    BY <1>1, <1>2, FillIsPart
  <2>2. QED
    BY <1>2, <2>1
<1>4. AfterFirst(batch).firstFilled = cycle.firstFilled + bought
  BY <1>1 DEF AfterFirst, PaperCycles
<1> HIDE DEF bought
<1>5. QED
  BY <1>1, <1>3, <1>4

LEMMA SecondGrows ==
  ASSUME NEW batch \in Batches, Sound(cycle)
  PROVE  AfterSecond(batch).secondFilled >= cycle.secondFilled
<1> DEFINE remaining == Size - cycle.secondFilled
           bought == FilledBy(batch.volume, batch.swept, remaining, cycle.secondQueue)
<1>1. /\ cycle \in PaperCycles /\ cycle.secondFilled \in Nat
      /\ cycle.secondFilled <= Size /\ cycle.secondQueue \in Nat
  BY FieldTypes DEF Sound
<1>2. remaining \in Nat
  BY <1>1, Constants
<1>3. bought \in Nat
  <2>1. bought \in 0..remaining
    BY <1>1, <1>2, FillIsPart
  <2>2. QED
    BY <1>2, <2>1
<1>4. AfterSecond(batch).secondFilled = cycle.secondFilled + bought
  BY <1>1 DEF AfterSecond, PaperCycles
<1> HIDE DEF bought
<1>5. QED
  BY <1>1, <1>3, <1>4

LEMMA FirstLegStep ==
  ASSUME IInv, NEW books \in BookPairs, NEW batch \in Batches,
         \/ FirstLegFull(books, batch)
         \/ ExpireNoFill(books, batch)
         \/ FirstLegTimesOut(books, batch)
         \/ FirstLegRests(books, batch)
  PROVE  Pair!PairNext \/ UNCHANGED Pair!pairVars
<1> DEFINE c == AfterFirst(batch)
<1>1. /\ cycle.status \in FirstPhase /\ IsOpen(cycle) /\ Sound(cycle) /\ now \in Nat
  BY DEF IInv, FirstLegFull, ExpireNoFill, FirstLegTimesOut, FirstLegRests, IsOpen, OpenStatuses
<1>2. Sound(cycle')
  BY FirstLegIsSound
<1>3. /\ c \in PaperCycles /\ c.secondFilled = 0 /\ c.locked = 0
      /\ c.firstSide = cycle.firstSide
      /\ c.status \in FirstPhase
      /\ c.status = "RESTING_FIRST" <=> c.firstFilled = 0
  BY <1>1, AfterFirstFacts
<1>4. cycle.secondFilled = 0
  BY <1>1 DEF Sound, Accounted
<1>5. c.firstFilled >= cycle.firstFilled /\ c.firstFilled \in Nat /\ cycle.firstFilled \in Nat
  BY <1>1, <1>3, FirstGrows, FieldTypes DEF Sound
<1>6. Size \in Nat /\ Size > 0
  BY Constants
<1> HIDE DEF c
<1>7. CASE FirstLegFull(books, batch)
  <2> DEFINE posted == [c EXCEPT !.status = "COMPLETING", !.postedAt = now]
             b == books[SecondSide(c)]
  <2>1. cycle' = WithCompletion(posted, b) /\ c.firstFilled = Size
    BY <1>7 DEF FirstLegFull, c
  <2>2. /\ posted.status = "COMPLETING" /\ posted.firstFilled = c.firstFilled
        /\ posted.secondFilled = 0
    BY <1>3 DEF PaperCycles
  <2>3. /\ WithCompletion(posted, b).status = posted.status
        /\ WithCompletion(posted, b).firstFilled = posted.firstFilled
        /\ WithCompletion(posted, b).secondFilled = posted.secondFilled
    BY <1>3 DEF WithCompletion, PaperCycles
  <2>4. /\ cycle'.status = "COMPLETING" /\ cycle'.firstFilled = Size
        /\ cycle'.secondFilled = 0
    BY <2>1, <2>2, <2>3
  <2>5. IsOpen(cycle') /\ LegsGrow(cycle, cycle') /\ cycle'.secondFilled < Size
    BY <1>4, <1>5, <1>6, <2>1, <2>4 DEF IsOpen, OpenStatuses, SecondPhase, LegsGrow
  <2>6. QED
    BY <1>1, <1>2, <2>5, OpenStays
<1>8. CASE ExpireNoFill(books, batch)
  <2>1. cycle' = [c EXCEPT !.status = "EXPIRED_NO_FILL"] /\ c.firstFilled = 0
    BY <1>3, <1>8 DEF ExpireNoFill, c
  <2>2. /\ cycle'.status = "EXPIRED_NO_FILL" /\ cycle'.firstFilled = 0
        /\ cycle'.secondFilled = 0 /\ cycle'.locked = 0
    BY <1>3, <2>1 DEF PaperCycles
  <2>3. cycle.firstFilled = 0
    BY <1>5, <2>1
  <2>4. QED
    BY <1>1, <2>2, <2>3, UnfilledStep
<1>9. CASE FirstLegTimesOut(books, batch)
  <2>1. cycle' = TimedOut(c, books) /\ c.firstFilled < Size
    BY <1>9 DEF FirstLegTimesOut, c
  <2>2. /\ cycle'.status = "STRANDED_TIMEOUT" /\ cycle'.firstFilled = c.firstFilled
        /\ cycle'.secondFilled = 0
    BY <1>3, <2>1, TimedOutFacts
  <2>3. LegsGrow(cycle, cycle') /\ cycle'.firstFilled < Size
    BY <1>4, <1>5, <2>1, <2>2 DEF LegsGrow
  <2>4. QED
    BY <1>1, <1>2, <2>2, <2>3, StrandedStep
<1>10. CASE FirstLegRests(books, batch)
  <2>1. cycle' = c
    BY <1>10 DEF FirstLegRests, c
  <2>2. IsOpen(cycle') /\ LegsGrow(cycle, cycle') /\ cycle'.secondFilled < Size
    BY <1>3, <1>4, <1>5, <1>6, <2>1 DEF IsOpen, OpenStatuses, LegsGrow
  <2>3. QED
    BY <1>1, <1>2, <2>2, OpenStays
<1>11. QED
  BY <1>7, <1>8, <1>9, <1>10

LEMMA SecondLegStep ==
  ASSUME IInv, NEW books \in BookPairs, NEW batch \in Batches,
         \/ ActivateCompletion(books, batch)
         \/ KeepAwaiting(books, batch)
         \/ CompletePair(books, batch)
         \/ CompletionTimesOut(books, batch)
         \/ CompletionRests(books, batch)
  PROVE  Pair!PairNext \/ UNCHANGED Pair!pairVars
<1> DEFINE c == AfterSecond(batch)
<1>1. /\ cycle.status \in SecondPhase /\ IsOpen(cycle) /\ Sound(cycle)
      /\ cycle \in PaperCycles
  BY DEF IInv, Sound, ActivateCompletion, KeepAwaiting, CompletePair, CompletionTimesOut,
         CompletionRests, AwaitingPrice, CompletionResting, IsOpen, OpenStatuses
<1>2. Sound(cycle')
  BY SecondLegIsSound
<1>3. cycle.firstFilled = Size /\ cycle.secondFilled < Size
  BY <1>1 DEF Sound, Accounted
<1>4. cycle.secondFilled \in Nat /\ Size \in Nat
  BY <1>1, FieldTypes, Constants
<1>5. CASE ActivateCompletion(books, batch)
  <2> DEFINE b == books[SecondSide(cycle)]
  <2>1. cycle' = WithCompletion(cycle, b)
    BY <1>5 DEF ActivateCompletion
  <2>2. /\ cycle'.status = cycle.status /\ cycle'.firstFilled = cycle.firstFilled
        /\ cycle'.secondFilled = cycle.secondFilled
    BY <1>1, <2>1 DEF WithCompletion, PaperCycles
  <2>3. IsOpen(cycle') /\ LegsGrow(cycle, cycle') /\ cycle'.secondFilled < Size
    BY <1>1, <1>3, <1>4, <2>2 DEF IsOpen, LegsGrow
  <2>4. QED
    BY <1>1, <1>2, <2>3, OpenStays
<1>6. CASE KeepAwaiting(books, batch)
  <2>1. CASE cycle' = TimedOut(cycle, books)
    <3>1. /\ cycle'.status = "STRANDED_TIMEOUT" /\ cycle'.firstFilled = cycle.firstFilled
          /\ cycle'.secondFilled = cycle.secondFilled
      BY <1>1, <2>1, TimedOutFacts
    <3>2. LegsGrow(cycle, cycle')
      BY <1>3, <1>4, <3>1 DEF LegsGrow
    <3>3. QED
      BY <1>1, <1>2, <3>1, <3>2, StrandedStep
  <2>2. CASE cycle' = cycle
    BY <2>2 DEF Pair!pairVars
  <2>3. QED
    BY <1>6, <2>1, <2>2 DEF KeepAwaiting
<1>7. ASSUME CompletionResting
      PROVE  /\ c \in PaperCycles /\ c.firstFilled = Size
             /\ c.status \in SecondPhase
             /\ c.secondFilled >= cycle.secondFilled
             /\ c.secondFilled \in Nat
  <2>1. /\ c \in PaperCycles /\ c.firstFilled = Size /\ c.status \in SecondPhase
    BY <1>1, <1>7, AfterSecondFacts
  <2>2. c.secondFilled >= cycle.secondFilled
    BY <1>1, SecondGrows
  <2>3. c.secondFilled \in Nat
    BY <2>1, FieldTypes
  <2>4. QED
    BY <2>1, <2>2, <2>3
<1> HIDE DEF c
<1>8. CASE CompletePair(books, batch)
  <2>1. /\ c.secondFilled = Size /\ CompletionResting
        /\ cycle' = [c EXCEPT !.status = "COMPLETED", !.locked = LockedPnL(c),
                              !.paper = LockedPnL(c)]
    BY <1>8 DEF CompletePair, c
  <2>2. /\ cycle'.status = "COMPLETED" /\ cycle'.firstFilled = Size
        /\ cycle'.secondFilled = Size
    BY <1>7, <2>1 DEF PaperCycles
  <2>3. cycle'.locked >= Size * (MinEdge + Buffer) /\ cycle'.locked \in Int
    BY <1>2, <2>2, Seen DEF Sound
  <2>4. StageOf(cycle) = "open" /\ StageOf(cycle') = "paired"
    BY <1>1, <2>2, Stages DEF IsOpen
  <2>5. Pair!Pair
    BY <1>3, <2>2, <2>3, <2>4 DEF Pair!Pair
  <2>6. QED
    BY <2>5 DEF Pair!PairNext
<1>9. CASE CompletionTimesOut(books, batch)
  <2>1. cycle' = TimedOut(c, books) /\ CompletionResting
    BY <1>9 DEF CompletionTimesOut, c
  <2>2. /\ cycle'.status = "STRANDED_TIMEOUT" /\ cycle'.firstFilled = Size
        /\ cycle'.secondFilled = c.secondFilled
    BY <1>7, <2>1, TimedOutFacts
  <2>3. LegsGrow(cycle, cycle') /\ cycle'.firstFilled = cycle.firstFilled
    BY <1>3, <1>7, <2>1, <2>2 DEF LegsGrow
  <2>4. QED
    BY <1>1, <1>2, <2>2, <2>3, StrandedStep
<1>10. CASE CompletionRests(books, batch)
  <2>1. /\ c.secondFilled < Size /\ CompletionResting
        /\ cycle'.status = c.status /\ cycle'.firstFilled = c.firstFilled
        /\ cycle'.secondFilled = c.secondFilled
    BY <1>7, <1>10 DEF CompletionRests, PaperCycles, c
  <2>2. IsOpen(cycle') /\ LegsGrow(cycle, cycle') /\ cycle'.secondFilled < Size
    BY <1>3, <1>7, <2>1 DEF IsOpen, OpenStatuses, LegsGrow
  <2>3. QED
    BY <1>1, <1>2, <2>2, OpenStays
<1>11. QED
  BY <1>5, <1>6, <1>8, <1>9, <1>10

LEMMA MarketChangeStep ==
  ASSUME IInv, CloseForMarketChange
  PROVE  Pair!PairNext
<1>1. Sound(cycle) /\ IsOpen(cycle)
  BY DEF IInv, CloseForMarketChange
<1>2. Sound(cycle')
  BY MarketChangeIsSound
<1>3. /\ cycle \in PaperCycles /\ cycle.locked = 0
      /\ cycle.firstFilled = 0 => cycle.secondFilled = 0
  BY <1>1, OpenOwes
<1>4. CASE cycle.firstFilled = 0
  <2>1. cycle' = [cycle EXCEPT !.status = "EXPIRED_NO_FILL"]
    BY <1>4 DEF CloseForMarketChange
  <2>2. /\ cycle'.status = "EXPIRED_NO_FILL" /\ cycle'.firstFilled = 0
        /\ cycle'.secondFilled = 0 /\ cycle'.locked = 0
    BY <1>3, <1>4, <2>1 DEF PaperCycles
  <2>3. QED
    BY <1>1, <1>4, <2>2, UnfilledStep
<1>5. CASE cycle.firstFilled # 0
  <2>1. /\ cycle'.status = "STRANDED_TIMEOUT"
        /\ cycle'.firstFilled = cycle.firstFilled
        /\ cycle'.secondFilled = cycle.secondFilled
    BY <1>3, <1>5 DEF CloseForMarketChange, PaperCycles
  <2>2. cycle.secondFilled = 0 \/ cycle.firstFilled = Size
    BY <1>1 DEF Sound, Accounted, IsOpen, OpenStatuses
  <2>3. LegsGrow(cycle, cycle')
    <3>1. cycle.firstFilled \in Nat /\ cycle.secondFilled \in Nat
      BY <1>1, Seen
    <3>2. QED
      BY <2>1, <2>2, <3>1 DEF LegsGrow
  <2>4. QED
    BY <1>1, <1>2, <2>1, <2>3, StrandedStep
<1>6. QED
  BY <1>4, <1>5

-----------------------------------------------------------------------------
\* The initial states map to initial states, an open row of the previous
\* executor to a pair that is open already.
LEMMA InitMaps == Init => Pair!PairInit
<1> SUFFICES ASSUME Init
             PROVE  Pair!PairInit
  OBVIOUS
<1>1. Sound(cycle)
  BY InitIsSound DEF IInv
<1>2. cycle.firstFilled \in 0..Size
  BY <1>1 DEF Sound, PaperCycles
<1>3. cycle.status \in {"NONE"} \cup Legacy
  <2>1. NoCycle.status = "NONE"
    BY DEF NoCycle
  <2>2. \A s \in Legacy, p \in Prices : LegacyRow(s, p).status = s
    BY DEF LegacyRow, NoCycle
  <2>3. QED
    BY <2>1, <2>2 DEF Init
<1>4. cycle.secondFilled = 0 /\ cycle.locked = 0
  BY <1>1, <1>3 DEF Sound, Accounted, OpenStatuses
<1>5. cycle.status = "NONE" => cycle.firstFilled = 0
  BY <1>1 DEF Sound, Accounted
<1>6. \/ cycle.status = "NONE" /\ StageOf(cycle) = "none"
      \/ StageOf(cycle) = "open"
  BY <1>3, Stages DEF OpenStatuses
<1>7. QED
  BY <1>2, <1>4, <1>5, <1>6 DEF Pair!PairInit

LEMMA StepMaps == IInv /\ [Next]_vars => [Pair!PairNext]_(Pair!pairVars)
<1> SUFFICES ASSUME IInv, [Next]_vars
             PROVE  Pair!PairNext \/ UNCHANGED Pair!pairVars
  OBVIOUS
<1>1. ASSUME NEW books \in BookPairs, NEW side \in Sides, Post(books, side)
      PROVE  Pair!PairNext
  BY <1>1, PostStep
<1>2. ASSUME NEW books \in BookPairs, NEW batch \in Batches,
             AdvancePaperCycle(books, batch)
      PROVE  Pair!PairNext \/ UNCHANGED Pair!pairVars
  <2>1. CASE InvalidateLegacy(books, batch)
    <3>1. Sound(cycle) /\ IsOpen(cycle)
      BY <2>1 DEF IInv, InvalidateLegacy, IsOpen, OpenStatuses
    <3>2. QED
      BY <2>1, <3>1, VoidStep DEF InvalidateLegacy
  <2>2. QED
    BY <1>2, <2>1, FirstLegStep, SecondLegStep DEF AdvancePaperCycle
<1>3. CASE InvalidateDataGap
  BY <1>3, VoidStep DEF IInv, InvalidateDataGap
<1>4. CASE CloseForMarketChange
  BY <1>4, MarketChangeStep
<1>5. CASE Tick \/ UNCHANGED vars
  BY <1>5 DEF Tick, vars, Pair!pairVars
<1>6. QED
  BY <1>1, <1>2, <1>3, <1>4, <1>5 DEF Next

\* Whatever books and trades come, a cycle is one MakerPair: its first leg
\* before its second, never both in one step, one verdict, and at least the
\* edge and the buffer locked on every matched pair.
THEOREM CycleImplementsPair == Spec => ImplementsMakerPair
<1>1. Init => Pair!PairInit
  BY InitMaps
<1>2. IInv /\ [Next]_vars => [Pair!PairNext]_(Pair!pairVars)
  BY StepMaps
<1>3. QED
  BY <1>1, <1>2, CycleStaysSound, PTL DEF Spec, ImplementsMakerPair, Pair!PairSpec

\* The trades that complete the first leg never fill the second one: the pair
\* has no such step.  And nothing is done to a cycle that has its verdict.
THEOREM BatchesFillOneLeg == Spec => OneLegPerBatch
<1>1. [Pair!PairNext]_(Pair!pairVars) =>
         (cycle'.secondFilled # cycle.secondFilled => cycle.firstFilled = Size)
  BY DEF Pair!PairNext, Pair!pairVars, Pair!Open, Pair!BuyFirst, Pair!BuySecond, Pair!Pair,
         Pair!Strand, Pair!Unfilled, Pair!Void
<1>2. ASSUME Next, cycle.status \in Terminal
      PROVE  cycle' = cycle
  <2>1. /\ cycle.status \notin OpenStatuses /\ cycle.status # "NONE"
        /\ cycle.status \notin FirstPhase \cup SecondPhase \cup Legacy
    BY <1>2 DEF Terminal, OpenStatuses, FirstPhase, SecondPhase, Legacy
  <2>2. \A books \in BookPairs, batch \in Batches : ~AdvancePaperCycle(books, batch)
    BY <2>1 DEF AdvancePaperCycle, FirstLegFull, ExpireNoFill, FirstLegTimesOut, FirstLegRests,
                ActivateCompletion, KeepAwaiting, AwaitingPrice, CompletePair,
                CompletionTimesOut, CompletionRests, CompletionResting, InvalidateLegacy
  <2>3. QED
    BY <1>2, <2>1, <2>2 DEF Next, Post, InvalidateDataGap, CloseForMarketChange, IsOpen, Tick
<1>3. IInv /\ [Next]_vars =>
         [/\ cycle'.secondFilled # cycle.secondFilled => cycle.firstFilled = Size
          /\ cycle.status \in Terminal => cycle' = cycle]_vars
  BY <1>1, <1>2, StepMaps
<1>4. QED
  BY <1>3, CycleStaysSound, PTL DEF Spec, OneLegPerBatch

-----------------------------------------------------------------------------
\* Prices of the completion order.

\* An order just posted is under its ceiling and below the ask of its book.
LEMMA PostedPrice ==
  ASSUME NEW c \in PaperCycles, NEW books \in BookPairs
  PROVE  LET d == WithCompletion(c, books[SecondSide(c)])
         IN  /\ d.secondPrice < books[SecondSide(d)].ask
             /\ d.secondPrice <= Ceiling(d)
<1> DEFINE b == books[SecondSide(c)]
           d == WithCompletion(c, b)
<1>1. SecondSide(c) \in Sides /\ Ceiling(c) \in Nat
  BY FieldTypes
<1>2. IsBook(b) /\ PricedBook(b) /\ b.ask < Dollar
  BY <1>1, BooksAreBooks
<1> HIDE DEF b
<1>3. /\ d.secondPrice = CompletionPrice(Ceiling(c), b) /\ d.secondPrice <= Ceiling(c)
      /\ d.firstSide = c.firstSide /\ d.completionMax = c.completionMax
  BY <1>2, WithCompletionFacts
<1>4. CompletionPrice(Ceiling(c), b) \in 0..(b.ask - 1)
  BY <1>1, <1>2, CompletionPriceIsSafe
<1>5. CompletionPrice(Ceiling(c), b) < b.ask
  BY <1>2, <1>4 DEF PricedBook
<1>6. SecondSide(d) = SecondSide(c) /\ Ceiling(d) = Ceiling(c)
  BY <1>3 DEF SecondSide, Ceiling
<1>7. QED
  BY <1>3, <1>5, <1>6 DEF b

\* An order moved up is under its ceiling and below the ask of its book.
LEMMA MovedPrice ==
  ASSUME IInv, NEW books \in BookPairs, NEW batch \in Batches,
         CompletionRests(books, batch), cycle'.secondPrice # cycle.secondPrice
  PROVE  /\ cycle'.secondPrice < books[SecondSide(cycle')].ask
         /\ cycle'.secondPrice <= Ceiling(cycle')
         /\ cycle'.secondPrice > cycle.secondPrice
<1> DEFINE c == AfterSecond(batch)
           b == books[SecondSide(c)]
           urgent == now - c.postedAt >= SoftCompletion
           price == Repriced(c.secondPrice, Ceiling(c), b, urgent)
<1>1. /\ CompletionResting /\ Sound(cycle)
      /\ cycle' = IF price > c.secondPrice
                  THEN [c EXCEPT !.secondPrice = price, !.secondQueue = b.queue[price]]
                  ELSE c
  BY DEF CompletionRests, IInv
<1>2. /\ c \in PaperCycles /\ c.secondPrice = cycle.secondPrice
      /\ c.firstSide = cycle.firstSide /\ c.completionMax = cycle.completionMax
  BY <1>1, AfterSecondFacts
<1>3. cycle.status \in SecondPhase /\ cycle.secondPrice <= Ceiling(cycle)
  BY <1>1 DEF Sound, Accounted, CompletionResting
<1>4. urgent \in BOOLEAN
  OBVIOUS
<1> HIDE DEF c, urgent
<1>5. c.secondPrice \in Nat /\ Ceiling(c) \in Nat /\ SecondSide(c) \in Sides
  BY <1>2, FieldTypes
<1>6. IsBook(b) /\ PricedBook(b)
  BY <1>5, BooksAreBooks
<1>7. c.secondPrice <= Ceiling(c)
  BY <1>2, <1>3 DEF Ceiling, SecondSide
<1> HIDE DEF b
<1>8. /\ price \in Nat /\ price <= Ceiling(c)
      /\ price # c.secondPrice => price < b.ask
  BY <1>4, <1>5, <1>6, <1>7, RepricedIsSafe
<1> HIDE DEF price
<1>9. price > c.secondPrice
  BY <1>1, <1>2
<1>10. /\ cycle'.secondPrice = price /\ cycle'.firstSide = c.firstSide
       /\ cycle'.completionMax = c.completionMax
  BY <1>1, <1>2, <1>9 DEF PaperCycles
<1>11. SecondSide(cycle') = SecondSide(c) /\ Ceiling(cycle') = Ceiling(c)
  BY <1>10 DEF SecondSide, Ceiling
<1>12. price < b.ask
  BY <1>5, <1>8, <1>9
<1>13. QED
  BY <1>2, <1>8, <1>9, <1>10, <1>11, <1>12 DEF b

LEMMA PricesAreSafe ==
  ASSUME IInv, Next, cycle'.status \in SecondPhase,
         cycle'.secondPrice # cycle.secondPrice, cycle'.secondPrice > 0
  PROVE  /\ cycle'.secondPrice < lastBook'[SecondSide(cycle')].ask
         /\ cycle'.secondPrice <= Ceiling(cycle')
         /\ cycle.status \in SecondPhase => cycle'.secondPrice > cycle.secondPrice
<1>1. cycle \in PaperCycles /\ Sound(cycle) /\ now \in Nat
  BY DEF IInv, Sound
<1>2. cycle' # cycle
  OBVIOUS
<1>3. ASSUME NEW books \in BookPairs, NEW side \in Sides, Post(books, side)
      PROVE  FALSE
  BY <1>3 DEF Post, NewPaperCycle, SecondPhase
<1>4. ~InvalidateDataGap /\ ~Tick
  BY <1>1, <1>2 DEF InvalidateDataGap, Tick, PaperCycles, SecondPhase
<1>5. ~CloseForMarketChange
  BY <1>1 DEF CloseForMarketChange, PaperCycles, SecondPhase
<1>6. PICK books \in BookPairs, batch \in Batches : AdvancePaperCycle(books, batch)
  BY <1>3, <1>4, <1>5 DEF Next
<1>7. lastBook' = books
  BY <1>6 DEF AdvancePaperCycle
<1>8. ASSUME cycle.status \in FirstPhase
      PROVE  /\ AfterFirst(batch) \in PaperCycles
             /\ AfterFirst(batch).status \in FirstPhase
  BY <1>1, <1>8, AfterFirstFacts
<1>9. ASSUME CompletionResting
      PROVE  AfterSecond(batch) \in PaperCycles
  BY <1>1, <1>9, AfterSecondFacts
<1>10. ~InvalidateLegacy(books, batch)
  BY <1>1 DEF InvalidateLegacy, PaperCycles, SecondPhase
<1>11. ~ExpireNoFill(books, batch)
  BY <1>8 DEF ExpireNoFill, PaperCycles, SecondPhase
<1>12. ~FirstLegTimesOut(books, batch)
  BY <1>8, TimedOutFacts DEF FirstLegTimesOut, SecondPhase
<1>13. ~FirstLegRests(books, batch)
  BY <1>8 DEF FirstLegRests, FirstPhase, SecondPhase
<1>14. ~KeepAwaiting(books, batch)
  BY <1>1, <1>2, TimedOutFacts DEF KeepAwaiting, SecondPhase
<1>15. ~CompletePair(books, batch)
  BY <1>9 DEF CompletePair, PaperCycles, SecondPhase
<1>16. ~CompletionTimesOut(books, batch)
  BY <1>9, TimedOutFacts DEF CompletionTimesOut, SecondPhase
<1>17. CASE FirstLegFull(books, batch)
  <2> DEFINE posted == [AfterFirst(batch) EXCEPT !.status = "COMPLETING", !.postedAt = now]
  <2>1. /\ cycle' = WithCompletion(posted, books[SecondSide(AfterFirst(batch))])
        /\ cycle.status \in FirstPhase
    BY <1>17 DEF FirstLegFull
  <2>2. posted \in PaperCycles /\ SecondSide(posted) = SecondSide(AfterFirst(batch))
    <3>1. now \in Int /\ "COMPLETING" \in {"NONE"} \cup OpenStatuses \cup Terminal
      BY <1>1 DEF OpenStatuses, SecondPhase
    <3>2. AfterFirst(batch) \in PaperCycles
      BY <1>8, <2>1
    <3>3. QED
      BY <3>1, <3>2 DEF PaperCycles, SecondSide
  <2>3. cycle.status \notin SecondPhase
    BY <2>1 DEF FirstPhase, SecondPhase
  <2> HIDE DEF posted
  <2>4. QED
    BY <1>7, <2>1, <2>2, <2>3, PostedPrice
<1>18. CASE ActivateCompletion(books, batch)
  <2>1. /\ cycle' = WithCompletion(cycle, books[SecondSide(cycle)])
        /\ cycle.secondPrice = 0
    BY <1>18 DEF ActivateCompletion, AwaitingPrice
  <2>2. QED
    BY <1>1, <1>7, <2>1, PostedPrice
<1>19. CASE CompletionRests(books, batch)
  BY <1>7, <1>19, MovedPrice
<1>20. QED
  BY <1>6, <1>10, <1>11, <1>12, <1>13, <1>14, <1>15, <1>16, <1>17, <1>18, <1>19
     DEF AdvancePaperCycle

\* The completion order is post-only on the book it was priced from, stays
\* under its ceiling and only moves up, for every book, tick and edge.
THEOREM CompletionIsPricedSafely == Spec => CompletionPricedSafely
<1>1. IInv /\ [Next]_vars =>
         [LET c == cycle'
          IN  /\ c.status \in SecondPhase
              /\ c.secondPrice # cycle.secondPrice
              /\ c.secondPrice > 0
              => /\ c.secondPrice < lastBook'[SecondSide(c)].ask
                 /\ c.secondPrice <= Ceiling(c)
                 /\ cycle.status \in SecondPhase => c.secondPrice > cycle.secondPrice]_vars
  BY PricesAreSafe
<1>2. QED
  BY <1>1, CycleStaysSound, PTL DEF Spec, CompletionPricedSafely
=============================================================================
