----------------------- MODULE ArbShadowRuntimeProofs -----------------------
(***************************************************************************)
(* The maker paper executor, for every reserve and gain and any number of  *)
(* markets, rows, gaps, failed statements and crashes: which verdicts can  *)
(* be trusted, how many rows are left open for good, and how far the       *)
(* balance can fall.                                                       *)
(***************************************************************************)
EXTENDS ArbShadowRuntime, FiniteSetTheorems, WellFoundedInduction, TLAPS

-----------------------------------------------------------------------------
(***************************************************************************)
(* The inductive invariant.                                                *)
(***************************************************************************)
\* The row the second statement of an insertion is for.
Inserting == IF step = "payload" THEN {Len(rows)} ELSE {}

\* What memory and the table have to do with each other.
MemorySound ==
    /\ Len(rows) <= MaxCycles
    /\ active # NoCycle \/ step # "idle" => up
    /\ active.id \in {0} \cup OpenRows
    /\ step \in {"insert", "payload"} => active = NoCycle
    /\ step = "payload" => Inserting \subseteq OpenRows

OpenRowsEarnNothing == /\ \A i \in OpenRows : rows[i].pnl = 0
                       /\ IsOpen(active) => active.pnl = 0

\* A cycle that was not restored, that is open and that missed trades, has
\* fewer gaps than the stream has counted: it will be found out, by the next
\* pass if this one has compared the counts already.
Known(c, i) == i \notin resumed =>
                  /\ c.gaps <= gapCount
                  /\ IsOpen(c) /\ i \in missed => c.gaps < gapCount
                  /\ c.status \in Trusted /\ i \in missed => c.by = "market" \/ i \in late
GapsAreKnown == /\ active.id > 0 => Known(active, active.id)
                /\ \A i \in Inserting : Known(rows[i], i)

\* Once a pass has found the counts equal, a gap makes what follows late.
LateIsKnown == step \in {"health", "read"} =>
                  (IsOpen(active) /\ active.id \in missed \ resumed => active.id \in late)

\* A closed cycle whose row could not be written and that is still in memory:
\* its row will stay open for good, and a statement has already failed for it.
Lost == IF active.id > 0 /\ ~IsOpen(active) /\ step \notin {"close", "store"}
        THEN {active.id} ELSE {}
Doomed == Orphans \cup Lost
FaultCount == errors + crashes
FaultsCovered == Cardinality(Doomed) <= FaultCount

\* Every open row but those of faults is backed by the balance.
CashBacksOpenRows == Cash >= Reserve * (Cardinality(OpenRows) - FaultCount)

RuntimeIInv == /\ TypeOK /\ MemorySound /\ OpenRowsEarnNothing
               /\ GapsAreKnown /\ LateIsKnown /\ GapInvalidatesInProcess
               /\ FaultsCovered /\ CashBacksOpenRows

-----------------------------------------------------------------------------
(***************************************************************************)
(* Constants, sets and their sizes.                                        *)
(***************************************************************************)
LEMMA RuntimeConstants ==
  /\ Initial \in Nat /\ Reserve \in Nat /\ Reserve > 0 /\ Gain \in Nat
  /\ MaxMarkets \in Nat /\ MaxMarkets > 0 /\ MaxCycles \in Nat
  /\ MaxGaps \in Nat /\ MaxErrors \in Nat /\ MaxCrashes \in Nat
  BY RuntimeAssumption DEF RuntimeAssumption

LEMMA OneMoreAtMost ==
  ASSUME NEW S, IsFiniteSet(S), NEW x, NEW T \in SUBSET (S \cup {x})
  PROVE  /\ IsFiniteSet(T) /\ Cardinality(T) \in Nat /\ Cardinality(S) \in Nat
         /\ Cardinality(T) <= Cardinality(S) + 1
<1>1. IsFiniteSet(S \cup {x}) /\ Cardinality(S \cup {x}) <= Cardinality(S) + 1
      /\ Cardinality(S) \in Nat
  BY FS_AddElement, FS_CardinalityType
<1>2. IsFiniteSet(T) /\ Cardinality(T) <= Cardinality(S \cup {x})
  BY <1>1, FS_Subset
<1>3. Cardinality(T) \in Nat /\ Cardinality(S \cup {x}) \in Nat
  BY <1>1, <1>2, FS_CardinalityType
<1>4. QED
  BY <1>1, <1>2, <1>3

LEMMA OneFewerAtLeast ==
  ASSUME NEW S, IsFiniteSet(S), NEW x \in S, NEW T \in SUBSET (S \ {x})
  PROVE  /\ IsFiniteSet(T) /\ Cardinality(T) \in Nat /\ Cardinality(S) \in Nat
         /\ Cardinality(T) <= Cardinality(S) - 1
<1>1. IsFiniteSet(S \ {x}) /\ Cardinality(S \ {x}) = Cardinality(S) - 1
      /\ Cardinality(S) \in Nat
  BY FS_RemoveElement, FS_CardinalityType
<1>2. IsFiniteSet(T) /\ Cardinality(T) <= Cardinality(S \ {x})
  BY <1>1, FS_Subset
<1>3. Cardinality(T) \in Nat
  BY <1>2, FS_CardinalityType
<1>4. QED
  BY <1>1, <1>2, <1>3

LEMMA NoMoreThan ==
  ASSUME NEW S, IsFiniteSet(S), NEW T \in SUBSET S
  PROVE  /\ IsFiniteSet(T) /\ Cardinality(T) \in Nat /\ Cardinality(S) \in Nat
         /\ Cardinality(T) <= Cardinality(S)
  BY FS_Subset, FS_CardinalityType

LEMMA Scaled ==
  ASSUME NEW k \in Nat, NEW a \in Int, NEW b \in Int, a <= b
  PROVE  k * a <= k * b /\ k * a \in Int /\ k * b \in Int
<1>1. PICK d \in Nat : b = a + d
  <2>1. b - a \in Nat /\ b = a + (b - a)
    OBVIOUS
  <2>2. QED
    BY <2>1
<1>2. k * b = k * a + k * d /\ k * d \in Nat /\ k * a \in Int /\ k * b \in Int
  BY <1>1
<1>3. QED
  BY <1>2

LEMMA NoCycleTyped ==
  /\ NoCycle \in Cycles /\ NoCycle.id = 0 /\ NoCycle.market = 0 /\ NoCycle.pnl = 0
  /\ NoCycle.status = "void" /\ ~IsOpen(NoCycle)
<1>1. /\ NoCycle \in [id : {0}, market : {0}, status : {"void"}, bought : {FALSE},
                       gaps : {0}, pnl : {0}, by : {"advance"}]
  BY DEF NoCycle, Cycle
<1>2. NoCycle \in Cycles
  <2>1. 0 \in 0..MaxCycles /\ 0 \in 0..MaxMarkets /\ 0 \in 0..MaxGaps
    BY RuntimeConstants
  <2>2. "void" \in Statuses
    BY DEF Statuses
  <2>3. QED
    BY <1>1, <2>1, <2>2 DEF Cycles
<1>3. QED
  BY <1>1, <1>2 DEF IsOpen

FiniteRows == /\ DOMAIN rows = 1..Len(rows) /\ Len(rows) \in Nat
              /\ OpenRows \subseteq DOMAIN rows
              /\ IsFiniteSet(DOMAIN rows) /\ IsFiniteSet(OpenRows)
              /\ \A pnl : IsFiniteSet(RowsWith(pnl))
              /\ Orphans \subseteq OpenRows /\ IsFiniteSet(Doomed)

LEMMA RowSets == TypeOK => FiniteRows
<1> SUFFICES ASSUME TypeOK PROVE FiniteRows
  OBVIOUS
<1>1. DOMAIN rows = 1..Len(rows) /\ Len(rows) \in Nat
  BY DEF TypeOK
<1>2. IsFiniteSet(DOMAIN rows)
  BY <1>1, FS_Interval
<1>3. OpenRows \subseteq DOMAIN rows /\ Orphans \subseteq OpenRows
      /\ \A pnl : RowsWith(pnl) \subseteq DOMAIN rows
  BY DEF OpenRows, Orphans, RowsWith
<1>4. IsFiniteSet(OpenRows) /\ \A pnl : IsFiniteSet(RowsWith(pnl))
  BY <1>2, <1>3, FS_Subset
<1>5. IsFiniteSet(Orphans)
  BY <1>3, <1>4, FS_Subset
<1>6. IsFiniteSet(Doomed)
  <2>1. Lost = {} \/ \E x : Lost = {x}
    BY DEF Lost
  <2>2. QED
    BY <1>5, <2>1, FS_AddElement DEF Doomed
<1>7. QED
  BY <1>1, <1>2, <1>3, <1>4, <1>6 DEF FiniteRows

LEMMA RowSetsNext == TypeOK' => FiniteRows'
  BY RowSets, PTL

-----------------------------------------------------------------------------
(***************************************************************************)
(* How the counted parts of the invariant survive a step.                  *)
(***************************************************************************)
FaultCountIsNat == FaultCount \in Nat

LEMMA FaultCountTyped == TypeOK => FaultCountIsNat
  BY RuntimeConstants DEF TypeOK, FaultCount, FaultCountIsNat

LEMMA FaultCountTypedNext == TypeOK' => FaultCountIsNat'
  BY FaultCountTyped, PTL

LEMMA FaultsStay ==
  ASSUME TypeOK, TypeOK', FaultsCovered, Doomed' \subseteq Doomed, FaultCount' >= FaultCount
  PROVE  FaultsCovered'
<1>1. Cardinality(Doomed') <= Cardinality(Doomed)
      /\ Cardinality(Doomed') \in Nat /\ Cardinality(Doomed) \in Nat
  BY RowSets, RowSetsNext, NoMoreThan DEF FiniteRows
<1>2. Cardinality(Doomed') <= FaultCount'
  BY <1>1, FaultCountTyped, FaultCountTypedNext DEF FaultsCovered, FaultCountIsNat
<1>3. QED
  BY <1>2 DEF FaultsCovered

LEMMA FaultsGrow ==
  ASSUME TypeOK, TypeOK', FaultsCovered, NEW x, Doomed' \subseteq Doomed \cup {x},
         FaultCount' = FaultCount + 1
  PROVE  FaultsCovered'
<1>1. Cardinality(Doomed') <= Cardinality(Doomed) + 1
      /\ Cardinality(Doomed') \in Nat /\ Cardinality(Doomed) \in Nat
  BY RowSets, RowSetsNext, OneMoreAtMost DEF FiniteRows
<1>2. Cardinality(Doomed') <= FaultCount'
  BY <1>1, FaultCountTyped DEF FaultsCovered, FaultCountIsNat
<1>3. QED
  BY <1>2 DEF FaultsCovered

CountsTyped == /\ Cardinality(OpenRows) \in Nat
               /\ Cardinality(RowsWith(Gain)) \in Nat
               /\ Cardinality(RowsWith(-Reserve)) \in Nat

LEMMA CountTypes == TypeOK => CountsTyped
  BY RowSets, FS_CardinalityType DEF FiniteRows, CountsTyped

LEMMA CashTypedNext == TypeOK' => CountsTyped'
  BY CountTypes, PTL

LEMMA CashTyped ==
  ASSUME TypeOK
  PROVE  /\ Cash \in Int /\ CountsTyped
         /\ Cardinality(OpenRows) \in Nat
         /\ Cardinality(RowsWith(Gain)) \in Nat /\ Cardinality(RowsWith(-Reserve)) \in Nat
<1>1. CountsTyped
  BY CountTypes
<1>2. /\ Gain * Cardinality(RowsWith(Gain)) \in Nat
      /\ Reserve * Cardinality(RowsWith(-Reserve)) \in Nat
  BY <1>1, RuntimeConstants DEF CountsTyped
<1>3. QED
  BY <1>1, <1>2, RuntimeConstants DEF Cash, CountsTyped

\* What backs fewer rows after more faults.
LEMMA LessToBack ==
  ASSUME NEW n \in Nat, NEW m \in Nat, NEW f \in Nat, NEW g \in Nat, m - g <= n - f
  PROVE  /\ Reserve * (m - g) <= Reserve * (n - f)
         /\ Reserve * (m - g) \in Int /\ Reserve * (n - f) \in Int
  BY Scaled, RuntimeConstants

LEMMA LaterLess ==
  ASSUME NEW n \in Nat, NEW f \in Nat, NEW g \in Nat, f <= g
  PROVE  n - g <= n - f
  OBVIOUS

LEMMA CashSame ==
  ASSUME TypeOK, TypeOK', CashBacksOpenRows,
         Cash' = Cash, OpenRows' = OpenRows, FaultCount' >= FaultCount
  PROVE  CashBacksOpenRows'
<1>1. Cash \in Int /\ Cardinality(OpenRows) \in Nat
      /\ FaultCount \in Nat /\ FaultCount' \in Nat
  BY CashTyped, FaultCountTyped, FaultCountTypedNext DEF FaultCountIsNat
<1>2. /\ Reserve * (Cardinality(OpenRows) - FaultCount')
           <= Reserve * (Cardinality(OpenRows) - FaultCount)
      /\ Reserve * (Cardinality(OpenRows) - FaultCount') \in Int
      /\ Reserve * (Cardinality(OpenRows) - FaultCount) \in Int
  BY <1>1, LaterLess, LessToBack
<1>3. Cash >= Reserve * (Cardinality(OpenRows) - FaultCount')
  BY <1>1, <1>2 DEF CashBacksOpenRows
<1>4. QED
  BY <1>3 DEF CashBacksOpenRows

\* As long as the rows are left alone so is the balance.
LEMMA CashStays ==
  ASSUME TypeOK, TypeOK', CashBacksOpenRows, rows' = rows, FaultCount' >= FaultCount
  PROVE  CashBacksOpenRows'
<1>1. Cash' = Cash /\ OpenRows' = OpenRows
  BY DEF Cash, RowsWith, OpenRows
<1>2. QED
  BY <1>1, CashSame

-----------------------------------------------------------------------------
(***************************************************************************)
(* Initial states, and the steps that leave the rows alone.                *)
(***************************************************************************)
LEMMA RuntimeInitSound == Init => RuntimeIInv
<1> SUFFICES ASSUME Init PROVE RuntimeIInv
  OBVIOUS
<1>1. active = NoCycle /\ active.id = 0 /\ ~IsOpen(active) /\ active.pnl = 0 /\ active \in Cycles
  BY NoCycleTyped DEF Init
<1>2. OpenRows = {} /\ Doomed = {} /\ Inserting = {} /\ \A pnl : RowsWith(pnl) = {}
  BY <1>1 DEF Init, OpenRows, Doomed, Orphans, Lost, Inserting, RowsWith
<1>3. FaultCount = 0
  BY DEF Init, FaultCount
<1>4. TypeOK
  <2>1. /\ market \in 1..MaxMarkets /\ mc \in 0..market /\ gapCount \in 0..MaxGaps
        /\ errors \in 0..MaxErrors /\ crashes \in 0..MaxCrashes
    BY RuntimeConstants DEF Init
  <2>2. rows \in Seq(Cycles) /\ DOMAIN rows = {}
    BY DEF Init
  <2>3. QED
    BY <1>1, <2>1, <2>2 DEF Init, TypeOK, Steps
<1>5. MemorySound /\ OpenRowsEarnNothing /\ GapsAreKnown /\ LateIsKnown
  BY <1>1, <1>2, RuntimeConstants
     DEF Init, MemorySound, OpenRowsEarnNothing, GapsAreKnown, LateIsKnown
<1>6. FaultsCovered
  BY <1>2, <1>3, FS_EmptySet DEF FaultsCovered
<1>7. CashBacksOpenRows
  <2>1. Cardinality(OpenRows) = 0 /\ Cardinality(RowsWith(Gain)) = 0
        /\ Cardinality(RowsWith(-Reserve)) = 0
    BY <1>2, FS_EmptySet
  <2>2. QED
    BY <1>3, <2>1, RuntimeConstants DEF CashBacksOpenRows, Cash
<1>8. GapInvalidatesInProcess
  BY DEF Init, GapInvalidatesInProcess
<1>9. QED
  BY <1>4, <1>5, <1>6, <1>7, <1>8 DEF RuntimeIInv

Table == <<rows, missed, resumed>>

\* A step that only moves the pass, or forgets who was late.
LEMMA QuietSound ==
  ASSUME RuntimeIInv, TypeOK', UNCHANGED <<active, gapCount, up, errors, crashes, Table>>,
         late' = late \/ late' = late \ Undecided,
         LateIsKnown',
         \/ step' = step
         \/ /\ up /\ step \notin {"payload", "close", "store"}
            /\ step' \notin {"payload", "close", "store"}
            /\ step' = "insert" => active = NoCycle
  PROVE  RuntimeIInv'
<1>1. rows' = rows /\ missed' = missed /\ resumed' = resumed /\ FaultCount' = FaultCount
      /\ OpenRows' = OpenRows
  BY DEF Table, FaultCount, OpenRows
<1>2. Inserting' = Inserting /\ Lost' = Lost
  BY <1>1 DEF Inserting, Lost
<1>3. Doomed' = Doomed
  BY <1>1, <1>2 DEF Doomed, Orphans
<1>4. MemorySound'
  BY <1>1, <1>2 DEF RuntimeIInv, MemorySound
<1>5. OpenRowsEarnNothing'
  BY <1>1 DEF RuntimeIInv, OpenRowsEarnNothing
<1>6. "open" \notin Trusted
  BY DEF Trusted
<1>7. GapInvalidatesInProcess'
  <2> SUFFICES ASSUME NEW i \in DOMAIN rows, rows[i].status \in Trusted, i \in missed
               PROVE  i \in resumed \/ rows[i].by = "market" \/ i \in late'
    BY <1>1 DEF GapInvalidatesInProcess
  <2>1. i \notin Undecided
    BY <1>6 DEF Undecided, OpenRows, IsOpen
  <2>2. QED
    BY <2>1 DEF RuntimeIInv, GapInvalidatesInProcess
<1>8. GapsAreKnown'
  <2>1. active.id > 0 => Known(active, active.id)'
    <3>1. active.status \in Trusted => active.id \notin Undecided
      BY <1>6 DEF Undecided, IsOpen
    <3>2. QED
      BY <1>1, <3>1 DEF RuntimeIInv, GapsAreKnown, Known
  <2>2. ASSUME NEW i \in Inserting PROVE Known(rows[i], i)'
    <3>1. rows[i].status \notin Trusted
      BY <1>6, <2>2 DEF RuntimeIInv, MemorySound, Inserting, OpenRows, IsOpen
    <3>2. QED
      BY <1>1, <2>2, <3>1 DEF RuntimeIInv, GapsAreKnown, Known
  <2>3. QED
    BY <1>1, <1>2, <2>1, <2>2 DEF GapsAreKnown
<1>9. FaultsCovered' /\ CashBacksOpenRows'
  BY <1>1, <1>3, FaultCountTyped, FaultsStay, CashStays DEF RuntimeIInv, FaultCountIsNat
<1>10. QED
  BY <1>4, <1>5, <1>7, <1>8, <1>9 DEF RuntimeIInv

\* A pass that closes or advances the open cycle it follows.
LEMMA MoveSound ==
  ASSUME RuntimeIInv, TypeOK', UNCHANGED <<gapCount, up, errors, crashes, Table>>, late' = late,
         up, step # "payload", step' \notin {"insert", "payload", "health", "read"},
         IsOpen(active), active'.id = active.id, active'.gaps = active.gaps,
         IsOpen(active') => active'.pnl = 0,
         IsOpen(active') \/ step' \in {"close", "store"},
         active.id \in missed /\ active.id \notin resumed /\ active.gaps < gapCount
            /\ active'.status \in Trusted => active'.by = "market" \/ active.id \in late
  PROVE  RuntimeIInv'
<1>1. rows' = rows /\ missed' = missed /\ resumed' = resumed /\ FaultCount' = FaultCount
      /\ OpenRows' = OpenRows
  BY DEF Table, FaultCount, OpenRows
<1>2. Inserting' = {} /\ Lost' = {}
  BY DEF Inserting, Lost
<1>3. Doomed' \subseteq Doomed
  BY <1>1, <1>2 DEF Doomed, Orphans
<1>4. MemorySound'
  BY <1>1, <1>2 DEF RuntimeIInv, MemorySound
<1>5. OpenRowsEarnNothing' /\ GapInvalidatesInProcess'
  BY <1>1 DEF RuntimeIInv, OpenRowsEarnNothing, GapInvalidatesInProcess
<1>6. GapsAreKnown' /\ LateIsKnown'
  BY <1>1, <1>2 DEF RuntimeIInv, GapsAreKnown, Known, LateIsKnown
<1>7. FaultsCovered' /\ CashBacksOpenRows'
  BY <1>1, <1>3, FaultCountTyped, FaultsStay, CashStays DEF RuntimeIInv, FaultCountIsNat
<1>8. QED
  BY <1>4, <1>5, <1>6, <1>7 DEF RuntimeIInv

\* A pass that lets a closed cycle go: if its row was never written, a
\* statement has failed for it already.
LEMMA LetGoSound ==
  ASSUME RuntimeIInv, TypeOK', UNCHANGED <<gapCount, up, errors, crashes, Table>>, late' = late, up,
         step \notin {"payload", "close", "store"}, step' \notin {"payload", "close", "store"},
         ~IsOpen(active), active' = NoCycle
  PROVE  RuntimeIInv'
<1>1. rows' = rows /\ missed' = missed /\ resumed' = resumed /\ FaultCount' = FaultCount
      /\ OpenRows' = OpenRows
  BY DEF Table, FaultCount, OpenRows
<1>2. Inserting' = {} /\ Lost' = {} /\ active'.id = 0 /\ active'.pnl = 0 /\ ~IsOpen(active')
  BY NoCycleTyped DEF Inserting, Lost
<1>3. Doomed' \subseteq Doomed
  <2> SUFFICES ASSUME NEW i \in Orphans' PROVE i \in Doomed
    BY <1>2 DEF Doomed
  <2>1. i \in OpenRows /\ active.id \in {0} \cup OpenRows
    BY <1>1 DEF Orphans, RuntimeIInv, MemorySound
  <2>2. CASE i = active.id
    <3>1. i \in 1..Len(rows)
      BY <2>1, RowSets DEF RuntimeIInv, FiniteRows
    <3>2. QED
      BY <2>2, <3>1 DEF Doomed, Lost
  <2>3. CASE i # active.id
    BY <2>1, <2>3 DEF Doomed, Orphans
  <2>4. QED
    BY <2>2, <2>3
<1>4. MemorySound'
  BY <1>1, <1>2 DEF RuntimeIInv, MemorySound
<1>5. OpenRowsEarnNothing' /\ GapInvalidatesInProcess'
  BY <1>1, <1>2 DEF RuntimeIInv, OpenRowsEarnNothing, GapInvalidatesInProcess
<1>6. GapsAreKnown' /\ LateIsKnown'
  BY <1>1, <1>2 DEF GapsAreKnown, LateIsKnown
<1>7. FaultsCovered' /\ CashBacksOpenRows'
  BY <1>1, <1>3, FaultCountTyped, FaultsStay, CashStays DEF RuntimeIInv, FaultCountIsNat
<1>8. QED
  BY <1>4, <1>5, <1>6, <1>7 DEF RuntimeIInv

\* The steps of the pass and of the world that touch neither cycle nor row.
LEMMA PassSound ==
  ASSUME RuntimeIInv,
         \/ NextMarket \/ StreamHealth \/ Submit \/ Fetch \/ KeepOld
         \/ NoActive \/ SameGaps \/ StillHealthy \/ MayPost \/ NothingToPost
  PROVE  RuntimeIInv'
<1>1. UNCHANGED <<active, gapCount, up, errors, crashes, Table>>
  BY DEF NextMarket, StreamHealth, Submit, Fetch, KeepOld, NoActive, SameGaps, StillHealthy,
         MayPost, NothingToPost, process, stream, faults, World, history, Table
<1>2. \/ step' = step
      \/ /\ up /\ step \notin {"payload", "close", "store"}
         /\ step' \notin {"payload", "close", "store"}
         /\ step' = "insert" => active = NoCycle
  BY DEF NextMarket, StreamHealth, Submit, Fetch, KeepOld, NoActive, SameGaps, StillHealthy,
         MayPost, NothingToPost, process, World, Goto
<1>3. late' = late \/ late' = late \ Undecided
  BY DEF NextMarket, StreamHealth, Submit, Fetch, KeepOld, NoActive, SameGaps, StillHealthy,
         MayPost, NothingToPost, World, history
<1>4. /\ active' = active /\ rows' = rows /\ gapCount' = gapCount /\ up' = up
      /\ errors' = errors /\ crashes' = crashes /\ missed' = missed /\ resumed' = resumed
  BY <1>1 DEF Table
<1>5. TypeOK'
  <2>1. market' \in 1..MaxMarkets /\ mc' \in 0..market' /\ step' \in Steps /\ healthy' \in BOOLEAN
    <3>1. market \in 1..MaxMarkets /\ mc \in 0..market /\ step \in Steps /\ healthy \in BOOLEAN
      BY DEF RuntimeIInv, TypeOK
    <3>2. CASE NextMarket
      BY <3>1, <3>2, RuntimeConstants DEF NextMarket, process, stream
    <3>3. CASE StreamHealth
      BY <3>1, <3>3 DEF StreamHealth, process
    <3>4. CASE Submit
      BY <3>1, <3>4, RuntimeConstants DEF Submit, Goto, stream, Steps
    <3>5. CASE Fetch \/ KeepOld \/ NoActive \/ NothingToPost
      BY <3>1, <3>5 DEF Fetch, KeepOld, NoActive, NothingToPost, Goto, World, stream, Steps
    <3>6. CASE SameGaps \/ StillHealthy \/ MayPost
      BY <3>1, <3>6 DEF SameGaps, StillHealthy, MayPost, Goto, World, stream, Steps
    <3>7. QED
      BY <3>2, <3>3, <3>4, <3>5, <3>6
  <2>2. late' \subseteq DOMAIN rows
    BY <1>3 DEF RuntimeIInv, TypeOK
  <2>3. QED
    BY <1>4, <2>1, <2>2 DEF RuntimeIInv, TypeOK
<1>6. LateIsKnown'
  <2>1. CASE SameGaps
    <3>1. gapCount = active.gaps /\ gapCount \in Nat /\ late' = late
      BY <2>1, RuntimeConstants DEF SameGaps, RuntimeIInv, TypeOK, World, history
    <3>2. active.id \in missed \ resumed => active.id > 0
      <4>1. active \in Cycles /\ active.id \in Int /\ active.id >= 0
        BY RuntimeConstants DEF RuntimeIInv, TypeOK, Cycles
      <4>2. active.id \in missed => active.id \in DOMAIN rows
        BY DEF RuntimeIInv, TypeOK
      <4>3. active.id \in DOMAIN rows => active.id > 0
        BY <4>1, RowSets DEF RuntimeIInv, FiniteRows
      <4>4. QED
        BY <4>2, <4>3
    <3>3. IsOpen(active) => active.id \notin missed \ resumed
      BY <3>1, <3>2 DEF RuntimeIInv, GapsAreKnown, Known
    <3>4. QED
      BY <1>4, <3>3 DEF LateIsKnown
  <2>2. CASE StillHealthy
    BY <1>4, <2>2 DEF StillHealthy, World, history, RuntimeIInv, LateIsKnown
  <2>3. CASE NextMarket \/ StreamHealth
    BY <1>4, <2>3 DEF NextMarket, StreamHealth, process, history, RuntimeIInv, LateIsKnown
  <2>4. CASE Submit \/ Fetch \/ KeepOld \/ NoActive \/ MayPost \/ NothingToPost
    BY <2>4 DEF Submit, Fetch, KeepOld, NoActive, MayPost, NothingToPost, Goto, LateIsKnown
  <2>5. QED
    BY <2>1, <2>2, <2>3, <2>4
<1>7. QED
  BY <1>1, <1>2, <1>3, <1>5, <1>6, QuietSound

\* What TypeOK needs after a step of the pass that leaves the rows alone.
LEMMA PassTyped ==
  ASSUME TypeOK, UNCHANGED <<mc, rows, World>>, active' \in Cycles, step' \in Steps,
         errors' \in 0..MaxErrors
  PROVE  TypeOK'
  BY DEF TypeOK, World, stream, history

LEMMA CloseSound == ASSUME RuntimeIInv, CloseOld PROVE RuntimeIInv'
<1>1. UNCHANGED <<gapCount, up, errors, crashes, late, Table>> /\ up /\ step = "process"
      /\ UNCHANGED <<mc, rows, World>>
  BY DEF CloseOld, Goto, World, stream, history, Table
<1>2. active \in Cycles /\ TypeOK /\ errors \in 0..MaxErrors
  BY DEF RuntimeIInv, TypeOK
<1>3. CASE IsOpen(active)
  <2>1. PICK pnl \in {-Reserve, 0} :
            active' = IF active.bought
                      THEN [active EXCEPT !.status = "stranded", !.by = "market", !.pnl = pnl]
                      ELSE [active EXCEPT !.status = "unfilled", !.by = "market"]
    BY <1>3 DEF CloseOld
  <2>2. /\ active' \in Cycles /\ active'.id = active.id /\ active'.gaps = active.gaps
        /\ active'.by = "market" /\ ~IsOpen(active')
    BY <1>2, <2>1 DEF Cycles, Statuses, Trusted, IsOpen
  <2>3. step' = "close"
    BY <1>3 DEF CloseOld, Goto
  <2>4. TypeOK'
    BY <1>1, <1>2, <2>2, <2>3, PassTyped DEF Steps
  <2>5. QED
    BY <1>1, <1>3, <2>2, <2>3, <2>4, MoveSound
<1>4. CASE ~IsOpen(active)
  <2>1. active' = NoCycle /\ step' = "update"
    BY <1>4 DEF CloseOld, Goto
  <2>2. TypeOK'
    BY <1>1, <1>2, <2>1, PassTyped, NoCycleTyped DEF Steps
  <2>3. QED
    BY <1>1, <1>4, <2>1, <2>2, LetGoSound
<1>5. QED
  BY <1>3, <1>4

LEMMA InvalidateSound == ASSUME RuntimeIInv, Invalidate PROVE RuntimeIInv'
<1>1. UNCHANGED <<gapCount, up, errors, crashes, late, Table>> /\ up /\ step = "update"
      /\ UNCHANGED <<mc, rows, World>>
  BY DEF Invalidate, Goto, World, stream, history, Table
<1>2. active \in Cycles /\ TypeOK /\ errors \in 0..MaxErrors
  BY DEF RuntimeIInv, TypeOK
<1>3. CASE IsOpen(active)
  <2>1. active' = [active EXCEPT !.status = "void", !.pnl = 0] /\ step' = "store"
    BY <1>3 DEF Invalidate, Goto
  <2>2. /\ active' \in Cycles /\ active'.id = active.id /\ active'.gaps = active.gaps
        /\ active'.status \notin Trusted /\ ~IsOpen(active')
    BY <1>2, <2>1 DEF Cycles, Statuses, Trusted, IsOpen
  <2>3. TypeOK'
    BY <1>1, <1>2, <2>1, <2>2, PassTyped DEF Steps
  <2>4. QED
    BY <1>1, <1>3, <2>1, <2>2, <2>3, MoveSound
<1>4. CASE ~IsOpen(active)
  <2>1. active' = NoCycle /\ step' = "post"
    BY <1>4 DEF Invalidate, Goto
  <2>2. TypeOK'
    BY <1>1, <1>2, <2>1, PassTyped, NoCycleTyped DEF Steps
  <2>3. QED
    BY <1>1, <1>4, <2>1, <2>2, LetGoSound
<1>5. QED
  BY <1>3, <1>4

LEMMA AdvanceSound == ASSUME RuntimeIInv, Advance PROVE RuntimeIInv'
<1>1. UNCHANGED <<gapCount, up, errors, crashes, late, Table>> /\ up /\ step = "read"
      /\ UNCHANGED <<mc, rows, World>>
  BY DEF Advance, Goto, World, stream, history, Table
<1>2. active \in Cycles /\ TypeOK /\ errors \in 0..MaxErrors
  BY DEF RuntimeIInv, TypeOK
<1>3. CASE ~IsOpen(active) /\ active' = NoCycle /\ step' = "post"
  <2>1. TypeOK'
    BY <1>1, <1>2, <1>3, PassTyped, NoCycleTyped DEF Steps
  <2>2. QED
    BY <1>1, <1>3, <2>1, LetGoSound
<1>4. CASE IsOpen(active) /\ active' = active /\ step' = "post"
  <2>1. TypeOK'
    BY <1>1, <1>2, <1>4, PassTyped DEF Steps
  <2>2. LateIsKnown'
    BY <1>4 DEF LateIsKnown
  <2>3. QED
    BY <1>1, <1>4, <2>1, <2>2, QuietSound
<1>5. CASE /\ IsOpen(active) /\ step' = "store"
           /\ \/ active' = [active EXCEPT !.bought = TRUE]
              \/ active' = [active EXCEPT !.bought = TRUE, !.status = "paired", !.pnl = Gain]
              \/ \E pnl \in {-Reserve, 0} :
                   active' = [active EXCEPT !.bought = TRUE, !.status = "stranded", !.pnl = pnl]
              \/ active' = [active EXCEPT !.status = "unfilled"]
  <2>1. active' \in Cycles /\ active'.id = active.id /\ active'.gaps = active.gaps
        /\ (IsOpen(active') => active'.pnl = active.pnl)
    BY <1>2, <1>5 DEF Cycles, Statuses, Trusted, IsOpen
  <2>2. TypeOK'
    BY <1>1, <1>2, <1>5, <2>1, PassTyped DEF Steps
  <2>3. active.pnl = 0
    BY <1>5 DEF RuntimeIInv, OpenRowsEarnNothing
  <2>4. active.id \in missed /\ active.id \notin resumed => active.id \in late
    BY <1>1, <1>5 DEF RuntimeIInv, LateIsKnown
  <2>5. QED
    BY <1>1, <1>5, <2>1, <2>2, <2>3, <2>4, MoveSound
<1>6. QED
  BY <1>3, <1>4, <1>5 DEF Advance, Goto

LEMMA UnhealthySound == ASSUME RuntimeIInv, Unhealthy PROVE RuntimeIInv'
<1>1. UNCHANGED <<gapCount, up, errors, crashes, late, Table>> /\ up /\ step = "health"
      /\ UNCHANGED <<mc, rows, World>> /\ step' = "post"
  BY DEF Unhealthy, Goto, World, stream, history, Table
<1>2. active \in Cycles /\ TypeOK /\ errors \in 0..MaxErrors
  BY DEF RuntimeIInv, TypeOK
<1>3. active' = active \/ (~IsOpen(active) /\ active' = NoCycle)
  BY DEF Unhealthy
<1>4. TypeOK'
  BY <1>1, <1>2, <1>3, PassTyped, NoCycleTyped DEF Steps
<1>5. LateIsKnown'
  BY <1>1 DEF LateIsKnown
<1>6. QED
  BY <1>1, <1>3, <1>4, <1>5, QuietSound, LetGoSound

-----------------------------------------------------------------------------
(***************************************************************************)
(* Faults.                                                                 *)
(***************************************************************************)
\* The cycle in memory whose row could not be written: only if it is closed is
\* the row lost, and a statement has failed.
LEMMA NotStoredSound ==
  ASSUME RuntimeIInv, NotStored, step \in {"close", "store"} PROVE RuntimeIInv'
<1>1. UNCHANGED <<active, gapCount, up, crashes, late, Table>> /\ up /\ step' = "idle"
      /\ UNCHANGED <<mc, rows, World>>
  BY DEF NotStored, Goto, World, stream, history, Table
<1>2. rows' = rows /\ missed' = missed /\ resumed' = resumed /\ OpenRows' = OpenRows
  BY <1>1 DEF Table, OpenRows
<1>3. TypeOK /\ errors \in Nat /\ errors \in 0..MaxErrors /\ crashes \in Nat /\ active \in Cycles
  BY RuntimeConstants DEF RuntimeIInv, TypeOK
<1>4. TypeOK'
  <2>1. errors' \in 0..MaxErrors
    BY <1>3, RuntimeConstants DEF NotStored
  <2>2. QED
    BY <1>1, <1>3, <2>1, PassTyped DEF Steps
<1>5. Inserting' = {} /\ Lost = {} /\ Lost' \subseteq {active.id} \ {0}
  BY <1>1, <1>3 DEF Inserting, Lost, Cycles
<1>6. MemorySound'
  BY <1>1, <1>2, <1>5 DEF RuntimeIInv, MemorySound
<1>7. OpenRowsEarnNothing' /\ GapInvalidatesInProcess' /\ GapsAreKnown' /\ LateIsKnown'
  BY <1>1, <1>2, <1>5
     DEF RuntimeIInv, OpenRowsEarnNothing, GapInvalidatesInProcess, GapsAreKnown, Known,
         LateIsKnown
<1>8. Orphans' \subseteq Orphans
  BY <1>1, <1>2 DEF Orphans
<1>9. CASE active.id = 0
  <2>1. FaultCount' = FaultCount /\ Doomed' \subseteq Doomed
    BY <1>1, <1>5, <1>8, <1>9 DEF NotStored, FaultCount, Doomed
  <2>2. FaultsCovered' /\ CashBacksOpenRows'
    BY <1>2, <1>4, <2>1, FaultCountTyped, FaultsStay, CashStays DEF RuntimeIInv, FaultCountIsNat
  <2>3. QED
    BY <1>4, <1>6, <1>7, <2>2 DEF RuntimeIInv
<1>10. CASE active.id # 0
  <2>1. FaultCount' = FaultCount + 1 /\ FaultCount' >= FaultCount
    BY <1>1, <1>3, <1>10 DEF NotStored, FaultCount
  <2>2. Doomed' \subseteq Doomed \cup {active.id}
    BY <1>5, <1>8 DEF Doomed
  <2>3. FaultsCovered' /\ CashBacksOpenRows'
    BY <1>2, <1>4, <2>1, <2>2, FaultsGrow, CashStays DEF RuntimeIInv
  <2>4. QED
    BY <1>4, <1>6, <1>7, <2>3 DEF RuntimeIInv
<1>11. QED
  BY <1>9, <1>10

LEMMA PayloadFailsSound == ASSUME RuntimeIInv, PayloadFails PROVE RuntimeIInv'
<1>1. UNCHANGED <<active, gapCount, up, crashes, late, Table>> /\ up /\ step' = "idle"
      /\ UNCHANGED <<mc, rows, World>> /\ step = "payload" /\ errors' = errors + 1
  BY DEF PayloadFails, Goto, World, stream, history, Table
<1>2. rows' = rows /\ missed' = missed /\ resumed' = resumed /\ OpenRows' = OpenRows
  BY <1>1 DEF Table, OpenRows
<1>3. TypeOK /\ errors \in Nat /\ errors \in 0..MaxErrors /\ crashes \in Nat /\ active \in Cycles
      /\ active = NoCycle /\ active.id = 0
  BY <1>1, RuntimeConstants, NoCycleTyped DEF RuntimeIInv, TypeOK, MemorySound
<1>4. TypeOK'
  <2>1. errors' \in 0..MaxErrors
    BY <1>3, RuntimeConstants DEF PayloadFails
  <2>2. QED
    BY <1>1, <1>3, <2>1, PassTyped DEF Steps
<1>5. Inserting' = {} /\ Lost' = {} /\ Lost = {}
  BY <1>1, <1>3 DEF Inserting, Lost
<1>6. MemorySound'
  BY <1>1, <1>2, <1>3, <1>5 DEF RuntimeIInv, MemorySound
<1>7. OpenRowsEarnNothing' /\ GapInvalidatesInProcess' /\ GapsAreKnown' /\ LateIsKnown'
  BY <1>1, <1>2, <1>3, <1>5
     DEF RuntimeIInv, OpenRowsEarnNothing, GapInvalidatesInProcess, GapsAreKnown, LateIsKnown
<1>8. Doomed' \subseteq Doomed \cup {Len(rows)}
  BY <1>1, <1>2, <1>5 DEF Orphans, Doomed
<1>9. FaultCount' = FaultCount + 1 /\ FaultCount' >= FaultCount
  BY <1>1, <1>3 DEF FaultCount
<1>10. FaultsCovered' /\ CashBacksOpenRows'
  BY <1>2, <1>3, <1>4, <1>8, <1>9, FaultsGrow, CashStays DEF RuntimeIInv
<1>11. QED
  BY <1>4, <1>6, <1>7, <1>10 DEF RuntimeIInv

\* A crash leaves one row behind, the active one or the one being inserted.
LEMMA CrashSound == ASSUME RuntimeIInv, Crash PROVE RuntimeIInv'
<1>1. /\ active' = NoCycle /\ active'.id = 0 /\ ~IsOpen(active') /\ active' \in Cycles
      /\ step' = "idle" /\ mc' = 0 /\ up' = FALSE /\ UNCHANGED <<market, gapCount, healthy>>
      /\ rows' = rows /\ resumed' = resumed /\ late' = late /\ missed' = missed \cup OpenRows
      /\ errors' = errors /\ crashes' = crashes + 1 /\ OpenRows' = OpenRows
  BY NoCycleTyped DEF Crash, stream, OpenRows
<1>2. TypeOK /\ errors \in Nat /\ crashes \in Nat /\ OpenRows \subseteq DOMAIN rows
  BY RuntimeConstants DEF RuntimeIInv, TypeOK, OpenRows
<1>3. TypeOK'
  <2>1. crashes' \in 0..MaxCrashes /\ mc' \in 0..market' /\ missed' \subseteq DOMAIN rows
    BY <1>1, <1>2, RuntimeConstants DEF Crash, TypeOK
  <2>2. QED
    BY <1>1, <1>2, <2>1 DEF TypeOK, Steps
<1>4. Inserting' = {} /\ Lost' = {}
  BY <1>1 DEF Inserting, Lost
<1>5. MemorySound'
  BY <1>1, <1>4 DEF RuntimeIInv, MemorySound
<1>6. OpenRowsEarnNothing'
  BY <1>1 DEF RuntimeIInv, OpenRowsEarnNothing
<1>7. GapsAreKnown' /\ LateIsKnown'
  BY <1>1, <1>4 DEF GapsAreKnown, LateIsKnown
<1>8. GapInvalidatesInProcess'
  BY <1>1 DEF RuntimeIInv, GapInvalidatesInProcess, OpenRows, IsOpen, Trusted
<1>9. \E x : Doomed' \subseteq Doomed \cup {x}
  <2>1. Doomed' \subseteq OpenRows
    BY <1>1, <1>4 DEF Doomed, Orphans
  <2>2. CASE step = "payload"
    <3>1. OpenRows \subseteq Doomed \cup {Len(rows)}
      BY <2>2, RowSets, NoCycleTyped
         DEF Doomed, Orphans, RuntimeIInv, MemorySound, FiniteRows
    <3>2. QED
      BY <2>1, <3>1
  <2>3. CASE step # "payload"
    <3>1. OpenRows \subseteq Doomed \cup {active.id}
      BY <2>3 DEF Doomed, Orphans
    <3>2. QED
      BY <2>1, <3>1
  <2>4. QED
    BY <2>2, <2>3
<1>10. FaultCount' = FaultCount + 1 /\ FaultCount' >= FaultCount
  BY <1>1, <1>2 DEF FaultCount
<1>11. FaultsCovered' /\ CashBacksOpenRows'
  BY <1>1, <1>2, <1>3, <1>9, <1>10, FaultsGrow, CashStays DEF RuntimeIInv
<1>12. QED
  BY <1>3, <1>5, <1>6, <1>7, <1>8, <1>11 DEF RuntimeIInv

\* A gap is counted for every cycle that is still open; if the pass has compared
\* the counts, the active one is late.
LEMMA StreamGapSound == ASSUME RuntimeIInv, StreamGap PROVE RuntimeIInv'
<1>1. /\ UNCHANGED <<market, active, step, mc, rows, up, errors, crashes, resumed>>
      /\ gapCount' = gapCount + 1 /\ healthy' = FALSE /\ missed' = missed \cup Undecided
      /\ OpenRows' = OpenRows /\ FaultCount' = FaultCount
  BY DEF StreamGap, process, faults, OpenRows, FaultCount
<1>2. TypeOK /\ gapCount \in Nat /\ active \in Cycles
      /\ Undecided \subseteq OpenRows /\ OpenRows \subseteq DOMAIN rows
  BY RuntimeConstants DEF RuntimeIInv, TypeOK, Undecided, OpenRows
<1>3. late \subseteq late' /\ late' \subseteq late \cup Undecided
      /\ (step \in {"health", "read"} /\ active.id \in Undecided => active.id \in late')
  BY DEF StreamGap
<1>4. TypeOK'
  <2>1. gapCount' \in 0..MaxGaps /\ missed' \subseteq DOMAIN rows /\ late' \subseteq DOMAIN rows
    BY <1>1, <1>2, <1>3, RuntimeConstants DEF StreamGap, TypeOK
  <2>2. QED
    BY <1>1, <1>2, <2>1 DEF TypeOK
<1>5. Inserting' = Inserting /\ Doomed' = Doomed
  BY <1>1 DEF Inserting, Doomed, Orphans, Lost
<1>6. MemorySound' /\ OpenRowsEarnNothing'
  BY <1>1, <1>5 DEF RuntimeIInv, MemorySound, OpenRowsEarnNothing
<1>7. ASSUME NEW c, NEW i, Known(c, i), c.gaps \in Nat, i \in Undecided => IsOpen(c)
      PROVE  i \notin resumed' =>
                /\ c.gaps <= gapCount'
                /\ IsOpen(c) /\ i \in missed' => c.gaps < gapCount'
                /\ c.status \in Trusted /\ i \in missed' => c.by = "market" \/ i \in late'
  <2>1. i \notin resumed => c.gaps <= gapCount' /\ c.gaps < gapCount'
    BY <1>1, <1>2, <1>7 DEF Known
  <2>2. IsOpen(c) => c.status \notin Trusted
    BY DEF IsOpen, Trusted
  <2>3. c.status \in Trusted /\ i \in missed' => i \in missed
    BY <1>1, <1>7, <2>2
  <2>4. QED
    BY <1>1, <1>3, <1>7, <2>1, <2>3 DEF Known
<1>8. GapsAreKnown'
  <2>1. active.id > 0 => Known(active, active.id)'
    <3>1. active.gaps \in Nat
      BY <1>2, RuntimeConstants DEF Cycles
    <3>2. active.id \in Undecided => IsOpen(active)
      BY DEF Undecided
    <3>3. QED
      BY <1>1, <1>7, <3>1, <3>2 DEF RuntimeIInv, GapsAreKnown, Known
  <2>2. ASSUME NEW i \in Inserting PROVE Known(rows[i], i)'
    <3>1. i \in DOMAIN rows /\ rows[i] \in Cycles /\ IsOpen(rows[i])
      BY <1>2, <2>2 DEF RuntimeIInv, MemorySound, Inserting, OpenRows, TypeOK
    <3>2. rows[i].gaps \in Nat
      BY <3>1, RuntimeConstants DEF Cycles
    <3>3. QED
      BY <1>1, <1>7, <2>2, <3>1, <3>2 DEF RuntimeIInv, GapsAreKnown, Known
  <2>3. QED
    BY <1>1, <1>5, <2>1, <2>2 DEF GapsAreKnown
<1>9. LateIsKnown'
  BY <1>1, <1>3 DEF RuntimeIInv, LateIsKnown
<1>10. GapInvalidatesInProcess'
  <2> SUFFICES ASSUME NEW i \in DOMAIN rows, rows[i].status \in Trusted, i \in missed'
               PROVE  i \in resumed \/ rows[i].by = "market" \/ i \in late'
    BY <1>1 DEF GapInvalidatesInProcess
  <2>1. i \notin Undecided
    BY DEF Undecided, OpenRows, IsOpen, Trusted
  <2>2. QED
    BY <1>1, <1>3, <2>1 DEF RuntimeIInv, GapInvalidatesInProcess
<1>11. FaultsCovered' /\ CashBacksOpenRows'
  BY <1>1, <1>4, <1>5, FaultCountTyped, FaultsStay, CashStays DEF RuntimeIInv, FaultCountIsNat
<1>12. QED
  BY <1>4, <1>6, <1>8, <1>9, <1>10, <1>11 DEF RuntimeIInv

LEMMA SmallestIsThere ==
  ASSUME NEW S, S \subseteq Nat, S # {}
  PROVE  \E x \in S : \A y \in S : x <= y
<1> DEFINE R == OpToRel(<, Nat)
<1>0. IsWellFoundedOn(R, Nat)
  BY NatLessThanWellFounded
<1> HIDE DEF R
<1>1. PICK x \in S : \A y \in S : ~ (<<y, x>> \in R)
  BY <1>0, WFMin
<1>2. \A y \in S : x <= y
  <2> SUFFICES ASSUME NEW y \in S PROVE x <= y
    OBVIOUS
  <2>1. x \in Nat /\ y \in Nat
    OBVIOUS
  <2>2. ~ (y < x)
    BY <1>1, <2>1 DEF R, OpToRel
  <2>3. QED
    BY <2>1, <2>2
<1>3. QED
  BY <1>2

LEMMA NewestIsThere ==
  ASSUME NEW n \in Nat, NEW S \in SUBSET (1..n), S # {}
  PROVE  (CHOOSE i \in S : \A j \in S : j <= i) \in S
<1> DEFINE T == {n - i : i \in S}
<1>1. \A i \in S : i \in Nat /\ n - i \in Nat
  <2> SUFFICES ASSUME NEW i \in S PROVE i \in Nat /\ n - i \in Nat
    OBVIOUS
  <2>1. i \in 1..n
    OBVIOUS
  <2>2. QED
    BY <2>1
<1>2. T \subseteq Nat /\ T # {}
  BY <1>1
<1>3. \E x \in T : \A y \in T : x <= y
  <2> HIDE DEF T
  <2>1. QED
    BY <1>2, SmallestIsThere
<1>4. PICK i \in S : \A j \in S : n - i <= n - j
  BY <1>3
<1>5. \A j \in S : j <= i
  BY <1>1, <1>4
<1>6. QED
  BY <1>5

\* What is restored is open in the table, and is not held to be untouched.
LEMMA RestartSound == ASSUME RuntimeIInv, NEW ok \in BOOLEAN, Restart(ok) PROVE RuntimeIInv'
<1> DEFINE newest == CHOOSE i \in OpenRows : \A j \in OpenRows : j <= i
<1>1. /\ UNCHANGED <<market, step, mc, rows, crashes, missed, late>>
      /\ gapCount' = 0 /\ healthy' = FALSE /\ up' = TRUE /\ up = FALSE
      /\ OpenRows' = OpenRows
  BY DEF RuntimeIInv, TypeOK, Restart, OpenRows
<1>2. /\ TypeOK /\ errors \in Nat /\ crashes \in Nat /\ OpenRows \subseteq DOMAIN rows
      /\ active = NoCycle /\ active.id = 0 /\ ~IsOpen(active) /\ active.pnl = 0
      /\ active \in Cycles /\ step = "idle"
  BY <1>1, RuntimeConstants, NoCycleTyped DEF RuntimeIInv, TypeOK, OpenRows, MemorySound
<1>3. /\ errors' \in 0..MaxErrors
      /\ FaultCount' = FaultCount \/ FaultCount' = FaultCount + 1
  BY <1>1, <1>2, RuntimeConstants DEF TypeOK, Restart, FaultCount
<1>4. FaultCount' >= FaultCount
  BY <1>2, <1>3, FaultCountTyped DEF FaultCountIsNat
<1>5. \/ active' = active /\ resumed' = resumed
      \/ /\ newest \in OpenRows
         /\ active' = rows[newest] /\ resumed' = resumed \cup {newest}
  <2>1. CASE ok /\ OpenRows # {}
    <3>1. newest \in OpenRows
      BY <1>2, <2>1, RowSets, NewestIsThere DEF FiniteRows
    <3>2. QED
      BY <2>1, <3>1 DEF Restart
  <2>2. CASE ~(ok /\ OpenRows # {})
    BY <2>2 DEF Restart
  <2>3. QED
    BY <2>1, <2>2
<1> HIDE DEF newest
<1>6. /\ active' \in Cycles /\ active'.pnl = 0 /\ resumed' \subseteq DOMAIN rows
      /\ active'.id \in {0} \cup OpenRows /\ (active'.id # 0 => IsOpen(active'))
      /\ (active'.id # 0 => active'.id \in resumed') /\ resumed \subseteq resumed'
  <2>1. CASE active' = active /\ resumed' = resumed
    BY <1>2, <2>1 DEF TypeOK
  <2>2. CASE /\ newest \in OpenRows
             /\ active' = rows[newest] /\ resumed' = resumed \cup {newest}
    <3>1. newest \in DOMAIN rows /\ rows[newest] \in Cycles /\ IsOpen(rows[newest])
          /\ rows[newest].pnl = 0 /\ rows[newest].id \in {0, newest}
      BY <1>2, <2>2 DEF TypeOK, OpenRows, RuntimeIInv, OpenRowsEarnNothing
    <3>2. QED
      BY <1>2, <2>2, <3>1 DEF TypeOK
  <2>3. QED
    BY <1>5, <2>1, <2>2
<1>7. TypeOK'
  <2>1. gapCount' \in 0..MaxGaps
    BY <1>1, RuntimeConstants
  <2>2. QED
    BY <1>1, <1>2, <1>3, <1>6, <2>1 DEF TypeOK
<1>8. Inserting' = {} /\ Lost' = {} /\ Doomed' \subseteq Doomed
  <2>1. Inserting' = {} /\ Lost' = {}
    BY <1>1, <1>2, <1>6 DEF Inserting, Lost, Cycles
  <2>2. OpenRows \subseteq Doomed
    BY <1>2, RowSets DEF Doomed, Orphans, FiniteRows
  <2>3. QED
    BY <1>1, <2>1, <2>2 DEF Doomed, Orphans
<1>9. MemorySound'
  BY <1>1, <1>2, <1>6, <1>8 DEF RuntimeIInv, MemorySound
<1>10. OpenRowsEarnNothing' /\ GapInvalidatesInProcess'
  BY <1>1, <1>6 DEF RuntimeIInv, OpenRowsEarnNothing, GapInvalidatesInProcess
<1>11. GapsAreKnown' /\ LateIsKnown'
  BY <1>1, <1>2, <1>6, <1>8 DEF GapsAreKnown, Known, LateIsKnown
<1>12. FaultsCovered' /\ CashBacksOpenRows'
  BY <1>1, <1>4, <1>7, <1>8, FaultsStay, CashStays DEF RuntimeIInv
<1>13. QED
  BY <1>7, <1>9, <1>10, <1>11, <1>12 DEF RuntimeIInv

-----------------------------------------------------------------------------
(***************************************************************************)
(* Steps that write a row.                                                 *)
(***************************************************************************)
\* The second statement of an insertion gives the row its id, and the cycle is
\* the active one from then on.
LEMMA SetPayloadSound == ASSUME RuntimeIInv, SetPayload PROVE RuntimeIInv'
<1> DEFINE n == Len(rows)
<1>1. /\ UNCHANGED <<market, mc, gapCount, healthy, up, errors, crashes, missed, late, resumed>>
      /\ step = "payload" /\ step' = "idle" /\ up
      /\ rows' = [rows EXCEPT ![n].id = n] /\ active' = rows'[n] /\ FaultCount' = FaultCount
  BY DEF SetPayload, Goto, World, stream, history, FaultCount
<1>2. /\ TypeOK /\ active = NoCycle /\ active.id = 0
      /\ n \in OpenRows /\ n \in DOMAIN rows /\ rows[n] \in Cycles /\ n \in Nat
      /\ n > 0
  BY <1>1, NoCycleTyped, RowSets
     DEF RuntimeIInv, MemorySound, Inserting, OpenRows, TypeOK, FiniteRows
<1>3. /\ DOMAIN rows' = DOMAIN rows
      /\ rows'[n].id = n /\ rows'[n].status = rows[n].status /\ rows'[n].pnl = rows[n].pnl
      /\ rows'[n].gaps = rows[n].gaps /\ rows'[n].by = rows[n].by
      /\ \A i \in DOMAIN rows : i # n => rows'[i] = rows[i]
      /\ active'.id = n /\ active'.status = rows[n].status /\ active'.pnl = rows[n].pnl
      /\ active'.gaps = rows[n].gaps /\ active'.by = rows[n].by
  BY <1>1, <1>2 DEF TypeOK, Cycles
<1>4. TypeOK'
  <2>1. n \in 0..MaxCycles
    BY <1>2, RuntimeConstants DEF RuntimeIInv, MemorySound
  <2>2. rows'[n] \in Cycles
    BY <1>1, <1>2, <2>1 DEF TypeOK, Cycles
  <2>3. rows' \in Seq(Cycles) /\ active' \in Cycles
    BY <1>1, <1>2, <1>3, <2>2 DEF TypeOK
  <2>4. \A i \in DOMAIN rows' : rows'[i].id \in {0, i}
    BY <1>2, <1>3 DEF TypeOK
  <2>5. QED
    BY <1>1, <1>2, <1>3, <2>3, <2>4 DEF TypeOK, Steps
<1>5. OpenRows' = OpenRows /\ \A pnl : RowsWith(pnl)' = RowsWith(pnl)
  BY <1>2, <1>3 DEF OpenRows, IsOpen, RowsWith
<1>6. Inserting' = {} /\ Lost' = {} /\ Doomed' \subseteq Doomed
  <2>1. Inserting' = {} /\ Lost' = {}
    BY <1>1, <1>2, <1>3 DEF Inserting, Lost, IsOpen, OpenRows
  <2>2. Orphans' \subseteq Orphans
    <3>1. \A i \in OpenRows : i # active.id
      BY <1>2, RowSets DEF FiniteRows
    <3>2. Orphans' = {i \in OpenRows : n # i}
      BY <1>1, <1>3, <1>5 DEF Orphans
    <3>3. QED
      BY <3>1, <3>2 DEF Orphans
  <2>3. QED
    BY <2>1, <2>2 DEF Doomed
<1>7. MemorySound'
  <2>1. Len(rows') = Len(rows)
    BY <1>1, <1>2 DEF TypeOK
  <2>2. QED
    BY <1>1, <1>2, <1>3, <1>5, <1>6, <2>1 DEF RuntimeIInv, MemorySound
<1>8. OpenRowsEarnNothing'
  <2>1. rows[n].pnl = 0
    BY <1>2 DEF RuntimeIInv, OpenRowsEarnNothing
  <2>2. \A i \in OpenRows : rows'[i].pnl = rows[i].pnl
    BY <1>3 DEF OpenRows
  <2>3. QED
    BY <1>3, <1>5, <2>1, <2>2 DEF RuntimeIInv, OpenRowsEarnNothing
<1>9. GapsAreKnown' /\ LateIsKnown'
  <2>1. Known(rows[n], n)
    BY <1>1 DEF RuntimeIInv, GapsAreKnown, Inserting
  <2>2. QED
    BY <1>1, <1>3, <1>6, <2>1 DEF GapsAreKnown, Known, IsOpen, LateIsKnown
<1>10. GapInvalidatesInProcess'
  <2>1. \A i \in DOMAIN rows : rows'[i].status = rows[i].status /\ rows'[i].by = rows[i].by
    BY <1>3
  <2>2. QED
    BY <1>1, <1>3, <2>1 DEF RuntimeIInv, GapInvalidatesInProcess
<1>11. Cash' = Cash
  BY <1>5 DEF Cash
<1>12. FaultsCovered' /\ CashBacksOpenRows'
  BY <1>1, <1>2, <1>4, <1>5, <1>6, <1>11, FaultCountTyped, FaultsStay, CashSame
     DEF RuntimeIInv, FaultCountIsNat
<1>13. QED
  BY <1>4, <1>7, <1>8, <1>9, <1>10, <1>12 DEF RuntimeIInv

\* The first statement inserts an open row, if the balance covers its reserve.
LEMMA InsertSound == ASSUME RuntimeIInv, Insert PROVE RuntimeIInv'
<1> DEFINE n == Len(rows) + 1
           c == Cycle(mc, gapCount)
<1>1. /\ UNCHANGED <<market, active, mc, gapCount, healthy, up, errors, crashes, missed, late, resumed>>
      /\ step = "insert" /\ step' = "payload" /\ up /\ active = NoCycle
      /\ rows' = Append(rows, c) /\ FaultCount' = FaultCount
      /\ Len(rows) < MaxCycles /\ Cash >= Reserve
  BY DEF Insert, Goto, World, stream, history, FaultCount, RuntimeIInv, MemorySound
<1>2. /\ TypeOK /\ active.id = 0 /\ mc \in 0..MaxMarkets /\ gapCount \in 0..MaxGaps
      /\ DOMAIN rows = 1..Len(rows) /\ Len(rows) \in Nat /\ n \notin DOMAIN rows
  BY <1>1, NoCycleTyped, RowSets, RuntimeConstants DEF RuntimeIInv, TypeOK, FiniteRows
<1>3. /\ c \in Cycles /\ c.id = 0 /\ c.status = "open" /\ c.pnl = 0 /\ c.gaps = gapCount
      /\ IsOpen(c)
  <2>1. c \in [id : {0}, market : {mc}, status : {"open"}, bought : {FALSE},
               gaps : {gapCount}, pnl : {0}, by : {"advance"}]
    BY DEF Cycle
  <2>2. 0 \in 0..MaxCycles /\ "open" \in Statuses
    BY RuntimeConstants DEF Statuses
  <2>3. c \in Cycles
    BY <1>2, <2>1, <2>2 DEF Cycles
  <2>4. QED
    BY <2>1, <2>3 DEF IsOpen
<1> HIDE DEF c
<1>4. /\ rows' \in Seq(Cycles) /\ DOMAIN rows' = DOMAIN rows \cup {n} /\ rows'[n] = c
      /\ Len(rows') = n /\ \A i \in DOMAIN rows : rows'[i] = rows[i]
  BY <1>1, <1>2, <1>3 DEF TypeOK
<1>5. TypeOK'
  <2>1. \A i \in DOMAIN rows' : rows'[i].id \in {0, i}
    BY <1>2, <1>3, <1>4 DEF TypeOK
  <2>2. missed' \subseteq DOMAIN rows' /\ late' \subseteq DOMAIN rows'
        /\ resumed' \subseteq DOMAIN rows'
    BY <1>1, <1>2, <1>4 DEF TypeOK
  <2>3. QED
    BY <1>1, <1>2, <1>4, <2>1, <2>2 DEF TypeOK, Steps
<1>6. OpenRows' = OpenRows \cup {n}
  BY <1>2, <1>3, <1>4 DEF OpenRows
<1>7. Inserting' = {n} /\ Lost' = {} /\ Lost = {} /\ Doomed' \subseteq Doomed
  <2>1. Inserting' = {n} /\ Lost' = {} /\ Lost = {}
    BY <1>1, <1>2, <1>4 DEF Inserting, Lost
  <2>2. Orphans' \subseteq Orphans
    BY <1>1, <1>4, <1>6 DEF Orphans
  <2>3. QED
    BY <2>1, <2>2 DEF Doomed
<1>8. MemorySound'
  BY <1>1, <1>2, <1>4, <1>6, <1>7, RuntimeConstants DEF MemorySound
<1>9. OpenRowsEarnNothing'
  <2>1. \A i \in OpenRows : rows'[i].pnl = 0
    BY <1>4 DEF RuntimeIInv, OpenRowsEarnNothing, OpenRows
  <2>2. QED
    BY <1>1, <1>3, <1>4, <1>6, <2>1 DEF RuntimeIInv, OpenRowsEarnNothing
<1>10. GapsAreKnown' /\ LateIsKnown'
  <2>1. n \notin missed' /\ "open" \notin Trusted
    BY <1>1, <1>2 DEF TypeOK, Trusted
  <2>2. QED
    BY <1>1, <1>2, <1>3, <1>4, <1>7, <2>1 DEF GapsAreKnown, Known, LateIsKnown
<1>11. GapInvalidatesInProcess'
  <2>1. n \notin missed
    BY <1>2 DEF TypeOK
  <2>2. QED
    BY <1>1, <1>4, <2>1 DEF RuntimeIInv, GapInvalidatesInProcess
<1>12. FaultsCovered'
  BY <1>1, <1>2, <1>5, <1>7, FaultCountTyped, FaultsStay DEF RuntimeIInv, FaultCountIsNat
<1>13. CashBacksOpenRows'
  <2>1. /\ Cash \in Int /\ Cardinality(OpenRows) \in Nat /\ FaultCount \in Nat
        /\ Cardinality(RowsWith(Gain)) \in Nat /\ Cardinality(RowsWith(-Reserve)) \in Nat
    BY <1>2, CashTyped, FaultCountTyped DEF FaultCountIsNat
  <2>2. Cardinality(OpenRows) <= FaultCount
    <3>1. OpenRows \subseteq Doomed
      BY <1>1, <1>2, RowSets DEF Doomed, Orphans, FiniteRows
    <3>2. Cardinality(OpenRows) <= Cardinality(Doomed) /\ Cardinality(Doomed) \in Nat
      BY <1>2, <3>1, RowSets, NoMoreThan DEF FiniteRows
    <3>3. QED
      BY <2>1, <3>2 DEF RuntimeIInv, FaultsCovered
  <2>3. Cardinality(OpenRows') <= Cardinality(OpenRows) + 1 /\ Cardinality(OpenRows') \in Nat
    BY <1>2, <1>6, RowSets, OneMoreAtMost DEF FiniteRows
  <2>4. Cash' = Cash
    <3>1. RowsWith(-Reserve)' = RowsWith(-Reserve)
      <4>1. 0 # -Reserve
        BY RuntimeConstants
      <4>2. QED
        BY <1>3, <1>4, <4>1 DEF RowsWith
    <3>2. Gain * Cardinality(RowsWith(Gain)') = Gain * Cardinality(RowsWith(Gain))
      <4>1. CASE Gain = 0
        <5>1. Cardinality(RowsWith(Gain)') \in Nat
          BY <1>5, CashTypedNext DEF CountsTyped
        <5>2. QED
          BY <2>1, <4>1, <5>1
      <4>2. CASE Gain # 0
        BY <1>3, <1>4, <4>2 DEF RowsWith
      <4>3. QED
        BY <4>1, <4>2
    <3>3. QED
      BY <3>1, <3>2 DEF Cash
  <2>5. Reserve * (Cardinality(OpenRows') - FaultCount) <= Reserve * (1 - 0)
        /\ Reserve * (Cardinality(OpenRows') - FaultCount) \in Int
    <3>1. ASSUME NEW a \in Nat, NEW b \in Nat, NEW f \in Nat, a <= b + 1, b <= f
          PROVE  a - f <= 1 - 0
      BY <3>1
    <3>2. Cardinality(OpenRows') - FaultCount <= 1 - 0
      BY <2>1, <2>2, <2>3, <3>1
    <3>3. QED
      BY <2>1, <2>3, <3>2, LessToBack
  <2>6. Cash >= Reserve * (Cardinality(OpenRows') - FaultCount)
    BY <1>1, <2>1, <2>5, RuntimeConstants
  <2>7. QED
    BY <1>1, <2>4, <2>6 DEF CashBacksOpenRows
<1>14. QED
  BY <1>5, <1>8, <1>9, <1>10, <1>11, <1>12, <1>13 DEF RuntimeIInv

\* What a loss at most does to the balance, with one row fewer to back.
LEMMA ClosingCosts ==
  ASSUME NEW w \in Int, NEW w2 \in Int, NEW l \in Nat, NEW l2 \in Nat,
         NEW n \in Nat, NEW n2 \in Nat, NEW f \in Nat,
         w <= w2, l2 <= l + 1, n2 <= n - 1,
         Initial + w - Reserve * l >= Reserve * (n - f)
  PROVE  Initial + w2 - Reserve * l2 >= Reserve * (n2 - f)
<1>1. Reserve * l2 <= Reserve * (l + 1) /\ Reserve * l2 \in Int
  BY Scaled, RuntimeConstants
<1>2. Reserve * (l + 1) = Reserve * l + Reserve /\ Reserve * l \in Int
  BY RuntimeConstants
<1>3. Reserve * (n2 - f) <= Reserve * (n - f - 1) /\ Reserve * (n2 - f) \in Int
  BY Scaled, RuntimeConstants
<1>4. Reserve * (n - f - 1) = Reserve * (n - f) - Reserve /\ Reserve * (n - f) \in Int
  BY RuntimeConstants
<1>5. QED
  BY <1>1, <1>2, <1>3, <1>4, RuntimeConstants

\* The cycle in memory replaces its row, which was open.
LEMMA StoredCash ==
  ASSUME RuntimeIInv, TypeOK', FaultCount' = FaultCount,
         active.id \in OpenRows, active.pnl \in {-Reserve, 0, Gain},
         IsOpen(active) => active.pnl = 0,
         DOMAIN rows' = DOMAIN rows, rows'[active.id] = active,
         \A i \in DOMAIN rows : i # active.id => rows'[i] = rows[i]
  PROVE  CashBacksOpenRows'
<1>1. TypeOK /\ active.id \in DOMAIN rows /\ rows[active.id].pnl = 0 /\ IsOpen(rows[active.id])
  BY DEF RuntimeIInv, OpenRowsEarnNothing, OpenRows
<1>2. CASE IsOpen(active)
  <2>1. OpenRows' = OpenRows /\ \A pnl : RowsWith(pnl)' = RowsWith(pnl)
    BY <1>1, <1>2 DEF OpenRows, RowsWith
  <2>2. Cash' = Cash
    BY <2>1 DEF Cash
  <2>3. QED
    BY <1>1, <2>1, <2>2, CashSame, FaultCountTyped DEF RuntimeIInv, FaultCountIsNat
<1>3. CASE ~IsOpen(active)
  <2>1. /\ Cardinality(OpenRows) \in Nat /\ FaultCount \in Nat
        /\ Cardinality(RowsWith(Gain)) \in Nat /\ Cardinality(RowsWith(-Reserve)) \in Nat
        /\ Cardinality(RowsWith(Gain)') \in Nat /\ Cardinality(RowsWith(-Reserve)') \in Nat
    BY <1>1, CashTyped, CashTypedNext, FaultCountTyped DEF CountsTyped, FaultCountIsNat
  <2>2. OpenRows' \subseteq OpenRows \ {active.id}
    BY <1>1, <1>3 DEF OpenRows
  <2>3. Cardinality(OpenRows') <= Cardinality(OpenRows) - 1 /\ Cardinality(OpenRows') \in Nat
    BY <1>1, <2>2, RowSets, OneFewerAtLeast DEF FiniteRows
  <2>4. Cardinality(RowsWith(-Reserve)') <= Cardinality(RowsWith(-Reserve)) + 1
    <3>1. RowsWith(-Reserve)' \subseteq RowsWith(-Reserve) \cup {active.id}
      BY DEF RowsWith
    <3>2. QED
      BY <1>1, <3>1, RowSets, OneMoreAtMost DEF FiniteRows
  <2>5. Gain * Cardinality(RowsWith(Gain)) <= Gain * Cardinality(RowsWith(Gain)')
        /\ Gain * Cardinality(RowsWith(Gain)) \in Int /\ Gain * Cardinality(RowsWith(Gain)') \in Int
    <3>1. CASE Gain = 0
      <4>1. \A k \in Nat : Gain * k = 0
        BY <3>1
      <4>2. QED
        BY <2>1, <4>1
    <3>2. CASE Gain # 0
      <4>1. RowsWith(Gain) \subseteq RowsWith(Gain)'
        BY <1>1, <3>2 DEF RowsWith
      <4>2. IsFiniteSet(RowsWith(Gain)')
        BY RowSetsNext DEF FiniteRows
      <4>3. Cardinality(RowsWith(Gain)) <= Cardinality(RowsWith(Gain)')
        BY <4>1, <4>2, NoMoreThan
      <4>4. QED
        BY <2>1, <4>3, Scaled, RuntimeConstants
    <3>3. QED
      BY <3>1, <3>2
  <2>6. Initial + Gain * Cardinality(RowsWith(Gain)) - Reserve * Cardinality(RowsWith(-Reserve))
           >= Reserve * (Cardinality(OpenRows) - FaultCount)
    BY DEF RuntimeIInv, CashBacksOpenRows, Cash
  <2>7. Initial + Gain * Cardinality(RowsWith(Gain)')
                - Reserve * Cardinality(RowsWith(-Reserve)')
           >= Reserve * (Cardinality(OpenRows') - FaultCount)
    BY <2>1, <2>3, <2>4, <2>5, <2>6, ClosingCosts
  <2>8. QED
    BY <2>7 DEF CashBacksOpenRows, Cash
<1>4. QED
  BY <1>2, <1>3

\* The statement holds: a closed cycle is let go with its row closed.
LEMMA StoredSound ==
  ASSUME RuntimeIInv, NEW next \in {"update", "post"}, Stored(next),
         step \in {"close", "store"}
  PROVE  RuntimeIInv'
<1> DEFINE n == active.id
<1>1. /\ UNCHANGED <<market, mc, gapCount, healthy, up, errors, crashes, missed, late, resumed>>
      /\ step' = next /\ up /\ n > 0 /\ rows' = [rows EXCEPT ![n] = active]
      /\ active' = (IF IsOpen(active) THEN active ELSE NoCycle) /\ FaultCount' = FaultCount
  BY DEF Stored, Goto, World, stream, history, FaultCount
<1>2. /\ TypeOK /\ active \in Cycles /\ n \in OpenRows /\ n \in DOMAIN rows /\ n \in Nat
      /\ IsOpen(rows[n]) /\ step' \notin {"payload", "close", "store"}
  BY <1>1, RuntimeConstants DEF RuntimeIInv, MemorySound, OpenRows, TypeOK, Cycles
<1>3. /\ DOMAIN rows' = DOMAIN rows /\ rows' \in Seq(Cycles) /\ Len(rows') = Len(rows)
      /\ rows'[n] = active /\ \A i \in DOMAIN rows : i # n => rows'[i] = rows[i]
  BY <1>1, <1>2 DEF TypeOK
<1>4. /\ active' \in Cycles /\ active'.id \in {0, n} /\ active'.pnl = 0
      /\ (active'.id # 0 => IsOpen(active) /\ active' = active)
  BY <1>1, <1>2, NoCycleTyped DEF RuntimeIInv, OpenRowsEarnNothing
<1>5. TypeOK'
  <2>1. \A i \in DOMAIN rows' : rows'[i].id \in {0, i}
    BY <1>2, <1>3 DEF TypeOK
  <2>2. step' \in Steps
    BY <1>1 DEF Steps
  <2>3. QED
    BY <1>1, <1>2, <1>3, <1>4, <2>1, <2>2 DEF TypeOK
<1>6. OpenRows' = IF IsOpen(active) THEN OpenRows ELSE OpenRows \ {n}
  BY <1>2, <1>3 DEF OpenRows
<1>7. Inserting' = {} /\ Lost' = {} /\ Doomed' \subseteq Doomed
  <2>1. Inserting' = {} /\ Lost' = {}
    BY <1>1, <1>2, <1>4 DEF Inserting, Lost
  <2>2. Orphans' \subseteq Orphans
    BY <1>1, <1>3, <1>6 DEF Orphans
  <2>3. QED
    BY <2>1, <2>2 DEF Doomed
<1>8. MemorySound'
  BY <1>1, <1>2, <1>3, <1>4, <1>6, <1>7 DEF RuntimeIInv, MemorySound
<1>9. OpenRowsEarnNothing'
  <2>1. IsOpen(active) => active.pnl = 0
    BY DEF RuntimeIInv, OpenRowsEarnNothing
  <2>2. \A i \in OpenRows' : rows'[i].pnl = 0
    BY <1>3, <1>6, <2>1 DEF RuntimeIInv, OpenRowsEarnNothing, OpenRows
  <2>3. QED
    BY <1>4, <2>2 DEF OpenRowsEarnNothing
<1>10. Known(active, n)
  BY <1>1 DEF RuntimeIInv, GapsAreKnown
<1>11. GapsAreKnown' /\ LateIsKnown'
  BY <1>1, <1>4, <1>7, <1>10 DEF GapsAreKnown, Known, LateIsKnown
<1>12. GapInvalidatesInProcess'
  BY <1>1, <1>3, <1>10 DEF RuntimeIInv, GapInvalidatesInProcess, Known
<1>13. FaultsCovered'
  BY <1>1, <1>2, <1>5, <1>7, FaultCountTyped, FaultsStay DEF RuntimeIInv, FaultCountIsNat
<1>14. CashBacksOpenRows'
  <2>1. active.pnl \in {-Reserve, 0, Gain} /\ (IsOpen(active) => active.pnl = 0)
    BY <1>2 DEF Cycles, RuntimeIInv, OpenRowsEarnNothing
  <2>2. QED
    BY <1>1, <1>2, <1>3, <1>5, <2>1, StoredCash
<1>15. QED
  BY <1>5, <1>8, <1>9, <1>11, <1>12, <1>13, <1>14 DEF RuntimeIInv

-----------------------------------------------------------------------------
(***************************************************************************)
(* The results.                                                            *)
(***************************************************************************)
LEMMA RuntimeStepSound == RuntimeIInv /\ [Next]_vars => RuntimeIInv'
<1> SUFFICES ASSUME RuntimeIInv, [Next]_vars PROVE RuntimeIInv'
  OBVIOUS
<1>1. CASE \/ NextMarket \/ StreamHealth \/ Submit \/ Fetch \/ KeepOld
            \/ NoActive \/ SameGaps \/ StillHealthy \/ MayPost \/ NothingToPost
  BY <1>1, PassSound
<1>2. CASE StreamGap
  BY <1>2, StreamGapSound
<1>3. CASE Crash
  BY <1>3, CrashSound
<1>4. CASE \E ok \in BOOLEAN : Restart(ok)
  BY <1>4, RestartSound
<1>5. CASE CloseOld
  BY <1>5, CloseSound
<1>6. CASE StoreClosed
  BY <1>6, StoredSound, NotStoredSound DEF StoreClosed
<1>7. CASE StoreActive
  BY <1>7, StoredSound, NotStoredSound DEF StoreActive
<1>8. CASE Invalidate
  BY <1>8, InvalidateSound
<1>9. CASE Advance
  BY <1>9, AdvanceSound
<1>10. CASE Unhealthy
  BY <1>10, UnhealthySound
<1>11. CASE Insert
  BY <1>11, InsertSound
<1>12. CASE SetPayload
  BY <1>12, SetPayloadSound
<1>13. CASE PayloadFails
  BY <1>13, PayloadFailsSound
<1>14. CASE UNCHANGED vars
  <2>1. TypeOK'
    BY <1>14 DEF vars, process, stream, faults, history, RuntimeIInv, TypeOK
  <2>2. UNCHANGED <<active, step, gapCount, up, errors, crashes, late, Table>>
    BY <1>14 DEF vars, process, stream, faults, history, Table
  <2>3. LateIsKnown'
    BY <2>2 DEF Table, RuntimeIInv, LateIsKnown
  <2>4. QED
    BY <2>1, <2>2, <2>3, QuietSound
<1>15. QED
  BY <1>1, <1>2, <1>3, <1>4, <1>5, <1>6, <1>7, <1>8, <1>9, <1>10, <1>11, <1>12, <1>13, <1>14
     DEF Next

\* Whatever statements fail and whenever the process dies, the executor stays
\* in states the invariant describes.
THEOREM RuntimeStaysSound == Spec => []RuntimeIInv
<1>1. QED
  BY RuntimeInitSound, RuntimeStepSound, PTL DEF Spec

\* Every variable of the executor keeps its type.
THEOREM RuntimeTypesAreKept == Spec => []TypeOK
<1>1. RuntimeIInv => TypeOK
  BY DEF RuntimeIInv
<1>2. QED
  BY <1>1, RuntimeStaysSound, PTL

\* A cycle that one process followed to its verdict and that missed trades is
\* trusted only when the gap was counted inside the pass of the verdict, after
\* that pass had compared the counts.
THEOREM GapsInvalidate == Spec => []GapInvalidatesInProcess
<1>1. RuntimeIInv => GapInvalidatesInProcess
  BY DEF RuntimeIInv
<1>2. QED
  BY <1>1, RuntimeStaysSound, PTL

\* Each row left open for good was left by a statement or a process of its own
\* that failed.
THEOREM OrphansComeFromFaults == Spec => []OrphansNeedAFault
<1>1. RuntimeIInv => OrphansNeedAFault
  <2> SUFFICES ASSUME RuntimeIInv PROVE OrphansNeedAFault
    OBVIOUS
  <2>1. Cardinality(Orphans) <= Cardinality(Doomed)
        /\ Cardinality(Orphans) \in Nat /\ Cardinality(Doomed) \in Nat
    BY RowSets, NoMoreThan DEF RuntimeIInv, FiniteRows, Doomed
  <2>2. Cardinality(Doomed) <= errors + crashes /\ errors + crashes \in Nat
    BY FaultCountTyped DEF RuntimeIInv, FaultsCovered, FaultCount, FaultCountIsNat
  <2>3. QED
    BY <2>1, <2>2 DEF OrphansNeedAFault
<1>2. QED
  BY <1>1, RuntimeStaysSound, PTL

\* The balance falls below zero by at most one reserve for each fault.
THEOREM CashIsBacked == Spec => []CashCoversLosses
<1>1. RuntimeIInv => CashCoversLosses
  <2> SUFFICES ASSUME RuntimeIInv PROVE CashCoversLosses
    OBVIOUS
  <2>1. Cash \in Int /\ Cardinality(OpenRows) \in Nat /\ FaultCount \in Nat
    BY CashTyped, FaultCountTyped DEF RuntimeIInv, FaultCountIsNat
  <2>2. Cash >= Reserve * (Cardinality(OpenRows) - FaultCount)
    BY DEF RuntimeIInv, CashBacksOpenRows
  <2>3. /\ Reserve * (0 - FaultCount) <= Reserve * (Cardinality(OpenRows) - FaultCount)
        /\ Reserve * (0 - FaultCount) \in Int
        /\ Reserve * (Cardinality(OpenRows) - FaultCount) \in Int
    <3>1. 0 - FaultCount <= Cardinality(OpenRows) - FaultCount
      BY <2>1
    <3>2. QED
      BY <2>1, <3>1, LessToBack
  <2>4. Reserve * (0 - FaultCount) = -(Reserve * FaultCount) /\ Reserve * FaultCount \in Int
    BY <2>1, RuntimeConstants
  <2>5. Cash >= -(Reserve * FaultCount)
    BY <2>1, <2>2, <2>3, <2>4
  <2>6. QED
    BY <2>5 DEF CashCoversLosses, FaultCount
<1>2. QED
  BY <1>1, RuntimeStaysSound, PTL

\* No later pass, failure, crash or restored cycle rewrites a verdict that has
\* been stored.
THEOREM StoredVerdictsAreFinal == Spec => VerdictsAreFinal
<1> DEFINE Final == \A i \in DOMAIN rows : ~IsOpen(rows[i]) => rows'[i] = rows[i]
<1>1. RuntimeIInv /\ [Next]_vars => [Final]_vars
  <2> SUFFICES ASSUME RuntimeIInv, Next PROVE Final
    BY DEF vars
  <2>1. CASE rows' = rows
    BY <2>1
  <2>2. CASE Insert
    BY <2>2 DEF Insert, RuntimeIInv, TypeOK
  <2>3. CASE \E next : step # "payload" /\ Stored(next)
    <3>1. active.id \in OpenRows /\ rows' = [rows EXCEPT ![active.id] = active]
      BY <2>3 DEF Stored, RuntimeIInv, MemorySound
    <3>2. QED
      BY <3>1 DEF OpenRows
  <2>4. CASE SetPayload
    <3>1. Len(rows) \in OpenRows
      BY <2>4 DEF SetPayload, RuntimeIInv, MemorySound, Inserting
    <3>2. QED
      BY <2>4, <3>1 DEF SetPayload, OpenRows, RuntimeIInv, TypeOK
  <2>5. QED
    BY <2>1, <2>2, <2>3, <2>4
       DEF Next, NextMarket, StreamGap, StreamHealth, Crash, Restart, Submit, Fetch, CloseOld,
           KeepOld, StoreClosed, StoreActive, NotStored, NoActive, Invalidate, SameGaps,
           Unhealthy, StillHealthy, Advance, MayPost, NothingToPost, PayloadFails, World
<1>2. QED
  BY <1>1, RuntimeStaysSound, PTL DEF Spec, VerdictsAreFinal
=============================================================================
