------------------------------ MODULE MakerPair ------------------------------
(***************************************************************************)
(* What one maker paper cycle promises, without prices, queues, clocks or  *)
(* books: two legs of Size shares are bought one after the other, the      *)
(* second never before the first is complete, and whatever was matched     *)
(* has locked at least Margin per pair.                                    *)
(*                                                                         *)
(* ArbPaperCycle implements this specification.                            *)
(***************************************************************************)
EXTENDS Integers

CONSTANTS Size,     \* shares of each leg
          Margin    \* the least a matched pair may lock, in grains

VARIABLES stage,    \* "none", "open" or one of the verdicts
          first,    \* shares bought of the first leg
          second,   \* shares bought of the second leg
          locked    \* profit locked by the matched shares, fixed by the verdict

pairVars == <<stage, first, second, locked>>

\* paired: both legs full; stranded: bought but not matched in time;
\* unfilled: nothing was bought; void: the data cannot be trusted.
Verdicts == {"paired", "stranded", "unfilled", "void"}

PairInit == /\ stage \in {"none", "open", "void"}
            /\ first \in 0..Size
            /\ stage = "none" => first = 0
            /\ second = 0
            /\ locked = 0

Open == /\ stage = "none"
        /\ stage' = "open"
        /\ UNCHANGED <<first, second, locked>>

\* Buying more of the first leg never touches the second in the same step,
\* even when it completes the first.
BuyFirst == /\ stage = "open"
            /\ first' \in (first + 1)..Size
            /\ second = 0
            /\ UNCHANGED <<stage, second, locked>>

BuySecond == /\ stage = "open"
             /\ first = Size
             /\ second' \in (second + 1)..(Size - 1)
             /\ UNCHANGED <<stage, first, locked>>

Pair == /\ stage = "open"
        /\ first = Size
        /\ second' = Size
        /\ locked' \in Int
        /\ locked' >= Size * Margin
        /\ stage' = "paired"
        /\ UNCHANGED first

\* The step that gives up may still buy some, but never the last share.
Strand == /\ stage = "open"
          /\ \/ first' \in first..(Size - 1) /\ second = 0 /\ second' = 0
             \/ first' = first /\ first = Size /\ second' \in second..(Size - 1)
          /\ first' > 0
          /\ second' < Size
          /\ locked' \in Int
          /\ locked' >= second' * Margin
          /\ stage' = "stranded"

Unfilled == /\ stage = "open"
            /\ first = 0
            /\ stage' = "unfilled"
            /\ UNCHANGED <<first, second, locked>>

Void == /\ stage = "open"
        /\ stage' = "void"
        /\ locked' = 0
        /\ UNCHANGED <<first, second>>

PairNext == Open \/ BuyFirst \/ BuySecond \/ Pair \/ Strand \/ Unfilled \/ Void

PairSpec == PairInit /\ [][PairNext]_pairVars
=============================================================================
