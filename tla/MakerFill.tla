------------------------------ MODULE MakerFill ------------------------------
(***************************************************************************)
(* The walk of makerBuyFillFromTradesDetailed over a batch of trades, one  *)
(* trade per step.  A trade of another token, a BUY, or a SELL printed     *)
(* above the order's price leaves every variable alone: it is a stuttering *)
(* step here.                                                              *)
(*                                                                         *)
(* The point of the module is WalkMatchesSummary: what the walk returns    *)
(* depends only on the volume printed at the price and on whether anything *)
(* printed below it.  ArbPaperCycle uses that summary of a batch.          *)
(***************************************************************************)
EXTENDS ArbPricing

CONSTANTS MaxShares,   \* bound on an order's unfilled remainder
          MaxQueue,    \* bound on the queue ahead of it
          MaxVolume    \* bound on the volume of one batch

ASSUME MakerFillAssumption ==
    MaxShares \in Nat /\ MaxQueue \in Nat /\ MaxVolume \in Nat

VARIABLES remaining,   \* shares the order still wants
          queue,       \* size still ahead of it at its price
          filled,      \* shares bought by this batch
          wanted,      \* what remaining and queue were before the batch
          ahead,
          volume,      \* summary of the trades walked so far
          swept

vars == <<remaining, queue, filled, wanted, ahead, volume, swept>>

Init == /\ wanted \in 0..MaxShares
        /\ ahead \in 0..MaxQueue
        /\ remaining = wanted
        /\ queue = ahead
        /\ filled = 0
        /\ volume = 0
        /\ swept = FALSE

\* Mutated form: the whole trade fills the order, whoever was ahead of it.
AtPriceJumpingQueue(size) ==
    /\ volume + size <= MaxVolume
    /\ volume' = volume + size
    /\ queue' = Greater(0, queue - size)
    /\ filled' = filled + Lesser(remaining, size)
    /\ remaining' = remaining - Lesser(remaining, size)
    /\ UNCHANGED <<wanted, ahead, swept>>

\* A SELL at the order's price: first the queue, then the order.
AtPrice(size) ==
    /\ volume + size <= MaxVolume
    /\ volume' = volume + size
    /\ IF remaining = 0
       THEN UNCHANGED <<remaining, queue, filled>>
       ELSE LET available == size - Lesser(queue, size)
                bought    == IF queue <= size THEN Lesser(remaining, available) ELSE 0
            IN  /\ queue' = queue - Lesser(queue, size)
                /\ filled' = filled + bought
                /\ remaining' = remaining - bought
    /\ UNCHANGED <<wanted, ahead, swept>>

\* A SELL below the price cannot print while the order rests unfilled, so the
\* sweep took the queue and all the order still wanted.
BelowPrice ==
    /\ swept' = TRUE
    /\ IF remaining = 0
       THEN UNCHANGED <<remaining, queue, filled>>
       ELSE /\ queue' = 0
            /\ filled' = filled + remaining
            /\ remaining' = 0
    /\ UNCHANGED <<wanted, ahead, volume>>

Next == \/ \E size \in 1..MaxVolume : AtPrice(size)
        \/ BelowPrice

Spec == Init /\ [][Next]_vars

-----------------------------------------------------------------------------
TypeOK == /\ wanted \in 0..MaxShares
          /\ ahead \in 0..MaxQueue
          /\ remaining \in 0..MaxShares
          /\ queue \in 0..MaxQueue
          /\ filled \in 0..MaxShares
          /\ volume \in 0..MaxVolume
          /\ swept \in BOOLEAN

\* After any prefix of the batch the walk has bought, and left ahead of the
\* order, exactly what the summary of that prefix says: the order in which the
\* trades printed does not matter to makerBuyFillFromTradesDetailed.
WalkMatchesSummary ==
    /\ filled = FilledBy(volume, swept, wanted, ahead)
    /\ remaining = wanted - filled
    /\ wanted > 0 => queue = QueueAfter(volume, swept, wanted, ahead)

\* "queueAhead tracks only FIFO liquidity already resting at the exact order
\* price": without a sweep the order buys nothing until volume as large as the
\* queue has printed, and never more than what printed beyond it.
NoFillAheadOfQueue ==
    ~swept /\ filled > 0 => volume >= ahead + filled
=============================================================================
