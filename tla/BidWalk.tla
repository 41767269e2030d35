------------------------------- MODULE BidWalk -------------------------------
(***************************************************************************)
(* Walking the bids of a book, best first: buyQueueAhead and bidProceeds.  *)
(* A book side is a sequence of levels [price, size].                      *)
(***************************************************************************)
EXTENDS Integers, Sequences
LOCAL INSTANCE SequencesExt

\* buyQueueAhead: the size resting at the price of the order.
SizeAt(bids, price) ==
    FoldLeft(LAMBDA total, level :
                 total + IF level.price = price THEN level.size ELSE 0, 0, bids)

\* bidProceeds: what selling shares into the bids brings.  Shares the bids
\* cannot take are valued at zero.
BidProceeds(bids, shares) ==
    FoldLeft(LAMBDA walk, level :
                 LET q == IF level.size < walk.remaining THEN level.size ELSE walk.remaining
                 IN  [remaining |-> walk.remaining - q,
                      proceeds |-> walk.proceeds + q * level.price],
             [remaining |-> shares, proceeds |-> 0], bids).proceeds
=============================================================================
