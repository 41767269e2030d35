--------------------------- MODULE MCArbPaperCycle ---------------------------
(***************************************************************************)
(* A small instance of ArbPaperCycle: shares of 10 grains, ticks of 1 and  *)
(* 2 grains, orders of 2 shares.                                           *)
(***************************************************************************)
EXTENDS ArbPaperCycle, BidWalk

Level(price, size) == [price |-> price, size |-> size]

\* A book from its bid levels, best first.
BookOf(bids, ask, tick) ==
    [bid |-> bids[1].price, ask |-> ask, tick |-> tick,
     queue |-> [p \in Prices |-> SizeAt(bids, p)],
     sell |-> [n \in 0..Size |-> BidProceeds(bids, n)]]

\* A two-tick spread; a one-tick spread with a queue at the bid; coarse ticks.
Wide == BookOf(<<Level(2, 1)>>, 4, 1)
Tight == BookOf(<<Level(4, 1), Level(3, 1)>>, 5, 1)
Coarse == BookOf(<<Level(4, 2)>>, 8, 2)
\* A bid far under its ask: the completion order starts low, has room to climb,
\* and what stops it is the edge and not the ask.
Low == BookOf(<<Level(1, 1)>>, 8, 1)
\* The ask is one (coarse) tick: no post-only price is left.
NoRoom == BookOf(<<Level(1, 1)>>, 2, 2)

MCUpBooks == {Tight, NoRoom}
MCDownBooks == {Wide, Coarse, Low}

Batch(volume, swept, age) == [volume |-> volume, swept |-> swept, age |-> age]
MCBatches == {Batch(0, FALSE, 0), Batch(1, FALSE, 0), Batch(2, FALSE, 1),
              Batch(0, TRUE, -2)}
=============================================================================
