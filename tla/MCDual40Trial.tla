---------------------------- MODULE MCDual40Trial ----------------------------
(***************************************************************************)
(* A small instance of Dual40Trial: boxes of 2 shares at 4 of 10 grains.   *)
(***************************************************************************)
EXTENDS Dual40Trial

Sold(at, below, age) == [at |-> at, below |-> below, age |-> age]

\* Nothing; less than the queue and an order; an old print below the price; a
\* large one with a timestamp ahead of the clock.
MCPrints == {Sold(0, 0, 0), Sold(1, 0, 0), Sold(0, 1, 1), Sold(3, 0, -2)}
=============================================================================
