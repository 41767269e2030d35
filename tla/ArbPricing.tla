----------------------------- MODULE ArbPricing -----------------------------
(***************************************************************************)
(* The price arithmetic of the maker pair engine (internal/arb/engine.go   *)
(* and the price half of internal/arb/paper.go), on integers.              *)
(*                                                                         *)
(* The program computes in binary floating point with an epsilon that      *)
(* makes every comparison behave as on exact decimals; here a price is a   *)
(* whole number of grains, Dollar grains being the payout of a winning     *)
(* share, and a market's tick is a number of grains.  The result "no       *)
(* price" is 0, as in the code, where every operation that can fail        *)
(* returns (0, false) and every price it accepts is positive.              *)
(*                                                                         *)
(* A book is the data the operations read of polymarket.BookSnapshot:      *)
(*   bid, ask, tick   the top of the book and the tick size                *)
(*   queue[p]         the size resting at price p (buyQueueAhead)          *)
(*   sell[n]          what selling n shares into the bids would bring      *)
(*                    (the walk of bidProceeds: see module BidWalk)        *)
(***************************************************************************)
EXTENDS Integers

CONSTANTS Dollar,     \* grains paid by one winning share
          MinEdge,    \* Config.PaperMinEdge, in grains per pair
          Buffer      \* Config.OperationalBuffer, in grains per pair

\* NewEngine replaces a non-positive edge or buffer by its default.
ASSUME PricingAssumption ==
    /\ Dollar \in Nat \ {0}
    /\ MinEdge \in Nat \ {0}
    /\ Buffer \in Nat \ {0}

Lesser(a, b) == IF a <= b THEN a ELSE b
Greater(a, b) == IF a >= b THEN a ELSE b

FloorToTick(v, tick) == (v \div tick) * tick

ValidBook(b) == /\ b.bid > 0
                /\ b.bid < b.ask
                /\ b.ask < Dollar
                /\ b.tick > 0

\* The best price a BUY may show without touching the ask.
PostOnlyCeiling(b) == FloorToTick(b.ask - b.tick, b.tick)

\* One tick above the best bid when the spread leaves room for it, else the
\* best bid itself.  The improved price is at least the joined one, so the
\* callers' second attempt without improvement cannot succeed where the
\* first failed.
MakerBuyPrice(b) ==
    LET joined   == FloorToTick(b.bid, b.tick)
        improved == FloorToTick(b.bid + b.tick, b.tick)
        price    == IF improved < b.ask THEN improved ELSE joined
    IN  IF price > 0 /\ price < b.ask THEN price ELSE 0

\* Mutated form: only the buffer is kept back, not the edge.
CompletionMaxWithoutEdge(filled, opposite) ==
    Greater(0, Lesser(FloorToTick(Dollar - filled - Buffer, opposite.tick),
                      PostOnlyCeiling(opposite)))

\* The most the second leg may cost once the first was bought at `filled'.
CompletionMax(filled, opposite) ==
    Greater(0, Lesser(FloorToTick(Dollar - filled - MinEdge - Buffer, opposite.tick),
                      PostOnlyCeiling(opposite)))

\* The price at which the second leg is planned when the cycle is posted.
CompletionStartPrice(filled, opposite) ==
    LET ceiling == CompletionMax(filled, opposite)
        price   == Lesser(MakerBuyPrice(opposite), PostOnlyCeiling(opposite))
    IN  IF /\ ceiling > 0
           /\ MakerBuyPrice(opposite) \in 1..ceiling
           /\ price > 0
        THEN price
        ELSE 0

\* A path (buy `own' first, then `opposite') the engine may select:
\* UpPathEligible / DownPathEligible and PaperEdgePass.
PathEligible(own, opposite) ==
    LET first  == MakerBuyPrice(own)
        second == CompletionStartPrice(first, opposite)
    IN  /\ first > 0
        /\ second > 0
        /\ Dollar - first - second - Buffer >= MinEdge

\* Mutated form: the maker price is posted whatever the ceiling says.
CompletionPriceUncapped(ceiling, b) ==
    IF ceiling > 0 THEN MakerBuyPrice(b) ELSE 0

\* activateCompletion: the price at which the completion order is posted from
\* the current book, 0 when no post-only price fits under the ceiling.
CompletionPrice(ceiling, b) ==
    LET maker  == MakerBuyPrice(b)
        price  == IF maker \in 1..ceiling
                  THEN maker
                  ELSE FloorToTick(Lesser(ceiling, PostOnlyCeiling(b)), b.tick)
    IN  IF /\ ceiling > 0
           /\ PostOnlyCeiling(b) > 0
           /\ price \in 1..ceiling
           /\ price < b.ask
        THEN price
        ELSE 0

\* Mutated form: an urgent order goes all the way to its ceiling, ask or not.
RepricedThroughTheAsk(current, ceiling, b, urgent) ==
    LET wish == IF urgent THEN ceiling ELSE FloorToTick(b.bid + b.tick, b.tick)
    IN  IF wish > current /\ wish <= ceiling THEN wish ELSE current

\* completionRepriceWithUrgency: the higher price the completion order moves
\* to, or its current one.  Urgent orders jump to the most they may pay.
Repriced(current, ceiling, b, urgent) ==
    LET wish      == IF urgent
                     THEN FloorToTick(Lesser(ceiling, PostOnlyCeiling(b)), b.tick)
                     ELSE FloorToTick(b.bid + b.tick, b.tick)
        postOnly  == Lesser(wish, PostOnlyCeiling(b))
        candidate == IF postOnly > ceiling
                     THEN FloorToTick(ceiling, b.tick)
                     ELSE postOnly
    IN  IF candidate > current /\ candidate < b.ask THEN candidate ELSE current

-----------------------------------------------------------------------------
(***************************************************************************)
(* Fills.  makerBuyFillFromTradesDetailed walks a batch of trades in order *)
(* (module MakerFill).  Of a batch, a resting BUY only depends on          *)
(*   volume   the SELL volume printed exactly at the order's price         *)
(*   swept    whether a SELL printed below it                              *)
(* which is what FilledBy and QueueAfter read; the theorem of MakerFill    *)
(* shows that the walk returns exactly these.                              *)
(***************************************************************************)
FilledBy(volume, swept, remaining, queue) ==
    IF swept THEN remaining
             ELSE Lesser(remaining, Greater(0, volume - queue))

QueueAfter(volume, swept, remaining, queue) ==
    IF remaining = 0 THEN queue
    ELSE IF swept THEN 0
    ELSE Greater(0, queue - volume)
=============================================================================
