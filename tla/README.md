# WhaleSignal: specifications and proofs

WhaleSignal (`src/`, the Go program `pm-edge`) watches the 5 and 15 minute
"up or down" markets of Polymarket. It compares a fair probability computed from
spot prices with the market's quotes, and runs three trading experiments on top
of that: a directional paper engine, a *maker pair* paper executor (buy both
sides of a market with resting orders for less than the dollar one of them
pays), and *Dual40* boxes (rest a BUY at a fixed price on both sides), dry or
with real orders through a signing bridge.

This directory holds TLA+ modules of the parts of that program that keep state,
the TLC configurations that check them, and TLAPS proofs.

Contents: [inventory](#1-inventory), [modules](#2-the-modules),
[runs](#3-the-runs), [fairness](#4-fairness), [proofs](#5-the-proofs),
[findings](#6-where-code-and-text-disagree), [limits](#7-what-is-not-covered),
[plan](#8-plan).

## 1. Inventory

Processes and goroutines:

* the **main loop** (`cmd/pm-edge/main.go`), once a second: settles the paper
  positions that ended, evaluates the market, hands the result to the maker
  executor and lets the directional engine open and hedge; another goroutine
  refreshes the market it reads;
* the **maker pair executor** (`cmd/pm-edge/arb_shadow.go`): `Submit` starts one
  pass in a goroutine unless the previous one is still busy;
* the **Dual40 observer** (`cmd/pm-edge/dual40_shadow.go`): a goroutine with a
  ticker of its own; HTTP handlers (`api/dual40_control.go`) switch live mode and request a
  kill concurrently;
* a **trade stream** per executor (`internal/polymarket/market_stream.go`): one
  goroutine that dials, reads and buffers, read by the executor under a mutex;
* **feeds**: Chainlink (one goroutine on a websocket), Binance prices and depth
  (a websocket and a REST poller for when it is down or silent), Binance deep
  book and aggregated trades (a websocket and a REST poller that write the same
  fields); each client has a `Stop` that closes the connection and waits;
* outside: SQLite (any statement may fail), the exchange's CLOB, and
  the Python **bridge** (`executor_bridge.py`) that signs and posts orders.

| Component | State | Operations | What makes it correct | Modelled |
|---|---|---|---|---|
| Maker pair prices (`arb/engine.go`) | none | `Evaluate`, `MakerBuyPrice`, `completionMax`, reprice | post-only, keeps edge and buffer | prices only |
| Maker paper cycle (`arb/paper.go`) | one `PaperCycle` | post, advance, close, invalidate | accounts match fills, no pair at a loss, verdict final, terminates | yes |
| Completion model (`arb/completion_model.go`) | none | probability of completion from past cycles, choice of the leg | a candidate has earned it on its own leg's cycles, evidence counts the right way | yes |
| Trade stream (`polymarket/market_stream.go`) | buffer, sequence, gap count, connection | run, readLoop, `SetAssets`, `TradesAfter` | a trade missing from the middle is a counted gap | yes |
| Maker executor (`arb_shadow.go`, `storage/arb.go`) | active cycle, rows | submit, pass, restore, statements | rows agree with memory, balance covers losses, gaps void | yes |
| Dual40 box (`dual40/paper.go`) | one `Trial` | post, fills, hedge, settle, void | exposure not hidden, locked profit is locked | yes |
| Dual40 executor (`dual40_shadow.go`, `clob/client.go`, `storage/dual40.go`) | active boxes, mode, kill request, orders, rows | tick, buttons, place, cancel, restart | no order left behind unknown, one box a market, kill served | yes |
| Dual40 metrics (`dual40/model.go`) | none | opening-window qualification, statistics | thresholds | no |
| Directional engine (`paper/engine.go`, `storage/{sqlite,inverse,hedge,timeframe}.go`) | three tables, evidence for a hedge, kill flag | `SettleReady`, `MaybeOpen`, `MaybeHedge`, real order, gates (`paper/gates.go`) | the arms of a market settle together and agree, cash is never overdrawn, one order slips past a kill, the panel shows the gates that act | yes |
| Chainlink client (`chainlink/`) | connection, last price, anchors | run, readLoop, `Observe`, `BoundaryPrice`, `Stop` | the anchor of a boundary is the nearest price, for good | yes |
| Market state (`main.go`, `runtime15.go`) | the market and its price to beat | poll, get, change, set from two goroutines | what an update loses, the next poll puts right | yes; wiring no |
| Control and read-only API | sessions | buttons, pages | buttons are part of Dual40Runtime; the rest is I/O | buttons |
| Binance deep book (`binance/microstructure.go`) | levels, update number, source | run, snapshot, differences, REST fallback, `Stop` | the book is the exchange's at its number, usable again and again | yes |
| Binance trade flow (same file) | trades of 65 seconds, seen ids | websocket, paged REST window | no trade missing or twice before the window's end | yes |
| Binance prices and depth (`binance/websocket.go`, `client.go`) | freshness, connection | run, fallback poller, `Stop` | fresh again and again, `Stop` returns | but for candles |
| Polymarket REST client (`polymarket/clob.go`) | none | the quote of a budget or of shares | what a gate compares | the walk |
| Evaluator, indicators, probability, predict, microfeat, complete, naked EV | price histories | floating-point statistics | numeric | no |
| Bridge | none | sign and post | seen through the Go client | its answers |
| Config, utilities, web panel, deployment, wallet research | none | I/O and offline scripts | | no |

How they interact: the executor names its market's tokens to the stream
(`SetAssets`), asks it for the gap count, its health and the trades after the
number it saw last, and hands the batch with two fetched books to the cycle
(`AdvancePaperCycle`); it then writes the cycle as one row, whose JSON payload is
what a later process restores. Dual40 does the same with `Trial.Advance`, and
additionally sends, cancels and hedges orders through `clob.Client`, whose
`live` flag the HTTP handlers write.

What is hard here is in `PROJECT.json` under `hazards`, each with its line:
reading the gap count and the number at different moments, statements that fail
between the change in memory and the row, rows restored by a later process,
requests whose answer is lost or comes late, a mode switched between reading it
and using it, two writers of one book or one list of trades, copies stored back
over newer ones, orders of partial fills, deadlines and gaps in one pass,
reconnection and `Stop` against reading, rules written twice, and rounding at the
ceilings of prices.

## 2. The modules

Numbers: a price is a whole number of *grains* (`Dollar` grains a share), a tick
size a number of grains, a share the unit of size, time a whole number of ticks.
The program computes in floating point with an epsilon on every comparison,
which amounts to exact decimals; the models compute exactly.

### The maker pair

* **`ArbPricing`**: the price operators of `arb/engine.go` and of the price half
  of `arb/paper.go`, and `FilledBy`/`QueueAfter`, the effect of a batch of trades
  on a resting order given only the volume printed at its price and whether
  anything printed below it.
* **`MakerFill`**: the loop of `makerBuyFillFromTradesDetailed` itself, a trade
  per step; `WalkMatchesSummary` says the loop computes `FilledBy` and
  `QueueAfter`, which is why the cycle may use the summary.
* **`BidWalk`**: the walk of the bids (`bidProceeds`, `buyQueueAhead`), used to
  build the books of the instance.
* **`ArbPaperCycle`**: the life of a cycle. `AdvancePaperCycle` of the code is
  one function with early returns; here each outcome is an action
  (`FirstLegFull`, `ExpireNoFill`, `FirstLegTimesOut`, ..., `CompletionRests`),
  with the same inputs: both books and the batch. `InvalidateDataGap`,
  `CloseForMarketChange`, `InvalidateLegacy` and `Post` are the other entries.
  `Accounted` is the invariant behind the verdicts.
* **`MakerPair`**: the abstract promise: a first leg, then a second leg, and one
  of four verdicts; no step buys both legs, a pair always locks the margin.
  `ArbPaperCycle` implements it (`ImplementsMakerPair`).
* **`MCArbPaperCycle`**: the instance: shares of 10 grains, ticks of 1 and 2,
  orders of two shares, books chosen so that each price rule binds.

| Module variable | Code |
|---|---|
| `cycle` | `PaperCycle`; `firstPrice`, `firstFilled`, ... are the fields of the side in `FirstSide` |
| `cycle.secondNotional` | `CompletionFilledNotional` |
| `cycle.completionMax` | `UpCompletionMax`, `DownCompletionMax` |
| `lastBook` | `LastUpBestBid` and the other `Last...` fields |
| `now` | the `now` argument |

### The trade stream

* **`MarketTradeStream`**: `run`/`readLoop` split at its critical sections
  (`Snapshot`, `Subscribe`, `Register`, `ReadMessage`, `AppendTrade`, `ReadFails`,
  `Cleanup`), the network (`Trade`, `Fail`, `Quiet`), and the executor
  (`SetAssets`, `StartReading`, `CompareGaps`, `AskHealth`, `ReadTrades`,
  `StopReading`). `ReadMessage` takes the sequence number and `AppendTrade` locks the
  buffer, as the code does: `TradesAfter` can run in between. A pass asks for the gap
  count, the health and the trades under three locks (`asked` is how far it got), so
  that a gap may be counted in between. To post a cycle the executor takes the last
  number (`TakeNumber`) and then the gap count (`StartReading`). `excused` names the
  trades lost in one of the four ways the stream does not notice; a trade of the
  cycle's own market that was not given although a later one was is a `Hole`.

### The other feeds

* **`DeepBook`**: `run` (dial, register, snapshot, differences), `runRESTFallback`
  (asks, is answered, locks and stores: three steps, with anything in between),
  the exchange (`history` is its book after every update) and `Stop`. A level's
  size is the number of the update that set it, so that a wrong level shows. The
  book is `Ready` only when both sides reach 75 dollars from the middle: `Span` names
  the levels it takes to get there. The REST fallback stores at most 1000 levels
  (`Near`), which may stop short of that (`Cropped`).
* **`AggTrades`**: the trade flow. The window's end is fixed before the first page
  is asked for; pages, trades of the websocket, the clock and failing requests
  interleave, and `Reconcile` replaces what the window covers. The rows carry no ID in
  the code, so the model keeps of every trade how many rows hold it, on each side.
* **`ChainlinkFeed`**: `run`/`readLoop`, `Observe` (the nearer of
  the last price before a boundary and the first after it, an anchor that is there
  is kept, old ones expire), and `Stop`.
* **`PriceFeed`**: `WSManager`: the websocket and the fallback poller as far as
  freshness goes, and `Stop`.
* **`MCFeeds`**: the five feeds in one run. They share no state and do not call
  each other, so `feed` chooses which one a behaviour is about: the run checks the
  sum of the five, not their product.

### The maker executor

* **`ArbShadowRuntime`**: one pass (`Submit` ... `SetPayload`) with a step per
  statement, each of which may fail; a crash between any two; `Restart`, which
  restores the newest open row. A pass compares the gap counts (`SameGaps`), asks for
  the health (`StillHealthy`, `Unhealthy`) and takes the trades (`Advance`) in three
  steps, and posts in two (`MayPost` asks for the health, `Insert` for the balance and
  the gap count and writes the row). `late` remembers the cycles whose gap was counted between the
  first and the last. The cycle inside is what `MakerPair` promises of it, with the
  loss bounded by `Reserve`, as `LossWithinReserve` of `ArbPaperCycle` shows; the
  stream is its gap count and its health.

### Dual40

* **`Dual40Trial`**: one box: `Post`, a pass, the roll (`RollSettling`,
  `RollVoiding`), kill and restart (`Abort`), in both hedge modes and both fill
  models. A pass begins with `Look`, which asks for the gap count; what it found is
  `pass`, and the health and the trades are asked for in a later step, with anything
  in between: `Complete`, `ExpirePair`, `ExpireNoFill`, `HedgeReading`, `RestReading`
  with trades, `HedgeBlind` and `RestBlind` without, `VoidOnGap`.
* **`MCDual40Trial`**: its instance: boxes of two shares at 4 of 10 grains.
* **`Dual40Runtime`**: the observer's tick with a step per request and statement,
  the buttons in their own goroutines (`SetLive`, `RequestKill` in its two
  stores), the exchange (`resting`), the rows and the crash. `dark` stands for the
  inputs `observe` returns early without (a fresh Binance price, a spot, the market,
  the trade flow): an `Outage` may begin and end at any time, and a tick then looks
  at nothing, not at a kill either. `cut` is the market a crash interrupted. A box's
  life is reduced to "goes on", "is closed" or "is hedged"; `Dual40Trial` has the rest.

### The directional engine

* **`PaperEngine`**: a pass of the main loop as far as positions go.
  `SettleReady` is `StartPass` (the list of open positions), then for each of
  them `Skip`, or `SettleTrade`, `SettleInverse`, `SettleHedge`: one step per
  statement, each of which may fail and then ends the settlement
  (`EndSettlement`), but not the pass. `Evaluate` picks the market and the
  decision; `Enter` and `CreateInverse` are `maybeOpen`; `MaybeHedge` observes
  the decision, and hedges. `Crash` may come between any two. `anchors` is the
  Chainlink client as `BoundaryPrice` shows it; `regimes` is the evidence, kept
  as whether each decision was against the position.
* **`DirectionOrders`**: the real order that follows an entry: `PlaceLiveDirection`
  looks at the mode and at the kill, `ReadFlag` builds the request, `Send` is
  lost or arrives; `SetLive` and `RequestKill`/`StoreKill` run in the handlers.
* **`MarketState`**: `refreshMarket` of each timeframe (fetch, price, store) and the
  loop that gets a copy, may put the Chainlink price into it and sets it.
* **`MCPaperEngine`**: the instance of the three, one at a time (`part`).
* **`PaperGates`**: the walk of the asks that makes a quote, and the rules of entry
  and hedge twice, as `maybeOpen`/`MaybeHedge` act on them (`Opens`, `HedgeOpens`)
  and as `EntryGateSnapshot`/`HedgeGateSnapshot` show them (`EntryReason`,
  `HedgeReason`, lists of named **`Checks`**). Only the engine asks whether the
  position and the market have the same timeframe; `ReadyMeansOpens` says so.

### The algorithms

* **`CompletionModel`**: the training cycles as a bag over kinds of cycle, counted as
  the cells of a table (the nth of a kind is there or not), the three scopes, the
  Wilson bound as an exact comparison of integers, the evidence of a
  leg, and `ApplyCompletionModel`, whose money (expected values) is an input.
* **`MCAlgorithms`**: the walk of `MakerFill`, every case of the gates and every bag
  of closed cycles against every snapshot, one of them at a time (`case`).

## 3. The runs

| Run | Question | Instance and why it is enough |
|---|---|---|
| `arb_cycle` (`ArbPaperCycle.cfg`) | Do the accounts, prices and verdicts of a cycle hold for every order of books, fills, deadlines, gaps and market changes; does it end; does it implement `MakerPair`? | `Size` 2, so that legs can be partial; 2 UP and 3 DOWN books with 1- and 2-grain ticks, wide, tight, far and without room; batches that fill nothing, one share, everything, or sweep, with event times ahead of and behind the clock; a clock of 7 instants against lifetimes of 1 to 3, so that every deadline can come before, with and after every other |
| `algorithms` (`MCAlgorithms.cfg`) | Is the walk over a batch its summary; are the gates the panel shows the gates the engine acts on; has a candidate of the completion model earned it, and does evidence count the right way? | orders and queues up to 4, batches up to 9 shares; every gate just met, just missed and met, books from empty to too dear, evidence of up to 3 samples with every order; bags of up to 5 closed cycles of 8 kinds, three edges, every snapshot of the two legs |
| `feeds` (`MCFeeds.cfg`) | Which trades can a cycle miss without the gap count telling it; is the deep book ever wrong, or the flow; which price does a boundary get; does data come back; does `Stop` return? | stream: 2 trades, 2 markets, 2 failures, 1 pause, with gaps between any two questions of a pass; book: 3 updates, one near and one far level, both needed to reach 75 dollars, one fault, so that a late REST answer, a snapshot and a difference can come in every order; flow: 3 trades over 2 ticks, pages of one trade, so that a window needs more pages than it may take; Chainlink: stamps 1 to 8 over windows of 3, so that three boundaries pass and the first anchor expires; price: 2 faults |
| `arb_runtime` (`ArbShadowRuntime.cfg`) | What do failing statements, a crash and a gap at every point of a pass do to rows, balance and verdicts? | 2 markets, 3 rows, one gap, one failed statement, one crash: an orphan, a restored cycle and one posted after both |
| `dual40_trial` (`Dual40Trial.cfg`) | Is a box's verdict what it nets, and does every box end? | 2 shares a side, a queue of 0 or 1, batches at and below the price, orders of 3 instants, a gap before, inside and after a pass, a clock past the end of the market |
| `dual40_runtime` (`Dual40Runtime.cfg`) | Which orders can be left behind, how many slip through a switch of mode, is a kill served, is a market entered once, does a verdict last through a restart? | 2 markets of 2 windows, started live, one button, one failed request or statement or crash, anywhere, and outages of the inputs that come and go |
| `paper_engine` (`PaperEngine.cfg`) | Do the arms of a position agree once settled, is cash ever overdrawn, what stays half settled, and is what can be settled settled; how many real orders slip past a kill; does the market state recover from lost updates? | the three execution modes, orders without end and 4 presses of buttons; 3 windows of the market state in both timeframes; for the tables, 2 markets of 2 instants, one after the other, so that an unsettled position of the first overlaps with one of the second; quotes that take the budget or half of it, a window of two samples, both outcomes, one failed statement or crash anywhere; by symmetry the first position is on UP |
| `hard_window`, `silent_hole`, `restart_pnl`, `dual40_kill`, `half_settled` | the five disagreements of section 6 | the instances above or smaller ones |

What the properties say, beyond the type invariants (which the proofs cover for
the modules that have them, and `FeedsTypeOK` checks for the feeds):

* `AccountsBalance`, `MatchedPairsKeepTheEdge`, `VerdictMatchesFills`,
  `LossWithinReserve` (`ArbPaperCycle`): however partial fills and reprices
  interleave, every matched pair locked edge and buffer, a verdict says what was
  bought, and no cycle loses more than its first leg cost.
* `CompletionPricedSafely`: the completion order stays post-only, under its
  ceiling, moves up only. `ImplementsMakerPair`: among the rest, that a batch
  never fills both legs and that a cycle has one verdict. `EventuallyClosed`.
* `WalkMatchesSummary` (`MakerFill`); `ReadyMeansOpens` (`PaperGates`): an entry or
  hedge shown as ready is one the engine opens and it opens no other, but for the
  floor under entry prices that the panel does not know.
* `CandidatesEarnIt`, `MoreEvidenceCounts` (`CompletionModel`): a candidate carries
  the estimate of its own leg over enough cycles of that leg; one more cycle never
  moves the probability gate against what it shows. What a cycle shows is stated in
  three clauses: completed in time helps, too late or never hurts, and completed at
  once, in 0 ms, hurts as well, which is not what the text says (section 6).
* `OnlyKnownHoles`, `GivenOnceInOrder`, `LossIsCounted` (`MarketTradeStream`): a
  trade is missing from the middle only in one of four named ways, none twice. The
  first holds while the cycle's gap count stands: a pass that compared the counts just
  before a gap was counted still reads once more.
* `BookIsExact` (`DeepBook`), `FlowIsExact` (`AggTrades`), `AnchorIsNearest`
  (`ChainlinkFeed`): however answers over REST and the websocket interleave, what
  is held is what the exchange or the oracle had.
* `FeedsComeBack`, `FeedsStop`: a usable book, a fresh price and a fresh depth come
  back until `Stop`, and `Stop` returns, unless it is called while a connection is
  dialed and not yet registered: that one is not closed. A book is usable when it is
  ready, or when it is all a fallback answer had and that answer stops short of 75
  dollars (`Cropped`): such a book stays not ready until the levels further out change
  or the next snapshot, as the code has it.
* `GapInvalidatesInProcess`, `VerdictsAreFinal`, `OrphansNeedAFault`,
  `CashCoversLosses` (`ArbShadowRuntime`): the number of faults bounds the rows
  left open for good and the overdraft. A cycle posted and closed by one process with
  a gap between has no profit or loss, unless its market changed first or the gap was
  counted inside the very pass that closed it, after the counts were compared (`late`).
* `LockedWhoeverWins`, `GapsVoidOnlyEmptyBoxes`, `NoFillAfterGap`,
  `AccountsBalance` (`Dual40Trial`). A fill is credited after a gap only by the pass
  that had looked at the count before, and by that one alone.
* `OrdersAreTracked`, `OneBoxPerMarket`, `OneOrderSlipsPerSwitch`, `VerdictsStand`,
  `KillIsServed` (`Dual40Runtime`). A verdict once stored is not changed by later
  steps, failures, crashes and restarts, except in the rows of the market that was on
  when the process crashed: those a restart may void. A kill is served
  if the outages of the inputs end.
* `ArmsAgree`, `CashNeverOverdrawn`, `HalfSettledNeedsAFault`,
  `AnchoredTradesSettle` (`PaperEngine`): a hedged position nets what the hedge
  locked, whoever wins; failed statements and crashes bound the markets left
  half settled; a position without a price does not hold up the others. A position
  whose price was lost with the process stays open, as the code has it; the property
  says only that it is alone in that.
* `OneOrderSlipsPastKill` (`DirectionOrders`): only the order that had passed the
  check goes out after a kill, even when the panel switches back to live.
* `MarketRecovers` (`MarketState`): the loop may store an ended window or a
  provisional price over a newer one; the next poll that goes through mends it.

Each property has a mutated definition in the modules ("Mutated form"): a
plausible slip in that code which makes the property fail in its own run.

Deadlock is checked except where the system stops: a closed cycle or box at the
end of the bounded clock, the end of a batch in `MakerFill`, a gate that was read,
and feeds that were stopped. `MaxTime`, `MaxTrades`, `MaxVersions`, `MaxFailures`,
`MaxPauses`, `MaxMarkets`, `MaxCycles`, `MaxGaps`, `MaxErrors`, `MaxCrashes`,
`MaxEvents`, `MaxPresses`, `MaxOrders`, `MaxWindows`, `MaxFaults`, `MaxUpdates`,
`MaxBookFaults`, `MaxAggTrades`, `MaxTicks`, `MaxPageFaults`, `MaxStamp`,
`MaxFeedFaults`, `MaxPriceFaults`, `MaxShares`, `MaxQueue`, `MaxVolume` and `Lookback`
are bounds of the models, not of the program (the program looks back over many
more cycles). `Retention`, `PageSize`, `MaxPages`, `Grace`, `KeepAnchors` and `Window` are
the program's constants scaled down.

## 4. Fairness

* `ArbPaperCycle`: the clock, and the once-a-second loop calling
  `AdvancePaperCycle` while its market is on. No fairness on fills or on the
  arrival of a market change: `EventuallyClosed` follows from the deadlines.
* `MarketTradeStream`: the stream's goroutine is scheduled (`ReadMessage`,
  `AppendTrade`, `ReadFails`, `Cleanup`), and time passes on a silent connection
  (`Quiet`), after which the read deadline of 25 seconds returns an error.
* `Dual40Trial`: the clock, the end of a pass that began, and the roll at the end of
  the market; a hedge whose quote fails at every tick is still ended by the roll. That
  the roll comes assumes that outages of the observer's inputs end.
* `Dual40Runtime`: the ticker calls the observer, every request has a timeout,
  and the handler of a button is scheduled after its first store. None on outages:
  `KillIsServed` assumes that they are over at some time (`<>[]~dark`), because a tick
  that returns early does not look at the kill. Nothing is
  assumed of a crashed process: `Restart` is not fair, and a kill requested
  before a crash is gone with the process (`killReq` is false then).
* The other feeds: the goroutines are scheduled, and a request is answered or
  fails (weak fairness of `RunStep`, `RestStep`, `FeedRunStep`, `WsRunStep`,
  `PollStep` and the second half of `Stop`). The pollers wait in a `select` on the
  ticker and on `stopChan`: with both ready Go chooses at random, so the stop is
  taken if it is ready again and again (strong fairness of `RestStops`,
  `PollStops`). None on updates, prices or messages: a connection may stay silent,
  and faults are bounded, which says that some request goes through in the end.
* `MarketState`: the poll goes on (`RefreshStep`); none on the loop.
* `PaperEngine`: the ticker starts a pass after every pass, and every request of
  a pass has a timeout. No fairness on the feed: a price may never come.

## 5. The proofs

`tlapm` checks eight modules; every leaf goes through SMT, Zenon or PTL.

* `ArbPaperCycleProofs`: first the price lemmas (`MakerBuyPrice` is below the ask;
  `CompletionMax` leaves edge and buffer; `CompletionPrice` and `Repriced` stay
  under the ceiling and below the ask; a fill is within order and volume).
  `CycleStaysSound` proves the inductive invariant `IInv`, and from it
  `TypesAreKept`, `AccountsAlwaysBalance`, `NoPairIsBoughtAtALoss`,
  `VerdictsAreRight` and `LossesAreReserved`.
* `ArbPairProofs`: what a step may do. `CycleImplementsPair` proves
  `Spec => Pair!PairSpec`: every step of a cycle is a step of `MakerPair` or a
  stutter, under the mapping in `ArbPaperCycle` (`Pair`). From it
  `BatchesFillOneLeg`; `CompletionIsPricedSafely` follows from the price lemmas.
* `ArbShadowRuntimeProofs`: the maker executor. `RuntimeStaysSound` (`RuntimeIInv`),
  and from it `RuntimeTypesAreKept`, `GapsInvalidate`, `OrphansComeFromFaults`
  and `CashIsBacked`; `StoredVerdictsAreFinal` is an action property.
* `Dual40TrialProofs`: the box. `BoxStaysSound` (`IInv`), and from it
  `BoxTypesAreKept`, `BoxAccountsBalance`, `LockedIsLocked`,
  `GapsHideNoExposure` and `NoFillIsCreditedAfterGap`.
* `Dual40RuntimeProofs`: the Dual40 executor. `Dual40StaysSound` (`Dual40IInv`), and
  from it `Dual40TypesAreKept`, `NoOrderIsLost`, `OneEntryPerMarket`,
  `OneSlipPerSwitch` and the action property `StoredVerdictsStand`.
* `FeedProofs`: the deep book (`BookStaysSound`, `BookStaysExact`,
  `BehindByFallbackOnly`), the Chainlink feed (`FeedStaysSound`,
  `AnchorsAreNearest`), the market trade stream (`StreamStaysSound`,
  `TradesInOrder`, `HolesAreKnown`, `StreamTypesAreKept`, `NoLossUncounted`), the
  aggressive trade flow (`FlowStaysSound`, `FlowStaysExact`), and all five feeds
  together (`FeedsStaySound`, `FeedsTypesAreKept`).
* `EngineProofs`: the directional engine (`EngineStaysSound`, `ArmsAgreeAlways`,
  `CashNeverNegative`, `HalfSettledByFaultsOnly`) and its real orders
  (`OneOrderAfterKill`).
* `AlgorithmProofs`: the walk over a batch (`WalkMatches`, `QueueComesFirst`), the
  gates (`EntryGatesAreOne`, `HedgeGatesAreOne`, `ReadyAlwaysOpens`) and the
  completion model (`CandidatesEarnAlways`, `CandidatesEarnTheirs`,
  `EvidenceAlwaysCounts`).

Every invariant and every safety or action property of the passing runs is the
statement of one of these theorems: the run shows it on its instance, the theorem
for every value of the constants. The inductive invariants were checked by TLC on
the instances of the runs before they were proved.

Assumptions: `PricingAssumption` (positive dollar, edge and buffer, as
`NewEngine` makes them), `CycleAssumption` (a positive size, natural
durations, books that pass `validBook`, batches of natural volume),
`TrialAssumption` (the same of a box), `DeepBookAssumption` (near and far levels are
disjoint, and there are some), `FeedAssumption` (the grace is shorter than a window
and anchors are kept for at least one), `EngineAssumption` (quotes buy something
for at most the budget, a hedge costs something), `OrdersAssumption`,
`RuntimeAssumption`, `Dual40Assumption`, `StreamAssumption`, `AggAssumption` and
`PriceAssumption` (bounds are naturals, a page and the retention hold something),
`GatesAssumption` (thresholds are naturals, the window holds something) and
`CompletionAssumption` (finitely many kinds of cycle, a probability strictly
between 0 and 100, bands that widen). Nothing else is assumed of the books,
batches, sizes or the number of calls.

The argument. The safety properties of a cycle are not inductive: that a
completed pair locked the edge depends on what was paid at every earlier price.
`Sound(cycle)`, the heart of `IInv`, adds to the types and to `Accounted` what the
verdicts claim once they are given. The decisive conjuncts of `Accounted` are
`Ceiling(c) <= Dollar - firstPrice - MinEdge - Buffer`, fixed at posting, and
`secondNotional <= secondFilled * most`, preserved because each fill is paid at
`secondPrice <= Ceiling`. Each action has its lemma (`PostIsSound`,
`FirstLegIsSound`, `SecondLegIsSound`, ...), which cites the price lemmas instead
of the arithmetic. The refinement needs `IInv` too: that a step which completes
a pair leaves the margin `MakerPair` asks for is `Accounted` before the step.

For a box, `Sound` adds to types and accounts what a locked verdict nets for
either winner (`Locked`), that a box voided by a gap bought nothing, and that an
open box has no reason yet. `OpenBox` is what a pass may then take for granted of
the box it is given.

For the deep book the invariant says that a level of the exchange's book after
update *n* carries a number up to *n* and changes only upwards (`Ordered`): so a
difference that starts at the book's number leaves the levels it does not name as
they are in the exchange's newer book, which is all `ApplyDiff` needs; and that
an answer is a book the exchange had (`Numbered`). For Chainlink it says that the
last price is the latest observed and that every anchored boundary is behind it
(`InOrder`): a price observed later is further from such a boundary.

For the trade stream, `StreamIInv` says where every number can be (`Placed`), that
wire, buffer and deliveries are in order (`Queued`), what the executor may have
seen of the gap count (`Watched`), and then follows each trade of a cycle's own
market while the gap count stands (`Accounted`): it was given, or can still be given,
or is behind a gap that will be counted, or is excused. `OnlyKnownHoles` alone is not inductive,
because a trade on its way to the buffer is no hole yet; it becomes one when
`TradesAfter` overtakes it, and `Accounted` is what says so beforehand.

For the trade flow, `FlowIsExact` speaks of the rows after `Reconcile`; inductive
it is only with `Fetched`, what the pages have brought so far: every trade of the
window below the one the next page starts at, and when the last page is read every
trade before the end of the window. That a page which is not full is the last one
is a lemma on the first `PageSize` members of a set of numbers. The five feeds share
no variable (`OneFeedRuns`), so their invariants hold side by side.

For the maker executor, that no untrusted verdict slips out needs what memory and
table have to do with each other (`MemorySound`) and that a cycle which missed
trades has fewer gaps than the stream has counted, so that it will be found out
by the next comparison (`GapsAreKnown`), or is `late`. Orphans are bounded with the
closed cycles still in memory whose row could not be written (`Doomed`): an orphan is
made in two steps, and the fault is charged at the first. The balance is bounded through `CashBacksOpenRows`: every
open row but those of faults still has its reserve.

For the Dual40 executor, `MemorySound` says which places of a tick have a box, of which
market and under which ids; `OrdersSound` that nothing is left to cancel when a box
is dropped; `BoxesCounted` which market has used up its one entry; `LateCounted`
that an order on its way in live mode, which is off by now, is charged to a switch
that let no other through; `RowsSound` which rows cannot have a verdict yet. The
second and the fourth are the hazards: each is about an answer that comes after
the button.

For the engine, `RowsSound` says what the three rows of a market have to do with
each other while they are open (a hedge is for all the shares of its trade, an arm
is there only beside a trade) and `PassSound` what each place in a pass may rely
on: at `inverse` and `hedge` the trade of the pass is settled, and at `hedge` its arm
is no longer open. `HalfSettledByFaultsOnly` is then a step argument: a step that
fails leaves at most the market of the pass behind, and one that holds leaves
none. Cash is a running total over the markets (`Total`), defined as a recursive
function; that changing one market's flow moves the total by as much is proved by
a smallest-counterexample argument, since induction itself is out of the provers'
reach. `CashNeverNegative` then only has to look at the market of the step. For the
orders the invariant counts buttons: live or a request that is not dry needs a
switch, a kill is a press of its own, and after `StoreKill` nothing passes the
check, so one slipped order leaves the place empty for good.

For the gates, the first check that fails is the smallest index of one
(`ReadyWhenAllPass`), so a list of checks is ready exactly when all pass. The
panel counts votes against a bound and the engine compares a share of the window:
`SharesOfAWindow` proves the two the same on a window that is full. For the
completion model, cycles are counted as cells (the nth of a kind counts if there
are so many), which turns sums over a bag into cardinalities of subsets.
`OneMoreSuccess` and `OneMoreFailure` are the heart of `EvidenceAlwaysCounts`: the
Wilson bound, as the exact quadratic it is the root of, stays met by one more
success among one more cycle and is never newly met by one more failure.

Only model-checked: liveness under fairness (`EventuallyClosed`, `LossIsCounted`,
`FeedsComeBack`, `FeedsStop`, `KillIsServed`, `AnchoredTradesSettle`,
`MarketRecovers`), which is out of the prover's reach. The safety part of
`LossIsCounted` is `NoLossUncounted`. The five findings of section 6 are
counterexamples of TLC.

## 6. Where code and text disagree

1. `hard_window`: a completion order is posted after the 5-second hard window is
   over, because `AdvancePaperCycle` does not ask `strandedExpired` when it posts.
2. `silent_hole`: `readLoop` numbers a trade before it locks the buffer. A call
   of `TradesAfter` in between moves the cursor past a trade it was not given, and
   no gap is counted. The three further ways to miss one silently (an old buffer
   entry, a subscription for assets that were replaced while dialing, a gap
   counted between the two readings a cycle is posted with) are in
   `OnlyKnownHoles`.
3. `restart_pnl`: a cycle that missed trades keeps a profit or a loss when its
   market changes before the gap is looked at, when a new process restores it, or
   when the gap is counted after the pass compared the counts (`arb_shadow.go:191`)
   and before it takes the trades (line 199).
4. `dual40_kill`: `RequestKill` switches to dry mode first, in which `Cancel` does
   nothing: the orders the kill should cancel keep resting.
5. `half_settled`: `SettleReady` settles a position, its inverse and its hedge in
   three statements and lists only open positions: when the second or third
   fails, or the process ends in between, the arms stay open for good.

Two more are in the statement of properties that hold, instead of runs of their own.
`docs/maker-arb-shadow.md` (lines 35 and 37) speaks of completion within 5 seconds;
`completion_model.go` (lines 223 to 236) asks for `CompletionMs > 0`, and `paper.go`
(line 290) stores 0 when the trade is stamped in the millisecond of the order or
earlier: such a cycle counts as a failure, and `MoreEvidenceCounts` says so in a
clause of its own (`AtOnce`). And a kill of Dual40, which the comment of `RequestKill`
(`dual40_shadow.go:67`) says the observer applies at its next tick, waits as long as an
input of the observer is missing; `KillIsServed` names that condition.

## 7. What is not covered

Risk scores, expected values and the statistics that decide *whether* to enter:
floating point, and nothing in a cycle or a box depends on them, so entering is
a free choice there; `PaperGates` and `CompletionModel` take their results as
inputs. Decoding of messages, rendering, HTTP and logging. The exchange's
matching: a dry or paper fill is what the code computes from the trades, a real
one is any moment (`Fill`). An observer in
shadow mode without an executor sends nothing and is not modelled.

Of the Binance feeds: candles, the life of price levels and derived figures; the
values of prices in `PriceFeed` (a REST price stored after a newer one of the
websocket shows until the next trade); whether the trade flow is fresh. `FlowIsExact` leaves
out trades of the very millisecond a window ends.

Worth knowing, and as the code means it: the kill of the directional engine is for
good. `killReq` is never reset, so after it the panel can show live while no order
is sent until the program starts again.

Not modelled at all, with the reason in `PROJECT.json`: the evaluator, the
indicators and the probability models (floating-point formulas without state),
Model B (decides nothing), Dual40 statistics, complete and naked expected values
(pure functions of one snapshot), the HTTP handlers apart from what their buttons
do, configuration, microstructure storage, scripts and the web panel.

## 8. Plan

Done, in this order: the maker pair (prices, fills, cycle, promise, proofs), the
trade stream, the maker executor, the Dual40 box with its proofs, the Dual40
executor, the proof that a cycle implements its promise, the directional engine,
its gates, real orders and market state, the completion model, the feeds, and the
proofs of every safety property the runs check.

Next:

1. Abstract promises of the two executors (a row is opened once and gets one
   verdict), with the refinements proved as it is for `MakerPair`.
2. `ChainlinkFeed` composed with `PaperEngine` (its `anchors` implement the engine's),
   and the stream composed with the executor.
3. The entry gates of Dual40 (opening-window qualification) on integers, and the
   regime rules of Model B.
