------------------------------- MODULE MCFeeds -------------------------------
(***************************************************************************)
(* The feeds, one at a time.  They share no state and call one another     *)
(* nowhere, so each is checked by itself: `feed' says which one runs, and  *)
(* the others stay as they begin.                                          *)
(***************************************************************************)
EXTENDS MarketTradeStream, DeepBook, AggTrades, ChainlinkFeed, PriceFeed

VARIABLE feed

streamVars == vars
feedsVars == <<feed, streamVars, bookVars, aggVars, feedVars, priceFeedVars>>

MCInit == /\ feed \in {"stream", "book", "flow", "chainlink", "price"}
          /\ Init /\ DeepInit /\ AggInit /\ FeedInit /\ PriceInit

Runs(name, step) == feed = name /\ step /\ UNCHANGED feed

StreamRuns == /\ Runs("stream", Next)
              /\ UNCHANGED <<bookVars, aggVars, feedVars, priceFeedVars>>
BookRuns == /\ Runs("book", DeepNext)
            /\ UNCHANGED <<streamVars, aggVars, feedVars, priceFeedVars>>
FlowRuns == /\ Runs("flow", AggNext)
            /\ UNCHANGED <<streamVars, bookVars, feedVars, priceFeedVars>>
ChainlinkRuns == /\ Runs("chainlink", FeedNext)
                 /\ UNCHANGED <<streamVars, bookVars, aggVars, priceFeedVars>>
PriceRuns == /\ Runs("price", PriceNext)
             /\ UNCHANGED <<streamVars, bookVars, aggVars, feedVars>>

MCNext == StreamRuns \/ BookRuns \/ FlowRuns \/ ChainlinkRuns \/ PriceRuns

\* Every goroutine of the feed that runs is scheduled, every request is answered
\* or fails, and of two cases that are ready again and again select takes either
\* in the end.
MCFairness ==
    /\ WF_streamVars(feed = "stream" /\ ReadMessage)
    /\ WF_streamVars(feed = "stream" /\ AppendTrade)
    /\ WF_streamVars(feed = "stream" /\ Quiet)
    /\ WF_streamVars(feed = "stream" /\ ReadFails)
    /\ WF_streamVars(feed = "stream" /\ Cleanup)
    /\ WF_bookVars(feed = "book" /\ RunStep)
    /\ WF_bookVars(feed = "book" /\ RestStep)
    /\ SF_bookVars(feed = "book" /\ RestStops)
    /\ WF_bookVars(feed = "book" /\ CloseConn)
    /\ WF_feedVars(feed = "chainlink" /\ FeedRunStep)
    /\ WF_feedVars(feed = "chainlink" /\ FeedCloseConn)
    /\ WF_priceFeedVars(feed = "price" /\ WsRunStep)
    /\ WF_priceFeedVars(feed = "price" /\ PollStep)
    /\ SF_priceFeedVars(feed = "price" /\ PollStops)
    /\ WF_priceFeedVars(feed = "price" /\ WsCloseConn)

MCSpec == MCInit /\ [][MCNext]_feedsVars /\ MCFairness

\* What is checked of all the feeds.
FeedsTypeOK == TypeOK /\ DeepTypeOK /\ AggTypeOK /\ FeedTypeOK /\ PriceTypeOK

\* A usable deep book, a fresh price and a fresh depth come back again and again
\* until Stop is called, whatever the connection does: when it is down, and when
\* it is up and silent, the REST fallbacks give what it does not.
FeedsComeBack == /\ []<>(/\ feed = "book" => BookUsable
                         /\ feed = "price" => PriceUsable)
                 /\ []<>(feed = "price" => DepthUsable)

\* Stop returns, for each client: the goroutines it waits for end, however they
\* stood when it was called, unless run was between dialing a connection and
\* registering it: that one Stop does not know of, and it may go on forever.
FeedsStop == (\/ feed = "book" /\ BookMustStop
              \/ feed = "chainlink" /\ FeedMustStop
              \/ feed = "price" /\ PriceMustStop)
             ~> (\/ feed = "book" /\ Stopped
                 \/ feed = "chainlink" /\ FeedStopped
                 \/ feed = "price" /\ PriceStopped)
=============================================================================
