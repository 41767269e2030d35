------------------------------ MODULE PriceFeed ------------------------------
(***************************************************************************)
(* The trade price and the 20-level depth of Binance                       *)
(* (internal/binance/websocket.go, WSManager; client.go).  run feeds both  *)
(* from a websocket; the fallback poller asks for either over REST when    *)
(* the websocket is down or what it last gave is too old.  What the prices *)
(* are is left out: only whether they are fresh, which is what the         *)
(* evaluator and the executors ask before they use them.                   *)
(*                                                                         *)
(* isWsConnected and wsFallback are always set to opposite values, so one  *)
(* variable stands for both.  A read deadline that passes is a lost        *)
(* connection; a connection that is up may be silent on either stream.     *)
(***************************************************************************)
EXTENDS Naturals

CONSTANT MaxPriceFaults   \* bound: connections lost, dials and requests failed

ASSUME PriceAssumption == MaxPriceFaults \in Nat

VARIABLES
    wsPc,           \* where run is: see WsPlaces
    wsLink,         \* "none", "up", "broken" or "closed" (by Stop)
    wsConn,         \* whether the field wsConn is set
    isWsConnected,  \* and not wsFallback
    pollPc,         \* "idle", "price" (asked), "between", "depth" (asked), "done"
    priceFresh,     \* LastPriceUpdateTime is at most 3 seconds ago
    depthFresh,     \* LastDepthUpdateTime is at most 3 seconds ago
    wsStopping,     \* 0: not called, 1: stopChan is closed, 2: wsConn is closed too
    priceFaults

wsRun == <<wsPc, wsLink, wsConn, isWsConnected>>
priceFeedVars == <<wsRun, pollPc, priceFresh, depthFresh, wsStopping, priceFaults>>

WsPlaces == {"top", "dialing", "dialed", "registered", "reading", "dropped", "marked",
             "waiting", "done"}

PriceInit == /\ wsPc = "top" /\ wsLink = "none" /\ wsConn = FALSE
             /\ isWsConnected = FALSE
             /\ pollPc = "idle" /\ priceFresh = FALSE /\ depthFresh = FALSE
             /\ wsStopping = 0 /\ priceFaults = 0

PriceFault == priceFaults < MaxPriceFaults /\ priceFaults' = priceFaults + 1

-----------------------------------------------------------------------------
PriceAges == /\ \/ priceFresh /\ priceFresh' = FALSE /\ UNCHANGED depthFresh
                \/ depthFresh /\ depthFresh' = FALSE /\ UNCHANGED priceFresh
             /\ UNCHANGED <<wsRun, pollPc, wsStopping, priceFaults>>

WsBreaks == /\ wsLink = "up"
            /\ PriceFault
            /\ wsLink' = "broken"
            /\ UNCHANGED <<wsPc, wsConn, isWsConnected, pollPc, priceFresh, depthFresh,
                           wsStopping>>

\* UpdateFromTrade, UpdateDepthWithSource: a message of either stream.
WsReads == /\ wsPc = "reading" /\ wsLink = "up"
           /\ \/ priceFresh' = TRUE /\ UNCHANGED depthFresh
              \/ depthFresh' = TRUE /\ UNCHANGED priceFresh
           /\ UNCHANGED <<wsRun, pollPc, wsStopping, priceFaults>>

-----------------------------------------------------------------------------
(***************************************************************************)
(* run.                                                                    *)
(***************************************************************************)
WsMoves(from, to) == wsPc = from /\ wsPc' = to

WsTop == /\ WsMoves("top", IF wsStopping > 0 THEN "done" ELSE "dialing")
         /\ UNCHANGED <<wsLink, wsConn, isWsConnected, pollPc, priceFresh, depthFresh,
                        wsStopping, priceFaults>>

WsDial == /\ WsMoves("dialing", "dialed")
          /\ wsLink' = "up"
          /\ UNCHANGED <<wsConn, isWsConnected, pollPc, priceFresh, depthFresh,
                         wsStopping, priceFaults>>

WsDialFails == /\ WsMoves("dialing", "waiting")
               /\ PriceFault
               /\ isWsConnected' = FALSE
               /\ UNCHANGED <<wsLink, wsConn, pollPc, priceFresh, depthFresh, wsStopping>>

WsRegister == /\ WsMoves("dialed", "registered")
              /\ wsConn' = TRUE
              /\ UNCHANGED <<wsLink, isWsConnected, pollPc, priceFresh, depthFresh,
                             wsStopping, priceFaults>>

WsConnected == /\ WsMoves("registered", "reading")
               /\ isWsConnected' = TRUE
               /\ UNCHANGED <<wsLink, wsConn, pollPc, priceFresh, depthFresh,
                              wsStopping, priceFaults>>

WsReadFails == /\ WsMoves("reading", "dropped") /\ wsLink \in {"broken", "closed"}
               /\ UNCHANGED <<wsLink, wsConn, isWsConnected, pollPc, priceFresh,
                              depthFresh, wsStopping, priceFaults>>

WsDisconnected == /\ WsMoves("dropped", "marked")
                  /\ isWsConnected' = FALSE
                  /\ UNCHANGED <<wsLink, wsConn, pollPc, priceFresh, depthFresh,
                                 wsStopping, priceFaults>>

WsClear == /\ WsMoves("marked", IF wsStopping > 0 THEN "done" ELSE "waiting")
           /\ wsConn' = FALSE /\ wsLink' = "none"
           /\ UNCHANGED <<isWsConnected, pollPc, priceFresh, depthFresh, wsStopping,
                          priceFaults>>

WsWakes == /\ WsMoves("waiting", IF wsStopping > 0 THEN "done" ELSE "top")
           /\ UNCHANGED <<wsLink, wsConn, isWsConnected, pollPc, priceFresh, depthFresh,
                          wsStopping, priceFaults>>

-----------------------------------------------------------------------------
(***************************************************************************)
(* The poller.  A tick that waited in the channel while the last poll ran  *)
(* can be older than the price: its age is then negative, and the poller   *)
(* asks although it need not.                                              *)
(***************************************************************************)
ShouldRESTFallback == ~isWsConnected \/ ~priceFresh

PollPrice(late) == /\ pollPc = "idle"
                   /\ pollPc' = IF ShouldRESTFallback \/ late THEN "price" ELSE "between"
                   /\ UNCHANGED <<wsRun, priceFresh, depthFresh, wsStopping, priceFaults>>

PriceAnswered == /\ pollPc = "price"
                 /\ pollPc' = "between" /\ priceFresh' = TRUE
                 /\ UNCHANGED <<wsRun, depthFresh, wsStopping, priceFaults>>

PollDepth(late) == /\ pollPc = "between"
                   /\ pollPc' = IF ~depthFresh \/ late THEN "depth" ELSE "idle"
                   /\ UNCHANGED <<wsRun, priceFresh, depthFresh, wsStopping, priceFaults>>

DepthAnswered == /\ pollPc = "depth"
                 /\ pollPc' = "idle" /\ depthFresh' = TRUE
                 /\ UNCHANGED <<wsRun, priceFresh, wsStopping, priceFaults>>

PollFails == /\ pollPc \in {"price", "depth"}
             /\ PriceFault
             /\ pollPc' = IF pollPc = "price" THEN "between" ELSE "idle"
             /\ UNCHANGED <<wsRun, priceFresh, depthFresh, wsStopping>>

PollStops == /\ pollPc = "idle" /\ wsStopping > 0
             /\ pollPc' = "done"
             /\ UNCHANGED <<wsRun, priceFresh, depthFresh, wsStopping, priceFaults>>

-----------------------------------------------------------------------------
WsStopChan == /\ wsStopping = 0
              /\ wsStopping' = 1
              /\ UNCHANGED <<wsRun, pollPc, priceFresh, depthFresh, priceFaults>>

WsCloseConn ==
    /\ wsStopping = 1
    /\ wsStopping' = 2
    /\ wsLink' = IF wsConn /\ wsLink # "none" THEN "closed" ELSE wsLink
    /\ UNCHANGED <<wsPc, wsConn, isWsConnected, pollPc, priceFresh, depthFresh,
                   priceFaults>>

WsRunStep == \/ WsTop \/ WsDial \/ WsRegister \/ WsConnected \/ WsReadFails
             \/ WsDisconnected \/ WsClear \/ WsWakes
PollStep == \/ \E late \in BOOLEAN : PollPrice(late) \/ PollDepth(late)
            \/ PriceAnswered \/ DepthAnswered

PriceNext == \/ PriceAges \/ WsBreaks \/ WsReads
             \/ WsRunStep \/ WsDialFails
             \/ PollStep \/ PollFails \/ PollStops
             \/ WsStopChan \/ WsCloseConn

PriceSpec == PriceInit /\ [][PriceNext]_priceFeedVars

-----------------------------------------------------------------------------
PriceTypeOK ==
    /\ wsPc \in WsPlaces /\ wsLink \in {"none", "up", "broken", "closed"}
    /\ wsConn \in BOOLEAN /\ isWsConnected \in BOOLEAN
    /\ pollPc \in {"idle", "price", "between", "depth", "done"}
    /\ priceFresh \in BOOLEAN /\ depthFresh \in BOOLEAN
    /\ wsStopping \in 0..2 /\ priceFaults \in 0..MaxPriceFaults

\* For liveness: a fresh price, a fresh depth, or Stop has been called.
PriceUsable == priceFresh \/ wsStopping > 0
DepthUsable == depthFresh \/ wsStopping > 0

\* Stop is called, and run is not between dialing and registering a connection;
\* and both goroutines have returned.
PriceMustStop == wsStopping = 1 /\ wsPc \notin {"dialing", "dialed"}
PriceStopped == wsPc = "done" /\ pollPc = "done"
=============================================================================
