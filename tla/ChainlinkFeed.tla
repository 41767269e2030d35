---------------------------- MODULE ChainlinkFeed ----------------------------
(***************************************************************************)
(* The Chainlink price feed (internal/chainlink/client.go).  run keeps a   *)
(* websocket open and readLoop hands each price to Observe, which anchors  *)
(* the price at every five-minute boundary; a paper trade is settled on    *)
(* the anchors at the start and at the end of its window.                  *)
(*                                                                         *)
(* Prices are stamped by the oracle, one a tick, and a price is named by   *)
(* its stamp (0: none).  They reach the client in order; any may come late *)
(* or, while the connection is down, never.  A read deadline that passes   *)
(* is a lost connection; pingLoop, which writes no field, is left out.     *)
(***************************************************************************)
EXTENDS Naturals

CONSTANTS Window,         \* five minutes, in ticks
          Grace,          \* anchorGrace
          KeepAnchors,    \* anchorRetention
          MaxStamp,       \* bounds: ticks
          MaxFeedFaults   \* and connections lost, dials and subscriptions failed

ASSUME FeedAssumption == /\ Window \in Nat \ {0} /\ Grace \in Nat /\ Grace < Window
                         /\ KeepAnchors \in Nat /\ Window <= KeepAnchors
                         /\ MaxStamp \in Nat \ {0} /\ MaxFeedFaults \in Nat

VARIABLES
    stamp,         \* the oracle's clock
    observed,      \* every price given to Observe since the start
    current,       \* the price shown as the current one
    lastObserved,  \* the price Observe was given last
    anchors,       \* anchors[b]: the price anchored at boundary b
    feedPc,        \* where run is: see FeedPlaces
    feedLink,      \* "none", "up", "broken" or "closed" (by Stop)
    feedConn,      \* whether the field conn is set
    feedStopping,  \* 0: not called, 1: stopChan is closed, 2: conn is closed too
    feedFaults

priceVars == <<observed, current, lastObserved, anchors>>
feedRun == <<feedPc, feedLink, feedConn>>
feedVars == <<stamp, priceVars, feedRun, feedStopping, feedFaults>>

FeedPlaces == {"top", "dialing", "dialed", "subscribing", "reading", "dropped",
               "waiting", "done"}

Boundary(t) == t - (t % Window)
Boundaries == {Boundary(t) : t \in 0..MaxStamp}

FeedInit == /\ stamp = 1 /\ observed = {} /\ current = 0 /\ lastObserved = 0
            /\ anchors = [b \in Boundaries |-> 0]
            /\ feedPc = "top" /\ feedLink = "none" /\ feedConn = FALSE
            /\ feedStopping = 0 /\ feedFaults = 0

-----------------------------------------------------------------------------
OracleTicks == /\ stamp < MaxStamp
               /\ stamp' = stamp + 1
               /\ UNCHANGED <<priceVars, feedRun, feedStopping, feedFaults>>

FeedFault == feedFaults < MaxFeedFaults /\ feedFaults' = feedFaults + 1

FeedBreaks == /\ feedLink = "up"
              /\ FeedFault
              /\ feedLink' = "broken"
              /\ UNCHANGED <<stamp, priceVars, feedPc, feedConn, feedStopping>>

-----------------------------------------------------------------------------
(***************************************************************************)
(* Observe.                                                                *)
(***************************************************************************)
Distance(s, b) == IF s < b THEN b - s ELSE s - b

\* The price before the boundary, when there is one and it is no farther off.
Candidate(t, b) ==
    IF lastObserved > 0 /\ lastObserved < b /\ b - lastObserved <= t - b
    THEN lastObserved ELSE t

\* Mutated form: an anchor that is there is not kept.
AnchorAgain(t, b) == IF Distance(Candidate(t, b), b) <= Grace THEN Candidate(t, b)
                     ELSE anchors[b]

\* The anchor Observe leaves at b, the boundary before the price t.
Anchor(t, b) == IF anchors[b] # 0 THEN anchors[b]
                ELSE IF Distance(Candidate(t, b), b) <= Grace THEN Candidate(t, b)
                ELSE 0

Observe(t) ==
    /\ anchors' = [b \in Boundaries |-> IF b + KeepAnchors < t THEN 0
                                        ELSE IF b = Boundary(t) THEN Anchor(t, b)
                                        ELSE anchors[b]]
    /\ current' = t /\ lastObserved' = t
    /\ observed' = observed \cup {t}

ReadPrice == /\ feedPc = "reading" /\ feedLink = "up"
             /\ \E t \in lastObserved + 1 .. stamp : Observe(t)
             /\ UNCHANGED <<stamp, feedRun, feedStopping, feedFaults>>

-----------------------------------------------------------------------------
(***************************************************************************)
(* run and Stop.                                                           *)
(***************************************************************************)
FeedTop == /\ feedPc = "top"
           /\ feedPc' = IF feedStopping > 0 THEN "done" ELSE "dialing"
           /\ UNCHANGED <<stamp, priceVars, feedLink, feedConn, feedStopping, feedFaults>>

FeedDial == /\ feedPc = "dialing"
            /\ feedPc' = "dialed" /\ feedLink' = "up"
            /\ UNCHANGED <<stamp, priceVars, feedConn, feedStopping, feedFaults>>

FeedDialFails == /\ feedPc = "dialing"
                 /\ FeedFault
                 /\ feedPc' = "waiting"
                 /\ UNCHANGED <<stamp, priceVars, feedLink, feedConn, feedStopping>>

FeedRegister == /\ feedPc = "dialed"
                /\ feedPc' = "subscribing" /\ feedConn' = TRUE
                /\ UNCHANGED <<stamp, priceVars, feedLink, feedStopping, feedFaults>>

FeedSubscribe == /\ feedPc = "subscribing" /\ feedLink \in {"up", "broken"}
             /\ feedPc' = "reading"
             /\ UNCHANGED <<stamp, priceVars, feedLink, feedConn, feedStopping, feedFaults>>

\* Writing to a connection that is broken or closed fails; conn stays set.
FeedSubscribeFails == /\ feedPc = "subscribing" /\ feedLink \in {"broken", "closed"}
                  /\ feedPc' = "waiting" /\ feedLink' = "none"
                  /\ UNCHANGED <<stamp, priceVars, feedConn, feedStopping, feedFaults>>

FeedReadFails == /\ feedPc = "reading" /\ feedLink \in {"broken", "closed"}
                 /\ feedPc' = "dropped"
                 /\ UNCHANGED <<stamp, priceVars, feedLink, feedConn, feedStopping,
                                feedFaults>>

FeedClear == /\ feedPc = "dropped"
             /\ feedPc' = IF feedStopping > 0 THEN "done" ELSE "waiting"
             /\ feedLink' = "none" /\ feedConn' = FALSE
             /\ UNCHANGED <<stamp, priceVars, feedStopping, feedFaults>>

FeedWakes == /\ feedPc = "waiting"
             /\ feedPc' = IF feedStopping > 0 THEN "done" ELSE "top"
             /\ UNCHANGED <<stamp, priceVars, feedLink, feedConn, feedStopping, feedFaults>>

FeedStopChan == /\ feedStopping = 0
                /\ feedStopping' = 1
                /\ UNCHANGED <<stamp, priceVars, feedRun, feedFaults>>

FeedCloseConn ==
    /\ feedStopping = 1
    /\ feedStopping' = 2
    /\ feedLink' = IF feedConn /\ feedLink # "none" THEN "closed" ELSE feedLink
    /\ UNCHANGED <<stamp, priceVars, feedPc, feedConn, feedFaults>>

FeedRunStep == \/ FeedTop \/ FeedDial \/ FeedRegister \/ FeedSubscribe \/ FeedSubscribeFails
               \/ FeedReadFails \/ FeedClear \/ FeedWakes

FeedNext == \/ OracleTicks \/ FeedBreaks \/ ReadPrice
            \/ FeedRunStep \/ FeedDialFails
            \/ FeedStopChan \/ FeedCloseConn

FeedSpec == FeedInit /\ [][FeedNext]_feedVars

-----------------------------------------------------------------------------
FeedTypeOK ==
    /\ stamp \in 1..MaxStamp /\ observed \subseteq 1..stamp
    /\ current \in 0..stamp /\ lastObserved \in 0..stamp
    /\ anchors \in [Boundaries -> 0..stamp]
    /\ feedPc \in FeedPlaces /\ feedLink \in {"none", "up", "broken", "closed"}
    /\ feedConn \in BOOLEAN /\ feedStopping \in 0..2 /\ feedFaults \in 0..MaxFeedFaults

\* Whatever prices are lost or late, the anchor of a boundary is, of all the
\* prices ever observed, the nearest to it, and within the grace; and a boundary
\* with a price observed in the grace that follows it has one.  So the price two
\* neighbouring windows settle on is one and the same, and it never changes.
AnchorIsNearest ==
    \A b \in Boundaries :
        /\ anchors[b] # 0 =>
               /\ anchors[b] \in observed /\ Distance(anchors[b], b) <= Grace
               /\ \A t \in observed : Distance(anchors[b], b) <= Distance(t, b)
        /\ (\E t \in observed : b <= t /\ t <= b + Grace) =>
               anchors[b] # 0 \/ b + KeepAnchors < lastObserved

\* For liveness: Stop is called, and run is not between dialing and registering a
\* connection; and run has returned.
FeedMustStop == feedStopping = 1 /\ feedPc \notin {"dialing", "dialed"}
FeedStopped == feedPc = "done"
=============================================================================
