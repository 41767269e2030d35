----------------------------- MODULE MarketState -----------------------------
(***************************************************************************)
(* The market the loops trade on (cmd/pm-edge/main.go for 5m, runtime15.go *)
(* for 15m).  One goroutine polls Polymarket and stores the market of the  *)
(* window with its price to beat; the once-a-second loop takes a copy, may *)
(* put the Chainlink price into it and stores the copy back.  The lock     *)
(* covers each Set and Get, not what is between them.                      *)
(*                                                                         *)
(* Of a price to beat only the source is kept: "event" (the page the UI    *)
(* shows), "api", "chainlink" or "" when there is none.                    *)
(***************************************************************************)
EXTENDS Integers

CONSTANT MaxWindows     \* bound: the windows follow each other

ASSUME MarketStateAssumption == MaxWindows \in Nat \ {0}

VARIABLES timeframe,    \* "5m" or "15m"
          wall,         \* the window it is
          linked,       \* windows whose price Chainlink's client knows
          held,         \* marketState.market: its window (0 if nil) and source
          lock,         \* ptbLockStart and ptbLockSrc
          refresh,      \* what refreshMarket is doing, and the market it fetched
          copy          \* the loop's copy, between Get and Set

marketVars == <<timeframe, wall, linked, held, lock, refresh, copy>>
outside == <<timeframe, wall, linked>>

Market(window, source) == [window |-> window, source |-> source]
NoMarket == Market(0, "")
Idle == [at |-> "idle", window |-> 0, chainlink |-> FALSE, source |-> ""]

MarketInit == /\ timeframe \in {"5m", "15m"}
              /\ wall = 1 /\ linked = {}
              /\ held = NoMarket /\ lock = NoMarket
              /\ refresh = Idle /\ copy = NoMarket

-----------------------------------------------------------------------------
(* refreshMarket.  Each request takes time, and may fail. *)

\* FetchActiveBTC5mMarket, and the snapshot of the Chainlink client.
FetchMarket ==
    /\ refresh.at = "idle"
    /\ \/ /\ held' = NoMarket
          /\ UNCHANGED <<refresh, lock>>
       \/ /\ refresh' = [at |-> "price", window |-> wall,
                         chainlink |-> wall \in linked, source |-> ""]
          /\ lock' = IF timeframe = "5m" /\ lock.window # wall
                     THEN Market(wall, "") ELSE lock
          /\ UNCHANGED held
    /\ UNCHANGED <<outside, copy>>

\* 5m: the event page, else the last good price, else the API, else Chainlink.
FetchPrice5m ==
    /\ refresh.at = "price" /\ timeframe = "5m"
    /\ \E answer \in {"event", "api", ""} :
          /\ lock' = IF answer = "event" \/ lock.source = ""
                     THEN [lock EXCEPT !.source = answer] ELSE lock
          /\ refresh' = [refresh EXCEPT
                !.at = "store",
                !.source = IF lock'.source # "" THEN lock'.source
                           ELSE IF refresh.chainlink THEN "chainlink" ELSE ""]
    /\ UNCHANGED <<outside, held, copy>>

\* 15m: Chainlink, else the API.
FetchPrice15m ==
    /\ refresh.at = "price" /\ timeframe = "15m"
    /\ \E answer \in {"api", ""} :
          refresh' = [refresh EXCEPT !.at = "store",
                                     !.source = IF refresh.chainlink THEN "chainlink" ELSE answer]
    /\ UNCHANGED <<outside, held, lock, copy>>

\* Mutated form: a market that is already held is not stored again.
StoreOnce ==
    /\ refresh.at = "store"
    /\ held' = IF held.window = refresh.window /\ held.source # "" THEN held
               ELSE Market(refresh.window, refresh.source)
    /\ refresh' = Idle
    /\ UNCHANGED <<outside, lock, copy>>

StoreMarket ==
    /\ refresh.at = "store"
    /\ held' = Market(refresh.window, refresh.source)
    /\ refresh' = Idle
    /\ UNCHANGED <<outside, lock, copy>>

RefreshStep == FetchMarket \/ FetchPrice5m \/ FetchPrice15m \/ StoreMarket

-----------------------------------------------------------------------------
(* The loop. *)

GetMarket ==
    /\ copy = NoMarket /\ held # NoMarket
    /\ copy' = held
    /\ UNCHANGED <<outside, held, lock, refresh>>

\* A copy without a price gets the one Chainlink has and is stored.
SetMarket ==
    /\ copy # NoMarket
    /\ held' = IF copy.source = "" /\ copy.window \in linked
               THEN Market(copy.window, "chainlink") ELSE held
    /\ copy' = NoMarket
    /\ UNCHANGED <<outside, lock, refresh>>

LoopStep == GetMarket \/ SetMarket

-----------------------------------------------------------------------------
\* The window ends; the client may or may not get its price.
NextWindow == /\ wall < MaxWindows
              /\ wall' = wall + 1
              /\ UNCHANGED <<timeframe, linked, held, lock, refresh, copy>>

ChainlinkPrice == /\ \E window \in 1..wall : linked' = linked \cup {window}
                  /\ linked' # linked
                  /\ UNCHANGED <<timeframe, wall, held, lock, refresh, copy>>

MarketNext == RefreshStep \/ LoopStep \/ NextWindow \/ ChainlinkPrice

MarketTypeOK ==
    /\ timeframe \in {"5m", "15m"} /\ wall \in 1..MaxWindows
    /\ linked \subseteq 1..MaxWindows
    /\ {held, lock, copy} \subseteq [window : 0..MaxWindows,
                                     source : {"", "event", "api", "chainlink"}]
    /\ refresh.at \in {"idle", "price", "store"}

\* What the loops trade on is not what was last learnt: an ended window, or a
\* price to beat of another source than the one that is kept for the window.
StaleMarket ==
    held # NoMarket /\ (\/ held.window < wall
                        \/ /\ held.window = lock.window /\ lock.source # ""
                           /\ held.source # lock.source)
=============================================================================
