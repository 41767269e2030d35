--------------------------- MODULE DirectionOrders ---------------------------
(***************************************************************************)
(* The real orders of the directional engine (placeLiveDirection and the   *)
(* buttons of internal/paper/engine.go, PlaceMarketable of                 *)
(* internal/clob/client.go).  Entries come one at a time, under the        *)
(* engine's lock; the handlers of the panel run beside them without it.    *)
(***************************************************************************)
EXTENDS Integers

CONSTANTS ExecModes,     \* of the configuration: "shadow", "dry", "live"
          MaxOrders,     \* bound on the counters of orders
          MaxPresses     \* bound on buttons

ASSUME OrdersAssumption ==
    ExecModes \subseteq {"shadow", "dry", "live"} /\ MaxOrders \in Nat /\ MaxPresses \in Nat

VARIABLES execMode,
          live,       \* the executor's flag
          killReq,
          killing,    \* RequestKill has stored live and not yet killReq
          order,      \* where placeLiveDirection is, and the dry it read
          placed,     \* liveOrders
          failed,     \* lastExecErr is set
          slipped,    \* real orders that arrived after killReq was stored
          presses

orderVars == <<execMode, live, killReq, killing, order, placed, failed, slipped, presses>>
buttons == <<live, killReq, killing, presses>>

OrdersInit == /\ execMode \in ExecModes
              /\ live = (execMode = "live")
              /\ killReq = FALSE /\ killing = FALSE
              /\ order = [at |-> "idle", dry |-> TRUE]
              /\ placed = 0 /\ failed = FALSE /\ slipped = 0
              /\ presses = 0

\* Mutated form: the kill is not looked at, the flag being off anyway.
PlaceByFlagOnly ==
    /\ order.at = "idle"
    /\ order' = [order EXCEPT !.at = IF execMode = "shadow" THEN "idle" ELSE "flag"]
    /\ UNCHANGED <<execMode, buttons, placed, failed, slipped>>

\* A position was created: placeLiveDirection gives up in shadow, or when a kill
\* was requested.
PlaceLiveDirection ==
    /\ order.at = "idle"
    /\ order' = [order EXCEPT !.at = IF execMode = "shadow" \/ killReq THEN "idle" ELSE "flag"]
    /\ UNCHANGED <<execMode, buttons, placed, failed, slipped>>

\* place reads the flag and builds the request.
ReadFlag ==
    /\ order.at = "flag"
    /\ order' = [at |-> "send", dry |-> ~live]
    /\ UNCHANGED <<execMode, buttons, placed, failed, slipped>>

OneMore(count) == IF count < MaxOrders THEN count + 1 ELSE count

\* The request is lost; or it arrives, and its answer comes or is lost.
Send ==
    /\ order.at = "send"
    /\ \/ UNCHANGED <<placed, slipped>> /\ failed' = TRUE
       \/ /\ slipped' = IF ~order.dry /\ killReq THEN OneMore(slipped) ELSE slipped
          /\ \/ placed' = OneMore(placed) /\ UNCHANGED failed
             \/ failed' = TRUE /\ UNCHANGED placed
    /\ order' = [at |-> "idle", dry |-> TRUE]
    /\ UNCHANGED <<execMode, buttons>>

Press == presses < MaxPresses /\ presses' = presses + 1
Order == <<execMode, order, placed, failed, slipped>>

\* Without an executor the button answers with an error.
SetLive == /\ Press /\ execMode # "shadow"
           /\ live' \in BOOLEAN
           /\ UNCHANGED <<Order, killReq, killing>>

\* RequestKill clears the flag first and then asks for the kill, for good; it
\* asks without an executor too, where no order is sent anyway.
RequestKill == /\ Press /\ ~killing
               /\ live' = FALSE /\ killing' = TRUE
               /\ UNCHANGED <<Order, killReq>>

StoreKill == /\ killing
             /\ killReq' = TRUE /\ killing' = FALSE
             /\ UNCHANGED <<Order, live, presses>>

OrdersNext == PlaceLiveDirection \/ ReadFlag \/ Send \/ SetLive \/ RequestKill \/ StoreKill

OrdersSpec == OrdersInit /\ [][OrdersNext]_orderVars

OrdersTypeOK == /\ execMode \in ExecModes /\ {live, killReq, killing, failed} \subseteq BOOLEAN
                /\ order \in [at : {"idle", "flag", "send"}, dry : BOOLEAN]
                /\ placed \in 0..MaxOrders /\ slipped \in 0..MaxOrders

\* After a kill at most the one order that had passed the check still goes out,
\* even when the panel switches back to live; in dry and shadow mode nothing real
\* goes out until the panel switches to live.
OneOrderSlipsPastKill ==
    /\ slipped <= 1
    /\ slipped = 1 => execMode # "shadow" /\ (execMode = "live" \/ presses > 1)
=============================================================================
