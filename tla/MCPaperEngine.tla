---------------------------- MODULE MCPaperEngine ----------------------------
(***************************************************************************)
(* The directional engine with its tables, its real orders, and the market *)
(* its loop trades on.  The three share the decision to enter and nothing  *)
(* else that changes, so `part' says which one runs.                       *)
(***************************************************************************)
EXTENDS PaperEngine, DirectionOrders, MarketState

CONSTANT Parts    \* which of "engine", "orders", "market" are checked

VARIABLE part

engineVars == vars
loopVars == <<part, engineVars, orderVars, marketVars>>

MCInit == part \in Parts /\ Init /\ OrdersInit /\ MarketInit
          /\ (part # "orders" => execMode = CHOOSE mode \in ExecModes : TRUE)
          /\ (part # "market" => timeframe = "5m")

EngineRuns == part = "engine" /\ Next /\ UNCHANGED <<part, orderVars, marketVars>>
OrdersRun == part = "orders" /\ OrdersNext /\ UNCHANGED <<part, engineVars, marketVars>>
MarketRuns == part = "market" /\ MarketNext /\ UNCHANGED <<part, engineVars, orderVars>>

MCNext == EngineRuns \/ OrdersRun \/ MarketRuns

\* The ticker fires again after every pass, and requests end.
MCFairness == /\ WF_engineVars(part = "engine" /\ Pass)
              /\ WF_marketVars(part = "market" /\ RefreshStep)

MCSpec == MCInit /\ [][MCNext]_loopVars /\ MCFairness

\* Money and bounds of the instance: a quote takes the whole budget or half of
\* it, and two positions may be open at once only if the first took half.
MCQuotes == {[shares |-> 3, cost |-> 2], [shares |-> 2, cost |-> 1]}
MCReverseQuotes == {[shares |-> 5, cost |-> 2]}

\* The sides are symmetric: the first position, if any, is on UP.
FirstIsUp == trades[1].side = "UP"

PartsTypeOK == TypeOK /\ OrdersTypeOK /\ MarketTypeOK

\* Whatever the loop stores over what the poll has learnt meanwhile, an ended
\* window or a provisional price instead of the one that is kept, the next poll
\* that goes through puts right.
MarketRecovers == (part = "market" /\ StaleMarket) ~> ~StaleMarket
=============================================================================
