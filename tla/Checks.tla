-------------------------------- MODULE Checks --------------------------------
(* A handler that returns at the first check that fails, and its reason. *)
EXTENDS Naturals

Check(pass, reason) == [pass |-> pass, reason |-> reason]

\* The reason is that of the first check that fails.
FirstFailing(checks, ready) ==
    LET failing == {k \in DOMAIN checks : ~checks[k].pass}
    IN  IF failing = {} THEN ready
        ELSE checks[CHOOSE k \in failing : \A j \in failing : k <= j].reason
=============================================================================
