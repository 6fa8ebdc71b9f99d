---------------------------- MODULE MCDappBridge ----------------------------
(* A small instance of DappBridge: the first request lists two actions. *)
EXTENDS DappBridge, TLC

CONSTANTS a, b

MCActionsOf == (a :> 2) @@ [r \in Requests \ {a} |-> 1]

=============================================================================
