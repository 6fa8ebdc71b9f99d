---------------------------- MODULE MCScatterPage ----------------------------
(* A small instance of ScatterPage: transactions of one action. *)
EXTENDS ScatterPage, TLC

MCOneAction == [r \in Requests |-> 1]

=============================================================================
