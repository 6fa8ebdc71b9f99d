------------------------------ MODULE MCEosPush ------------------------------
(* Small instances of EosPush for TLC: a pledge and its redemption. *)
EXTENDS EosPush, TLC

CONSTANTS pledge, redeem, again

TwoOps   == {pledge, redeem}
ThreeOps == {pledge, redeem, again}

MCAction == pledge :> "delegatebw" @@ redeem :> "undelegatebw"
MCActions == MCAction @@ again :> "delegatebw"
=============================================================================
