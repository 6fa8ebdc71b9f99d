---------------------------- MODULE MCTransfers ----------------------------
(* Small instances of Transfers for TLC. *)
EXTENDS Transfers

\* Two Ethereum accounts, two of Tron, one of IOST and one of Bitcoin.
SixWallets == <<"ETH", "ETH", "TRX", "TRX", "IOST", "BTC">>

Out(value) == [value |-> value, from |-> 0]

\* Three: what is spent leaves sets of one, two and three.
MCOutputs == { {Out(700), Out(900), Out(2000)} }
=============================================================================
