---------------------------- MODULE MCWalletStore ----------------------------
(* Small instances of WalletStore for TLC. *)
EXTENDS WalletStore, TLC

CONSTANTS k1, k2

MCKeys == {k1, k2}

\* One import screen of each write order, and none.
EveryOrder == { [coin |-> "BTC", how |-> "late"], [coin |-> "ETH", how |-> "whole"],
                [coin |-> "TRX", how |-> "tron"] }

NoImports == {}

KeySymmetry == Permutations(MCKeys)

\* opId is read only while a detail page is open or a deletion is under way,
\* and opening the page sets it: elsewhere its value makes no difference.
LiveOpId == IF page.kind = "detail" \/ \E j \in 1..Len(delayed) : delayed[j].kind = "delete"
              THEN opId ELSE 0

StoreView == <<wallets, nextId, coins, clients, LiveOpId, volatile>>
=============================================================================
