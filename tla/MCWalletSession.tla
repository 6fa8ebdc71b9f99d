--------------------------- MODULE MCWalletSession ---------------------------
(* Small instances of WalletSession for TLC: the brands of wallets 1, 2, ... *)
EXTENDS WalletSession, TLC

MCFixed == {1}

Mixed    == 1 :> "BTC" @@ 2 :> "ETH" @@ 3 :> "ETH" @@ 4 :> "TRX"
TwoTron  == 1 :> "TRX" @@ 2 :> "TRX" @@ 3 :> "BTC"
TwoEther == 1 :> "BTC" @@ 2 :> "ETH" @@ 3 :> "ETH"
Three    == 1 :> "BTC" @@ 2 :> "ETH" @@ 3 :> "IOST"
=============================================================================
