-------------------------- MODULE WalletTablesProofs --------------------------
(***************************************************************************)
(* Proofs about the tables of WalletStore, for every set of keys, every    *)
(* choice of import screens and every bound: coins and clients belong to   *)
(* their wallets, addresses never change, leaving the identity leaves      *)
(* nothing, whatever the process was killed in, and a deletion under a HUD *)
(* that blocks touches removes the wallet it was confirmed for.            *)
(*                                                                         *)
(* TablesInv says how far the block that is running has come, and what the *)
(* tables hold of the wallet it works on by then; MaskInv says what is the *)
(* next to take the HUD away.                                              *)
(***************************************************************************)
EXTENDS WalletStoreProofs

Ids == DOMAIN wallets

-----------------------------------------------------------------------------
(* What the tables hold of a wallet                                         *)

NoCoins(i)   == \A p \in DOMAIN coins : p[1] # i
NoClients(i) == \A c \in clients : c.own # i
NoTrace(i)   == NoCoins(i) /\ NoClients(i)

\* A row as it was saved, without address ...
Unfilled(i, coin) == i \in Ids /\ wallets[i].coin = coin /\ wallets[i].key = NoKey
\* ... and with nothing else of it anywhere.
Blank(i, coin) == Unfilled(i, coin) /\ NoTrace(i)

\* A row with its address, and nothing else.
Filled(i, coin, key) ==
  i \in Ids /\ wallets[i].coin = coin /\ wallets[i].key = key /\ NoTrace(i)

\* Its coins, if any, are of its chain, without address or with the one to come.
CoinsFit(i, coin, key) ==
  \A p \in DOMAIN coins : p[1] = i => p[2] = coin /\ coins[p] \in {NoKey, key}

\* Its one client holds the key to come.
Armed(i, key) ==
  /\ [own |-> i, key |-> key] \in clients
  /\ \A c \in clients : c.own = i => c.key = key

\* The newest row of a chain, which "find" finds.
Newest(coin) == LastOf(RowsOf(coin))
Made(coin) == Blank(Newest(coin), coin)

\* No queued block will fill the row.
Apart(i) == \A b \in queued : b.kind = "eth" => b.obj # i

NoTrx == \A b \in queued : b.kind # "trx"

-----------------------------------------------------------------------------
(* How far the running block has come                                       *)

\* The statement the main thread is at is the n-th of the block.
At(block, n) == task.todo = SubSeq(block, n, Len(block))

Places(block) == 1..(Len(block) + 1)

\* An identity: every row it has saved is the newest of its chain and blank, until
\* it is found and filled.
IdentityAt(sys, n) ==
  LET m == Len(IdentitySaves(sys)) IN
  /\ NoTrx /\ delayed = << >>
  /\ n \in 2..(m + 1) => Made("BTC")
  /\ n \in 3..(m + 4) => Made("ETH") /\ Apart(Newest("ETH"))
  /\ n >= 4 => Made("TRX")
  /\ n = m + 2 => Blank(task.obj, "BTC")
  /\ n = m + 3 => Filled(task.obj, "BTC", task.key)
  /\ n = m + 5 => Blank(task.obj, "ETH") /\ Apart(task.obj)

\* The callback of the ETH wallet, whose row may have been deleted.
EthAt(n) ==
  /\ n <= 2 => Apart(task.obj)
  /\ n = 1 /\ task.obj \in Ids => Blank(task.obj, "ETH")
  /\ n = 2 /\ task.obj \in Ids => Unfilled(task.obj, "ETH") /\ CoinsFit(task.obj, "ETH", task.key)

\* A TRX wallet from its blank row on: client, coin, address.
TronAt(n) ==
  /\ n = 1 => Blank(task.obj, "TRX")
  /\ n = 2 => Unfilled(task.obj, "TRX") /\ NoCoins(task.obj) /\ Armed(task.obj, task.key)
  /\ n = 3 => /\ Unfilled(task.obj, "TRX") /\ CoinsFit(task.obj, "TRX", task.key)
              /\ Armed(task.obj, task.key) /\ <<task.obj, "TRX">> \in DOMAIN coins

TrxAt(n) == NoTrx /\ (n = 1 => Made("TRX")) /\ TronAt(n - 1)

WholeAt(coin, n) ==
  coin # "TRX" /\ (n = 2 => Filled(task.obj, coin, task.key) /\ Apart(task.obj))

LateAt(coin, n) ==
  /\ coin # "TRX"
  /\ n = 2 => Blank(task.obj, coin) /\ Apart(task.obj)
  /\ n = 3 => Filled(task.obj, coin, task.key) /\ Apart(task.obj)

TronImportAt(n) == NoTrx /\ TronAt(n - 1)

\* A reset empties one table after the other, and nothing is saved in between.
ResetAt(n) ==
  /\ NoTrx
  /\ n >= 2 => Ids = {}
  /\ n >= 3 => clients = {}
  /\ n >= 4 => coins = [p \in {} |-> {}]

Stage ==
  \/ task.todo = << >>
  \/ \E sys \in BOOLEAN : \E n \in Places(IdentityBlock(sys)) :
       At(IdentityBlock(sys), n) /\ IdentityAt(sys, n)
  \/ \E n \in Places(EthBlock) : At(EthBlock, n) /\ EthAt(n)
  \/ \E n \in Places(TrxBlock) : At(TrxBlock, n) /\ TrxAt(n)
  \/ \E coin \in Coins : \E n \in Places(WholeImport(coin)) : At(WholeImport(coin), n) /\ WholeAt(coin, n)
  \/ \E coin \in Coins : \E n \in Places(LateImport(coin)) : At(LateImport(coin), n) /\ LateAt(coin, n)
  \/ \E n \in Places(TronImport("TRX")) : At(TronImport("TRX"), n) /\ TronImportAt(n)
  \/ \E n \in Places(ResetBlock) : At(ResetBlock, n) /\ ResetAt(n)

-----------------------------------------------------------------------------
(* The queue and the tables                                                 *)

\* A queued ETH block fills a blank row of its own, or one that is gone; a queued
\* TRX block finds a blank row, and nothing is deleted before it runs.
Waiting ==
  /\ \A b \in queued : b.kind = "eth" /\ b.obj \in Ids => Blank(b.obj, "ETH")
  /\ \A b, c \in queued : b.kind = "eth" /\ c.kind = "eth" /\ b.obj = c.obj => b = c
  /\ \A b, c \in queued : b.kind = "trx" /\ c.kind = "trx" => b = c
  /\ ~NoTrx => Made("TRX") /\ delayed = << >>
  /\ \A b \in queued : b.kind = "import" => b.how \in {"whole", "late"} /\ b.coin # "TRX"

Tables == CoinsBelongToTheirWallet /\ TronReadyHasClient /\ OneClientPerWallet

TablesInv == Tables /\ Waiting /\ Stage

-----------------------------------------------------------------------------
(* A write leaves every other wallet alone                                  *)

\* The step changes rows, coins and clients of the id k at most.
OnlyOf(k) ==
  /\ \A i \in Ids : i # k => i \in Ids' /\ wallets'[i] = wallets[i]
  /\ \A i \in Ids' : i # k => i \in Ids
  /\ \A p \in DOMAIN coins : p \in DOMAIN coins' /\ (p[1] # k => coins'[p] = coins[p])
  /\ \A p \in DOMAIN coins' : p[1] # k => p \in DOMAIN coins
  /\ clients \subseteq clients'
  /\ \A c \in clients' : c.own # k => c \in clients

\* The three invariants for one wallet.
CoinsOf(k) ==
  k \in Ids => \A p \in DOMAIN coins : p[1] = k =>
    /\ p[2] = wallets[k].coin
    /\ wallets[k].key # NoKey => coins[p] \in {NoKey, wallets[k].key}
ReadyOf(k) ==
  k \in Ids /\ wallets[k].coin = "TRX" /\ wallets[k].key # NoKey =>
    /\ [own |-> k, key |-> wallets[k].key] \in clients
    /\ <<k, "TRX">> \in DOMAIN coins
OneOf(k) == \A c, d \in clients : c.own = k /\ d.own = k => c = d
TablesOf(k) == CoinsOf(k) /\ ReadyOf(k) /\ OneOf(k)

\* What the tables hold of another wallet stays.
LEMMA Elsewhere ==
  ASSUME NEW k, OnlyOf(k), NEW i, i # k
  PROVE  /\ i \in Ids' <=> i \in Ids
         /\ NoTrace(i) => NoTrace(i)'
         /\ \A coin : Blank(i, coin) => Blank(i, coin)'
         /\ TablesOf(i) => TablesOf(i)'
<1>1. i \in Ids' <=> i \in Ids
  BY DEF OnlyOf
<1>2. i \in Ids => wallets'[i] = wallets[i]
  BY DEF OnlyOf
<1>3. NoTrace(i) => NoTrace(i)'
  BY DEF OnlyOf, NoTrace, NoCoins, NoClients
<1>4. ASSUME NEW coin, Blank(i, coin) PROVE Blank(i, coin)'
  BY <1>1, <1>2, <1>3, <1>4 DEF Blank, Unfilled
<1>5. CoinsOf(i) => CoinsOf(i)'
  BY <1>1, <1>2 DEF CoinsOf, OnlyOf
<1>6. ReadyOf(i) => ReadyOf(i)'
  BY <1>1, <1>2 DEF ReadyOf, OnlyOf
<1>7. OneOf(i) => OneOf(i)'
  BY DEF OneOf, OnlyOf
<1> QED  BY <1>1, <1>3, <1>4, <1>5, <1>6, <1>7 DEF TablesOf

\* The three invariants hold when they hold for each wallet.
LEMMA TablesPointwise ==
  /\ Tables <=> \A k : TablesOf(k)
  /\ Tables' <=> \A k : TablesOf(k)'
<1>1. /\ CoinsBelongToTheirWallet <=> \A k : CoinsOf(k)
      /\ CoinsBelongToTheirWallet' <=> \A k : CoinsOf(k)'
  BY DEF CoinsBelongToTheirWallet, CoinsOf, Ids
<1>2. /\ TronReadyHasClient <=> \A k : ReadyOf(k)
      /\ TronReadyHasClient' <=> \A k : ReadyOf(k)'
  BY DEF TronReadyHasClient, ReadyOf, RowsOf, Ids
<1>3. /\ OneClientPerWallet <=> \A k : OneOf(k)
      /\ OneClientPerWallet' <=> \A k : OneOf(k)'
  BY DEF OneClientPerWallet, OneOf
<1> QED  BY <1>1, <1>2, <1>3 DEF Tables, TablesOf

\* A write keeps the three invariants when it keeps them for the wallet it writes.
LEMMA TablesKept ==
  ASSUME NEW k, Tables, OnlyOf(k), TablesOf(k)'
  PROVE  Tables'
<1>1. \A i : TablesOf(i)
  BY TablesPointwise
<1>2. ASSUME NEW i PROVE TablesOf(i)'
  <2>1. CASE i = k
    BY <2>1
  <2>2. CASE i # k
    BY <1>1, <2>2, Elsewhere
  <2> QED  BY <2>1, <2>2
<1> QED  BY <1>2, TablesPointwise

\* It keeps the queue's promises when no queued block will fill the wallet it
\* writes and the row a queued TRX block will find is another one.
LEMMA WaitingKept ==
  ASSUME NEW k, Waiting, OnlyOf(k), UNCHANGED queued,
         \A b \in queued : b.kind = "eth" /\ b.obj \in Ids' => b.obj # k,
         NoTrx \/ UNCHANGED delayed,
         NoTrx \/ (k # Newest("TRX") /\ Newest("TRX")' = Newest("TRX"))
  PROVE  Waiting'
<1>1. ASSUME NEW b \in queued, b.kind = "eth", b.obj \in Ids'
      PROVE  Blank(b.obj, "ETH")'
  <2>1. b.obj # k
    BY <1>1
  <2>2. PICK i : i = b.obj
    OBVIOUS
  <2>3. Blank(i, "ETH")
    BY <1>1, <2>1, <2>2, Elsewhere DEF Waiting
  <2>4. Blank(i, "ETH")'
    BY <2>1, <2>2, <2>3, Elsewhere
  <2> QED  BY <2>2, <2>4
<1>2. ~NoTrx => Made("TRX")'
  <2> SUFFICES ASSUME ~NoTrx PROVE Made("TRX")'
    OBVIOUS
  <2>1. PICK i : i = Newest("TRX")
    OBVIOUS
  <2>2. i # k /\ Blank(i, "TRX")
    BY <2>1 DEF Waiting, Made
  <2>3. Blank(i, "TRX")'
    BY <2>2, Elsewhere
  <2> QED  BY <2>1, <2>3 DEF Made
<1> QED  BY <1>1, <1>2 DEF Waiting, NoTrx

-----------------------------------------------------------------------------
(* What each write does to the wallet it is about                           *)

\* lastObject is the largest of the ids found.
LEMMA LastOfIs ==
  ASSUME NEW ids \in SUBSET Nat, NEW m \in ids, \A j \in ids : j <= m
  PROVE  LastOf(ids) = m
<1>1. ids # {}
  OBVIOUS
<1>2. \A i \in ids : (\A j \in ids : j <= i) => i = m
  OBVIOUS
<1> QED  BY <1>1, <1>2 DEF LastOf

\* The newest row of a chain is one of its rows.
LEMMA NewestType ==
  ASSUME TypeOK, NEW coin
  PROVE  /\ RowsOf(coin) # {} => Newest(coin) \in RowsOf(coin)
         /\ RowsOf(coin) = {} => Newest(coin) = 0
<1>1. RowsOf(coin) \subseteq 1..(nextId - 1) /\ nextId - 1 \in Nat
  BY DEF RowsOf, TypeOK, TablesOK
<1>2. ASSUME RowsOf(coin) # {} PROVE Newest(coin) \in RowsOf(coin)
  <2>1. \E i \in RowsOf(coin) : \A j \in RowsOf(coin) : j <= i
    BY <1>1, <1>2, NewestExists
  <2> QED  BY <1>2, <2>1 DEF Newest, LastOf
<1>3. RowsOf(coin) = {} => Newest(coin) = 0
  BY DEF Newest, LastOf
<1> QED  BY <1>2, <1>3

\* No id is 0 and none is as large as the next one.
LEMMA IdsAre ==
  ASSUME TypeOK
  PROVE  /\ nextId \in Nat /\ 0 \notin Ids
         /\ \A i \in Ids : i \in Nat /\ i < nextId
         /\ \A b \in queued : b.obj \in Nat /\ b.obj < nextId
         /\ \A i \in Ids : wallets[i] \in Row
BY DEF TypeOK, TablesOK, MemoryOK, Ids, Blocks

\* A row is saved under a new id, of which there is nothing yet, and is the newest
\* of its chain.
LEMMA InsertFrame ==
  ASSUME TypeOK, NEW row, InsertRow(row), UNCHANGED <<coins, clients>>,
         NEW k, k = nextId
  PROVE  /\ OnlyOf(k) /\ k \notin Ids
         /\ k \in Ids' /\ wallets'[k] = row /\ NoTrace(k)'
         /\ Newest(row.coin)' = k
         /\ \A coin : coin # row.coin => Newest(coin)' = Newest(coin)
<1>1. /\ Ids' = Ids \cup {k} /\ wallets'[k] = row
      /\ \A i \in Ids : i # k => wallets'[i] = wallets[i]
  BY DEF InsertRow, RowId, Ids
<1>2. k \notin Ids /\ k \in Nat
  BY IdsAre
<1>3. OnlyOf(k)
  BY <1>1, <1>2 DEF OnlyOf
<1>4. NoTrace(k)'
  <2>1. \A p \in DOMAIN coins : p[1] \in 0..(nextId - 1)
    BY DEF TypeOK, TablesOK
  <2>2. \A c \in clients : c.own \in 0..(nextId - 1)
    BY DEF TypeOK, TablesOK
  <2> QED  BY <1>2, <2>1, <2>2 DEF NoTrace, NoCoins, NoClients
<1>5. Newest(row.coin)' = k
  <2>1. k \in RowsOf(row.coin)'
    BY <1>1 DEF RowsOf, Ids
  <2>2. \A j \in RowsOf(row.coin)' : j \in Nat /\ j <= k
    BY <1>1, <1>2, IdsAre DEF RowsOf, Ids
  <2>3. RowsOf(row.coin)' \in SUBSET Nat
    BY <2>2
  <2> QED  BY <2>1, <2>2, <2>3, LastOfIs DEF Newest
<1>6. ASSUME NEW coin, coin # row.coin PROVE Newest(coin)' = Newest(coin)
  <2>1. RowsOf(coin)' = RowsOf(coin)
    BY <1>1, <1>2, <1>6 DEF RowsOf, Ids
  <2> QED  BY <2>1 DEF Newest
<1> QED  BY <1>1, <1>2, <1>3, <1>4, <1>5, <1>6

\* A row is updated in place and stays of its chain.
LEMMA FillFrame ==
  ASSUME TypeOK, NEW k, NEW key, FillRow(k, key), UNCHANGED <<coins, clients>>
  PROVE  /\ OnlyOf(k)
         /\ Ids' = Ids
         /\ k \in Ids => wallets'[k].coin = wallets[k].coin /\ wallets'[k].key = key
         /\ \A i \in Ids : wallets'[i].coin = wallets[i].coin
         /\ \A coin : Newest(coin)' = Newest(coin)
<1>1. Ids' = Ids
  BY DEF FillRow, Ids
<1>2. \A i \in Ids : wallets'[i] = IF i = k THEN [wallets[i] EXCEPT !.key = key, !.enc = TRUE]
                                            ELSE wallets[i]
  BY DEF FillRow, Ids
<1>3. OnlyOf(k)
  BY <1>1, <1>2 DEF OnlyOf
<1>4. k \in Ids => wallets'[k].coin = wallets[k].coin /\ wallets'[k].key = key
  BY <1>2, IdsAre DEF Row
<1>5. \A i \in Ids : wallets'[i].coin = wallets[i].coin
  BY <1>2, <1>4
<1>6. ASSUME NEW coin PROVE Newest(coin)' = Newest(coin)
  <2>1. RowsOf(coin)' = RowsOf(coin)
    BY <1>1, <1>5 DEF RowsOf, Ids
  <2> QED  BY <2>1 DEF Newest
<1> QED  BY <1>1, <1>3, <1>4, <1>5, <1>6

\* Nothing changes in the wallets' table.
LEMMA NewestStays ==
  ASSUME UNCHANGED wallets
  PROVE  Ids' = Ids /\ \A coin : Newest(coin)' = Newest(coin)
BY DEF Ids, Newest, RowsOf

\* A coin is written: it is there, with the address given or the one it had.
LEMMA CoinFrame ==
  ASSUME NEW k, NEW brand, NEW key, CreatCoins(k, brand, key), UNCHANGED <<wallets, clients>>
  PROVE  /\ OnlyOf(k)
         /\ <<k, brand>> \in DOMAIN coins'
         /\ \A p \in DOMAIN coins' : p # <<k, brand>> => p \in DOMAIN coins /\ coins'[p] = coins[p]
         /\ coins'[<<k, brand>>] = key
              \/ (key = NoKey /\ <<k, brand>> \in DOMAIN coins
                    /\ coins'[<<k, brand>>] = coins[<<k, brand>>])
<1>1. DOMAIN coins' = DOMAIN coins \cup {<<k, brand>>}
  BY DEF CreatCoins
<1>2. \A p \in DOMAIN coins' :
        coins'[p] = IF p = <<k, brand>> /\ key # NoKey THEN key ELSE StoredAddress(p)
  BY DEF CreatCoins
<1>3. \A p \in DOMAIN coins' : p # <<k, brand>> => p \in DOMAIN coins /\ coins'[p] = coins[p]
  BY <1>1, <1>2 DEF StoredAddress
<1>4. coins'[<<k, brand>>] = key
        \/ (key = NoKey /\ <<k, brand>> \in DOMAIN coins
              /\ coins'[<<k, brand>>] = coins[<<k, brand>>])
  BY <1>1, <1>2 DEF StoredAddress
<1>5. OnlyOf(k)
  <2>1. \A p : p[1] # k => p # <<k, brand>>
    OBVIOUS
  <2>2. Ids' = Ids /\ \A i \in Ids : wallets'[i] = wallets[i]
    BY DEF Ids
  <2> QED  BY <1>1, <1>3, <2>1, <2>2 DEF OnlyOf
<1> QED  BY <1>1, <1>3, <1>4, <1>5

\* The first coin of a wallet is its only one.
LEMMA FirstCoin ==
  ASSUME NEW k, NEW brand, NEW key, CreatCoins(k, brand, key), UNCHANGED <<wallets, clients>>,
         NoCoins(k)
  PROVE  \A p \in DOMAIN coins' : p[1] = k => p[2] = brand /\ coins'[p] = key
<1> SUFFICES ASSUME NEW p \in DOMAIN coins', p[1] = k
             PROVE  p[2] = brand /\ coins'[p] = key
  OBVIOUS
<1>1. /\ p # <<k, brand>> => p \in DOMAIN coins
      /\ coins'[<<k, brand>>] = key \/ <<k, brand>> \in DOMAIN coins
  BY CoinFrame
<1>2. p \notin DOMAIN coins /\ <<k, brand>> \notin DOMAIN coins
  BY DEF NoCoins
<1> QED  BY <1>1, <1>2

\* A client is kept.
LEMMA ClientFrame ==
  ASSUME NEW k, NEW key, clients' = clients \cup {[own |-> k, key |-> key]},
         UNCHANGED <<wallets, coins>>
  PROVE  OnlyOf(k)
BY DEF OnlyOf, Ids

\* Nothing is written.
LEMMA NoFrame ==
  ASSUME NEW k, UNCHANGED <<wallets, coins, clients>>
  PROVE  OnlyOf(k)
BY DEF OnlyOf, Ids

-----------------------------------------------------------------------------
(* The statement the main thread is at                                      *)

\* The main thread is at the n-th statement: what it is, and where the thread is
\* when it is done.
LEMMA AtStatement ==
  ASSUME NEW block \in Seq(Step), NEW n \in 1..Len(block), At(block, n), TypeOK
  PROVE  /\ task.todo # << >> /\ Head(task.todo) = block[n]
         /\ \A obj \in Nat : Advance(obj) =>
              /\ At(block, n + 1)'
              /\ task'.obj = obj /\ task'.key = task.key
              /\ n = Len(block) => task'.todo = << >>
<1>1. task \in Task
  BY DEF TypeOK, MemoryOK
<1>2. Len(block) \in Nat /\ n \in Nat /\ n <= Len(block) /\ n >= 1
  BY LenProperties
<1>3. /\ Len(task.todo) = Len(block) - n + 1
      /\ \A i \in 1..(Len(block) - n + 1) : task.todo[i] = block[n + i - 1]
      /\ task.todo \in Seq(Step)
  BY <1>2, SubSeqProperties DEF At
<1>4. task.todo # << >> /\ Head(task.todo) = block[n]
  BY <1>2, <1>3
<1>5. Tail(task.todo) = SubSeq(block, n + 1, Len(block))
  <2>1. /\ Tail(task.todo) \in Seq(Step)
        /\ Len(Tail(task.todo)) = Len(block) - n
        /\ \A i \in 1..(Len(block) - n) : Tail(task.todo)[i] = task.todo[i + 1]
    BY <1>2, <1>3, <1>4, HeadTailProperties
  <2>2. /\ SubSeq(block, n + 1, Len(block)) \in Seq(Step)
        /\ Len(SubSeq(block, n + 1, Len(block))) = Len(block) - n
        /\ \A i \in 1..(Len(block) - n) : SubSeq(block, n + 1, Len(block))[i] = block[n + i]
    BY <1>2, SubSeqProperties
  <2>3. \A i \in 1..(Len(block) - n) : Tail(task.todo)[i] = SubSeq(block, n + 1, Len(block))[i]
    <3> SUFFICES ASSUME NEW i \in 1..(Len(block) - n)
                 PROVE  Tail(task.todo)[i] = SubSeq(block, n + 1, Len(block))[i]
      OBVIOUS
    <3>1. i + 1 \in 1..(Len(block) - n + 1) /\ n + (i + 1) - 1 = n + i
      BY <1>2
    <3>2. task.todo[i + 1] = block[n + i]
      BY <1>3, <3>1
    <3> QED  BY <2>1, <2>2, <3>2
  <2> QED  BY <2>1, <2>2, <2>3, SeqEqual
<1>6. ASSUME NEW obj \in Nat, Advance(obj)
      PROVE  /\ At(block, n + 1)'
             /\ task'.obj = obj /\ task'.key = task.key
             /\ n = Len(block) => task'.todo = << >>
  <2>1. task'.todo = Tail(task.todo) /\ task'.obj = obj /\ task'.key = task.key
    BY <1>1, <1>6 DEF Advance, Task
  <2>2. n = Len(block) => Len(Tail(task.todo)) = 0
    BY <1>2, <1>3, <1>4, HeadTailProperties
  <2>3. n = Len(block) => Tail(task.todo) = << >>
    BY <1>3, <1>4, <2>2, HeadTailProperties, EmptySeq
  <2> QED  BY <1>5, <2>1, <2>3 DEF At
<1> QED  BY <1>4, <1>6

\* Before its first statement the main thread has the whole block to make.
LEMMA AtFirst ==
  ASSUME NEW block \in Seq(Step), task'.todo = block
  PROVE  At(block, 1)'
<1>1. Len(block) \in Nat
  BY LenProperties
<1>2. /\ SubSeq(block, 1, Len(block)) \in Seq(Step)
      /\ Len(SubSeq(block, 1, Len(block))) = Len(block)
      /\ \A i \in 1..Len(block) : SubSeq(block, 1, Len(block))[i] = block[i]
  BY <1>1, SubSeqProperties
<1>3. SubSeq(block, 1, Len(block)) = block
  BY <1>2, SeqEqual
<1> QED  BY <1>3 DEF At

\* After its last statement it is idle.
LEMMA AtEnd ==
  ASSUME NEW block \in Seq(Step), At(block, Len(block) + 1)
  PROVE  task.todo = << >>
<1>1. Len(block) \in Nat
  BY LenProperties
<1>2. task.todo \in Seq(Step) /\ Len(task.todo) = 0
  BY <1>1, SubSeqProperties DEF At
<1> QED  BY <1>2, EmptySeq

\* A write of the running block.
Write ==
  \/ SaveIdentityRow \/ FindIdentityRow \/ SaveImportRow \/ UpdateRow \/ SaveCoin
  \/ SaveClient \/ QueueBlock \/ EnterMain \/ ClearTable \/ ResetRoot

\* The statement decides which write is made.
LEMMA WriteIs ==
  ASSUME Write, NEW op, NEW coin, Head(task.todo) = S(op, coin)
  PROVE  /\ NextCoin = coin
         /\ \A x : Doing(x) => x = op
         /\ op = "save" => SaveIdentityRow
         /\ op = "find" => FindIdentityRow
         /\ op \in {"import", "importBare"} => SaveImportRow
         /\ op = "fill" => UpdateRow
         /\ op \in {"coin", "bareCoin"} => SaveCoin
         /\ op = "client" => SaveClient
         /\ op \in {"askEth", "askTrx", "timer"} => QueueBlock
         /\ op = "enterMain" => EnterMain
         /\ op \in {"clearWallets", "clearClients", "clearCoins"} => ClearTable
         /\ op = "root" => ResetRoot
<1>1. NextCoin = coin /\ \A x : Doing(x) => x = op
  BY DEF NextCoin, Doing, S
<1>2. /\ SaveIdentityRow => Doing("save")
      /\ FindIdentityRow => Doing("find")
      /\ SaveImportRow => Doing("import") \/ Doing("importBare")
      /\ UpdateRow => Doing("fill")
      /\ SaveCoin => Doing("coin") \/ Doing("bareCoin")
      /\ SaveClient => Doing("client")
      /\ QueueBlock => Doing("askEth") \/ Doing("askTrx") \/ Doing("timer")
      /\ EnterMain => Doing("enterMain")
      /\ ClearTable => Doing("clearWallets") \/ Doing("clearClients") \/ Doing("clearCoins")
      /\ ResetRoot => Doing("root")
  BY DEF SaveIdentityRow, FindIdentityRow, SaveImportRow, UpdateRow, SaveCoin, SaveClient,
         QueueBlock, EnterMain, ClearTable, ResetRoot
<1> QED  BY <1>1, <1>2 DEF Write

\* The statements of the blocks.
LEMMA Statements ==
  /\ Len(EthBlock) = 3 /\ EthBlock[1] = S("coin", "ETH") /\ EthBlock[2] = S("fill", "ETH")
  /\ EthBlock[3] = S("enterMain", "ETH")
  /\ Len(TrxBlock) = 4 /\ TrxBlock[1] = S("find", "TRX") /\ TrxBlock[2] = S("client", "TRX")
  /\ TrxBlock[3] = S("bareCoin", "TRX") /\ TrxBlock[4] = S("fill", "TRX")
  /\ Len(ResetBlock) = 4
  /\ ResetBlock[1] = S("clearWallets", "BTC") /\ ResetBlock[2] = S("clearClients", "BTC")
  /\ ResetBlock[3] = S("clearCoins", "BTC") /\ ResetBlock[4] = S("root", "BTC")
BY DEF EthBlock, TrxBlock, ResetBlock

\* The statements of the imports.
LEMMA ImportStatements ==
  ASSUME NEW coin \in Coins
  PROVE  /\ Len(WholeImport(coin)) = 3 /\ WholeImport(coin)[1] = S("import", coin)
         /\ WholeImport(coin)[2] = S("coin", coin) /\ WholeImport(coin)[3] = S("timer", coin)
         /\ Len(LateImport(coin)) = 4 /\ LateImport(coin)[1] = S("importBare", coin)
         /\ LateImport(coin)[2] = S("fill", coin) /\ LateImport(coin)[3] = S("coin", coin)
         /\ LateImport(coin)[4] = S("timer", coin)
         /\ Len(TronImport(coin)) = 5 /\ TronImport(coin)[1] = S("importBare", coin)
         /\ TronImport(coin)[2] = S("client", coin) /\ TronImport(coin)[3] = S("bareCoin", coin)
         /\ TronImport(coin)[4] = S("fill", coin) /\ TronImport(coin)[5] = S("timer", coin)
         /\ WholeImport(coin) \in Seq(Step) /\ LateImport(coin) \in Seq(Step)
         /\ TronImport(coin) \in Seq(Step)
<1>1. /\ WholeImport(coin) = ImportBlock(coin, "whole")
      /\ LateImport(coin) = ImportBlock(coin, "late")
      /\ TronImport(coin) = ImportBlock(coin, "tron")
  BY DEF ImportBlock
<1>2. /\ WholeImport(coin) \in Seq(Step) /\ LateImport(coin) \in Seq(Step)
      /\ TronImport(coin) \in Seq(Step)
  BY <1>1, BlocksAreSteps
<1> QED  BY <1>2 DEF WholeImport, LateImport, TronImport

\* The statements of an identity: three or four rows, then the rest.
LEMMA IdentityStatements ==
  ASSUME NEW sys \in BOOLEAN, NEW m, m = Len(IdentitySaves(sys))
  PROVE  /\ m \in {3, 4} /\ Len(IdentityBlock(sys)) = m + 6
         /\ IdentityBlock(sys)[1] = S("save", "BTC") /\ IdentityBlock(sys)[2] = S("save", "ETH")
         /\ IdentityBlock(sys)[3] = S("save", "TRX")
         /\ m = 4 => IdentityBlock(sys)[4] = S("save", "ATOM")
         /\ IdentityBlock(sys)[m + 1] = S("find", "BTC") /\ IdentityBlock(sys)[m + 2] = S("fill", "BTC")
         /\ IdentityBlock(sys)[m + 3] = S("coin", "BTC") /\ IdentityBlock(sys)[m + 4] = S("find", "ETH")
         /\ IdentityBlock(sys)[m + 5] = S("askEth", "ETH")
         /\ IdentityBlock(sys)[m + 6] = S("askTrx", "TRX")
<1> DEFINE rest == <<S("find", "BTC"), S("fill", "BTC"), S("coin", "BTC"),
                     S("find", "ETH"), S("askEth", "ETH"), S("askTrx", "TRX")>>
           saves == IdentitySaves(sys)
<1>1. \A op \in Ops, coin \in Coins : S(op, coin) \in Step
  BY DEF S, Step
<1>2. rest \in Seq(Step) /\ Len(rest) = 6
  BY <1>1 DEF Ops, Coins
<1>3. /\ saves \in Seq(Step) /\ Len(saves) \in {3, 4}
      /\ saves[1] = S("save", "BTC") /\ saves[2] = S("save", "ETH") /\ saves[3] = S("save", "TRX")
      /\ Len(saves) = 4 => saves[4] = S("save", "ATOM")
  <2>1. CASE sys
    <3> DEFINE three == <<S("save", "BTC"), S("save", "ETH"), S("save", "TRX")>>
               one   == <<S("save", "ATOM")>>
    <3>1. /\ three \in Seq(Step) /\ Len(three) = 3
          /\ three[1] = S("save", "BTC") /\ three[2] = S("save", "ETH") /\ three[3] = S("save", "TRX")
      BY <1>1 DEF Ops, Coins
    <3>2. one \in Seq(Step) /\ Len(one) = 1 /\ one[1] = S("save", "ATOM")
      BY <1>1 DEF Ops, Coins
    <3>3. saves = three \o one
      BY <2>1 DEF IdentitySaves
    <3> HIDE DEF three, one, saves
    <3>4. /\ saves \in Seq(Step) /\ Len(saves) = Len(three) + Len(one)
          /\ \A i \in 1..(Len(three) + Len(one)) :
               saves[i] = IF i <= Len(three) THEN three[i] ELSE one[i - Len(three)]
      BY <3>1, <3>2, <3>3, ConcatProperties
    <3> QED  BY <3>1, <3>2, <3>4
  <2>2. CASE ~sys
    <3>1. saves = <<S("save", "BTC"), S("save", "ETH"), S("save", "TRX")>>
      BY <2>2 DEF IdentitySaves
    <3> QED  BY <1>1, <3>1 DEF Ops, Coins
  <2> QED  BY <2>1, <2>2
<1>4. rest[1] = S("find", "BTC") /\ rest[2] = S("fill", "BTC") /\ rest[3] = S("coin", "BTC")
      /\ rest[4] = S("find", "ETH") /\ rest[5] = S("askEth", "ETH") /\ rest[6] = S("askTrx", "TRX")
  OBVIOUS
<1>5. IdentityBlock(sys) = saves \o rest
  BY DEF IdentityBlock
<1>6. m \in {3, 4} /\ m = Len(saves)
  BY <1>3
<1> HIDE DEF rest, saves
<1>7. /\ Len(saves \o rest) = Len(saves) + Len(rest)
      /\ \A i \in 1..(Len(saves) + Len(rest)) :
           (saves \o rest)[i] = IF i <= Len(saves) THEN saves[i] ELSE rest[i - Len(saves)]
  BY <1>2, <1>3, ConcatProperties
<1> DEFINE all == IdentityBlock(sys)
<1>8. Len(all) = m + 6 /\ \A i \in 1..(m + 6) : all[i] = IF i <= m THEN saves[i] ELSE rest[i - m]
  BY <1>2, <1>5, <1>6, <1>7
<1> HIDE DEF all
<1>9. \A i \in 1..m : all[i] = saves[i]
  BY <1>6, <1>8
<1>10. \A i \in 1..6 : all[m + i] = rest[i]
  <2> SUFFICES ASSUME NEW i \in 1..6 PROVE all[m + i] = rest[i]
    OBVIOUS
  <2>1. m + i \in 1..(m + 6) /\ ~(m + i <= m) /\ (m + i) - m = i
    BY <1>6
  <2> QED  BY <1>8, <2>1
<1>11. /\ all[1] = S("save", "BTC") /\ all[2] = S("save", "ETH") /\ all[3] = S("save", "TRX")
       /\ m = 4 => all[4] = S("save", "ATOM")
  BY <1>3, <1>6, <1>9
<1>12. /\ all[m + 1] = S("find", "BTC") /\ all[m + 2] = S("fill", "BTC")
       /\ all[m + 3] = S("coin", "BTC") /\ all[m + 4] = S("find", "ETH")
       /\ all[m + 5] = S("askEth", "ETH") /\ all[m + 6] = S("askTrx", "TRX")
  BY <1>4, <1>10
<1> QED  BY <1>6, <1>8, <1>11, <1>12 DEF all

-----------------------------------------------------------------------------
(* Block by block                                                           *)

\* No wallet that has an address gets another one in this step.
AddressesStay ==
  \A i \in Ids \cap Ids' : wallets[i].key # NoKey => wallets'[i].key = wallets[i].key

\* What every step must keep besides the place of the running block.
Keeps == Tables' /\ Waiting' /\ AddressesStay

\* A write keeps them when it does what the invariants ask for the one wallet it
\* writes and leaves the rows alone that queued blocks will fill.
LEMMA WriteKeeps ==
  ASSUME NEW k, Tables, Waiting, OnlyOf(k), TablesOf(k)', UNCHANGED queued,
         NoTrx \/ UNCHANGED delayed,
         \A b \in queued : b.kind = "eth" /\ b.obj \in Ids' => b.obj # k,
         NoTrx \/ (k # Newest("TRX") /\ Newest("TRX")' = Newest("TRX")),
         k \in Ids \cap Ids' => wallets[k].key = NoKey \/ wallets'[k].key = wallets[k].key
  PROVE  Keeps
<1>1. Tables' /\ Waiting'
  BY TablesKept, WaitingKept
<1>2. AddressesStay
  BY DEF AddressesStay, OnlyOf
<1> QED  BY <1>1, <1>2 DEF Keeps

\* So does a step that leaves tables, queue and timers as they are.
LEMMA NothingKeeps ==
  ASSUME Tables, Waiting, UNCHANGED <<wallets, coins, clients, queued, delayed>>
  PROVE  Keeps
<1>1. Tables'
  BY DEF Tables, CoinsBelongToTheirWallet, TronReadyHasClient, OneClientPerWallet, RowsOf
<1>2. Waiting'
  BY DEF Waiting, NoTrx, Made, Blank, Unfilled, Newest, RowsOf, NoTrace, NoCoins, NoClients, Ids
<1> QED  BY <1>1, <1>2 DEF Keeps, AddressesStay, Ids

\* The row a queued TRX block will find is there and its chain is TRX.
LEMMA MadeIs ==
  ASSUME NEW coin, Made(coin)
  PROVE  Newest(coin) \in Ids /\ wallets[Newest(coin)].coin = coin
         /\ wallets[Newest(coin)].key = NoKey
BY DEF Made, Blank, Unfilled

\* The callback of the ETH wallet: coin, row, main screen.
LEMMA EthSteps ==
  ASSUME TypeOK, Tables, Waiting, Write, NEW n \in 1..3, At(EthBlock, n), EthAt(n)
  PROVE  Keeps /\ Stage'
<1>1. /\ task.todo # << >> /\ Head(task.todo) = EthBlock[n]
      /\ \A obj \in Nat : Advance(obj) =>
           /\ At(EthBlock, n + 1)'
           /\ task'.obj = obj /\ task'.key = task.key
           /\ n = 3 => task'.todo = << >>
  BY AtStatement, BlocksAreSteps, Statements
<1>2. PICK k \in Nat : k = task.obj
  BY DEF TypeOK, MemoryOK, Task
<1>3. PICK key : key = task.key
  OBVIOUS
<1>4. k \in Ids /\ n <= 2 => wallets[k].coin = "ETH" /\ wallets[k].key = NoKey
  BY <1>2 DEF EthAt, Blank, Unfilled
<1>5. n <= 2 => NoTrx \/ k # Newest("TRX")
  BY <1>4, MadeIs DEF Waiting
<1>6. n <= 2 => Apart(k)
  BY <1>2 DEF EthAt
<1>7. TablesOf(k)
  BY TablesPointwise
<1>8. CASE n = 1
  <2>1. SaveCoin /\ NextCoin = "ETH" /\ (\A x : Doing(x) => x = "coin")
    BY <1>1, <1>8, Statements, WriteIs
  <2>2. /\ CreatCoins(k, "ETH", key) /\ Advance(k)
        /\ UNCHANGED <<wallets, clients, queued, delayed>>
    BY <1>2, <1>3, <2>1 DEF SaveCoin
  <2>3. OnlyOf(k) /\ Ids' = Ids /\ Newest("TRX")' = Newest("TRX")
    BY <2>2, CoinFrame, NewestStays
  <2>4. k \in Ids => NoTrace(k) /\ Unfilled(k, "ETH")
    BY <1>2, <1>8 DEF EthAt, Blank
  <2>5. k \in Ids => Unfilled(k, "ETH")' /\ CoinsFit(k, "ETH", key)'
    <3>1. k \in Ids => CoinsFit(k, "ETH", key)'
      BY <2>2, <2>4, FirstCoin DEF CoinsFit, NoTrace
    <3> QED  BY <2>2, <2>3, <2>4, <3>1 DEF Unfilled
  <2>6. TablesOf(k)'
    <3>1. CoinsOf(k)' /\ ReadyOf(k)'
      BY <2>3, <2>5 DEF CoinsOf, ReadyOf, Unfilled, CoinsFit
    <3>2. OneOf(k)'
      BY <1>7, <2>2 DEF TablesOf, OneOf
    <3> QED  BY <3>1, <3>2 DEF TablesOf
  <2>7. Keeps
    BY <1>4, <1>5, <1>6, <1>8, <2>2, <2>3, <2>6, WriteKeeps DEF Apart
  <2>8. EthAt(2)' /\ At(EthBlock, 2)'
    <3>1. At(EthBlock, 1 + 1)' /\ task'.obj = k /\ task'.key = key
      BY <1>1, <1>3, <1>8, <2>2
    <3>2. Apart(k)'
      BY <1>6, <1>8, <2>2 DEF Apart
    <3> QED  BY <2>3, <2>5, <3>1, <3>2 DEF EthAt
  <2>9. 2 \in Places(EthBlock)
    BY Statements DEF Places
  <2>10. Stage'
    BY <2>8, <2>9 DEF Stage
  <2> QED  BY <2>7, <2>10
<1>9. CASE n = 2
  <2>1. UpdateRow
    BY <1>1, <1>9, Statements, WriteIs
  <2>2. FillRow(k, key) /\ Advance(k) /\ UNCHANGED <<coins, clients, queued, delayed>>
    BY <1>2, <1>3, <2>1 DEF UpdateRow
  <2>3. /\ OnlyOf(k) /\ Ids' = Ids /\ Newest("TRX")' = Newest("TRX")
        /\ k \in Ids => wallets'[k].coin = wallets[k].coin /\ wallets'[k].key = key
    BY <2>2, FillFrame
  <2>4. TablesOf(k)'
    <3>1. CoinsOf(k)' /\ ReadyOf(k)'
      <4>1. k \in Ids => CoinsFit(k, "ETH", key)
        BY <1>2, <1>3, <1>9 DEF EthAt
      <4> QED  BY <1>4, <1>9, <2>2, <2>3, <4>1 DEF CoinsOf, ReadyOf, CoinsFit
    <3>2. OneOf(k)'
      BY <1>7, <2>2 DEF TablesOf, OneOf
    <3> QED  BY <3>1, <3>2 DEF TablesOf
  <2>5. Keeps
    BY <1>4, <1>5, <1>6, <1>9, <2>2, <2>3, <2>4, WriteKeeps DEF Apart
  <2>6. EthAt(3)' /\ At(EthBlock, 3)'
    <3>1. At(EthBlock, 2 + 1)'
      BY <1>1, <1>9, <2>2
    <3> QED  BY <3>1 DEF EthAt
  <2>7. 3 \in Places(EthBlock)
    BY Statements DEF Places
  <2>8. Stage'
    BY <2>6, <2>7 DEF Stage
  <2> QED  BY <2>5, <2>8
<1>10. CASE n = 3
  <2>1. EnterMain
    BY <1>1, <1>10, Statements, WriteIs
  <2>2. Keeps
    BY <2>1, NothingKeeps DEF EnterMain
  <2>3. task'.todo = << >>
    BY <1>1, <1>2, <1>10, <2>1 DEF EnterMain
  <2> QED  BY <2>2, <2>3 DEF Stage
<1> QED  BY <1>8, <1>9, <1>10

\* A queued TRX block finds another row than the one of another chain.
LEMMA NotTheTrxRow ==
  ASSUME Waiting, NEW k, k \in Ids => wallets[k].coin # "TRX"
  PROVE  NoTrx \/ k # Newest("TRX")
BY MadeIs DEF Waiting

\* A row that is found blank or gone by nobody else keeps what it was made for.
LEMMA MadeStays ==
  ASSUME NEW k, OnlyOf(k), NEW coin, Newest(coin)' = Newest(coin), Newest(coin) # k, Made(coin)
  PROVE  Made(coin)'
<1>1. PICK i : i = Newest(coin)
  OBVIOUS
<1>2. Blank(i, coin)'
  BY <1>1, Elsewhere DEF Made
<1> QED  BY <1>1, <1>2 DEF Made

\* A row can be saved at any time, but for a TRX row while a TRX block is queued.
LEMMA RowKeeps ==
  ASSUME TypeOK, Tables, Waiting, NEW row, InsertRow(row),
         UNCHANGED <<coins, clients, queued, delayed>>,
         row.coin # "TRX" \/ (NoTrx /\ row.key = NoKey)
  PROVE  Keeps
<1>1. PICK k : k = nextId
  OBVIOUS
<1>2. /\ OnlyOf(k) /\ k \notin Ids
      /\ k \in Ids' /\ wallets'[k] = row /\ NoTrace(k)'
      /\ \A coin : coin # row.coin => Newest(coin)' = Newest(coin)
  BY <1>1, InsertFrame
<1>3. TablesOf(k)'
  BY <1>2 DEF TablesOf, CoinsOf, ReadyOf, OneOf, NoTrace, NoCoins, NoClients
<1>4. NoTrx \/ (k # Newest("TRX") /\ Newest("TRX")' = Newest("TRX"))
  BY <1>2, NotTheTrxRow
<1>5. \A b \in queued : b.obj # k
  BY <1>1, IdsAre
<1> QED  BY <1>2, <1>3, <1>4, <1>5, WriteKeeps

\* A blank row of which there is nothing else can be given its address.
LEMMA FillKeeps ==
  ASSUME TypeOK, Tables, Waiting, NEW k, NEW coin, NEW key, Blank(k, coin), coin # "TRX",
         coin # "ETH" \/ Apart(k), FillRow(k, key), UNCHANGED <<coins, clients, queued, delayed>>
  PROVE  Keeps /\ Filled(k, coin, key)'
<1>1. /\ OnlyOf(k) /\ Ids' = Ids /\ Newest("TRX")' = Newest("TRX")
      /\ k \in Ids /\ wallets'[k].coin = coin /\ wallets'[k].key = key /\ wallets[k].key = NoKey
  BY FillFrame DEF Blank, Unfilled
<1>2. NoTrace(k)'
  BY DEF Blank, NoTrace, NoCoins, NoClients
<1>3. Filled(k, coin, key)'
  BY <1>1, <1>2 DEF Filled
<1>4. TablesOf(k)'
  BY <1>1, <1>2 DEF TablesOf, CoinsOf, ReadyOf, OneOf, NoTrace, NoCoins, NoClients
<1>5. NoTrx \/ k # Newest("TRX")
  BY NotTheTrxRow DEF Blank, Unfilled
<1>6. \A b \in queued : b.kind = "eth" /\ b.obj \in Ids' => b.obj # k
  BY <1>1 DEF Waiting, Apart, Blank, Unfilled
<1> QED  BY <1>1, <1>3, <1>4, <1>5, <1>6, WriteKeeps

\* Its coin can follow.
LEMMA CoinKeeps ==
  ASSUME Tables, Waiting, NEW k, NEW coin, NEW key, Filled(k, coin, key), coin # "TRX",
         coin # "ETH" \/ Apart(k), CreatCoins(k, coin, key),
         UNCHANGED <<wallets, clients, queued, delayed>>
  PROVE  Keeps
<1>1. OnlyOf(k) /\ Ids' = Ids /\ Newest("TRX")' = Newest("TRX")
  BY CoinFrame, NewestStays
<1>2. \A p \in DOMAIN coins' : p[1] = k => p[2] = coin /\ coins'[p] = key
  BY FirstCoin DEF Filled, NoTrace
<1>3. k \in Ids /\ wallets'[k].coin = coin /\ wallets'[k].key = key /\ NoClients(k)'
  BY DEF Filled, NoTrace, NoClients
<1>4. TablesOf(k)'
  BY <1>1, <1>2, <1>3 DEF TablesOf, CoinsOf, ReadyOf, OneOf, NoClients
<1>5. NoTrx \/ k # Newest("TRX")
  BY NotTheTrxRow DEF Filled
<1>6. \A b \in queued : b.kind = "eth" /\ b.obj \in Ids' => b.obj # k
  BY <1>1 DEF Waiting, Apart, Filled, Blank, Unfilled
<1> QED  BY <1>1, <1>3, <1>4, <1>5, <1>6, WriteKeeps

\* The block that takes the HUD away after an import may be queued at any time.
LEMMA TimerKeeps ==
  ASSUME Tables, Waiting, QueueBlock, \A x : Doing(x) => x = "timer"
  PROVE  Keeps
<1>1. /\ UNCHANGED <<wallets, coins, clients, delayed>>
      /\ queued' = queued \cup {[kind |-> "imported", obj |-> 0, key |-> NoKey,
                                 coin |-> "BTC", how |-> "late"]}
  BY DEF QueueBlock
<1>2. Tables'
  BY <1>1 DEF Tables, CoinsBelongToTheirWallet, TronReadyHasClient, OneClientPerWallet, RowsOf
<1>3. \A b \in queued' : b \in queued \/ b.kind = "imported"
  BY <1>1
<1>4. NoTrx => NoTrx'
  BY <1>3 DEF NoTrx
<1>5. /\ \A i, coin : Blank(i, coin)' <=> Blank(i, coin)
      /\ Made("TRX")' <=> Made("TRX")
      /\ Ids' = Ids
  BY <1>1 DEF Made, Blank, Unfilled, Newest, RowsOf, NoTrace, NoCoins, NoClients, Ids
<1>6. Waiting'
  BY <1>1, <1>3, <1>4, <1>5 DEF Waiting
<1> QED  BY <1>1, <1>2, <1>6 DEF Keeps, AddressesStay, Ids

\* An import saves its row under the id the table hands out and goes on with it.
LEMMA ImportSaves ==
  ASSUME TypeOK, SaveImportRow, NEW coin, NextCoin = coin, NEW key,
         key = IF Doing("import") THEN task.key ELSE NoKey, NEW k \in Nat, k = nextId
  PROVE  /\ \E row : InsertRow(row) /\ row.coin = coin /\ row.key = key
         /\ Advance(k)
         /\ UNCHANGED <<coins, clients, queued, delayed>>
         /\ k \in Ids' /\ wallets'[k].coin = coin /\ wallets'[k].key = key /\ NoTrace(k)'
         /\ Apart(k)'
<1> DEFINE name == ImportName(coin)
           row  == [coin |-> coin, name |-> name, key |-> key, sys |-> FALSE, enc |-> TRUE]
<1>1. InsertRow(row) /\ UNCHANGED <<coins, clients, queued, delayed>> /\ Advance(FoundByName(name))
  BY DEF SaveImportRow
<1>2. row.coin = coin /\ row.key = key /\ row.name = name
  OBVIOUS
<1> HIDE DEF name, row
<1>3. k \in Ids' /\ wallets'[k] = row /\ NoTrace(k)' /\ OnlyOf(k)
  BY <1>1, InsertFrame
<1>4. FoundByName(name) = k
  <2>1. k \in NamedRows(name)
    BY <1>2, <1>3 DEF NamedRows, Ids
  <2>2. \A j \in NamedRows(name) : j \in Nat /\ j <= k
    BY <1>3, IdsAre DEF NamedRows, OnlyOf, Ids
  <2>3. NamedRows(name) \in SUBSET Nat
    BY <2>2
  <2> QED  BY <2>1, <2>2, <2>3, LastOfIs DEF FoundByName
<1>5. Apart(k)'
  BY <1>1, IdsAre DEF Apart
<1> QED  BY <1>1, <1>2, <1>3, <1>4, <1>5

\* An import that saves the row with its address, then the coin.
LEMMA WholeSteps ==
  ASSUME TypeOK, Tables, Waiting, Write, NEW coin \in Coins, NEW n \in 1..3,
         At(WholeImport(coin), n), WholeAt(coin, n)
  PROVE  Keeps /\ Stage'
<1>1. /\ task.todo # << >> /\ Head(task.todo) = WholeImport(coin)[n]
      /\ \A obj \in Nat : Advance(obj) =>
           /\ At(WholeImport(coin), n + 1)'
           /\ task'.obj = obj /\ task'.key = task.key
           /\ n = 3 => task'.todo = << >>
  BY AtStatement, ImportStatements
<1>2. coin # "TRX"
  BY DEF WholeAt
<1>3. PICK key : key = task.key
  OBVIOUS
<1>4. 2 \in Places(WholeImport(coin)) /\ 3 \in Places(WholeImport(coin))
  BY ImportStatements DEF Places
<1>5. CASE n = 1
  <2>1. SaveImportRow /\ NextCoin = coin /\ Doing("import")
    <3>1. Head(task.todo) = S("import", coin)
      BY <1>1, <1>5, ImportStatements
    <3> QED  BY <1>1, <3>1, WriteIs DEF Doing, S
  <2>2. PICK k \in Nat : k = nextId
    BY IdsAre
  <2>3. /\ \E row : InsertRow(row) /\ row.coin = coin /\ row.key = key
        /\ Advance(k)
        /\ UNCHANGED <<coins, clients, queued, delayed>>
        /\ k \in Ids' /\ wallets'[k].coin = coin /\ wallets'[k].key = key /\ NoTrace(k)'
        /\ Apart(k)'
    BY <1>3, <2>1, <2>2, ImportSaves
  <2>4. Keeps
    BY <1>2, <2>3, RowKeeps
  <2>5. WholeAt(coin, 2)' /\ At(WholeImport(coin), 2)'
    <3>1. At(WholeImport(coin), 1 + 1)' /\ task'.obj = k /\ task'.key = key
      BY <1>1, <1>3, <1>5, <2>3
    <3>2. Filled(k, coin, key)'
      BY <2>3 DEF Filled
    <3> QED  BY <1>2, <2>3, <3>1, <3>2 DEF WholeAt
  <2> QED  BY <1>4, <2>4, <2>5 DEF Stage
<1>6. CASE n = 2
  <2>1. SaveCoin /\ NextCoin = coin /\ (\A x : Doing(x) => x = "coin")
    BY <1>1, <1>6, ImportStatements, WriteIs
  <2>2. PICK k \in Nat : k = task.obj
    BY DEF TypeOK, MemoryOK, Task
  <2>3. /\ CreatCoins(k, coin, key) /\ Advance(k)
        /\ UNCHANGED <<wallets, clients, queued, delayed>>
    BY <1>3, <2>1, <2>2 DEF SaveCoin
  <2>4. Keeps
    BY <1>2, <1>3, <1>6, <2>2, <2>3, CoinKeeps DEF WholeAt
  <2>5. WholeAt(coin, 3)' /\ At(WholeImport(coin), 3)'
    <3>1. At(WholeImport(coin), 2 + 1)'
      BY <1>1, <1>6, <2>3
    <3> QED  BY <1>2, <3>1 DEF WholeAt
  <2> QED  BY <1>4, <2>4, <2>5 DEF Stage
<1>7. CASE n = 3
  <2>1. QueueBlock /\ (\A x : Doing(x) => x = "timer")
    BY <1>1, <1>7, ImportStatements, WriteIs
  <2>2. Keeps
    BY <2>1, TimerKeeps
  <2>3. task'.todo = << >>
    BY <1>1, <1>7, <2>1 DEF QueueBlock, TypeOK, MemoryOK, Task
  <2> QED  BY <2>2, <2>3 DEF Stage
<1> QED  BY <1>5, <1>6, <1>7

\* An import that saves the row first and its address after.
LEMMA LateSteps ==
  ASSUME TypeOK, Tables, Waiting, Write, NEW coin \in Coins, NEW n \in 1..4,
         At(LateImport(coin), n), LateAt(coin, n)
  PROVE  Keeps /\ Stage'
<1>1. /\ task.todo # << >> /\ Head(task.todo) = LateImport(coin)[n]
      /\ \A obj \in Nat : Advance(obj) =>
           /\ At(LateImport(coin), n + 1)'
           /\ task'.obj = obj /\ task'.key = task.key
           /\ n = 4 => task'.todo = << >>
  BY AtStatement, ImportStatements
<1>2. coin # "TRX"
  BY DEF LateAt
<1>3. PICK key : key = task.key
  OBVIOUS
<1>4. \A i \in 2..4 : i \in Places(LateImport(coin))
  BY ImportStatements DEF Places
<1>5. CASE n = 1
  <2>1. SaveImportRow /\ NextCoin = coin /\ ~Doing("import")
    <3>1. Head(task.todo) = S("importBare", coin)
      BY <1>1, <1>5, ImportStatements
    <3> QED  BY <1>1, <3>1, WriteIs DEF Doing, S
  <2>2. PICK k \in Nat : k = nextId
    BY IdsAre
  <2>3. /\ \E row : InsertRow(row) /\ row.coin = coin /\ row.key = NoKey
        /\ Advance(k)
        /\ UNCHANGED <<coins, clients, queued, delayed>>
        /\ k \in Ids' /\ wallets'[k].coin = coin /\ wallets'[k].key = NoKey /\ NoTrace(k)'
        /\ Apart(k)'
    BY <2>1, <2>2, ImportSaves
  <2>4. Keeps
    BY <1>2, <2>3, RowKeeps
  <2>5. LateAt(coin, 2)' /\ At(LateImport(coin), 2)'
    <3>1. At(LateImport(coin), 1 + 1)' /\ task'.obj = k
      BY <1>1, <1>5, <2>3
    <3>2. Blank(k, coin)'
      BY <2>3 DEF Blank, Unfilled
    <3> QED  BY <1>2, <2>3, <3>1, <3>2 DEF LateAt
  <2> QED  BY <1>4, <2>4, <2>5 DEF Stage
<1>6. CASE n = 2
  <2>1. UpdateRow
    BY <1>1, <1>6, ImportStatements, WriteIs
  <2>2. PICK k \in Nat : k = task.obj
    BY DEF TypeOK, MemoryOK, Task
  <2>3. FillRow(k, key) /\ Advance(k) /\ UNCHANGED <<coins, clients, queued, delayed>>
    BY <1>3, <2>1, <2>2 DEF UpdateRow
  <2>4. Blank(k, coin) /\ Apart(k)
    BY <1>6, <2>2 DEF LateAt
  <2>5. Keeps /\ Filled(k, coin, key)'
    BY <1>2, <2>3, <2>4, FillKeeps
  <2>6. LateAt(coin, 3)' /\ At(LateImport(coin), 3)'
    <3>1. At(LateImport(coin), 2 + 1)' /\ task'.obj = k /\ task'.key = key
      BY <1>1, <1>3, <1>6, <2>3
    <3>2. Apart(k)'
      BY <2>3, <2>4 DEF Apart
    <3> QED  BY <1>2, <2>5, <3>1, <3>2 DEF LateAt
  <2> QED  BY <1>4, <2>5, <2>6 DEF Stage
<1>7. CASE n = 3
  <2>1. SaveCoin /\ NextCoin = coin /\ (\A x : Doing(x) => x = "coin")
    BY <1>1, <1>7, ImportStatements, WriteIs
  <2>2. PICK k \in Nat : k = task.obj
    BY DEF TypeOK, MemoryOK, Task
  <2>3. /\ CreatCoins(k, coin, key) /\ Advance(k)
        /\ UNCHANGED <<wallets, clients, queued, delayed>>
    BY <1>3, <2>1, <2>2 DEF SaveCoin
  <2>4. Keeps
    BY <1>2, <1>3, <1>7, <2>2, <2>3, CoinKeeps DEF LateAt
  <2>5. LateAt(coin, 4)' /\ At(LateImport(coin), 4)'
    <3>1. At(LateImport(coin), 3 + 1)'
      BY <1>1, <1>7, <2>3
    <3> QED  BY <1>2, <3>1 DEF LateAt
  <2> QED  BY <1>4, <2>4, <2>5 DEF Stage
<1>8. CASE n = 4
  <2>1. QueueBlock /\ (\A x : Doing(x) => x = "timer")
    BY <1>1, <1>8, ImportStatements, WriteIs
  <2>2. Keeps
    BY <2>1, TimerKeeps
  <2>3. task'.todo = << >>
    BY <1>1, <1>8, <2>1 DEF QueueBlock, TypeOK, MemoryOK, Task
  <2> QED  BY <2>2, <2>3 DEF Stage
<1> QED  BY <1>5, <1>6, <1>7, <1>8

\* The first statement of a TRX wallet: its one client.
LEMMA TronClientKeeps ==
  ASSUME Tables, Waiting, NoTrx, NEW k, NEW key, Blank(k, "TRX"),
         clients' = clients \cup {[own |-> k, key |-> key]},
         UNCHANGED <<wallets, coins, queued, delayed>>
  PROVE  Keeps /\ (Unfilled(k, "TRX") /\ NoCoins(k) /\ Armed(k, key))' /\ NoTrx'
<1>1. OnlyOf(k) /\ Ids' = Ids
  BY ClientFrame, NewestStays
<1>2. /\ k \in Ids /\ wallets[k].coin = "TRX" /\ wallets[k].key = NoKey
      /\ NoCoins(k) /\ NoClients(k)
  BY DEF Blank, Unfilled, NoTrace
<1>3. Unfilled(k, "TRX")' /\ NoCoins(k)'
  BY <1>1, <1>2 DEF Unfilled, NoCoins
<1>4. \A c \in clients' : c.own = k => c = [own |-> k, key |-> key]
  BY <1>2 DEF NoClients
<1>5. [own |-> k, key |-> key] \in clients' /\ [own |-> k, key |-> key].key = key
  OBVIOUS
<1>6. Armed(k, key)'
  BY <1>4, <1>5 DEF Armed
<1>7. TablesOf(k)'
  <2>1. CoinsOf(k)' /\ ReadyOf(k)'
    BY <1>2, <1>3 DEF CoinsOf, ReadyOf, NoCoins
  <2>2. OneOf(k)'
    BY <1>4 DEF OneOf
  <2> QED  BY <2>1, <2>2 DEF TablesOf
<1>8. \A b \in queued : b.kind = "eth" /\ b.obj \in Ids' => b.obj # k
  BY <1>1, <1>2 DEF Waiting, Blank, Unfilled
<1>9. Keeps
  BY <1>1, <1>2, <1>7, <1>8, WriteKeeps
<1> QED  BY <1>3, <1>6, <1>9 DEF NoTrx

\* Its next statement: the coin, still without address.
LEMMA TronCoinKeeps ==
  ASSUME Tables, Waiting, NoTrx, NEW k, NEW key,
         Unfilled(k, "TRX"), NoCoins(k), Armed(k, key),
         CreatCoins(k, "TRX", NoKey), UNCHANGED <<wallets, clients, queued, delayed>>
  PROVE  /\ Keeps /\ NoTrx'
         /\ (/\ Unfilled(k, "TRX") /\ CoinsFit(k, "TRX", key) /\ Armed(k, key)
             /\ <<k, "TRX">> \in DOMAIN coins)'
<1>1. OnlyOf(k) /\ Ids' = Ids /\ <<k, "TRX">> \in DOMAIN coins'
  BY CoinFrame, NewestStays
<1>2. \A p \in DOMAIN coins' : p[1] = k => p[2] = "TRX" /\ coins'[p] = NoKey
  BY FirstCoin
<1>3. Unfilled(k, "TRX")' /\ Armed(k, key)' /\ CoinsFit(k, "TRX", key)'
  BY <1>1, <1>2 DEF Unfilled, Armed, CoinsFit
<1>4. TablesOf(k)'
  <2>1. CoinsOf(k)' /\ ReadyOf(k)'
    BY <1>2, <1>3 DEF CoinsOf, ReadyOf, Unfilled
  <2>2. OneOf(k)'
    BY TablesPointwise DEF OneOf, TablesOf
  <2> QED  BY <2>1, <2>2 DEF TablesOf
<1>5. \A b \in queued : b.kind = "eth" /\ b.obj \in Ids' => b.obj # k
  BY <1>1 DEF Waiting, Blank, Unfilled
<1>6. Keeps
  BY <1>1, <1>3, <1>4, <1>5, WriteKeeps
<1> QED  BY <1>1, <1>3, <1>6 DEF NoTrx

\* Its last statement: the address, which its client and its coin were there for.
LEMMA TronFillKeeps ==
  ASSUME TypeOK, Tables, Waiting, NoTrx, NEW k, NEW key,
         Unfilled(k, "TRX"), CoinsFit(k, "TRX", key), Armed(k, key),
         <<k, "TRX">> \in DOMAIN coins,
         FillRow(k, key), UNCHANGED <<coins, clients, queued, delayed>>
  PROVE  Keeps /\ NoTrx'
<1>1. /\ OnlyOf(k) /\ Ids' = Ids /\ k \in Ids /\ wallets[k].key = NoKey
      /\ wallets[k].coin = "TRX" /\ wallets'[k].coin = "TRX" /\ wallets'[k].key = key
  BY FillFrame DEF Unfilled
<1>2. TablesOf(k)'
  <2>1. CoinsOf(k)'
    BY <1>1 DEF CoinsOf, CoinsFit
  <2>2. ReadyOf(k)'
    BY <1>1 DEF ReadyOf, Armed
  <2>3. OneOf(k)'
    BY TablesPointwise DEF OneOf, TablesOf
  <2> QED  BY <2>1, <2>2, <2>3 DEF TablesOf
<1>3. \A b \in queued : b.kind = "eth" /\ b.obj \in Ids' => b.obj # k
  BY <1>1 DEF Waiting, Blank, Unfilled
<1>4. Keeps
  BY <1>1, <1>2, <1>3, WriteKeeps
<1> QED  BY <1>4 DEF NoTrx

\* A statement of a TRX wallet whose row is known, in the block it is part of.
LEMMA TronSteps ==
  ASSUME TypeOK, Tables, Waiting, Write, NoTrx, NEW n \in 1..3, TronAt(n), task.todo # << >>,
         Head(task.todo) = S((CASE n = 1 -> "client" [] n = 2 -> "bareCoin" [] n = 3 -> "fill"), "TRX")
  PROVE  /\ Keeps /\ NoTrx'
         /\ Advance(task.obj)
         /\ (\A obj \in Nat : Advance(obj) => task'.obj = obj /\ task'.key = task.key)
              => TronAt(n + 1)'
<1>1. PICK k, key : k \in Nat /\ k = task.obj /\ key = task.key
  BY DEF TypeOK, MemoryOK, Task
<1>2. CASE n = 1
  <2>1. SaveClient
    BY <1>2, WriteIs
  <2>2. /\ clients' = clients \cup {[own |-> k, key |-> key]} /\ Advance(k)
        /\ UNCHANGED <<wallets, coins, queued, delayed>>
    BY <1>1, <2>1 DEF SaveClient
  <2>3. Keeps /\ (Unfilled(k, "TRX") /\ NoCoins(k) /\ Armed(k, key))' /\ NoTrx'
    BY <1>1, <1>2, <2>2, TronClientKeeps DEF TronAt
  <2> QED  BY <1>1, <1>2, <2>2, <2>3 DEF TronAt
<1>3. CASE n = 2
  <2>1. SaveCoin /\ NextCoin = "TRX" /\ (\A x : Doing(x) => x = "bareCoin")
    BY <1>3, WriteIs
  <2>2. /\ CreatCoins(k, "TRX", NoKey) /\ Advance(k)
        /\ UNCHANGED <<wallets, clients, queued, delayed>>
    BY <1>1, <2>1 DEF SaveCoin
  <2>3. Unfilled(k, "TRX") /\ NoCoins(k) /\ Armed(k, key)
    BY <1>1, <1>3 DEF TronAt
  <2>4. /\ Keeps /\ NoTrx'
        /\ (/\ Unfilled(k, "TRX") /\ CoinsFit(k, "TRX", key) /\ Armed(k, key)
            /\ <<k, "TRX">> \in DOMAIN coins)'
    BY <2>2, <2>3, TronCoinKeeps
  <2> QED  BY <1>1, <1>3, <2>2, <2>4 DEF TronAt
<1>4. CASE n = 3
  <2>1. UpdateRow
    BY <1>4, WriteIs
  <2>2. FillRow(k, key) /\ Advance(k) /\ UNCHANGED <<coins, clients, queued, delayed>>
    BY <1>1, <2>1 DEF UpdateRow
  <2>3. /\ Unfilled(k, "TRX") /\ CoinsFit(k, "TRX", key) /\ Armed(k, key)
        /\ <<k, "TRX">> \in DOMAIN coins
    BY <1>1, <1>4 DEF TronAt
  <2>4. Keeps /\ NoTrx'
    BY <2>2, <2>3, TronFillKeeps
  <2> QED  BY <1>1, <1>4, <2>2, <2>4 DEF TronAt
<1> QED  BY <1>2, <1>3, <1>4

\* The block of createTRXWallet.
LEMMA TrxSteps ==
  ASSUME TypeOK, Tables, Waiting, Write, NEW n \in 1..4, At(TrxBlock, n), TrxAt(n)
  PROVE  Keeps /\ Stage'
<1>1. /\ task.todo # << >> /\ Head(task.todo) = TrxBlock[n]
      /\ \A obj \in Nat : Advance(obj) =>
           /\ At(TrxBlock, n + 1)'
           /\ task'.obj = obj /\ task'.key = task.key
           /\ n = 4 => task'.todo = << >>
  BY AtStatement, BlocksAreSteps, Statements
<1>2. NoTrx
  BY DEF TrxAt
<1>3. \A i \in 1..4 : i \in Places(TrxBlock)
  BY Statements DEF Places
<1>4. task.obj \in Nat
  BY DEF TypeOK, MemoryOK, Task
<1>5. CASE n = 1
  <2>1. FindIdentityRow /\ NextCoin = "TRX"
    BY <1>1, <1>5, Statements, WriteIs
  <2>2. PICK k : k = Newest("TRX")
    OBVIOUS
  <2>3. Blank(k, "TRX") /\ k \in Nat
    BY <1>5, <2>2, IdsAre DEF TrxAt, Made, Blank, Unfilled
  <2>4. Advance(k) /\ UNCHANGED <<wallets, coins, clients, queued, delayed>>
    BY <2>1, <2>2 DEF FindIdentityRow, Newest
  <2>5. Keeps
    BY <2>4, NothingKeeps
  <2>6. TrxAt(2)' /\ At(TrxBlock, 2)'
    <3>1. At(TrxBlock, 1 + 1)' /\ task'.obj = k
      BY <1>1, <1>5, <2>3, <2>4
    <3>2. Blank(k, "TRX")'
      BY <2>3, <2>4, NoFrame DEF Blank, Unfilled, NoTrace, NoCoins, NoClients, Ids
    <3>3. TronAt(2 - 1)'
      BY <3>1, <3>2 DEF TronAt
    <3> QED  BY <1>2, <2>4, <3>1, <3>3 DEF TrxAt, NoTrx
  <2> QED  BY <1>3, <2>5, <2>6 DEF Stage
<1>6. CASE n # 1
  <2>1. PICK m \in 1..3 : m = n - 1
    BY <1>6
  <2>2. Head(task.todo) = S((CASE m = 1 -> "client" [] m = 2 -> "bareCoin" [] m = 3 -> "fill"), "TRX")
    <3>1. CASE n = 2
      BY <1>1, <2>1, <3>1, Statements
    <3>2. CASE n = 3
      BY <1>1, <2>1, <3>2, Statements
    <3>3. CASE n = 4
      BY <1>1, <2>1, <3>3, Statements
    <3> QED  BY <1>6, <3>1, <3>2, <3>3
  <2>3. TronAt(m)
    BY <2>1 DEF TrxAt
  <2>4. /\ Keeps /\ NoTrx' /\ Advance(task.obj)
        /\ (\A obj \in Nat : Advance(obj) => task'.obj = obj /\ task'.key = task.key)
             => TronAt(m + 1)'
    BY <1>1, <1>2, <2>2, <2>3, TronSteps
  <2>5. CASE n = 4
    BY <1>1, <1>4, <2>4, <2>5 DEF Stage
  <2>6. CASE n # 4
    <3>1. TronAt(m + 1)' /\ At(TrxBlock, n + 1)'
      BY <1>1, <1>4, <2>4
    <3>2. PICK i \in 1..4 : i = n + 1 /\ i # 1 /\ i - 1 = m + 1
      BY <2>1, <2>6
    <3>3. TrxAt(i)' /\ At(TrxBlock, i)'
      BY <2>4, <3>1, <3>2 DEF TrxAt
    <3> QED  BY <1>3, <2>4, <3>3 DEF Stage
  <2> QED  BY <2>5, <2>6
<1> QED  BY <1>5, <1>6

\* The import of a TRX wallet: a row of its own, then the same statements.
LEMMA TronImportSteps ==
  ASSUME TypeOK, Tables, Waiting, Write, NEW n \in 1..5,
         At(TronImport("TRX"), n), TronImportAt(n)
  PROVE  Keeps /\ Stage'
<1>0. "TRX" \in Coins
  BY DEF Coins
<1>1. /\ task.todo # << >> /\ Head(task.todo) = TronImport("TRX")[n]
      /\ \A obj \in Nat : Advance(obj) =>
           /\ At(TronImport("TRX"), n + 1)'
           /\ task'.obj = obj /\ task'.key = task.key
           /\ n = 5 => task'.todo = << >>
  BY <1>0, AtStatement, ImportStatements
<1>2. NoTrx
  BY DEF TronImportAt
<1>3. \A i \in 1..5 : i \in Places(TronImport("TRX"))
  BY <1>0, ImportStatements DEF Places
<1>4. task.obj \in Nat
  BY DEF TypeOK, MemoryOK, Task
<1>5. CASE n = 1
  <2>1. SaveImportRow /\ NextCoin = "TRX" /\ ~Doing("import")
    <3>1. Head(task.todo) = S("importBare", "TRX")
      BY <1>0, <1>1, <1>5, ImportStatements
    <3> QED  BY <1>1, <3>1, WriteIs DEF Doing, S
  <2>2. PICK k \in Nat : k = nextId
    BY IdsAre
  <2>3. /\ \E row : InsertRow(row) /\ row.coin = "TRX" /\ row.key = NoKey
        /\ Advance(k)
        /\ UNCHANGED <<coins, clients, queued, delayed>>
        /\ k \in Ids' /\ wallets'[k].coin = "TRX" /\ wallets'[k].key = NoKey /\ NoTrace(k)'
    BY <2>1, <2>2, ImportSaves
  <2>4. Keeps
    BY <1>2, <2>3, RowKeeps
  <2>5. TronImportAt(2)' /\ At(TronImport("TRX"), 2)'
    <3>1. At(TronImport("TRX"), 1 + 1)' /\ task'.obj = k
      BY <1>1, <1>5, <2>3
    <3>2. Blank(k, "TRX")'
      BY <2>3 DEF Blank, Unfilled
    <3>3. TronAt(2 - 1)'
      BY <3>1, <3>2 DEF TronAt
    <3> QED  BY <1>2, <2>3, <3>1, <3>3 DEF TronImportAt, NoTrx
  <2> QED  BY <1>3, <2>4, <2>5 DEF Stage
<1>6. CASE n = 5
  <2>1. QueueBlock /\ (\A x : Doing(x) => x = "timer")
    BY <1>0, <1>1, <1>6, ImportStatements, WriteIs
  <2>2. Keeps
    BY <2>1, TimerKeeps
  <2>3. task'.todo = << >>
    BY <1>1, <1>4, <1>6, <2>1 DEF QueueBlock
  <2> QED  BY <2>2, <2>3 DEF Stage
<1>7. CASE n \notin {1, 5}
  <2>1. PICK m \in 1..3 : m = n - 1
    BY <1>7
  <2>2. Head(task.todo) = S((CASE m = 1 -> "client" [] m = 2 -> "bareCoin" [] m = 3 -> "fill"), "TRX")
    <3>1. CASE n = 2
      BY <1>0, <1>1, <2>1, <3>1, ImportStatements
    <3>2. CASE n = 3
      BY <1>0, <1>1, <2>1, <3>2, ImportStatements
    <3>3. CASE n = 4
      BY <1>0, <1>1, <2>1, <3>3, ImportStatements
    <3> QED  BY <1>7, <3>1, <3>2, <3>3
  <2>3. TronAt(m)
    BY <2>1 DEF TronImportAt
  <2>4. /\ Keeps /\ NoTrx' /\ Advance(task.obj)
        /\ (\A obj \in Nat : Advance(obj) => task'.obj = obj /\ task'.key = task.key)
             => TronAt(m + 1)'
    BY <1>1, <1>2, <2>2, <2>3, TronSteps
  <2>5. TronAt(m + 1)' /\ At(TronImport("TRX"), n + 1)'
    BY <1>1, <1>4, <2>4
  <2>6. PICK i \in 1..5 : i = n + 1 /\ i - 1 = m + 1
    BY <1>7, <2>1
  <2>7. TronImportAt(i)' /\ At(TronImport("TRX"), i)'
    BY <2>4, <2>5, <2>6 DEF TronImportAt
  <2> QED  BY <1>3, <2>4, <2>7 DEF Stage
<1> QED  BY <1>5, <1>6, <1>7

\* A reset: with the first table gone there is nothing left to keep.
LEMMA ResetSteps ==
  ASSUME TypeOK, Tables, Waiting, Write, NEW n \in 1..4, At(ResetBlock, n), ResetAt(n)
  PROVE  Keeps /\ Stage'
<1>1. /\ task.todo # << >> /\ Head(task.todo) = ResetBlock[n]
      /\ \A obj \in Nat : Advance(obj) =>
           /\ At(ResetBlock, n + 1)'
           /\ n = 4 => task'.todo = << >>
  BY AtStatement, BlocksAreSteps, Statements
<1>2. NoTrx
  BY DEF ResetAt
<1>3. \A i \in 1..4 : i \in Places(ResetBlock)
  BY Statements DEF Places
<1>4. task.obj \in Nat
  BY DEF TypeOK, MemoryOK, Task
<1>5. CASE n = 4
  <2>1. ResetRoot
    BY <1>1, <1>5, Statements, WriteIs
  <2>2. Keeps
    BY <2>1, NothingKeeps DEF ResetRoot
  <2>3. task'.todo = << >>
    BY <1>1, <1>4, <1>5, <2>1 DEF ResetRoot
  <2> QED  BY <2>2, <2>3 DEF Stage
<1>6. CASE n # 4
  <2>1. PICK op : op = Head(task.todo).op /\ op = (CASE n = 1 -> "clearWallets" [] n = 2 -> "clearClients"
                                                     [] n = 3 -> "clearCoins")
    <3>1. CASE n = 1
      BY <1>1, <3>1, Statements DEF S
    <3>2. CASE n = 2
      BY <1>1, <3>2, Statements DEF S
    <3>3. CASE n = 3
      BY <1>1, <3>3, Statements DEF S
    <3> QED  BY <1>6, <3>1, <3>2, <3>3
  <2>2. ClearTable
    <3>1. Head(task.todo) = S(op, "BTC")
      <4>1. CASE n = 1
        BY <1>1, <2>1, <4>1, Statements
      <4>2. CASE n = 2
        BY <1>1, <2>1, <4>2, Statements
      <4>3. CASE n = 3
        BY <1>1, <2>1, <4>3, Statements
      <4> QED  BY <1>6, <4>1, <4>2, <4>3
    <3>2. op \in {"clearWallets", "clearClients", "clearCoins"}
      BY <1>6, <2>1
    <3> QED  BY <3>1, <3>2, WriteIs
  <2>3. /\ Advance(task.obj) /\ UNCHANGED <<queued, delayed>>
        /\ n = 1 => wallets' = [i \in {} |-> {}]
        /\ n = 2 => clients' = {} /\ UNCHANGED <<wallets, coins>>
        /\ n = 3 => coins' = [p \in {} |-> {}] /\ UNCHANGED <<wallets, clients>>
        /\ n = 1 => UNCHANGED clients
    BY <1>6, <2>1, <2>2 DEF ClearTable, Doing
  <2>4. /\ Ids' = {}
        /\ n >= 2 => clients' = {}
        /\ n = 3 => coins' = [p \in {} |-> {}]
    BY <1>6, <2>3 DEF ResetAt, Ids
  <2>5. clients' \in {clients, {}}
    BY <1>6, <2>3
  <2>6. Tables'
    <3>1. CoinsBelongToTheirWallet' /\ TronReadyHasClient'
      BY <2>4 DEF CoinsBelongToTheirWallet, TronReadyHasClient, RowsOf, Ids
    <3>2. OneClientPerWallet'
      BY <2>5 DEF Tables, OneClientPerWallet
    <3> QED  BY <3>1, <3>2 DEF Tables
  <2>7. Waiting' /\ NoTrx'
    BY <1>2, <2>3, <2>4 DEF Waiting, NoTrx
  <2>8. Keeps
    BY <2>4, <2>6, <2>7 DEF Keeps, AddressesStay
  <2>9. ResetAt(n + 1)' /\ At(ResetBlock, n + 1)'
    BY <1>1, <1>4, <1>6, <2>3, <2>4, <2>7 DEF ResetAt
  <2>10. PICK i \in 1..4 : i = n + 1
    BY <1>6
  <2> QED  BY <1>3, <2>8, <2>9, <2>10 DEF Stage
<1> QED  BY <1>5, <1>6

\* An identity saves its next row: those saved before stay found and blank.
LEMMA IdentitySaveKeeps ==
  ASSUME TypeOK, Tables, Waiting, NoTrx, SaveIdentityRow, NEW coin, NextCoin = coin
  PROVE  /\ Keeps /\ NoTrx'
         /\ Made(coin)'
         /\ \A other : other # coin /\ Made(other) => Made(other)'
         /\ coin = "ETH" => Apart(Newest("ETH"))'
         /\ coin # "ETH" /\ Apart(Newest("ETH")) => Apart(Newest("ETH"))'
<1>1. PICK row : /\ InsertRow(row) /\ row.coin = coin /\ row.key = NoKey
                 /\ UNCHANGED <<coins, clients, queued, delayed>>
  BY DEF SaveIdentityRow
<1>2. PICK k : k = nextId
  OBVIOUS
<1>3. /\ OnlyOf(k) /\ k \notin Ids
      /\ k \in Ids' /\ wallets'[k] = row /\ NoTrace(k)'
      /\ Newest(coin)' = k
      /\ \A other : other # coin => Newest(other)' = Newest(other)
  BY <1>1, <1>2, InsertFrame
<1>4. Keeps
  BY <1>1, RowKeeps
<1>5. Made(coin)'
  <2>1. Blank(k, coin)'
    BY <1>1, <1>3 DEF Blank, Unfilled
  <2> QED  BY <1>3, <2>1 DEF Made
<1>6. ASSUME NEW other, other # coin, Made(other) PROVE Made(other)'
  <2>1. Newest(other) # k
    BY <1>3, <1>6, MadeIs
  <2> QED  BY <1>3, <1>6, <2>1, MadeStays
<1>7. coin = "ETH" => Apart(Newest("ETH"))'
  <2>1. Apart(k)'
    BY <1>1, <1>2, IdsAre DEF Apart
  <2> QED  BY <1>3, <2>1
<1>8. coin # "ETH" /\ Apart(Newest("ETH")) => Apart(Newest("ETH"))'
  BY <1>1, <1>3 DEF Apart
<1> QED  BY <1>1, <1>4, <1>5, <1>6, <1>7, <1>8 DEF NoTrx

\* A write to a row of another chain leaves the rows of the identity as they are.
LEMMA IdentityRowStays ==
  ASSUME NEW k, OnlyOf(k), \A coin : Newest(coin)' = Newest(coin), UNCHANGED queued,
         k \in Ids, NEW coin, coin # wallets[k].coin, Made(coin)
  PROVE  Made(coin)' /\ (Apart(Newest(coin)) => Apart(Newest(coin))')
<1>1. Newest(coin) # k
  BY MadeIs
<1>2. Made(coin)'
  BY <1>1, MadeStays
<1> QED  BY <1>2 DEF Apart

\* A step that leaves tables and queue alone leaves them, too.
LEMMA MadeUnchanged ==
  ASSUME UNCHANGED <<wallets, coins, clients>>
  PROVE  /\ \A coin : Made(coin) => Made(coin)'
         /\ \A i, coin : Blank(i, coin) => Blank(i, coin)'
         /\ \A coin : Newest(coin)' = Newest(coin)
BY DEF Made, Blank, Unfilled, Newest, RowsOf, NoTrace, NoCoins, NoClients, Ids

\* createAllWallet: the rows, the BTC wallet, the two blocks for the others.
LEMMA IdentitySteps ==
  ASSUME TypeOK, Tables, Waiting, Write, NEW sys \in BOOLEAN,
         NEW n \in 1..Len(IdentityBlock(sys)),
         At(IdentityBlock(sys), n), IdentityAt(sys, n)
  PROVE  Keeps /\ Stage'
<1>0. IdentityBlock(sys) \in Seq(Step)
  BY BlocksAreSteps
<1>1. PICK m : m = Len(IdentitySaves(sys))
  OBVIOUS
<1> DEFINE block == IdentityBlock(sys)
<1>2. /\ m \in {3, 4} /\ Len(block) = m + 6
      /\ block[1] = S("save", "BTC") /\ block[2] = S("save", "ETH")
      /\ block[3] = S("save", "TRX") /\ (m = 4 => block[4] = S("save", "ATOM"))
      /\ block[m + 1] = S("find", "BTC") /\ block[m + 2] = S("fill", "BTC")
      /\ block[m + 3] = S("coin", "BTC") /\ block[m + 4] = S("find", "ETH")
      /\ block[m + 5] = S("askEth", "ETH") /\ block[m + 6] = S("askTrx", "TRX")
  BY <1>1, IdentityStatements
<1>3. /\ task.todo # << >> /\ Head(task.todo) = block[n]
      /\ \A obj \in Nat : Advance(obj) =>
           /\ At(block, n + 1)'
           /\ task'.obj = obj /\ task'.key = task.key
           /\ n = m + 6 => task'.todo = << >>
  BY <1>0, <1>2, AtStatement
<1>4. /\ NoTrx /\ delayed = << >>
      /\ n \in 2..(m + 1) => Made("BTC")
      /\ n \in 3..(m + 4) => Made("ETH") /\ Apart(Newest("ETH"))
      /\ n >= 4 => Made("TRX")
      /\ n = m + 2 => Blank(task.obj, "BTC")
      /\ n = m + 3 => Filled(task.obj, "BTC", task.key)
      /\ n = m + 5 => Blank(task.obj, "ETH") /\ Apart(task.obj)
  BY <1>1 DEF IdentityAt
<1>5. n \in 1..(m + 6) /\ \A i \in 1..(m + 6) : i \in Places(block)
  BY <1>2 DEF Places
<1>6. PICK k \in Nat : k = task.obj
  BY DEF TypeOK, MemoryOK, Task
<1>key. PICK key : key = task.key
  OBVIOUS
<1> DEFINE Further == /\ NoTrx' /\ delayed' = << >>
                      /\ n + 1 \in 2..(m + 1) => Made("BTC")'
                      /\ n + 1 \in 3..(m + 4) => Made("ETH")' /\ Apart(Newest("ETH"))'
                      /\ n + 1 >= 4 => Made("TRX")'
                      /\ n + 1 = m + 2 => Blank(task.obj, "BTC")'
                      /\ n + 1 = m + 3 => Filled(task.obj, "BTC", task.key)'
                      /\ n + 1 = m + 5 => Blank(task.obj, "ETH")' /\ Apart(task.obj)'
<1>7. ASSUME n < m + 6, Further, NEW obj \in Nat, Advance(obj) PROVE Stage'
  <2>1. PICK i \in 1..(m + 6) : i = n + 1
    BY <1>2, <1>5, <1>7
  <2>2. IdentityAt(sys, i)'
    BY <1>1, <1>7, <2>1 DEF IdentityAt
  <2>3. At(block, i)'
    BY <1>3, <1>7, <2>1
  <2> QED  BY <1>5, <2>2, <2>3 DEF Stage
<1> HIDE DEF block
<1>8. CASE n <= m
  <2>1. PICK coin : Head(task.todo) = S("save", coin)
                    /\ coin = (CASE n = 1 -> "BTC" [] n = 2 -> "ETH" [] n = 3 -> "TRX" [] n = 4 -> "ATOM")
    <3>1. n \in 1..4 /\ (n = 4 => m = 4)
      BY <1>2, <1>5, <1>8
    <3>2. CASE n = 1
      BY <1>2, <1>3, <3>2
    <3>3. CASE n = 2
      BY <1>2, <1>3, <3>3
    <3>4. CASE n = 3
      BY <1>2, <1>3, <3>4
    <3>5. CASE n = 4
      BY <1>2, <1>3, <3>1, <3>5
    <3> QED  BY <3>1, <3>2, <3>3, <3>4, <3>5
  <2>2. SaveIdentityRow /\ NextCoin = coin
    BY <2>1, WriteIs
  <2>3. /\ Keeps /\ NoTrx'
        /\ Made(coin)'
        /\ \A other : other # coin /\ Made(other) => Made(other)'
        /\ coin = "ETH" => Apart(Newest("ETH"))'
        /\ coin # "ETH" /\ Apart(Newest("ETH")) => Apart(Newest("ETH"))'
    BY <1>4, <2>2, IdentitySaveKeeps
  <2>4. n + 1 <= m + 1 /\ n \in 1..4 /\ (n = 4 => m = 4)
    BY <1>2, <1>5, <1>8
  <2>5. delayed' = << >> /\ Advance(k)
    BY <1>4, <1>6, <1>key, <2>2 DEF SaveIdentityRow
  <2>6. Made("BTC")' /\ (n >= 2 => Made("ETH")' /\ Apart(Newest("ETH"))') /\ (n >= 3 => Made("TRX")')
    <3>1. CASE n = 1
      BY <2>1, <2>3, <3>1
    <3>2. CASE n = 2
      BY <1>2, <1>4, <2>1, <2>3, <3>2
    <3>3. CASE n = 3
      BY <1>2, <1>4, <2>1, <2>3, <3>3
    <3>4. CASE n = 4
      BY <1>2, <1>4, <2>1, <2>3, <2>4, <3>4
    <3> QED  BY <2>4, <3>1, <3>2, <3>3, <3>4
  <2>7. Further
    BY <1>2, <2>3, <2>4, <2>5, <2>6
  <2> QED  BY <1>2, <1>7, <1>8, <2>3, <2>5, <2>7
<1>9. CASE n = m + 1
  <2>1. FindIdentityRow /\ NextCoin = "BTC"
    BY <1>2, <1>3, <1>9, WriteIs
  <2>2. PICK i : i = Newest("BTC")
    OBVIOUS
  <2>3. /\ UNCHANGED <<wallets, coins, clients, queued, delayed>> /\ Advance(i)
    BY <2>1, <2>2 DEF FindIdentityRow, Newest
  <2>4. Blank(i, "BTC") /\ i \in Nat /\ Made("ETH") /\ Apart(Newest("ETH")) /\ Made("TRX")
    BY <1>2, <1>4, <1>9, <2>2, IdsAre DEF Made, Blank, Unfilled
  <2>5. Keeps
    BY <2>3, NothingKeeps
  <2>6. task'.obj = i /\ Blank(i, "BTC")' /\ Made("ETH")' /\ Made("TRX")'
        /\ Newest("ETH")' = Newest("ETH")
    BY <1>3, <2>3, <2>4, MadeUnchanged
  <2>7. Further
    BY <1>2, <1>4, <1>9, <2>3, <2>4, <2>6 DEF NoTrx, Apart
  <2> QED  BY <1>2, <1>7, <1>9, <2>3, <2>4, <2>5, <2>7
<1>10. CASE n = m + 2
  <2>1. UpdateRow
    BY <1>2, <1>3, <1>10, WriteIs
  <2>2. FillRow(k, key) /\ Advance(k) /\ UNCHANGED <<coins, clients, queued, delayed>>
    BY <1>6, <1>key, <2>1 DEF UpdateRow
  <2>3. Blank(k, "BTC") /\ Made("ETH") /\ Apart(Newest("ETH")) /\ Made("TRX")
    BY <1>2, <1>4, <1>6, <1>key, <1>10
  <2>4. Keeps /\ Filled(k, "BTC", key)'
    BY <2>2, <2>3, FillKeeps
  <2>5. OnlyOf(k) /\ \A coin : Newest(coin)' = Newest(coin)
    BY <2>2, FillFrame
  <2>6. Made("ETH")' /\ Apart(Newest("ETH"))' /\ Made("TRX")'
    BY <2>2, <2>3, <2>5, IdentityRowStays DEF Blank, Unfilled
  <2>7. task'.obj = k /\ task'.key = key
    BY <1>3, <1>6, <1>key, <2>2
  <2>8. Further
    BY <1>2, <1>4, <1>10, <2>2, <2>4, <2>6, <2>7 DEF NoTrx
  <2> QED  BY <1>2, <1>7, <1>10, <2>2, <2>4, <2>8
<1>11. CASE n = m + 3
  <2>1. SaveCoin /\ NextCoin = "BTC" /\ (\A x : Doing(x) => x = "coin")
    BY <1>2, <1>3, <1>11, WriteIs
  <2>2. /\ CreatCoins(k, "BTC", key) /\ Advance(k)
        /\ UNCHANGED <<wallets, clients, queued, delayed>>
    BY <1>6, <1>key, <2>1 DEF SaveCoin
  <2>3. Filled(k, "BTC", key) /\ Made("ETH") /\ Apart(Newest("ETH")) /\ Made("TRX")
    BY <1>2, <1>4, <1>6, <1>key, <1>11
  <2>4. Keeps
    BY <2>2, <2>3, CoinKeeps
  <2>5. OnlyOf(k) /\ \A coin : Newest(coin)' = Newest(coin)
    BY <2>2, CoinFrame, NewestStays
  <2>6. Made("ETH")' /\ Apart(Newest("ETH"))' /\ Made("TRX")'
    BY <2>2, <2>3, <2>5, IdentityRowStays DEF Filled
  <2>7. Further
    BY <1>2, <1>4, <1>11, <2>2, <2>6 DEF NoTrx
  <2> QED  BY <1>2, <1>7, <1>11, <2>2, <2>4, <2>7
<1>12. CASE n = m + 4
  <2>1. FindIdentityRow /\ NextCoin = "ETH"
    BY <1>2, <1>3, <1>12, WriteIs
  <2>2. PICK i : i = Newest("ETH")
    OBVIOUS
  <2>3. /\ UNCHANGED <<wallets, coins, clients, queued, delayed>> /\ Advance(i)
    BY <2>1, <2>2 DEF FindIdentityRow, Newest
  <2>4. Blank(i, "ETH") /\ i \in Nat /\ Apart(i) /\ Made("TRX")
    BY <1>2, <1>4, <1>12, <2>2, IdsAre DEF Made, Blank, Unfilled
  <2>5. Keeps
    BY <2>3, NothingKeeps
  <2>6. task'.obj = i /\ Blank(i, "ETH")' /\ Made("TRX")'
    BY <1>3, <2>3, <2>4, MadeUnchanged
  <2>7. Further
    BY <1>2, <1>4, <1>12, <2>3, <2>4, <2>6 DEF NoTrx, Apart
  <2> QED  BY <1>2, <1>7, <1>12, <2>3, <2>4, <2>5, <2>7
<1>13. CASE n = m + 5
  <2>1. QueueBlock /\ (\A x : Doing(x) => x = "askEth")
    BY <1>2, <1>3, <1>13, WriteIs
  <2>2. PICK b : /\ b.kind = "eth" /\ b.obj = k
                 /\ queued' = queued \cup {b}
                 /\ UNCHANGED <<wallets, coins, clients, delayed>> /\ Advance(k)
    BY <1>6, <1>key, <2>1 DEF QueueBlock
  <2>3. Blank(k, "ETH") /\ Apart(k) /\ Made("TRX")
    BY <1>2, <1>4, <1>6, <1>key, <1>13
  <2>4. Blank(k, "ETH")' /\ Made("TRX")' /\ \A i : Blank(i, "ETH") => Blank(i, "ETH")'
    BY <2>2, <2>3, MadeUnchanged
  <2>5. NoTrx'
    BY <1>4, <2>2 DEF NoTrx
  <2>6. Waiting'
    <3>1. \A c \in queued' : c.kind = "eth" /\ c.obj \in Ids' => Blank(c.obj, "ETH")'
      BY <2>2, <2>4 DEF Waiting, Ids
    <3>2. \A c, d \in queued' : c.kind = "eth" /\ d.kind = "eth" /\ c.obj = d.obj => c = d
      BY <2>2, <2>3 DEF Waiting, Apart
    <3> QED  BY <2>2, <2>5, <3>1, <3>2 DEF Waiting, NoTrx
  <2>7. Keeps
    <3>1. Tables'
      BY <2>2 DEF Tables, CoinsBelongToTheirWallet, TronReadyHasClient, OneClientPerWallet, RowsOf
    <3> QED  BY <2>2, <2>6, <3>1 DEF Keeps, AddressesStay, Ids
  <2>8. Further
    BY <1>2, <1>4, <1>13, <2>2, <2>4, <2>5
  <2> QED  BY <1>2, <1>7, <1>13, <2>2, <2>7, <2>8
<1>14. CASE n = m + 6
  <2>1. QueueBlock /\ (\A x : Doing(x) => x = "askTrx")
    BY <1>2, <1>3, <1>14, WriteIs
  <2>2. PICK b : /\ b.kind = "trx"
                 /\ queued' = queued \cup {b}
                 /\ UNCHANGED <<wallets, coins, clients, delayed>> /\ Advance(k)
    BY <1>6, <1>key, <2>1 DEF QueueBlock
  <2>3. Made("TRX")' /\ \A i : Blank(i, "ETH") => Blank(i, "ETH")'
    BY <1>2, <1>4, <1>14, <2>2, MadeUnchanged
  <2>4. Waiting'
    <3>1. \A c \in queued' : c.kind = "eth" /\ c.obj \in Ids' => Blank(c.obj, "ETH")'
      BY <2>2, <2>3 DEF Waiting, Ids
    <3>2. \A c, d \in queued' : c.kind = "trx" /\ d.kind = "trx" => c = d
      BY <1>4, <2>2 DEF NoTrx
    <3> QED  BY <1>4, <2>2, <2>3, <3>1, <3>2 DEF Waiting
  <2>5. Keeps
    <3>1. Tables'
      BY <2>2 DEF Tables, CoinsBelongToTheirWallet, TronReadyHasClient, OneClientPerWallet, RowsOf
    <3> QED  BY <2>2, <2>4, <3>1 DEF Keeps, AddressesStay, Ids
  <2>6. task'.todo = << >>
    BY <1>3, <1>14, <2>2
  <2> QED  BY <2>5, <2>6 DEF Stage
<1> QED  BY <1>2, <1>5, <1>8, <1>9, <1>10, <1>11, <1>12, <1>13, <1>14

-----------------------------------------------------------------------------
(* The other steps                                                          *)

\* A step that writes no table changes nothing of the wallets.
LEMMA TablesUnchanged ==
  ASSUME Tables, UNCHANGED <<wallets, coins, clients>>
  PROVE  Tables' /\ AddressesStay
BY DEF Tables, CoinsBelongToTheirWallet, TronReadyHasClient, OneClientPerWallet, RowsOf,
       AddressesStay, Ids

\* Blocks may leave the queue, and timers start or fire while no TRX block is queued.
LEMMA WaitingShrinks ==
  ASSUME Waiting, UNCHANGED <<wallets, coins, clients>>, queued' \subseteq queued,
         ~NoTrx' => UNCHANGED delayed
  PROVE  Waiting'
<1>1. /\ \A i : Blank(i, "ETH") => Blank(i, "ETH")'
      /\ Made("TRX") => Made("TRX")'
      /\ Ids' = Ids
  BY MadeUnchanged DEF Ids
<1>2. NoTrx => NoTrx'
  BY DEF NoTrx
<1> QED  BY <1>1, <1>2 DEF Waiting

\* The place of the running block stays what it is when nothing moves.
LEMMA StageUnchanged ==
  ASSUME Stage, UNCHANGED <<wallets, coins, clients, task, queued, delayed>>
  PROVE  Stage'
<1>1. /\ Ids' = Ids /\ wallets' = wallets /\ task' = task /\ delayed' = delayed
      /\ NoTrx' <=> NoTrx
      /\ \A i : Apart(i)' <=> Apart(i)
      /\ \A i : NoCoins(i)' <=> NoCoins(i)
      /\ \A i : NoClients(i)' <=> NoClients(i)
      /\ \A coin : Newest(coin)' = Newest(coin)
  BY DEF Ids, NoTrx, Apart, NoCoins, NoClients, Newest, RowsOf
<1>2. /\ \A i, coin : Unfilled(i, coin)' <=> Unfilled(i, coin)
      /\ \A i, coin : Blank(i, coin)' <=> Blank(i, coin)
      /\ \A i, coin, key : Filled(i, coin, key)' <=> Filled(i, coin, key)
      /\ \A i, coin, key : CoinsFit(i, coin, key)' <=> CoinsFit(i, coin, key)
      /\ \A i, key : Armed(i, key)' <=> Armed(i, key)
  BY <1>1 DEF Unfilled, Blank, Filled, NoTrace, CoinsFit, Armed
<1>3. \A coin : Made(coin)' <=> Made(coin)
  BY <1>1, <1>2 DEF Made
<1>4. \A sys, n : IdentityAt(sys, n) => IdentityAt(sys, n)'
  <2> SUFFICES ASSUME NEW sys, NEW n, IdentityAt(sys, n) PROVE IdentityAt(sys, n)'
    OBVIOUS
  <2>1. Apart(Newest("ETH"))' <=> Apart(Newest("ETH"))
    BY <1>1
  <2>2. /\ Blank(task.obj, "BTC")' <=> Blank(task.obj, "BTC")
        /\ Blank(task.obj, "ETH")' <=> Blank(task.obj, "ETH")
        /\ Filled(task.obj, "BTC", task.key)' <=> Filled(task.obj, "BTC", task.key)
        /\ Apart(task.obj)' <=> Apart(task.obj)
    BY <1>1, <1>2
  <2> QED  BY <1>1, <1>3, <2>1, <2>2 DEF IdentityAt
<1>5. \A n : TronAt(n) => TronAt(n)'
  BY <1>1, <1>2 DEF TronAt
<1>6. /\ \A n : EthAt(n) => EthAt(n)'
      /\ \A n : TrxAt(n) => TrxAt(n)'
      /\ \A n : TronImportAt(n) => TronImportAt(n)'
      /\ \A n : ResetAt(n) => ResetAt(n)'
  BY <1>1, <1>2, <1>3, <1>5 DEF EthAt, TrxAt, TronImportAt, ResetAt
<1>7. /\ \A coin, n : WholeAt(coin, n) => WholeAt(coin, n)'
      /\ \A coin, n : LateAt(coin, n) => LateAt(coin, n)'
  BY <1>1, <1>2 DEF WholeAt, LateAt
<1>8. \A block, n : At(block, n) => At(block, n)'
  BY DEF At
<1> QED  BY <1>1, <1>4, <1>6, <1>7, <1>8 DEF Stage

\* A block that is not at its end is at one of its statements.
LEMMA Running ==
  ASSUME Stage, task.todo # << >>
  PROVE  \/ \E sys \in BOOLEAN : \E n \in 1..Len(IdentityBlock(sys)) :
               At(IdentityBlock(sys), n) /\ IdentityAt(sys, n)
         \/ \E n \in 1..3 : At(EthBlock, n) /\ EthAt(n)
         \/ \E n \in 1..4 : At(TrxBlock, n) /\ TrxAt(n)
         \/ \E coin \in Coins : \E n \in 1..3 : At(WholeImport(coin), n) /\ WholeAt(coin, n)
         \/ \E coin \in Coins : \E n \in 1..4 : At(LateImport(coin), n) /\ LateAt(coin, n)
         \/ \E n \in 1..5 : At(TronImport("TRX"), n) /\ TronImportAt(n)
         \/ \E n \in 1..4 : At(ResetBlock, n) /\ ResetAt(n)
<1>1. ASSUME NEW block \in Seq(Step), NEW n \in Places(block), At(block, n)
      PROVE  n \in 1..Len(block)
  <2>1. n # Len(block) + 1 /\ Len(block) \in Nat
    BY <1>1, AtEnd, LenProperties
  <2> QED  BY <1>1, <2>1 DEF Places
<1>2. /\ EthBlock \in Seq(Step) /\ Len(EthBlock) = 3
      /\ TrxBlock \in Seq(Step) /\ Len(TrxBlock) = 4
      /\ ResetBlock \in Seq(Step) /\ Len(ResetBlock) = 4
      /\ \A sys \in BOOLEAN : IdentityBlock(sys) \in Seq(Step)
  BY BlocksAreSteps, Statements
<1>3. /\ \A coin \in Coins : WholeImport(coin) \in Seq(Step) /\ Len(WholeImport(coin)) = 3
      /\ \A coin \in Coins : LateImport(coin) \in Seq(Step) /\ Len(LateImport(coin)) = 4
      /\ TronImport("TRX") \in Seq(Step) /\ Len(TronImport("TRX")) = 5
  BY ImportStatements DEF Coins
<1>4. CASE \E sys \in BOOLEAN : \E n \in Places(IdentityBlock(sys)) :
             At(IdentityBlock(sys), n) /\ IdentityAt(sys, n)
  BY <1>1, <1>2, <1>4
<1>5. CASE \E n \in Places(EthBlock) : At(EthBlock, n) /\ EthAt(n)
  BY <1>1, <1>2, <1>5
<1>6. CASE \E n \in Places(TrxBlock) : At(TrxBlock, n) /\ TrxAt(n)
  BY <1>1, <1>2, <1>6
<1>7. CASE \E coin \in Coins : \E n \in Places(WholeImport(coin)) :
             At(WholeImport(coin), n) /\ WholeAt(coin, n)
  BY <1>1, <1>3, <1>7
<1>8. CASE \E coin \in Coins : \E n \in Places(LateImport(coin)) :
             At(LateImport(coin), n) /\ LateAt(coin, n)
  BY <1>1, <1>3, <1>8
<1>9. CASE \E n \in Places(TronImport("TRX")) : At(TronImport("TRX"), n) /\ TronImportAt(n)
  BY <1>1, <1>3, <1>9
<1>10. CASE \E n \in Places(ResetBlock) : At(ResetBlock, n) /\ ResetAt(n)
  BY <1>1, <1>2, <1>10
<1> QED  BY <1>4, <1>5, <1>6, <1>7, <1>8, <1>9, <1>10 DEF Stage

\* A statement of the running block, whichever block it is.
LEMMA WriteStep ==
  ASSUME TypeOK, TablesInv, Write
  PROVE  Keeps /\ Stage'
<1>1. task.todo # << >>
  BY DEF Write, SaveIdentityRow, FindIdentityRow, SaveImportRow, UpdateRow, SaveCoin, SaveClient,
         QueueBlock, EnterMain, ClearTable, ResetRoot, Doing
<1>2. Tables /\ Waiting /\ Stage
  BY DEF TablesInv
<1>3. CASE \E sys \in BOOLEAN : \E n \in 1..Len(IdentityBlock(sys)) :
             At(IdentityBlock(sys), n) /\ IdentityAt(sys, n)
  BY <1>2, <1>3, IdentitySteps
<1>4. CASE \E n \in 1..3 : At(EthBlock, n) /\ EthAt(n)
  BY <1>2, <1>4, EthSteps
<1>5. CASE \E n \in 1..4 : At(TrxBlock, n) /\ TrxAt(n)
  BY <1>2, <1>5, TrxSteps
<1>6. CASE \E coin \in Coins : \E n \in 1..3 : At(WholeImport(coin), n) /\ WholeAt(coin, n)
  BY <1>2, <1>6, WholeSteps
<1>7. CASE \E coin \in Coins : \E n \in 1..4 : At(LateImport(coin), n) /\ LateAt(coin, n)
  BY <1>2, <1>7, LateSteps
<1>8. CASE \E n \in 1..5 : At(TronImport("TRX"), n) /\ TronImportAt(n)
  BY <1>2, <1>8, TronImportSteps
<1>9. CASE \E n \in 1..4 : At(ResetBlock, n) /\ ResetAt(n)
  BY <1>2, <1>9, ResetSteps
<1> QED  BY <1>1, <1>2, <1>3, <1>4, <1>5, <1>6, <1>7, <1>8, <1>9, Running

\* Only a reset ends with the choice of the root screen, and by then it has emptied
\* the three tables.
LEMMA RootIsLast ==
  ASSUME TypeOK, Stage, Doing("root")
  PROVE  ResetAt(4)
<1>1. task.todo # << >> /\ Head(task.todo).op = "root"
  BY DEF Doing
<1>2. CASE \E sys \in BOOLEAN : \E n \in 1..Len(IdentityBlock(sys)) :
             At(IdentityBlock(sys), n) /\ IdentityAt(sys, n)
  <2>1. PICK sys \in BOOLEAN : \E n \in 1..Len(IdentityBlock(sys)) : At(IdentityBlock(sys), n)
    BY <1>2
  <2>2. PICK n \in 1..Len(IdentityBlock(sys)) : Head(task.todo) = IdentityBlock(sys)[n]
    BY <2>1, AtStatement, BlocksAreSteps
  <2>3. PICK m : m = Len(IdentitySaves(sys))
    OBVIOUS
  <2>4. /\ m \in {3, 4} /\ Len(IdentityBlock(sys)) = m + 6
        /\ IdentityBlock(sys)[1] = S("save", "BTC") /\ IdentityBlock(sys)[2] = S("save", "ETH")
        /\ IdentityBlock(sys)[3] = S("save", "TRX")
        /\ m = 4 => IdentityBlock(sys)[4] = S("save", "ATOM")
        /\ IdentityBlock(sys)[m + 1] = S("find", "BTC") /\ IdentityBlock(sys)[m + 2] = S("fill", "BTC")
        /\ IdentityBlock(sys)[m + 3] = S("coin", "BTC") /\ IdentityBlock(sys)[m + 4] = S("find", "ETH")
        /\ IdentityBlock(sys)[m + 5] = S("askEth", "ETH")
        /\ IdentityBlock(sys)[m + 6] = S("askTrx", "TRX")
    BY <2>3, IdentityStatements
  <2>5. n \in {1, 2, 3, m + 1, m + 2, m + 3, m + 4, m + 5, m + 6} \/ (n = 4 /\ m = 4)
    BY <2>4
  <2>6. \E op \in {"save", "find", "fill", "coin", "askEth", "askTrx"}, coin \in Coins :
          Head(task.todo) = S(op, coin)
    BY <2>2, <2>4, <2>5 DEF Coins
  <2> QED  BY <1>1, <2>6 DEF S
<1>3. CASE \E n \in 1..3 : At(EthBlock, n) /\ EthAt(n)
  <2>1. PICK n \in 1..3 : Head(task.todo) = EthBlock[n]
    BY <1>3, AtStatement, BlocksAreSteps, Statements
  <2> QED  BY <1>1, <2>1, Statements DEF S
<1>4. CASE \E n \in 1..4 : At(TrxBlock, n) /\ TrxAt(n)
  <2>1. PICK n \in 1..4 : Head(task.todo) = TrxBlock[n]
    BY <1>4, AtStatement, BlocksAreSteps, Statements
  <2> QED  BY <1>1, <2>1, Statements DEF S
<1>5. CASE \E coin \in Coins : \E n \in 1..3 : At(WholeImport(coin), n) /\ WholeAt(coin, n)
  <2>1. PICK coin \in Coins : \E n \in 1..3 : At(WholeImport(coin), n)
    BY <1>5
  <2>2. PICK n \in 1..3 : Head(task.todo) = WholeImport(coin)[n]
    BY <2>1, AtStatement, ImportStatements
  <2>3. \E op \in {"import", "coin", "timer"} : Head(task.todo) = S(op, coin)
    BY <2>2, ImportStatements
  <2> QED  BY <1>1, <2>3 DEF S
<1>6. CASE \E coin \in Coins : \E n \in 1..4 : At(LateImport(coin), n) /\ LateAt(coin, n)
  <2>1. PICK coin \in Coins : \E n \in 1..4 : At(LateImport(coin), n)
    BY <1>6
  <2>2. PICK n \in 1..4 : Head(task.todo) = LateImport(coin)[n]
    BY <2>1, AtStatement, ImportStatements
  <2>3. \E op \in {"importBare", "fill", "coin", "timer"} : Head(task.todo) = S(op, coin)
    BY <2>2, ImportStatements
  <2> QED  BY <1>1, <2>3 DEF S
<1>7. CASE \E n \in 1..5 : At(TronImport("TRX"), n) /\ TronImportAt(n)
  <2>1. PICK coin \in Coins : coin = "TRX"
    BY DEF Coins
  <2>2. PICK n \in 1..5 : Head(task.todo) = TronImport(coin)[n]
    BY <1>7, <2>1, AtStatement, ImportStatements
  <2>3. \E op \in {"importBare", "client", "bareCoin", "fill", "timer"} : Head(task.todo) = S(op, coin)
    BY <2>2, ImportStatements
  <2> QED  BY <1>1, <2>3 DEF S
<1>8. CASE \E n \in 1..4 : At(ResetBlock, n) /\ ResetAt(n)
  <2>1. PICK n \in 1..4 : Head(task.todo) = ResetBlock[n] /\ ResetAt(n)
    BY <1>8, AtStatement, BlocksAreSteps, Statements
  <2>2. n = 4
    BY <1>1, <2>1, Statements DEF S
  <2> QED  BY <2>1, <2>2
<1> QED  BY <1>1, <1>2, <1>3, <1>4, <1>5, <1>6, <1>7, <1>8, Running

\* A queued block starts with what the queue promised it.
LEMMA RunStep ==
  ASSUME TypeOK, TablesInv, NEW b \in queued, RunBlock(b)
  PROVE  Keeps /\ Stage'
<1>1. /\ UNCHANGED <<wallets, coins, clients, delayed>> /\ queued' = queued \ {b}
      /\ task' = [todo |-> BlockSteps(b), obj |-> b.obj, key |-> b.key, sys |-> FALSE]
      /\ b.kind \in {"eth", "trx", "import"}
  BY DEF RunBlock
<1>2. Waiting /\ Tables
  BY DEF TablesInv
<1>3. Keeps
  BY <1>1, <1>2, TablesUnchanged, WaitingShrinks DEF Keeps
<1>4. PICK i : i = b.obj
  OBVIOUS
<1>5. task'.obj = i /\ task'.todo = BlockSteps(b)
  BY <1>1, <1>4
<1>6. CASE b.kind = "eth"
  <2>1. task'.todo = EthBlock
    BY <1>5, <1>6 DEF BlockSteps
  <2>2. Apart(i)'
    BY <1>1, <1>2, <1>4, <1>6 DEF Waiting, Apart
  <2>3. i \in Ids' => Blank(i, "ETH")'
    BY <1>1, <1>2, <1>4, <1>6, MadeUnchanged DEF Waiting, Ids
  <2>4. EthAt(1)'
    BY <1>5, <2>2, <2>3 DEF EthAt
  <2>5. At(EthBlock, 1)' /\ 1 \in Places(EthBlock)
    BY <2>1, AtFirst, BlocksAreSteps, Statements DEF Places
  <2> QED  BY <1>3, <2>4, <2>5 DEF Stage
<1>7. CASE b.kind = "trx"
  <2>1. task'.todo = TrxBlock
    BY <1>5, <1>7 DEF BlockSteps
  <2>2. NoTrx' /\ Made("TRX")'
    BY <1>1, <1>2, <1>7, MadeUnchanged DEF Waiting, NoTrx
  <2>3. TrxAt(1)'
    BY <2>2 DEF TrxAt, TronAt
  <2>4. At(TrxBlock, 1)' /\ 1 \in Places(TrxBlock)
    BY <2>1, AtFirst, BlocksAreSteps, Statements DEF Places
  <2> QED  BY <1>3, <2>3, <2>4 DEF Stage
<1>8. CASE b.kind = "import"
  <2>1. b.how \in {"whole", "late"} /\ b.coin # "TRX" /\ b.coin \in Coins
    BY <1>2, <1>8 DEF Waiting, TypeOK, MemoryOK, Blocks
  <2>2. task'.todo = ImportBlock(b.coin, b.how)
    BY <1>5, <1>8 DEF BlockSteps
  <2>3. CASE b.how = "whole"
    <3>1. WholeAt(b.coin, 1)' /\ LateAt(b.coin, 1)'
      BY <2>1 DEF WholeAt, LateAt
    <3>2. PICK coin \in Coins : coin = b.coin
      BY <2>1
    <3>3. At(WholeImport(coin), 1)' /\ 1 \in Places(WholeImport(coin))
      BY <2>2, <2>3, <3>2, AtFirst, ImportStatements DEF ImportBlock, Places
    <3>4. WholeAt(coin, 1)'
      BY <2>1, <3>2 DEF WholeAt
    <3> QED  BY <1>3, <3>3, <3>4 DEF Stage
  <2>4. CASE b.how = "late"
    <3>1. PICK coin \in Coins : coin = b.coin
      BY <2>1
    <3>2. At(LateImport(coin), 1)' /\ 1 \in Places(LateImport(coin))
      BY <2>2, <2>4, <3>1, AtFirst, ImportStatements DEF ImportBlock, Places
    <3>3. LateAt(coin, 1)'
      BY <2>1, <3>1 DEF LateAt
    <3> QED  BY <1>3, <3>2, <3>3 DEF Stage
  <2> QED  BY <2>1, <2>3, <2>4
<1> QED  BY <1>1, <1>6, <1>7, <1>8

\* The delayed deletion takes one row; its coins and clients stay as orphans.
LEMMA DeleteStep ==
  ASSUME TypeOK, TablesInv, FireDelete
  PROVE  Keeps /\ Stage'
<1>1. /\ UNCHANGED <<coins, clients, task, queued>> /\ task.todo = << >> /\ delayed # << >>
      /\ wallets' = [i \in Ids \ {opId} |-> wallets[i]]
  BY DEF FireDelete, MainIdle, Ids
<1>2. PICK k : k = opId
  OBVIOUS
<1>3. Ids' = Ids \ {k} /\ \A i \in Ids' : wallets'[i] = wallets[i]
  BY <1>1, <1>2 DEF Ids
<1>4. Tables /\ Waiting /\ NoTrx
  BY <1>1 DEF TablesInv, Waiting
<1>5. OnlyOf(k)
  BY <1>1, <1>3 DEF OnlyOf
<1>6. TablesOf(k)'
  <2>1. CoinsOf(k)' /\ ReadyOf(k)'
    BY <1>3 DEF CoinsOf, ReadyOf
  <2>2. OneOf(k)'
    BY <1>1, <1>4, TablesPointwise DEF TablesOf, OneOf
  <2> QED  BY <2>1, <2>2 DEF TablesOf
<1>7. Keeps
  BY <1>1, <1>3, <1>4, <1>5, <1>6, WriteKeeps
<1> QED  BY <1>1, <1>7 DEF Stage

\* The delayed exit: with the right password the reset starts.
LEMMA ExitStep ==
  ASSUME TypeOK, TablesInv, FireExit
  PROVE  Keeps /\ Stage'
<1>1. /\ UNCHANGED <<wallets, coins, clients, queued>> /\ task.todo = << >> /\ delayed # << >>
      /\ task' = [Idle EXCEPT !.todo = ResetBlock] \/ task' = task
  BY DEF FireExit, MainIdle
<1>2. Tables /\ Waiting /\ NoTrx /\ NoTrx'
  BY <1>1 DEF TablesInv, Waiting, NoTrx
<1>3. Keeps
  BY <1>1, <1>2, TablesUnchanged, WaitingShrinks DEF Keeps
<1>4. CASE task' = task
  BY <1>1, <1>3, <1>4 DEF Stage
<1>5. CASE task' = [Idle EXCEPT !.todo = ResetBlock]
  <2>1. task'.todo = ResetBlock
    BY <1>5 DEF Idle
  <2>2. At(ResetBlock, 1)' /\ 1 \in Places(ResetBlock)
    BY <2>1, AtFirst, BlocksAreSteps, Statements DEF Places
  <2>3. ResetAt(1)'
    BY <1>2 DEF ResetAt
  <2> QED  BY <1>3, <2>2, <2>3 DEF Stage
<1> QED  BY <1>1, <1>4, <1>5

\* An identity is started with no timer running and no TRX block queued.
LEMMA StartIdentityStep ==
  ASSUME TypeOK, TablesInv, NEW key \in Keys, NEW sys \in BOOLEAN, StartIdentity(key, sys)
  PROVE  Keeps /\ Stage'
<1>1. /\ UNCHANGED <<wallets, coins, clients, queued, delayed>> /\ delayed = << >>
      /\ task'.todo = IdentityBlock(sys)
      /\ NoTrx
  BY DEF StartIdentity, Touchable, NoTrx
<1>2. Keeps
  BY <1>1, NothingKeeps DEF TablesInv
<1>3. Len(IdentityBlock(sys)) \in Nat /\ IdentityBlock(sys) \in Seq(Step)
  BY BlocksAreSteps, LenProperties
<1>4. At(IdentityBlock(sys), 1)' /\ 1 \in Places(IdentityBlock(sys))
  BY <1>1, <1>3, AtFirst DEF Places
<1>5. PICK m \in {3, 4} : m = Len(IdentitySaves(sys))
  BY IdentityStatements
<1>6. IdentityAt(sys, 1)'
  BY <1>1, <1>5 DEF IdentityAt, NoTrx
<1> QED  BY <1>2, <1>4, <1>6 DEF Stage

\* An import waits for its answer in the queue or starts at once.
LEMMA StartImportStep ==
  ASSUME TypeOK, TablesInv, NEW imp \in Imports, NEW key \in Keys, StartImport(imp, key)
  PROVE  Keeps /\ Stage'
<1>1. /\ UNCHANGED <<wallets, coins, clients, delayed>> /\ task.todo = << >> /\ NoTrx
      /\ imp \in ImportKinds
  BY ImportsAssumption DEF StartImport, Touchable, MainIdle, NoTrx
<1>2. Tables /\ Waiting
  BY DEF TablesInv
<1>3. CASE imp.coin \in Answered
  <2>1. PICK b : /\ b.kind = "import" /\ b.coin = imp.coin /\ b.how = imp.how
                 /\ queued' = queued \cup {b} /\ task' = task
    BY <1>3 DEF StartImport
  <2>2. b.how \in {"whole", "late"} /\ b.coin # "TRX"
    BY <1>1, <1>3, <2>1 DEF Answered, ImportKinds
  <2>3. NoTrx'
    BY <1>1, <2>1 DEF NoTrx
  <2>4. \A i : Blank(i, "ETH") => Blank(i, "ETH")'
    BY <1>1, MadeUnchanged
  <2>5. Waiting'
    BY <1>1, <1>2, <2>1, <2>2, <2>3, <2>4 DEF Waiting, Ids
  <2> QED  BY <1>1, <1>2, <2>1, <2>5, TablesUnchanged DEF Keeps, Stage
<1>4. CASE imp.coin \notin Answered
  <2>1. UNCHANGED queued /\ task'.todo = ImportBlock(imp.coin, imp.how)
    BY <1>4 DEF StartImport
  <2>2. Keeps
    BY <1>1, <1>2, <2>1, NothingKeeps
  <2>3. \/ imp.coin = "BTC" /\ imp.how = "late"
        \/ imp.coin = "TRX" /\ imp.how = "tron"
        \/ imp.coin = "ATOM" /\ imp.how = "whole"
    BY <1>1, <1>4 DEF Answered, ImportKinds
  <2>4. {"BTC", "TRX", "ATOM"} \subseteq Coins
    BY DEF Coins
  <2>5. CASE imp.coin = "BTC" /\ imp.how = "late"
    <3>1. At(LateImport("BTC"), 1)' /\ 1 \in Places(LateImport("BTC"))
      BY <2>1, <2>4, <2>5, AtFirst, ImportStatements DEF ImportBlock, Places
    <3>2. LateAt("BTC", 1)'
      BY DEF LateAt
    <3> QED  BY <2>2, <2>4, <3>1, <3>2 DEF Stage
  <2>6. CASE imp.coin = "TRX" /\ imp.how = "tron"
    <3>1. At(TronImport("TRX"), 1)' /\ 1 \in Places(TronImport("TRX"))
      BY <2>1, <2>4, <2>6, AtFirst, ImportStatements DEF ImportBlock, Places
    <3>2. TronImportAt(1)'
      BY <1>1, <2>1 DEF TronImportAt, TronAt, NoTrx
    <3> QED  BY <2>2, <3>1, <3>2 DEF Stage
  <2>7. CASE imp.coin = "ATOM" /\ imp.how = "whole"
    <3>1. At(WholeImport("ATOM"), 1)' /\ 1 \in Places(WholeImport("ATOM"))
      BY <2>1, <2>4, <2>7, AtFirst, ImportStatements DEF ImportBlock, Places
    <3>2. WholeAt("ATOM", 1)'
      BY DEF WholeAt
    <3> QED  BY <2>2, <2>4, <3>1, <3>2 DEF Stage
  <2> QED  BY <2>3, <2>5, <2>6, <2>7
<1> QED  BY <1>3, <1>4

-----------------------------------------------------------------------------
(* Every step                                                               *)

\* The empty store.
LEMMA TablesInit == Init => TablesInv
<1> SUFFICES ASSUME Init PROVE Tables /\ Waiting /\ Stage
  BY DEF TablesInv
<1>1. Tables
  BY DEF Init, Tables, CoinsBelongToTheirWallet, TronReadyHasClient, OneClientPerWallet, RowsOf
<1>2. Waiting
  BY DEF Init, Waiting, NoTrx
<1>3. task.todo = << >>
  BY DEF Init, Idle
<1> QED  BY <1>1, <1>2, <1>3 DEF Stage

\* Every step keeps the invariant and every address.
LEMMA TablesStep ==
  ASSUME TypeOK, TablesInv, [Next]_vars
  PROVE  TablesInv' /\ AddressesStay
<1> SUFFICES Keeps /\ Stage'
  BY DEF Keeps, TablesInv
<1>1. Tables /\ Waiting /\ Stage
  BY DEF TablesInv
<1>2. CASE Write
  BY <1>2, WriteStep
<1>3. CASE \E b \in queued : RunBlock(b)
  BY <1>3, RunStep
<1>4. CASE FireDelete
  BY <1>4, DeleteStep
<1>5. CASE FireExit
  BY <1>5, ExitStep
<1>6. CASE \E key \in Keys, sys \in BOOLEAN : StartIdentity(key, sys)
  BY <1>6, StartIdentityStep
<1>7. CASE \E imp \in Imports, key \in Keys : StartImport(imp, key)
  BY <1>7, StartImportStep
<1>8. CASE (\E id \in 1..(nextId - 1) : OpenDetail(id)) \/ OpenMyId \/ ClosePage \/ Launch
             \/ UNCHANGED vars
  <2>1. UNCHANGED <<wallets, coins, clients, task, queued, delayed>>
    BY <1>8 DEF OpenDetail, OpenMyId, ClosePage, Launch, vars
  <2> QED  BY <1>1, <2>1, NothingKeeps, StageUnchanged
<1>9. CASE ConfirmDelete \/ \E right \in BOOLEAN : ConfirmExit(right)
  <2>1. /\ UNCHANGED <<wallets, coins, clients, task, queued>> /\ task.todo = << >> /\ NoTrx
    BY <1>9 DEF ConfirmDelete, ConfirmExit, Touchable, MainIdle, NoTrx
  <2>2. Waiting'
    BY <1>1, <2>1, WaitingShrinks DEF NoTrx
  <2> QED  BY <1>1, <2>1, <2>2, TablesUnchanged DEF Keeps, Stage
<1>10. CASE Kill
  <2>1. /\ UNCHANGED <<wallets, coins, clients>> /\ queued' = {} /\ delayed' = << >>
        /\ task'.todo = << >>
    BY <1>10 DEF Kill, persistent, Idle
  <2>2. Waiting'
    BY <1>1, <2>1, WaitingShrinks DEF NoTrx
  <2> QED  BY <1>1, <2>1, <2>2, TablesUnchanged DEF Keeps, Stage
<1>11. CASE \E b \in queued : EndImport(b)
  <2>1. PICK b \in queued : EndImport(b)
    BY <1>11
  <2>2. /\ UNCHANGED <<wallets, coins, clients, task, delayed>> /\ task.todo = << >>
        /\ queued' = queued \ {b}
    BY <2>1 DEF EndImport, MainIdle
  <2>3. Waiting'
    BY <1>1, <2>2, WaitingShrinks
  <2> QED  BY <1>1, <2>2, <2>3, TablesUnchanged DEF Keeps, Stage
<1> QED  BY <1>2, <1>3, <1>4, <1>5, <1>6, <1>7, <1>8, <1>9, <1>10, <1>11
         DEF Next, MainThread, User, Write

\* The invariant holds throughout.
LEMMA TablesAlways == Spec => [](TypeOK /\ TablesInv)
<1>1. Init => TablesInv
  BY TablesInit
<1>2. TypeOK /\ TablesInv /\ [Next]_vars => TablesInv'
  BY TablesStep
<1> QED  BY <1>1, <1>2, TypeCorrect, PTL DEF Spec

(***************************************************************************)
(* The theorems                                                            *)
(***************************************************************************)

\* Every coin of a wallet that is in the table is of its chain and shows its
\* address or none, after any imports, deletions, resets and kills.
THEOREM CoinsBelong == Spec => []CoinsBelongToTheirWallet
<1>1. TablesInv => CoinsBelongToTheirWallet
  BY DEF TablesInv, Tables
<1> QED  BY <1>1, TablesAlways, PTL

\* A TRX wallet that shows an address has the client that signs for it, and its
\* coin: the order of the writes in createTRXWallet and in the import.
THEOREM TronIsReady == Spec => []TronReadyHasClient
<1>1. TablesInv => TronReadyHasClient
  BY DEF TablesInv, Tables
<1> QED  BY <1>1, TablesAlways, PTL

\* No wallet has two signing clients.
THEOREM ClientsAreSingle == Spec => []OneClientPerWallet
<1>1. TablesInv => OneClientPerWallet
  BY DEF TablesInv, Tables
<1> QED  BY <1>1, TablesAlways, PTL

\* No block writes over an address: the row it found is the one its own save added.
THEOREM AddressesAreKept == Spec => AddressesNeverChange
<1>1. TypeOK /\ TablesInv /\ [Next]_vars =>
        [\A i \in DOMAIN wallets \cap DOMAIN wallets' :
           wallets[i].key # NoKey => wallets'[i].key = wallets[i].key]_vars
  BY TablesStep DEF AddressesStay, Ids
<1> QED  BY <1>1, TablesAlways, PTL DEF Spec, AddressesNeverChange

\* Leaving the identity leaves no wallet, coin or client, whatever was queued.
THEOREM ExitIsClean == Spec => ExitLeavesNothing
<1>1. TypeOK /\ TablesInv /\ [Next]_vars =>
        [screen = "main" /\ screen' = "enter" =>
           DOMAIN wallets' = {} /\ coins' = [p \in {} |-> {}] /\ clients' = {}]_vars
  <2> SUFFICES ASSUME TypeOK, TablesInv, [Next]_vars, screen = "main", screen' = "enter"
               PROVE  DOMAIN wallets' = {} /\ coins' = [p \in {} |-> {}] /\ clients' = {}
    OBVIOUS
  <2>1. ResetRoot
    <3>1. ~UNCHANGED screen /\ screen' # "main" /\ screen' # "off" /\ screen # "off"
      OBVIOUS
    <3>2. ~Write \/ ResetRoot
      BY <3>1 DEF Write, SaveIdentityRow, FindIdentityRow, SaveImportRow, UpdateRow, SaveCoin,
                  SaveClient, QueueBlock, EnterMain, ClearTable
    <3>3. /\ ~UNCHANGED vars /\ ~Launch /\ ~Kill /\ ~FireDelete /\ ~FireExit
          /\ \A b \in queued : ~RunBlock(b) /\ ~EndImport(b)
      BY <3>1 DEF vars, Launch, Kill, FireDelete, FireExit, RunBlock, EndImport
    <3>4. ~User
      BY <3>1 DEF User, StartIdentity, StartImport, OpenDetail, OpenMyId, ClosePage,
                  ConfirmDelete, ConfirmExit
    <3> QED  BY <3>2, <3>3, <3>4 DEF Next, MainThread, Write
  <2>2. ResetAt(4)
    BY <2>1, RootIsLast DEF ResetRoot, TablesInv
  <2> QED  BY <2>1, <2>2 DEF ResetRoot, ResetAt, Ids
<1> QED  BY <1>1, TablesAlways, PTL DEF Spec, ExitLeavesNothing

(***************************************************************************)
(* The deletion in a process whose HUD blocks touches                      *)
(***************************************************************************)

\* The statements that take the HUD away or hand the work that will to the queue.
Enders == {"askEth", "enterMain", "timer", "root"}

Ends(s) == {i \in 1..Len(s) : s[i].op \in Enders}

\* The end of the work under way is a statement of the running block or a queued
\* block, and one of them only.
Ending == Ends(task.todo)
Late   == {b \in queued : b.kind # "trx"}
OneEnd ==
  /\ \A i, k \in Ending : i = k
  /\ \A b, c \in Late : b = c
  /\ Late # {} => Ending = {}

\* Until it has come the HUD stays and no deletion or exit waits.
Covered == Late # {} \/ Ending # {} => hud /\ delayed = << >>

\* A timer waits alone, under the HUD, and a deletion's is that of the wallet
\* CurrentOperationWalletID names.
DeleteOK ==
  delayed # << >> => /\ hud /\ Len(delayed) = 1
                     /\ delayed[1].kind = "delete" => delayed[1].id = opId

\* A detail page shows the wallet CurrentOperationWalletID names, if there is one.
PageOK == page.kind = "detail" => page.id = opId \/ (page.id = 0 /\ opId \notin Ids)

MaskInv == PageOK /\ (masked => OneEnd /\ Covered /\ DeleteOK)

\* The mask is set while no import is still on its way.
MaskedWhenQuiet == ~masked /\ masked' => queued = {}

\* No block has two ends.
LEMMA BlocksEndOnce ==
  /\ \A sys \in BOOLEAN : \A i, k \in Ends(IdentityBlock(sys)) : i = k
  /\ \A i, k \in Ends(EthBlock) : i = k
  /\ Ends(TrxBlock) = {}
  /\ \A i, k \in Ends(ResetBlock) : i = k
  /\ \A coin \in Coins, how \in {"whole", "late", "tron"} :
       \A i, k \in Ends(ImportBlock(coin, how)) : i = k
<1>1. ASSUME NEW sys \in BOOLEAN, NEW i \in Ends(IdentityBlock(sys)) PROVE i = Len(IdentitySaves(sys)) + 5
  <2>1. PICK m \in {3, 4} : m = Len(IdentitySaves(sys))
    BY IdentityStatements
  <2>2. PICK block : block = IdentityBlock(sys)
    OBVIOUS
  <2>3. /\ Len(block) = m + 6
        /\ block[1] = S("save", "BTC") /\ block[2] = S("save", "ETH") /\ block[3] = S("save", "TRX")
        /\ m = 4 => block[4] = S("save", "ATOM")
        /\ block[m + 1] = S("find", "BTC") /\ block[m + 2] = S("fill", "BTC")
        /\ block[m + 3] = S("coin", "BTC") /\ block[m + 4] = S("find", "ETH")
        /\ block[m + 6] = S("askTrx", "TRX")
    BY <2>1, <2>2, IdentityStatements
  <2>4. i \in 1..(m + 6) /\ block[i].op \in Enders
    BY <1>1, <2>2, <2>3 DEF Ends
  <2>5. ASSUME i # m + 5 PROVE \E op \in Ops \ Enders, coin \in Coins : block[i] = S(op, coin)
    <3>1. i \in 1..m \/ i \in {m + 1, m + 2, m + 3, m + 4, m + 6}
      BY <2>1, <2>4, <2>5
    <3>2. i \in 1..m => i \in {1, 2, 3} \/ (m = 4 /\ i = 4)
      BY <2>1
    <3>3. i \in 1..m => \E coin \in Coins : block[i] = S("save", coin)
      BY <2>3, <3>2 DEF Coins
    <3>4. i \in {m + 1, m + 2, m + 3, m + 4, m + 6} =>
            \E op \in {"find", "fill", "coin", "askTrx"}, coin \in Coins : block[i] = S(op, coin)
      BY <2>3 DEF Coins
    <3>5. {"save", "find", "fill", "coin", "askTrx"} \subseteq Ops \ Enders
      BY DEF Ops, Enders
    <3> QED  BY <3>1, <3>3, <3>4, <3>5
  <2>6. i = m + 5
    <3> SUFFICES ASSUME i # m + 5 PROVE FALSE
      OBVIOUS
    <3>1. PICK op \in Ops \ Enders, coin \in Coins : block[i] = S(op, coin)
      BY <2>5
    <3>2. block[i].op = op
      BY <3>1 DEF S
    <3> QED  BY <2>4, <3>2
  <2> QED  BY <2>1, <2>6
<1>2. ASSUME NEW i \in Ends(EthBlock) PROVE i = 3
  BY <1>2, Statements DEF Ends, Enders, S
<1>3. Ends(TrxBlock) = {}
  BY Statements DEF Ends, Enders, S
<1>4. ASSUME NEW i \in Ends(ResetBlock) PROVE i = 4
  BY <1>4, Statements DEF Ends, Enders, S
<1>5. ASSUME NEW coin \in Coins, NEW how \in {"whole", "late", "tron"},
             NEW i \in Ends(ImportBlock(coin, how)), NEW k \in Ends(ImportBlock(coin, how))
      PROVE  i = k
  <2>1. CASE how = "whole"
    <3>1. /\ Len(WholeImport(coin)) = 3
          /\ \A n \in 1..2 : \E op \in {"import", "coin"} : WholeImport(coin)[n] = S(op, coin)
      BY ImportStatements
    <3>2. \A n \in 1..2 : WholeImport(coin)[n].op \notin Enders
      BY <3>1 DEF Enders, S
    <3>3. \A n \in Ends(WholeImport(coin)) : n = 3
      BY <3>1, <3>2 DEF Ends
    <3> QED  BY <1>5, <2>1, <3>3 DEF ImportBlock
  <2>2. CASE how = "late"
    <3>1. /\ Len(LateImport(coin)) = 4
          /\ \A n \in 1..3 : \E op \in {"importBare", "fill", "coin"} : LateImport(coin)[n] = S(op, coin)
      BY ImportStatements
    <3>2. \A n \in 1..3 : LateImport(coin)[n].op \notin Enders
      BY <3>1 DEF Enders, S
    <3>3. \A n \in Ends(LateImport(coin)) : n = 4
      BY <3>1, <3>2 DEF Ends
    <3> QED  BY <1>5, <2>2, <3>3 DEF ImportBlock
  <2>3. CASE how = "tron"
    <3>1. /\ Len(TronImport(coin)) = 5
          /\ \A n \in 1..4 : \E op \in {"importBare", "client", "bareCoin", "fill"} : TronImport(coin)[n] = S(op, coin)
      BY ImportStatements
    <3>2. \A n \in 1..4 : TronImport(coin)[n].op \notin Enders
      BY <3>1 DEF Enders, S
    <3>3. \A n \in Ends(TronImport(coin)) : n = 5
      BY <3>1, <3>2 DEF Ends
    <3> QED  BY <1>5, <2>3, <3>3 DEF ImportBlock
  <2> QED  BY <2>1, <2>2, <2>3
<1> QED  BY <1>1, <1>2, <1>3, <1>4, <1>5

\* After a statement the rest of its block has the ends it had, less the statement's.
LEMMA RestEnds ==
  ASSUME TypeOK, task.todo # << >>, task'.todo = Tail(task.todo)
  PROVE  /\ \A i \in Ending' : i \in Nat \ {0} /\ i + 1 \in Ending
         /\ Head(task.todo).op \in Enders => 1 \in Ending
<1>1. PICK s \in Seq(Step) : s = task.todo
  BY DEF TypeOK, MemoryOK, Task
<1>2. /\ Len(s) \in Nat /\ Len(s) # 0 /\ Head(s) = s[1]
      /\ Len(Tail(s)) = Len(s) - 1
      /\ \A i \in 1..(Len(s) - 1) : Tail(s)[i] = s[i + 1]
  BY <1>1, HeadTailProperties, EmptySeq, LenProperties
<1>3. \A i \in Ends(Tail(s)) : i \in Nat \ {0} /\ i + 1 \in Ends(s)
  BY <1>2 DEF Ends
<1>4. Head(s).op \in Enders => 1 \in Ends(s)
  BY <1>2 DEF Ends
<1> QED  BY <1>1, <1>3, <1>4 DEF Ending

\* An idle thread has no end to come.
LEMMA IdleEnds == task.todo = << >> => Ending = {}
BY DEF Ending, Ends

\* The page and the id it goes with: no step but opening a page changes them.
LEMMA PageStays ==
  ASSUME TypeOK, PageOK, [Next]_vars, UNCHANGED opId, page' = page \/ page'.kind # "detail"
  PROVE  PageOK'
<1>1. opId # nextId
  BY DEF TypeOK, TablesOK
<1>2. opId \in Ids' => opId \in Ids
  BY <1>1, OnlyTheNextIdJoins DEF Ids
<1> QED  BY <1>2 DEF PageOK

\* A step that moves no end and no timer.
LEMMA MaskStays ==
  ASSUME OneEnd, Covered, DeleteOK, UNCHANGED <<hud, delayed, opId>>, Late' = Late,
         \A i, k \in Ending' : i = k, Ending' # {} => Ending # {}
  PROVE  OneEnd' /\ Covered' /\ DeleteOK'
BY DEF OneEnd, Covered, DeleteOK

\* The last end has come: the HUD may go.
LEMMA MaskEnds ==
  ASSUME Late' = {}, Ending' = {}, delayed' = << >>
  PROVE  OneEnd' /\ Covered' /\ DeleteOK'
BY DEF OneEnd, Covered, DeleteOK

\* Work starts, or is handed on, under the HUD and with no timer.
LEMMA MaskStarts ==
  ASSUME hud', delayed' = << >>, \A i, k \in Ending' : i = k, \A b, c \in Late' : b = c,
         Late' = {} \/ Ending' = {}
  PROVE  OneEnd' /\ Covered' /\ DeleteOK'
BY DEF OneEnd, Covered, DeleteOK

\* The statements of the running block.
LEMMA MaskWrite ==
  ASSUME TypeOK, Write, OneEnd, Covered, DeleteOK
  PROVE  OneEnd' /\ Covered' /\ DeleteOK'
<1>1. task.todo # << >> /\ task'.todo = Tail(task.todo)
  BY DEF Write, SaveIdentityRow, FindIdentityRow, SaveImportRow, UpdateRow, SaveCoin, SaveClient,
         QueueBlock, EnterMain, ClearTable, ResetRoot, Advance, Doing, TypeOK, MemoryOK, Task
<1>2. /\ \A i \in Ending' : i \in Nat \ {0} /\ i + 1 \in Ending
      /\ Head(task.todo).op \in Enders => 1 \in Ending
  BY <1>1, RestEnds
<1>3. \A i, k \in Ending : i = k
  BY DEF OneEnd
<1>4. /\ \A i, k \in Ending' : i = k
      /\ Ending' # {} => Ending # {}
  BY <1>2, <1>3
<1>5. Head(task.todo).op \in Enders => Ending' = {} /\ Late = {} /\ hud /\ delayed = << >>
  <2>1. Head(task.todo).op \in Enders => Ending' = {}
    BY <1>2, <1>3
  <2> QED  BY <1>2, <2>1 DEF OneEnd, Covered
<1>6. CASE UNCHANGED <<queued, delayed, hud, opId>>
  <2>1. Late' = Late
    BY <1>6 DEF Late
  <2> QED  BY <1>4, <1>6, <2>1, MaskStays
<1>7. CASE EnterMain \/ ResetRoot
  <2>1. Head(task.todo).op \in Enders /\ UNCHANGED <<queued, delayed>>
    BY <1>7 DEF EnterMain, ResetRoot, Doing, Enders
  <2>2. Late' = {} /\ Ending' = {} /\ delayed' = << >>
    BY <1>5, <2>1 DEF Late
  <2> QED  BY <2>2, MaskEnds
<1>8. CASE QueueBlock
  <2>1. UNCHANGED <<delayed, hud, opId>>
    BY <1>8 DEF QueueBlock
  <2>2. CASE Doing("askTrx")
    <3>1. PICK b : queued' = queued \cup {b} /\ b.kind = "trx"
      <4>1. ~Doing("askEth") /\ ~Doing("timer")
        BY <2>2 DEF Doing
      <4>2. PICK b : b = [kind |-> "trx", obj |-> 0, key |-> task.key,
                          coin |-> "TRX", how |-> "tron"]
        OBVIOUS
      <4>3. queued' = queued \cup {b}
        BY <1>8, <4>1, <4>2 DEF QueueBlock
      <4>4. b.kind = "trx"
        BY <4>2
      <4> QED  BY <4>3, <4>4
    <3>2. Late' = Late
      BY <3>1 DEF Late
    <3> QED  BY <1>4, <2>1, <3>2, MaskStays
  <2>3. CASE Doing("askEth") \/ Doing("timer")
    <3>1. PICK b : queued' = queued \cup {b}
      BY <1>8, <2>3 DEF QueueBlock
    <3>2. Head(task.todo).op \in Enders
      BY <2>3 DEF Doing, Enders
    <3>3. \A c, d \in Late' : c = d
      BY <1>5, <3>1, <3>2 DEF Late
    <3>4. hud' /\ delayed' = << >> /\ Ending' = {}
      BY <1>5, <2>1, <3>2
    <3> QED  BY <3>3, <3>4, MaskStarts
  <2> QED  BY <1>8, <2>2, <2>3 DEF QueueBlock
<1> QED  BY <1>6, <1>7, <1>8 DEF Write, SaveIdentityRow, FindIdentityRow, SaveImportRow, UpdateRow,
            SaveCoin, SaveClient, ClearTable

\* A queued block runs: the end it stood for is now one of its statements.
LEMMA MaskRun ==
  ASSUME TypeOK, NEW b \in queued, RunBlock(b), OneEnd, Covered, DeleteOK
  PROVE  OneEnd' /\ Covered' /\ DeleteOK'
<1>1. /\ task.todo = << >> /\ b.kind \in {"eth", "trx", "import"}
      /\ queued' = queued \ {b} /\ task'.todo = BlockSteps(b)
      /\ UNCHANGED <<hud, delayed, opId>>
  BY DEF RunBlock, MainIdle
<1>2. CASE b.kind = "trx"
  <2>1. Ending' = {}
    BY <1>1, <1>2, BlocksEndOnce DEF BlockSteps, Ending
  <2>2. Late' = Late
    BY <1>1, <1>2 DEF Late
  <2> QED  BY <1>1, <2>1, <2>2, MaskStays
<1>3. CASE b.kind # "trx"
  <2>1. Late = {b} /\ Late' = {}
    BY <1>1, <1>3 DEF Late, OneEnd
  <2>2. hud' /\ delayed' = << >>
    BY <1>1, <2>1 DEF Covered
  <2>3. b.coin \in Coins /\ b.how \in {"whole", "late", "tron"}
    BY DEF TypeOK, MemoryOK, Blocks
  <2>4. \A i, k \in Ends(BlockSteps(b)) : i = k
    <3>1. CASE b.kind = "eth"
      BY <3>1, BlocksEndOnce DEF BlockSteps
    <3>2. CASE b.kind = "import"
      BY <2>3, <3>2, BlocksEndOnce DEF BlockSteps
    <3> QED  BY <1>1, <1>3, <3>1, <3>2
  <2>5. \A i, k \in Ending' : i = k
    BY <1>1, <2>4 DEF Ending
  <2> QED  BY <2>1, <2>2, <2>5, MaskStarts
<1> QED  BY <1>2, <1>3

\* A timer fires: it was alone, and only a reset keeps the HUD.
LEMMA MaskFire ==
  ASSUME TypeOK, FireDelete \/ FireExit, OneEnd, Covered, DeleteOK
  PROVE  OneEnd' /\ Covered' /\ DeleteOK'
<1>1. delayed # << >> /\ delayed' = Tail(delayed) /\ UNCHANGED queued
  BY DEF FireDelete, FireExit
<1>2. delayed' = << >>
  <2>1. delayed \in Seq(Timer) /\ Len(delayed) = 1
    BY <1>1 DEF TypeOK, MemoryOK, DeleteOK
  <2>2. Tail(delayed) \in Seq(Timer) /\ Len(Tail(delayed)) = 0
    BY <1>1, <2>1, HeadTailProperties
  <2> QED  BY <1>1, <2>2, EmptySeq
<1>3. Late' = {} /\ Ending = {} /\ hud
  BY <1>1 DEF Covered, Late, DeleteOK
<1>4. CASE UNCHANGED task
  BY <1>2, <1>3, <1>4, MaskEnds DEF Ending
<1>5. CASE ~UNCHANGED task
  <2>1. task' = [Idle EXCEPT !.todo = ResetBlock] /\ hud' = hud
    BY <1>5 DEF FireDelete, FireExit
  <2>2. task'.todo = ResetBlock
    BY <2>1 DEF Idle
  <2>3. \A i, k \in Ending' : i = k
    BY <2>2, BlocksEndOnce DEF Ending
  <2> QED  BY <1>2, <1>3, <2>1, <2>3, MaskStarts
<1> QED  BY <1>4, <1>5

\* Touches reach the application: nothing is under way.
LEMMA MaskTouchable ==
  ASSUME Touchable, masked, OneEnd, Covered, DeleteOK
  PROVE  Late = {} /\ Ending = {} /\ delayed = << >>
BY IdleEnds DEF Touchable, MainIdle, Covered, DeleteOK

\* An import starts, at once or with a block that waits for its answer.
LEMMA MaskImport ==
  ASSUME TypeOK, NEW imp \in Imports, NEW key \in Keys, StartImport(imp, key), masked,
         OneEnd, Covered, DeleteOK
  PROVE  OneEnd' /\ Covered' /\ DeleteOK'
<1>1. Touchable /\ hud' /\ UNCHANGED delayed
  BY DEF StartImport
<1>2. Late = {} /\ Ending = {} /\ delayed' = << >>
  BY <1>1, MaskTouchable
<1>3. CASE imp.coin \in Answered
  <2>1. PICK b : queued' = queued \cup {b} /\ UNCHANGED task
    BY <1>3 DEF StartImport
  <2>2. (\A c, d \in Late' : c = d) /\ Ending' = {}
    BY <1>2, <2>1 DEF Late, Ending
  <2> QED  BY <1>1, <1>2, <2>2, MaskStarts
<1>4. CASE imp.coin \notin Answered
  <2>1. UNCHANGED queued /\ task'.todo = ImportBlock(imp.coin, imp.how)
    BY <1>4 DEF StartImport
  <2>2. imp.coin \in Coins /\ imp.how \in {"whole", "late", "tron"}
    BY ImportsAssumption DEF ImportKinds, Coins
  <2>3. \A i, k \in Ending' : i = k
    BY <2>1, <2>2, BlocksEndOnce DEF Ending
  <2>4. Late' = {}
    BY <1>2, <2>1 DEF Late
  <2> QED  BY <1>1, <1>2, <2>3, <2>4, MaskStarts
<1> QED  BY <1>3, <1>4

\* An identity starts: the mask is set, or was, and nothing is under way.
LEMMA MaskIdentity ==
  ASSUME NEW key \in Keys, NEW sys \in BOOLEAN, StartIdentity(key, sys), Late = {}
  PROVE  OneEnd' /\ Covered' /\ DeleteOK'
<1>1. hud' /\ delayed' = << >> /\ UNCHANGED queued /\ task'.todo = IdentityBlock(sys)
  BY DEF StartIdentity
<1>2. \A i, k \in Ending' : i = k
  BY <1>1, BlocksEndOnce DEF Ending
<1>3. Late' = {}
  BY <1>1 DEF Late
<1> QED  BY <1>1, <1>2, <1>3, MaskStarts

\* A deletion or an exit is confirmed: its timer is alone.
LEMMA MaskConfirm ==
  ASSUME TypeOK, PageOK, ConfirmDelete \/ \E right \in BOOLEAN : ConfirmExit(right), masked,
         OneEnd, Covered, DeleteOK
  PROVE  OneEnd' /\ Covered' /\ DeleteOK'
<1>1. Touchable /\ hud' /\ UNCHANGED <<queued, task, opId>>
  BY DEF ConfirmDelete, ConfirmExit
<1>2. Late = {} /\ Ending = {} /\ delayed = << >>
  BY <1>1, MaskTouchable
<1>3. Late' = {} /\ Ending' = {}
  BY <1>1, <1>2 DEF Late, Ending
<1>4. PICK t : /\ delayed' = Append(delayed, t)
               /\ t.kind = "delete" => t.id = page.id /\ page.kind = "detail" /\ opId \in Ids
  <2>1. CASE ConfirmDelete
    <3>1. PICK t : t = [kind |-> "delete", id |-> page.id, right |-> TRUE, enc |-> TRUE]
      OBVIOUS
    <3> QED  BY <2>1, <3>1 DEF ConfirmDelete, Ids
  <2>2. CASE \E right \in BOOLEAN : ConfirmExit(right)
    <3>1. PICK right \in BOOLEAN : ConfirmExit(right)
      BY <2>2
    <3>2. PICK t : t = [kind |-> "exit", id |-> page.id, right |-> right, enc |-> page.enc]
      OBVIOUS
    <3> QED  BY <3>1, <3>2 DEF ConfirmExit
  <2> QED  BY <2>1, <2>2
<1>5. t.kind = "delete" => t.id = opId
  BY <1>4 DEF PageOK, TypeOK, TablesOK, Ids
<1>6. delayed' = <<t>> /\ Len(delayed') = 1 /\ delayed'[1] = t
  BY <1>2, <1>4
<1> QED  BY <1>1, <1>3, <1>5, <1>6 DEF OneEnd, Covered, DeleteOK

\* The store that has never run.
LEMMA MaskInit == Init => MaskInv
BY DEF Init, MaskInv, PageOK, NoPage

\* The page's part.
LEMMA PageStep ==
  ASSUME TypeOK, PageOK, [Next]_vars
  PROVE  PageOK'
<1>1. CASE \E id \in 1..(nextId - 1) : OpenDetail(id)
  <2>1. PICK id \in 1..(nextId - 1) : OpenDetail(id)
    BY <1>1
  <2> QED  BY <2>1 DEF OpenDetail, Snapshot, PageOK, Ids
<1>2. CASE UNCHANGED opId /\ (page' = page \/ page'.kind # "detail")
  BY <1>2, PageStays
<1>3. CASE Write \/ (\E b \in queued : RunBlock(b)) \/ FireDelete \/ FireExit
  <2>1. UNCHANGED opId /\ page' \in {page, NoPage}
    BY <1>3 DEF Write, SaveIdentityRow, FindIdentityRow, SaveImportRow, UpdateRow, SaveCoin,
                SaveClient, QueueBlock, EnterMain, ClearTable, ResetRoot, RunBlock, FireDelete,
                LeavesPage, FireExit
  <2> QED  BY <1>2, <2>1 DEF NoPage
<1>4. CASE User
  <2>1. \/ UNCHANGED opId /\ page' \in {page, NoPage, Snapshot("myId", LastOf(SystemRows))}
        \/ \E id \in 1..(nextId - 1) : OpenDetail(id)
    BY <1>4 DEF User, StartIdentity, StartImport, OpenMyId, ClosePage, ConfirmDelete, ConfirmExit
  <2>2. Snapshot("myId", LastOf(SystemRows)).kind = "myId"
    BY DEF Snapshot
  <2> QED  BY <1>1, <1>2, <2>1, <2>2 DEF NoPage
<1>5. CASE Launch \/ Kill \/ (\E b \in queued : EndImport(b)) \/ UNCHANGED vars
  <2>1. UNCHANGED opId /\ page' \in {page, NoPage}
    BY <1>5 DEF Launch, Kill, persistent, EndImport, vars
  <2> QED  BY <1>2, <2>1 DEF NoPage
<1> QED  BY <1>3, <1>4, <1>5 DEF Next, MainThread, Write

\* Every step keeps the invariant when the mask is set quietly.
LEMMA MaskStep ==
  ASSUME TypeOK, MaskInv, [Next]_vars, [MaskedWhenQuiet]_vars
  PROVE  MaskInv'
<1>1. PageOK'
  BY PageStep DEF MaskInv
<1> SUFFICES ASSUME masked' PROVE OneEnd' /\ Covered' /\ DeleteOK'
  BY <1>1 DEF MaskInv
<1>2. CASE ~masked
  <2>1. PICK key \in Keys, sys \in BOOLEAN : StartIdentity(key, sys)
    <3>1. masked' # masked
      BY <1>2
    <3>2. ~Write /\ ~UNCHANGED vars /\ ~Launch /\ ~Kill /\ ~FireDelete /\ ~FireExit
      BY <3>1 DEF Write, SaveIdentityRow, FindIdentityRow, SaveImportRow, UpdateRow, SaveCoin,
                  SaveClient, QueueBlock, EnterMain, ClearTable, ResetRoot, vars, Launch, Kill,
                  FireDelete, FireExit
    <3>3. \A b \in queued : ~RunBlock(b) /\ ~EndImport(b)
      BY <3>1 DEF RunBlock, EndImport
    <3>4. User => \E key \in Keys, sys \in BOOLEAN : StartIdentity(key, sys)
      BY <3>1 DEF User, StartImport, OpenDetail, OpenMyId, ClosePage, ConfirmDelete, ConfirmExit
    <3> QED  BY <3>2, <3>3, <3>4 DEF Next, MainThread, Write
  <2>2. queued = {}
    BY <1>2 DEF MaskedWhenQuiet, vars
  <2>3. Late = {}
    BY <2>2 DEF Late
  <2> QED  BY <2>1, <2>3, MaskIdentity
<1>3. CASE masked
  <2>1. PageOK /\ OneEnd /\ Covered /\ DeleteOK
    BY <1>3 DEF MaskInv
  <2>2. CASE Write
    BY <2>1, <2>2, MaskWrite
  <2>3. CASE \E b \in queued : RunBlock(b)
    BY <2>1, <2>3, MaskRun
  <2>4. CASE FireDelete \/ FireExit
    BY <2>1, <2>4, MaskFire
  <2>5. CASE \E key \in Keys, sys \in BOOLEAN : StartIdentity(key, sys)
    <3>1. Touchable
      BY <2>5 DEF StartIdentity
    <3> QED  BY <1>3, <2>1, <2>5, <3>1, MaskTouchable, MaskIdentity
  <2>6. CASE \E imp \in Imports, key \in Keys : StartImport(imp, key)
    BY <1>3, <2>1, <2>6, MaskImport
  <2>7. CASE \E id \in 1..(nextId - 1) : OpenDetail(id)
    <3>1. Touchable /\ UNCHANGED <<queued, delayed, task>>
      BY <2>7 DEF OpenDetail
    <3>2. Late' = {} /\ Ending' = {} /\ delayed' = << >>
      BY <1>3, <2>1, <3>1, MaskTouchable DEF Late, Ending
    <3> QED  BY <3>2, MaskEnds
  <2>8. CASE ConfirmDelete \/ \E right \in BOOLEAN : ConfirmExit(right)
    BY <1>3, <2>1, <2>8, MaskConfirm
  <2>9. CASE OpenMyId \/ ClosePage \/ Launch \/ UNCHANGED vars
    <3>1. UNCHANGED <<hud, delayed, opId, queued, task>>
      BY <2>9 DEF OpenMyId, ClosePage, Launch, vars
    <3>2. Late' = Late /\ Ending' = Ending
      BY <3>1 DEF Late, Ending
    <3> QED  BY <2>1, <3>1, <3>2, MaskStays DEF OneEnd
  <2>10. CASE \E b \in queued : EndImport(b)
    <3>1. PICK b \in queued : EndImport(b)
      BY <2>10
    <3>2. /\ task.todo = << >> /\ b.kind # "trx" /\ queued' = queued \ {b}
          /\ UNCHANGED <<task, delayed>>
      BY <3>1 DEF EndImport, MainIdle
    <3>3. Late = {b} /\ Late' = {}
      BY <2>1, <3>2 DEF Late, OneEnd
    <3>4. delayed' = << >> /\ Ending' = {}
      BY <2>1, <3>2, <3>3 DEF Covered, OneEnd, Ending
    <3> QED  BY <3>3, <3>4, MaskEnds
  <2>11. ~Kill
    BY DEF Kill
  <2> QED  BY <2>2, <2>3, <2>4, <2>5, <2>6, <2>7, <2>8, <2>9, <2>10, <2>11
           DEF Next, MainThread, User, Write
<1> QED  BY <1>2, <1>3

\* In a process whose HUD blocks touches the delayed deletion removes the wallet
\* that was confirmed, in every run where each mask is set while no import is on
\* its way: the property of the runs, whatever is imported afterwards.
THEOREM MaskedDeletes ==
  Spec /\ [][MaskedWhenQuiet]_vars => MaskedDeleteIsTheConfirmedOne
<1>1. Init => MaskInv
  BY MaskInit
<1>2. TypeOK /\ MaskInv /\ [Next]_vars /\ [MaskedWhenQuiet]_vars => MaskInv'
  BY MaskStep
<1>3. TypeOK /\ MaskInv =>
        [masked /\ FireDelete => DOMAIN wallets \ DOMAIN wallets' \subseteq {Head(delayed).id}]_vars
  <2> SUFFICES ASSUME TypeOK, MaskInv, masked, FireDelete
               PROVE  DOMAIN wallets \ DOMAIN wallets' \subseteq {Head(delayed).id}
    OBVIOUS
  <2>1. /\ delayed # << >> /\ Head(delayed).kind = "delete"
        /\ wallets' = [i \in DOMAIN wallets \ {opId} |-> wallets[i]]
    BY DEF FireDelete
  <2>2. Head(delayed) = delayed[1]
    BY <2>1, HeadTailProperties DEF TypeOK, MemoryOK
  <2>3. Head(delayed).id = opId
    BY <2>1, <2>2 DEF MaskInv, DeleteOK
  <2> QED  BY <2>1, <2>3
<1> QED  BY <1>1, <1>2, <1>3, TypeCorrect, PTL DEF Spec, MaskedDeleteIsTheConfirmedOne

-----------------------------------------------------------------------------
(* Where nothing is imported every mask is set quietly                      *)

\* The statements that queue a block.
Queuers == {"askEth", "askTrx", "timer"}

\* Without imports only an identity queues blocks, and it sets the mask first.
QuietInv ==
  ~masked => /\ queued = {}
             /\ \A i \in 1..Len(task.todo) : task.todo[i].op \notin Queuers

\* A write of an unmasked process is one of a reset, which queues nothing.
LEMMA QuietWrite ==
  ASSUME TypeOK, QuietInv, Write, ~masked
  PROVE  QuietInv'
<1>1. task.todo # << >> /\ task'.todo = Tail(task.todo)
  BY DEF Write, SaveIdentityRow, FindIdentityRow, SaveImportRow, UpdateRow, SaveCoin, SaveClient,
         QueueBlock, EnterMain, ClearTable, ResetRoot, Advance, Doing, TypeOK, MemoryOK, Task
<1>2. PICK s \in Seq(Step) : s = task.todo
  BY DEF TypeOK, MemoryOK, Task
<1>3. /\ Len(s) \in Nat /\ Len(s) # 0 /\ Head(s) = s[1]
      /\ Len(Tail(s)) = Len(s) - 1
      /\ \A i \in 1..(Len(s) - 1) : Tail(s)[i] = s[i + 1]
  BY <1>1, <1>2, HeadTailProperties, EmptySeq, LenProperties
<1>4. \A i \in 1..Len(s) : s[i].op \notin Queuers
  BY <1>2 DEF QuietInv
<1>5. ~QueueBlock
  BY <1>2, <1>3, <1>4 DEF QueueBlock, Doing, Queuers
<1>6. UNCHANGED queued /\ queued = {}
  BY <1>5 DEF QuietInv, Write, SaveIdentityRow, FindIdentityRow, SaveImportRow, UpdateRow,
              SaveCoin, SaveClient, EnterMain, ClearTable, ResetRoot
<1>7. \A i \in 1..Len(Tail(s)) : Tail(s)[i].op \notin Queuers
  BY <1>3, <1>4
<1> QED  BY <1>1, <1>2, <1>6, <1>7 DEF QuietInv

\* Every step keeps it: the mask is set with the identity's block, and ends with it.
LEMMA QuietStep ==
  ASSUME TypeOK, QuietInv, [Next]_vars, Imports = {}
  PROVE  QuietInv'
<1> SUFFICES ASSUME ~masked' PROVE QuietInv'
  BY DEF QuietInv
<1>1. CASE Kill
  BY <1>1 DEF Kill, QuietInv, Idle
<1>2. CASE ~Kill
  <2>1. ~masked /\ queued = {}
    <3>1. masked' = masked \/ masked'
      <4>1. CASE Write \/ FireDelete \/ FireExit \/ Launch \/ UNCHANGED vars
        BY <4>1 DEF Write, SaveIdentityRow, FindIdentityRow, SaveImportRow, UpdateRow, SaveCoin,
                    SaveClient, QueueBlock, EnterMain, ClearTable, ResetRoot, FireDelete,
                    FireExit, Launch, vars
      <4>2. CASE \E b \in queued : RunBlock(b) \/ EndImport(b)
        BY <4>2 DEF RunBlock, EndImport
      <4>3. CASE User
        BY <4>3 DEF User, StartIdentity, StartImport, OpenDetail, OpenMyId, ClosePage,
                    ConfirmDelete, ConfirmExit
      <4> QED  BY <1>2, <4>1, <4>2, <4>3 DEF Next, MainThread, Write
    <3> QED  BY <3>1 DEF QuietInv
  <2>2. CASE Write
    BY <2>1, <2>2, QuietWrite
  <2>3. CASE FireExit /\ ~UNCHANGED task
    <3>1. task'.todo = ResetBlock /\ UNCHANGED queued
      BY <2>3 DEF FireExit, Idle
    <3>2. \A i \in 1..Len(ResetBlock) : ResetBlock[i].op \notin Queuers
      BY Statements DEF Queuers, S
    <3> QED  BY <2>1, <3>1, <3>2 DEF QuietInv
  <2>4. CASE UNCHANGED <<queued, task>>
    BY <2>1, <2>4 DEF QuietInv
  <2>5. CASE User
    BY <2>4, <2>5 DEF User, StartIdentity, OpenDetail, OpenMyId, ClosePage, ConfirmDelete,
                      ConfirmExit
  <2> QED  BY <1>2, <2>1, <2>2, <2>3, <2>4, <2>5
           DEF Next, MainThread, Write, FireDelete, FireExit, Launch, vars
<1> QED  BY <1>1, <1>2

\* The promise of the runs as it stands, where the import screens are not used.
THEOREM MaskedDeletesAlone ==
  ASSUME Imports = {}
  PROVE  Spec => MaskedDeleteIsTheConfirmedOne
<1>1. Init => QuietInv
  BY DEF Init, QuietInv, Idle
<1>2. TypeOK /\ QuietInv /\ [Next]_vars => QuietInv'
  BY QuietStep
<1>3. QuietInv => [MaskedWhenQuiet]_vars
  BY DEF QuietInv, MaskedWhenQuiet
<1> QED  BY <1>1, <1>2, <1>3, MaskedDeletes, TypeCorrect, PTL DEF Spec

=============================================================================
