------------------------- MODULE WalletSessionProofs -------------------------
(***************************************************************************)
(* Proofs about WalletSession, for any wallets and brands, any number of   *)
(* background loads, both kinds of build and every bound.                  *)
(***************************************************************************)
EXTENDS WalletSession, TLAPS, FiniteSetTheorems, WellFoundedInduction

-----------------------------------------------------------------------------
(* Queries                                                                  *)

\* A set of rows has a first one: what "first of all" takes exists.
LEMMA FirstExists ==
  ASSUME NEW ids, ids \subseteq Nat, ids # {}
  PROVE  \E w \in ids : \A v \in ids : w <= v
<1>1. PICK w \in ids : \A v \in ids : ~ (<<v, w>> \in OpToRel(<, Nat))
  BY NatLessThanWellFounded, WFMin
<1>2. ASSUME NEW v \in ids PROVE w <= v
  <2>1. ~ (v < w)
    BY <1>1 DEF OpToRel
  <2> QED BY <2>1
<1> QED BY <1>2

\* A set of wallets has a last one: what lastObject takes exists.
LEMMA LastExists ==
  ASSUME NEW ids, ids \subseteq Wallets, ids # {}
  PROVE  \E w \in ids : \A v \in ids : v <= w
<1> DEFINE After(w) == {v \in ids : w < v}
           Sizes == {Cardinality(After(w)) : w \in ids}
<1>1. IsFiniteSet(ids) /\ ids \subseteq Nat
  BY WalletsAssumption, FS_Subset
<1>2. ASSUME NEW w \in ids PROVE IsFiniteSet(After(w)) /\ Cardinality(After(w)) \in Nat
  BY <1>1, FS_Subset, FS_CardinalityType
<1>3. PICK n \in Sizes : \A m \in Sizes : n <= m
  <2>1. Sizes \subseteq Nat /\ Sizes # {}
    BY <1>2
  <2> HIDE DEF Sizes
  <2> QED BY <2>1, FirstExists
<1>4. PICK w \in ids : n = Cardinality(After(w))
  OBVIOUS
<1>5. ASSUME NEW v \in ids, w < v PROVE FALSE
  <2>1. After(v) \subseteq After(w) /\ v \in After(w) /\ v \notin After(v)
    <3>1. ids \subseteq Nat /\ v \in Nat /\ w \in Nat
      BY <1>1
    <3>2. v \in After(w)
      BY <1>5
    <3>3. v \notin After(v)
      BY <3>1
    <3>4. ASSUME NEW u \in After(v) PROVE u \in After(w)
      <4>1. u \in ids /\ u \in Nat /\ v < u
        BY <3>1
      <4>2. w < u
        BY <4>1, <3>1, <1>5
      <4> QED BY <4>1, <4>2
    <3> QED BY <3>2, <3>3, <3>4
  <2>2. After(v) \in SUBSET After(w) /\ IsFiniteSet(After(w)) /\ After(v) # After(w)
    BY <2>1, <1>2
  <2>3. Cardinality(After(v)) <= Cardinality(After(w)) /\ Cardinality(After(v)) # Cardinality(After(w))
    <3> HIDE DEF After
    <3> QED BY <2>2, FS_Subset
  <2>4. n <= Cardinality(After(v))
    BY <1>3
  <2> QED BY <1>2, <1>4, <2>3, <2>4
<1>6. \A v \in ids : v <= w
  BY <1>1, <1>5
<1> QED BY <1>6

\* A coin of a brand, showing what was asked for a wallet of that brand.
Fits(coin, brand) ==
  coin # NoCoin => /\ Brand(coin.own) = brand
                   /\ coin.amount # 0 => Brand(coin.amount) = brand

CoinsFit == \A w \in Wallets : Fits(coins[w], CoinOf[w])

\* The coin a query by brand and owner finds is a row of the table, and of that
\* brand when the table is in order; or there is none.
LEMMA Looked ==
  ASSUME NEW brand, NEW own, coins \in [Wallets -> CoinRow]
  PROVE  /\ Lookup(brand, own) \in CoinRow \cup {NoCoin}
         /\ CoinsFit => Fits(Lookup(brand, own), brand)
<1> DEFINE found == {w \in Wallets : CoinOf[w] = brand /\ coins[w].own = own}
           last == CHOOSE w \in found : \A v \in found : v <= w
<1>1. CASE found = {}
  BY <1>1 DEF Lookup, Fits
<1>2. CASE found # {}
  <2>1. last \in found
    <3>1. \E w \in found : \A v \in found : v <= w
      BY <1>2, LastExists
    <3> HIDE DEF found
    <3> QED BY <3>1
  <2>2. Lookup(brand, own) = coins[last]
    BY <1>2 DEF Lookup
  <2> HIDE DEF last
  <2> QED BY <2>1, <2>2 DEF CoinsFit
<1> QED BY <1>1, <1>2

-----------------------------------------------------------------------------
(* Types                                                                    *)

\* Idle, and a task just started, are tasks.
LEMMA IdleOK ==
  /\ Idle \in Task /\ Idle.at = "idle" /\ Idle.coin = NoCoin /\ Idle.wallet = 0
  /\ [Idle EXCEPT !.at = "count"] \in Task
  /\ \A w \in MaybeWallet : [Idle EXCEPT !.at = "balance", !.wallet = w] \in Task
BY DEF Idle, Task, Steps, MaybeWallet

\* The requests for a coin and a rate are typed.
LEMMA RateOK ==
  ASSUME TypeOK, NEW w \in MaybeWallet
  PROVE  RateOf(w) \in Request
<1>1. Lookup(Brand(w), current) \in CoinRow \cup {NoCoin}
  BY Looked DEF TypeOK
<1> QED BY <1>1 DEF RateOf, Request, Threads

\* What is written to the coins is a table of coins again.
LEMMA UpdateOK ==
  ASSUME coins \in [Wallets -> CoinRow], NEW coin \in CoinRow \cup {NoCoin}, NEW brand, NEW own,
         Update(coin, brand, own)
  PROVE  coins' \in [Wallets -> CoinRow]
BY DEF Update

\* A task with a field set is a task.
LEMMA FieldsOK ==
  ASSUME NEW x \in Task
  PROVE  /\ \A at \in Steps : [x EXCEPT !.at = at] \in Task
         /\ \A at \in Steps, w \in MaybeWallet :
              /\ [x EXCEPT !.at = at, !.wallet = w] \in Task
              /\ [x EXCEPT !.at = at, !.seen = w] \in Task
         /\ \A at \in Steps, c \in CoinRow \cup {NoCoin} : [x EXCEPT !.at = at, !.coin = c] \in Task
BY DEF Task

\* Every step of a load or an answer keeps the types of the threads, and moves
\* no other thread.
LEMMA LoadMoves ==
  ASSUME TypeOK, NEW t \in Threads, LoadStep(t)
  PROVE  /\ task' = [task EXCEPT ![t] = task'[t]]
         /\ task'[t] \in Task
<1> DEFINE x == task[t]
           Becomes(y) == task' = [task EXCEPT ![t] = y]
<1>0. x \in Task /\ task \in [Threads -> Task] /\ current \in MaybeWallet /\ rows \subseteq Wallets /\ x.wallet \in MaybeWallet
  BY DEF TypeOK, Task
<1>1. ASSUME NEW y \in Task, Becomes(y) PROVE task' = [task EXCEPT ![t] = task'[t]] /\ task'[t] \in Task
  BY <1>0, <1>1
<1>2. CASE CountWallets(t)
  <2>1. Becomes(Idle) \/ Becomes([x EXCEPT !.at = "find"])
    BY <1>2, <1>0 DEF CountWallets, Goto
  <2> QED BY <2>1, <1>0, <1>1, IdleOK, FieldsOK DEF Steps
<1>3. CASE FindCurrent(t)
  <2>1. Becomes([x EXCEPT !.at = "session", !.wallet = current]) \/ Becomes([x EXCEPT !.at = "first"])
    BY <1>3, <1>0 DEF FindCurrent
  <2> QED BY <2>1, <1>0, <1>1, FieldsOK DEF Steps
<1>4. CASE FindFirst(t)
  <2> DEFINE first == CHOOSE w \in rows : \A v \in rows : w <= v
  <2>1. PICK w : w = first /\ task' = [task EXCEPT ![t].at = "store", ![t].wallet = w]
    BY <1>4, Zenon DEF FindFirst
  <2>2. first \in rows
    <3>1. rows \subseteq Nat /\ rows # {}
      BY WalletsAssumption, FixedAssumption DEF TypeOK
    <3> QED BY <3>1, FirstExists
  <2> HIDE DEF first
  <2>3. w \in MaybeWallet /\ Becomes([x EXCEPT !.at = "store", !.wallet = w])
    BY <2>1, <2>2, <1>0 DEF MaybeWallet
  <2> QED BY <2>3, <1>0, <1>1, FieldsOK DEF Steps
<1>5. CASE StoreCurrent(t) \/ SetSession(t) \/ AskBalance(t) \/ WriteCoin(t)
  <2>1. \E at \in Steps : Becomes([x EXCEPT !.at = at]) \/ Becomes(Idle)
    BY <1>5, <1>0 DEF StoreCurrent, SetSession, AskBalance, WriteCoin, Goto, Steps
  <2> QED BY <2>1, <1>0, <1>1, IdleOK, FieldsOK
<1>6. CASE FindClient(t)
  <2>1. \E w \in MaybeWallet : Becomes([x EXCEPT !.at = "sign", !.seen = w])
    BY <1>6, <1>0 DEF FindClient, MaybeWallet
  <2> QED BY <2>1, <1>0, <1>1, FieldsOK DEF Steps
<1>7. CASE FindCoin(t)
  <2>1. \E c \in CoinRow \cup {NoCoin} : Becomes([x EXCEPT !.at = "amount", !.coin = c])
    <3> DEFINE coin == Lookup(Brand(x.wallet), current)
               c == IF coin = NoCoin THEN NoCoin ELSE [coin EXCEPT !.amount = x.wallet]
    <3>1. coin \in CoinRow \cup {NoCoin}
      BY Looked DEF TypeOK
    <3>2. Becomes([x EXCEPT !.at = "amount", !.coin = c])
      BY <1>7, <1>0 DEF FindCoin
    <3> HIDE DEF coin
    <3>3. c \in CoinRow \cup {NoCoin}
      BY <3>1, <1>0 DEF CoinRow
    <3> QED BY <3>2, <3>3
  <2> QED BY <2>1, <1>0, <1>1, FieldsOK DEF Steps
<1>8. CASE SetClient(t) \/ AskRate(t)
  <2>1. Becomes(Idle)
    BY <1>8 DEF SetClient, AskRate
  <2> QED BY <2>1, <1>1, IdleOK
<1> QED BY <1>2, <1>3, <1>4, <1>5, <1>6, <1>7, <1>8 DEF LoadStep

\* A step of a load keeps the types.
LEMMA LoadTyped ==
  ASSUME TypeOK, NEW t \in Threads, LoadStep(t)
  PROVE  TypeOK'
<1>0. /\ task[t] \in Task /\ task[t].wallet \in MaybeWallet /\ task[t].seen \in MaybeWallet
      /\ task[t].coin \in CoinRow \cup {NoCoin}
  BY DEF TypeOK, Task
<1>1. task' \in [Threads -> Task]
  BY LoadMoves DEF TypeOK
<1>2. rows' = rows /\ overlapped' = overlapped
  BY DEF LoadStep, CountWallets, FindCurrent, FindFirst, StoreCurrent, SetSession, FindClient,
         SetClient, AskBalance, FindCoin, WriteCoin, AskRate
<1>3. coins' \in [Wallets -> CoinRow]
  <2>1. CASE WriteCoin(t)
    BY <2>1, <1>0, UpdateOK DEF WriteCoin, TypeOK
  <2>2. CASE ~WriteCoin(t)
    BY <2>2 DEF LoadStep, CountWallets, FindCurrent, FindFirst, StoreCurrent, SetSession,
                FindClient, SetClient, AskBalance, FindCoin, AskRate, TypeOK
  <2> QED BY <2>1, <2>2
<1>4. current' \in MaybeWallet /\ session' \in MaybeWallet
  BY <1>0 DEF LoadStep, CountWallets, FindCurrent, FindFirst, StoreCurrent, SetSession,
              FindClient, SetClient, AskBalance, FindCoin, WriteCoin, AskRate, TypeOK
<1>5. client' \in [own : MaybeWallet, account : MaybeWallet]
  BY <1>0 DEF LoadStep, CountWallets, FindCurrent, FindFirst, StoreCurrent, SetSession,
              FindClient, SetClient, AskBalance, FindCoin, WriteCoin, AskRate, TypeOK, MaybeWallet
<1>6. requests' \subseteq Request
  <2>1. CASE SetClient(t)
    BY <2>1, <1>0 DEF SetClient, Send, Request, Threads, TypeOK
  <2>2. CASE AskBalance(t)
    BY <2>2, <1>0 DEF AskBalance, Send, Request, Threads, TypeOK
  <2>3. CASE AskRate(t)
    BY <2>3, <1>0, RateOK DEF AskRate, Send, TypeOK
  <2>4. CASE ~(SetClient(t) \/ AskBalance(t) \/ AskRate(t))
    BY <2>4 DEF LoadStep, CountWallets, FindCurrent, FindFirst, StoreCurrent, SetSession,
                FindClient, FindCoin, WriteCoin, TypeOK
  <2> QED BY <2>1, <2>2, <2>3, <2>4
<1> QED BY <1>1, <1>2, <1>3, <1>4, <1>5, <1>6 DEF TypeOK

\* So does every answer ...
LEMMA AnswerTyped ==
  ASSUME TypeOK, NEW r \in requests, Answer(r)
  PROVE  TypeOK'
<1>0. r.wallet \in MaybeWallet /\ r.coin \in CoinRow \cup {NoCoin} /\ r.via \in Threads
  BY DEF TypeOK, Request
<1>1. CASE Balance(r)
  <2>1. task' \in [Threads -> Task]
    BY <1>0, <1>1, IdleOK DEF Balance, TypeOK
  <2> QED BY <1>1, <2>1 DEF Balance, TypeOK
<1>2. CASE Data(r)
  <2>1. PICK at \in {"balance", "wait"} : task' = [task EXCEPT ![r.via].at = at]
    BY <1>2 DEF Data, AfterLoop, Goto
  <2>2. task' \in [Threads -> Task]
    BY <2>1, <1>0, FieldsOK DEF TypeOK, Steps
  <2> QED BY <1>2, <2>2 DEF Data, TypeOK
<1>3. CASE DataError(r)
  <2>1. PICK y \in {Idle, [task[r.via] EXCEPT !.at = "wait"]} : task' = [task EXCEPT ![r.via] = y]
    BY <1>3 DEF DataError, AfterLoop
  <2>2. y \in Task
    <3>1. task[r.via] \in Task
      BY <1>0 DEF TypeOK
    <3> QED BY <3>1, IdleOK, FieldsOK DEF Steps
  <2>3. task' \in [Threads -> Task]
    BY <2>1, <2>2 DEF TypeOK
  <2>4. requests' \subseteq Request
    BY <1>0, <1>3, RateOK DEF DataError, TypeOK
  <2> QED BY <1>3, <2>3, <2>4 DEF DataError, TypeOK
<1>4. CASE Account(r)
  BY <1>0, <1>4 DEF Account, TypeOK
<1>5. CASE Rate(r)
  <2>1. coins' \in [Wallets -> CoinRow]
    BY <1>0, <1>5, UpdateOK DEF Rate, TypeOK
  <2> QED BY <1>5, <2>1 DEF Rate, TypeOK
<1>6. CASE Fail(r)
  BY <1>6 DEF Fail, TypeOK
<1> QED BY <1>1, <1>2, <1>3, <1>4, <1>5, <1>6 DEF Answer

\* ... and everything the user does: no row of Fixed is ever deleted.
LEMMA UserTyped ==
  ASSUME TypeOK
  PROVE  /\ \A w \in Wallets : Switch(w) \/ Delete(w) => TypeOK'
         /\ \A t \in Loads : Appear(t) => TypeOK'
<1>1. ASSUME NEW w \in Wallets, Switch(w) PROVE TypeOK'
  BY <1>1, IdleOK DEF Switch, StartLoad, TypeOK, MaybeWallet, Threads
<1>2. ASSUME NEW w \in Wallets, Delete(w) PROVE TypeOK'
  BY <1>2 DEF Delete, TypeOK
<1>3. ASSUME NEW t \in Loads, Appear(t) PROVE TypeOK'
  BY <1>3, IdleOK DEF Appear, StartLoad, TypeOK, Threads
<1> QED BY <1>1, <1>2, <1>3

\* The type invariant is inductive as it stands.
LEMMA TypedIsInductive == (Init => TypeOK) /\ (TypeOK /\ [Next]_vars => TypeOK')
<1>1. ASSUME Init PROVE TypeOK
  <2>1. task \in [Threads -> Task]
    BY <1>1, IdleOK DEF Init
  <2>2. coins \in [Wallets -> CoinRow]
    BY <1>1 DEF Init, CoinRow, MaybeWallet
  <2> QED BY <1>1, <2>1, <2>2, FixedAssumption DEF Init, TypeOK, MaybeWallet
<1>2. TypeOK /\ UNCHANGED vars => TypeOK'
  BY DEF vars, TypeOK
<1> QED BY <1>1, <1>2, LoadTyped, AnswerTyped, UserTyped DEF Next

\* The variables keep their types whatever the interleaving of loads and answers,
\* and the wallets of an identity stay in the table: the invariant of the run.
THEOREM TypeCorrect == Spec => []TypeOK
BY TypedIsInductive, PTL DEF Spec

-----------------------------------------------------------------------------
(* The invariants                                                           *)

\* Balances come on the queues that handle them.  The data of a BTC load is what
\* its thread waits for: one request for each waiting thread.  A thread holds a
\* coin from FindCoin to the rate it asks for.
Routed ==
  /\ \A r \in requests :
       /\ r.kind = "balance" => r.via \in {"main", "net"}
       /\ r.kind = "data" =>
            /\ r = [kind |-> "data", wallet |-> task[r.via].wallet, coin |-> NoCoin, via |-> r.via]
            /\ task[r.via].at = "wait"
  /\ \A t \in Threads : task[t].coin # NoCoin => task[t].at \in {"amount", "rate"}

\* What is on its way to a table, as coin, amount or account, is of the brand it
\* was looked up with.
OneBrand ==
  /\ CoinsFit
  /\ \A t \in Threads :
       /\ Fits(task[t].coin, Brand(task[t].wallet))
       /\ task[t].at = "sign" /\ task[t].seen # 0 => Brand(task[t].seen) = "TRX"
  /\ \A r \in requests :
       /\ r.kind = "rate" => Fits(r.coin, Brand(r.wallet))
       /\ r.kind = "account" => Brand(r.wallet) = "TRX"
  /\ client.own # 0 => Brand(client.own) = "TRX"
  /\ client.account # 0 => Brand(client.account) = "TRX"

\* The current wallet is in the session and, for Tron, has its client.
InStep == session = current /\ (Brand(current) = "TRX" => client.own = current)

\* How far a load that is alone has come.
InOrder(t) ==
  LET x == task[t] IN
  /\ x.at = "session" => x.wallet = current
  /\ x.at \in {"client", "sign"} => session = current
  /\ x.at = "sign" /\ Brand(current) = "TRX" => x.seen = current
  /\ x.at \notin {"count", "find", "first", "store", "session", "client", "sign"} => InStep

\* While no load overlaps another, one is running, in order, or all have ended.
Alone ==
  ~overlapped =>
    /\ \A t, u \in Threads : Loading(t) /\ Loading(u) => t = u
    /\ \A t \in Threads : Loading(t) => InOrder(t)
    /\ Settled => InStep

-----------------------------------------------------------------------------
(* Routes                                                                   *)

\* A thread that runs is not waiting, and leaves the other threads alone.
LEMMA OthersStay ==
  ASSUME TypeOK, NEW t \in Threads, LoadStep(t)
  PROVE  /\ task[t].at \notin {"idle", "wait"}
         /\ \A u \in Threads \ {t} : task'[u] = task[u]
<1>1. task[t].at \notin {"idle", "wait"}
  BY DEF LoadStep, CountWallets, FindCurrent, FindFirst, StoreCurrent, SetSession, FindClient,
         SetClient, AskBalance, FindCoin, WriteCoin, AskRate
<1>2. \A u \in Threads \ {t} : task'[u] = task[u]
  BY LoadMoves DEF TypeOK
<1> QED BY <1>1, <1>2

\* What an answer does to the threads: nothing, or it moves the one it is for.
LEMMA AnswerMoves ==
  ASSUME TypeOK, NEW r \in requests, Answer(r)
  PROVE  /\ r.kind \in {"balance", "data"} => \A u \in Threads \ {r.via} : task'[u] = task[u]
         /\ r.kind \notin {"balance", "data"} => task' = task
         /\ r.kind = "balance" =>
              \/ task' = task
              \/ task'[r.via] = [Idle EXCEPT !.at = "balance", !.wallet = r.wallet] /\ ~Busy(r.via)
         /\ r.kind = "data" =>
              task'[r.via] \in {Idle, [task[r.via] EXCEPT !.at = "wait"], [task[r.via] EXCEPT !.at = "balance"]}
<1>1. r.via \in Threads /\ task \in [Threads -> Task]
  BY DEF TypeOK, Request
<1>2. CASE Balance(r)
  BY <1>1, <1>2 DEF Balance
<1>3. CASE Data(r)
  BY <1>1, <1>3 DEF Data, AfterLoop, Goto
<1>4. CASE DataError(r)
  BY <1>1, <1>4 DEF DataError, AfterLoop
<1>5. CASE Account(r) \/ Rate(r) \/ Fail(r)
  BY <1>5 DEF Account, Rate, Fail
<1> QED BY <1>2, <1>3, <1>4, <1>5 DEF Answer

\* A load keeps the routes: its own data request is the one it waits for.
LEMMA LoadRouted ==
  ASSUME TypeOK, Routed, NEW t \in Threads, LoadStep(t)
  PROVE  Routed'
<1> DEFINE x == task[t]
           Fine(r) == /\ r.kind = "balance" => r.via \in {"main", "net"}
                      /\ r.kind = "data" =>
                           /\ r = [kind |-> "data", wallet |-> task'[r.via].wallet,
                                   coin |-> NoCoin, via |-> r.via]
                           /\ task'[r.via].at = "wait"
<1>1. ASSUME NEW r \in requests PROVE Fine(r)
  <2>1. r.via \in Threads
    BY DEF TypeOK, Request
  <2> QED BY <2>1, OthersStay DEF Routed
<1>2. \A r \in requests' : Fine(r)
  <2>1. CASE AskBalance(t)
    <3>1. CASE Brand(x.wallet) = "BTC"
      <4> DEFINE r == [kind |-> "data", wallet |-> x.wallet, coin |-> NoCoin, via |-> t]
      <4>1. task'[t].wallet = x.wallet /\ task'[t].at = "wait"
        BY <2>1, <3>1 DEF AskBalance, Goto, TypeOK, Task
      <4>2. requests' = requests \cup {r}
        BY <2>1, <3>1 DEF AskBalance, Send
      <4>3. Fine(r)
        BY <4>1
      <4> QED BY <1>1, <4>2, <4>3
    <3>2. CASE Brand(x.wallet) # "BTC"
      <4> DEFINE r == [kind |-> "balance", wallet |-> x.wallet, coin |-> NoCoin,
                       via |-> IF Brand(x.wallet) = "ETH" THEN "net" ELSE "main"]
      <4>1. requests' = requests \cup {r}
        BY <2>1, <3>2 DEF AskBalance, Send
      <4>2. r.kind = "balance" /\ r.via \in {"main", "net"}
        OBVIOUS
      <4> HIDE DEF r
      <4> QED BY <1>1, <4>1, <4>2
    <3> QED BY <3>1, <3>2
  <2>2. CASE SetClient(t)
    BY <2>2, <1>1 DEF SetClient, Send
  <2>3. CASE AskRate(t)
    BY <2>3, <1>1 DEF AskRate, Send, RateOf
  <2>4. CASE ~(AskBalance(t) \/ SetClient(t) \/ AskRate(t))
    BY <2>4, <1>1 DEF LoadStep, CountWallets, FindCurrent, FindFirst, StoreCurrent, SetSession,
                      FindClient, FindCoin, WriteCoin
  <2> QED BY <2>1, <2>2, <2>3, <2>4
<1>3. task'[t].coin # NoCoin => task'[t].at \in {"amount", "rate"}
  <2>0. task \in [Threads -> Task] /\ Idle.coin = NoCoin
    BY IdleOK DEF TypeOK
  <2>1. CASE FindCoin(t)
    BY <2>0, <2>1 DEF FindCoin, Task
  <2>2. CASE WriteCoin(t)
    BY <2>0, <2>2 DEF WriteCoin, Goto, Task
  <2>3. CASE SetClient(t) \/ AskRate(t) \/ CountWallets(t) \/ AskBalance(t)
    BY <2>0, <2>3 DEF SetClient, AskRate, CountWallets, AskBalance, Goto, Task, Routed
  <2>4. CASE FindCurrent(t) \/ StoreCurrent(t) \/ SetSession(t) \/ FindClient(t)
    BY <2>0, <2>4 DEF FindCurrent, StoreCurrent, SetSession, FindClient, Goto, Task, Routed
  <2>5. CASE FindFirst(t)
    <3>1. PICK w : task' = [task EXCEPT ![t].at = "store", ![t].wallet = w]
      BY <2>5 DEF FindFirst
    <3> QED BY <2>0, <2>5, <3>1 DEF FindFirst, Task, Routed
  <2> QED BY <2>1, <2>2, <2>3, <2>4, <2>5 DEF LoadStep
<1> QED BY <1>2, <1>3, OthersStay DEF Routed

\* An answer goes to the thread it is handled on.
LEMMA AnswerRouted ==
  ASSUME TypeOK, Routed, NEW r \in requests, Answer(r)
  PROVE  Routed'
<1>0. task \in [Threads -> Task] /\ r.via \in Threads /\ \A s \in requests : s.via \in Threads
  BY DEF TypeOK, Request
<1>1. ASSUME NEW s \in requests, s # r PROVE
        /\ s.kind = "balance" => s.via \in {"main", "net"}
        /\ s.kind = "data" =>
             /\ s = [kind |-> "data", wallet |-> task'[s.via].wallet, coin |-> NoCoin, via |-> s.via]
             /\ task'[s.via].at = "wait"
  <2>1. CASE s.kind = "data"
    <3>1. task[s.via].at = "wait" /\ task'[s.via] = task[s.via]
      <4>1. task[s.via].at = "wait"
        BY <2>1 DEF Routed
      <4>2. CASE r.kind = "data"
        <5>1. s.via # r.via
          BY <1>1, <2>1, <4>2 DEF Routed
        <5> QED BY <4>1, <4>2, <5>1, <1>0, AnswerMoves
      <4>3. CASE r.kind = "balance" 
        BY <1>0, <4>1, <4>3, AnswerMoves DEF Busy
      <4>4. CASE r.kind \notin {"balance", "data"}
        BY <4>1, <4>4, AnswerMoves
      <4> QED BY <4>1, <4>2, <4>3, <4>4
    <3> QED BY <2>1, <3>1 DEF Routed
  <2> QED BY <2>1 DEF Routed
<1>2. ASSUME NEW s \in requests' PROVE (s \in requests /\ s # r) \/ s.kind = "rate"
  BY DEF Answer, Balance, Data, DataError, Account, Rate, Fail, RateOf
<1>3. ASSUME NEW t \in Threads PROVE task'[t].coin # NoCoin => task'[t].at \in {"amount", "rate"}
  <2>1. CASE task'[t] = task[t]
    BY <2>1 DEF Routed
  <2>2. CASE r.kind = "balance" /\ t = r.via
    BY <2>2, <2>1, AnswerMoves, IdleOK DEF Task
  <2>3. CASE r.kind = "data" /\ t = r.via
    <3>1. task[t].coin = NoCoin /\ task[t] \in Task
      BY <2>3, <1>0 DEF Routed
    <3>2. [task[t] EXCEPT !.at = "wait"].coin = NoCoin /\ [task[t] EXCEPT !.at = "balance"].coin = NoCoin
      BY <3>1 DEF Task
    <3>3. task'[t] \in {Idle, [task[t] EXCEPT !.at = "wait"], [task[t] EXCEPT !.at = "balance"]}
      BY <2>3, AnswerMoves
    <3> QED BY <3>2, <3>3, IdleOK
  <2> QED BY <2>1, <2>2, <2>3, AnswerMoves
<1> QED BY <1>1, <1>2, <1>3 DEF Routed

\* A load that the user starts begins anew, on a thread that was idle.
LEMMA Started ==
  ASSUME TypeOK, NEW t \in Threads, ~Busy(t), StartLoad(t)
  PROVE  /\ task'[t] = [Idle EXCEPT !.at = "count"]
         /\ \A u \in Threads \ {t} : task'[u] = task[u]
         /\ task'[t].at = "count" /\ task'[t].coin = NoCoin
BY DEF StartLoad, TypeOK, Idle

\* A load starts on a thread that waits for nothing.
LEMMA UserRouted ==
  ASSUME TypeOK, Routed, NEW t \in Threads, ~Busy(t), StartLoad(t), requests' = requests
  PROVE  Routed'
<1>1. ASSUME NEW r \in requests, r.kind = "data" PROVE r.via # t /\ r.via \in Threads
  BY <1>1 DEF Routed, TypeOK, Request, Busy
<1> QED BY <1>1, Started DEF Routed

\* Requests and threads stay matched.
LEMMA RoutedIsInductive == (Init => Routed) /\ (TypeOK /\ Routed /\ [Next]_vars => Routed')
<1>1. ASSUME Init PROVE Routed
  <2>1. \A t \in Threads : task[t].coin = NoCoin
    BY <1>1 DEF Init, Idle
  <2> QED BY <1>1, <2>1 DEF Init, Routed
<1>2. ASSUME TypeOK, Routed, [Next]_vars PROVE Routed'
  <2>1. ASSUME NEW w \in Wallets, Switch(w) PROVE Routed'
    BY <1>2, <2>1, UserRouted DEF Switch, StartLoad, Threads
  <2>2. ASSUME NEW w \in Wallets, Delete(w) PROVE Routed'
    BY <1>2, <2>2 DEF Delete, Routed
  <2>3. ASSUME NEW t \in Loads, Appear(t) PROVE Routed'
    BY <1>2, <2>3, UserRouted DEF Appear, Threads
  <2>4. CASE UNCHANGED vars
    BY <1>2, <2>4 DEF vars, Routed
  <2> QED BY <1>2, <2>1, <2>2, <2>3, <2>4, LoadRouted, AnswerRouted DEF Next
<1> QED BY <1>1, <1>2

-----------------------------------------------------------------------------
(* Brands                                                                   *)

\* A coin written where its brand is leaves every coin of its brand.
LEMMA UpdateFits ==
  ASSUME coins \in [Wallets -> CoinRow], CoinsFit,
         NEW coin, NEW brand, NEW own, Fits(coin, brand), Update(coin, brand, own)
  PROVE  CoinsFit'
BY DEF Update, CoinsFit, Fits, Brand

\* The rate that is asked for is of the coin's brand.
LEMMA RateFits ==
  ASSUME TypeOK, CoinsFit, NEW w
  PROVE  RateOf(w).kind = "rate" /\ RateOf(w).wallet = w /\ Fits(RateOf(w).coin, Brand(w))
BY Looked DEF TypeOK, RateOf

\* A load looks up the coin and the client of its wallet's own brand.
LEMMA LoadOneBrand ==
  ASSUME TypeOK, Routed, OneBrand, NEW t \in Threads, LoadStep(t)
  PROVE  OneBrand'
<1> DEFINE x == task[t]
           y == task'[t]
<1>0. /\ task \in [Threads -> Task] /\ coins \in [Wallets -> CoinRow] /\ requests \subseteq Request
      /\ Idle.at = "idle" /\ Idle.coin = NoCoin
  BY IdleOK DEF TypeOK
<1>1. CoinsFit'
  <2>1. CASE WriteCoin(t)
    BY <2>1, <1>0, UpdateFits DEF WriteCoin, OneBrand
  <2>2. CASE ~WriteCoin(t)
    <3>1. coins' = coins
      BY <2>2 DEF LoadStep, CountWallets, FindCurrent, FindFirst, StoreCurrent, SetSession, FindClient,
                  SetClient, AskBalance, FindCoin, AskRate
    <3> QED BY <3>1 DEF OneBrand, CoinsFit
  <2> QED BY <2>1, <2>2
<1>2. Fits(y.coin, Brand(y.wallet)) /\ (y.at = "sign" /\ y.seen # 0 => Brand(y.seen) = "TRX")
  <2>1. CASE FindCoin(t)
    <3> DEFINE coin == Lookup(Brand(x.wallet), current)
    <3>1. /\ y.at = "amount" /\ y.wallet = x.wallet
          /\ y.coin = IF coin = NoCoin THEN NoCoin ELSE [coin EXCEPT !.amount = x.wallet]
      BY <1>0, <2>1 DEF FindCoin, Task
    <3>2. coin \in CoinRow \cup {NoCoin} /\ Fits(coin, Brand(x.wallet))
      BY <1>0, Looked DEF OneBrand
    <3> HIDE DEF coin
    <3>3. Fits(y.coin, Brand(x.wallet))
      BY <3>1, <3>2 DEF Fits, CoinRow
    <3> QED BY <3>1, <3>3
  <2>2. CASE FindClient(t)
    <3>1. y.coin = NoCoin /\ y.seen = IF Brand(current) = "TRX" THEN current ELSE 0
      BY <1>0, <2>2 DEF FindClient, Task, Routed
    <3> QED BY <3>1 DEF Fits
  <2>3. CASE WriteCoin(t)
    <3>1. y.coin = x.coin /\ y.wallet = x.wallet /\ y.at = "rate"
      BY <1>0, <2>3 DEF WriteCoin, Goto, Task
    <3> QED BY <3>1 DEF OneBrand
  <2>4. CASE FindFirst(t)
    <3>1. PICK w : task' = [task EXCEPT ![t].at = "store", ![t].wallet = w]
      BY <2>4 DEF FindFirst
    <3> QED BY <1>0, <2>4, <3>1 DEF FindFirst, Task, Routed, Fits
  <2>5. CASE SetClient(t) \/ AskRate(t) \/ CountWallets(t) \/ AskBalance(t)
    <3>1. y.coin = NoCoin /\ y.at # "sign"
      BY <1>0, <2>5 DEF SetClient, AskRate, CountWallets, AskBalance, Goto, Task, Routed
    <3> QED BY <3>1 DEF Fits
  <2>6. CASE FindCurrent(t) \/ StoreCurrent(t) \/ SetSession(t)
    <3>1. y.coin = NoCoin /\ y.at # "sign"
      BY <1>0, <2>6 DEF FindCurrent, StoreCurrent, SetSession, Goto, Task, Routed
    <3> QED BY <3>1 DEF Fits
  <2> QED BY <2>1, <2>2, <2>3, <2>4, <2>5, <2>6 DEF LoadStep
<1>3. ASSUME NEW r \in requests'
      PROVE  /\ r.kind = "rate" => Fits(r.coin, Brand(r.wallet))
             /\ r.kind = "account" => Brand(r.wallet) = "TRX"
  <2>1. CASE r \in requests
    BY <2>1 DEF OneBrand
  <2>2. CASE SetClient(t)
    BY <2>1, <2>2 DEF SetClient, Send, OneBrand
  <2>3. CASE AskBalance(t)
    BY <2>1, <2>3 DEF AskBalance, Send
  <2>4. CASE AskRate(t)
    <3>1. requests' = requests \cup {RateOf(x.wallet)}
      BY <2>4 DEF AskRate, Send
    <3> QED BY <2>1, <3>1, RateFits DEF OneBrand
  <2>5. CASE ~(SetClient(t) \/ AskBalance(t) \/ AskRate(t))
    BY <2>1, <2>5 DEF LoadStep, CountWallets, FindCurrent, FindFirst, StoreCurrent, SetSession,
                      FindClient, FindCoin, WriteCoin
  <2> QED BY <2>2, <2>3, <2>4, <2>5
<1>4. (client.own # 0 => Brand(client.own) = "TRX")' /\ (client.account # 0 => Brand(client.account) = "TRX")'
  <2>1. CASE SetClient(t)
    BY <2>1 DEF SetClient, OneBrand
  <2>2. CASE ~SetClient(t)
    <3>1. client' = client
      BY <2>2 DEF LoadStep, CountWallets, FindCurrent, FindFirst, StoreCurrent, SetSession,
                  FindClient, AskBalance, FindCoin, WriteCoin, AskRate
    <3> QED BY <3>1 DEF OneBrand
  <2> QED BY <2>1, <2>2
<1> QED BY <1>1, <1>2, <1>3, <1>4, OthersStay DEF OneBrand

\* An answer is written to, and asks about, wallets of the brand it was asked for.
LEMMA AnswerOneBrand ==
  ASSUME TypeOK, Routed, OneBrand, NEW r \in requests, Answer(r)
  PROVE  OneBrand'
<1>0. /\ task \in [Threads -> Task] /\ coins \in [Wallets -> CoinRow] /\ r.via \in Threads
      /\ client \in [own : MaybeWallet, account : MaybeWallet]
  BY DEF TypeOK, Request
<1>1. CoinsFit'
  <2>1. CASE Rate(r)
    BY <2>1, <1>0, UpdateFits DEF Rate, OneBrand
  <2>2. CASE ~Rate(r)
    BY <2>2 DEF Answer, Balance, Data, DataError, Account, Fail, OneBrand, CoinsFit
  <2> QED BY <2>1, <2>2
<1>2. ASSUME NEW t \in Threads
      PROVE  /\ Fits(task'[t].coin, Brand(task'[t].wallet))
             /\ task'[t].at = "sign" /\ task'[t].seen # 0 => Brand(task'[t].seen) = "TRX"
  <2>1. CASE task'[t] = task[t]
    BY <2>1 DEF OneBrand
  <2>2. CASE task'[t].coin = NoCoin /\ task'[t].at # "sign"
    BY <2>2 DEF Fits
  <2>3. CASE r.kind = "balance" /\ t = r.via /\ task' # task
    <3>1. task'[t] = [Idle EXCEPT !.at = "balance", !.wallet = r.wallet]
      BY <2>3, AnswerMoves
    <3> QED BY <3>1, <2>2 DEF Idle
  <2>4. CASE r.kind = "data" /\ t = r.via
    <3>1. task[t].coin = NoCoin /\ task[t] \in Task
      BY <2>4, <1>0 DEF Routed
    <3>2. task'[t] \in {Idle, [task[t] EXCEPT !.at = "wait"], [task[t] EXCEPT !.at = "balance"]}
      BY <2>4, AnswerMoves
    <3>3. task'[t].coin = NoCoin /\ task'[t].at # "sign"
      BY <3>1, <3>2, IdleOK DEF Task
    <3> QED BY <2>2, <3>3
  <2> QED BY <2>1, <2>3, <2>4, AnswerMoves
<1>3. ASSUME NEW s \in requests'
      PROVE  /\ s.kind = "rate" => Fits(s.coin, Brand(s.wallet))
             /\ s.kind = "account" => Brand(s.wallet) = "TRX"
  <2>1. CASE s \in requests
    BY <2>1 DEF OneBrand
  <2>2. CASE DataError(r) /\ s = RateOf(r.wallet)
    BY <2>2, RateFits DEF OneBrand
  <2> QED BY <2>1, <2>2 DEF Answer, Balance, Data, DataError, Account, Rate, Fail
<1>4. (client.own # 0 => Brand(client.own) = "TRX")' /\ (client.account # 0 => Brand(client.account) = "TRX")'
  <2>1. CASE Account(r)
    BY <2>1, <1>0 DEF Account, OneBrand
  <2>2. CASE ~Account(r)
    BY <2>2 DEF Answer, Balance, Data, DataError, Rate, Fail, OneBrand
  <2> QED BY <2>1, <2>2
<1> QED BY <1>1, <1>2, <1>3, <1>4 DEF OneBrand

\* A switch or a deletion moves nothing between brands.
LEMMA UserOneBrand ==
  ASSUME TypeOK, OneBrand, NEW t \in Threads, ~Busy(t), StartLoad(t), UNCHANGED <<coins, client, requests>>
  PROVE  OneBrand'
<1>1. /\ Fits(task'[t].coin, Brand(task'[t].wallet)) /\ task'[t].at # "sign"
      /\ \A u \in Threads \ {t} : task'[u] = task[u]
  BY Started DEF Fits
<1> QED BY <1>1 DEF OneBrand, CoinsFit

\* What is on its way stays within one brand.
LEMMA OneBrandIsInductive == (Init => OneBrand) /\ (TypeOK /\ Routed /\ OneBrand /\ [Next]_vars => OneBrand')
<1>1. ASSUME Init PROVE OneBrand
  <2>1. \A t \in Threads : task[t].coin = NoCoin /\ task[t].at # "sign"
    BY <1>1 DEF Init, Idle
  <2>2. CoinsFit
    BY <1>1, WalletsAssumption DEF Init, CoinsFit, Fits, Brand
  <2> QED BY <1>1, <2>1, <2>2 DEF Init, OneBrand, Fits
<1>2. ASSUME TypeOK, Routed, OneBrand, [Next]_vars PROVE OneBrand'
  <2>1. ASSUME NEW w \in Wallets, Switch(w) PROVE OneBrand'
    BY <1>2, <2>1, UserOneBrand DEF Switch, StartLoad, Threads
  <2>2. ASSUME NEW w \in Wallets, Delete(w) PROVE OneBrand'
    BY <1>2, <2>2 DEF Delete, OneBrand, CoinsFit
  <2>3. ASSUME NEW t \in Loads, Appear(t) PROVE OneBrand'
    BY <1>2, <2>3, UserOneBrand DEF Appear, Threads
  <2>4. CASE UNCHANGED vars
    BY <1>2, <2>4 DEF vars, OneBrand, CoinsFit
  <2> QED BY <1>2, <2>1, <2>2, <2>3, <2>4, LoadOneBrand, AnswerOneBrand DEF Next
<1> QED BY <1>1, <1>2

\* A coin keeps its brand, and shows what was asked for a wallet of its brand,
\* however answers and switches fall.
THEOREM BrandsAreKept == Spec => []BrandsKept
<1>1. ASSUME TypeOK, OneBrand PROVE BrandsKept
  <2>1. ASSUME NEW w \in Wallets
        PROVE  /\ CoinOf[coins[w].own] = CoinOf[w]
               /\ coins[w].amount # 0 => CoinOf[coins[w].amount] = CoinOf[w]
    <3>1. coins[w] \in CoinRow /\ coins[w].own # 0 /\ Fits(coins[w], CoinOf[w])
      BY <1>1, WalletsAssumption DEF TypeOK, CoinRow, OneBrand, CoinsFit
    <3>2. coins[w] # NoCoin
      BY <3>1 DEF NoCoin
    <3> QED BY <3>1, <3>2 DEF Fits, Brand
  <2> QED BY <2>1 DEF BrandsKept
<1> QED BY <1>1, TypedIsInductive, RoutedIsInductive, OneBrandIsInductive, PTL DEF Spec

\* Late answers never reach the only wallet of another brand: with one wallet of
\* a brand, keeping the brand is keeping the wallet.
THEOREM NothingCrossesOver == Spec => []NothingCrosses
<1>1. ASSUME TypeOK, OneBrand, BrandsKept PROVE NothingCrosses
  <2>1. ASSUME NEW w \in Wallets, Sole(w)
        PROVE  coins[w].own = w /\ coins[w].amount \in {0, w}
    <3>1. coins[w].own \in Wallets /\ coins[w].amount \in Wallets \cup {0}
      BY <1>1 DEF TypeOK, CoinRow, MaybeWallet
    <3> QED BY <1>1, <2>1, <3>1 DEF BrandsKept, Sole
  <2>2. ASSUME client.own # 0, Sole(client.own) PROVE client.account \in {0, client.own}
    <3>1. client.own \in Wallets /\ client.account \in Wallets \cup {0}
      BY <1>1, <2>2 DEF TypeOK, MaybeWallet
    <3>2. CoinOf[client.own] = "TRX" /\ (client.account # 0 => CoinOf[client.account] = "TRX")
      BY <1>1, <2>2 DEF OneBrand, Brand
    <3> QED BY <2>2, <3>1, <3>2 DEF Sole
  <2> QED BY <2>1, <2>2 DEF NothingCrosses
<1> QED BY <1>1, BrandsAreKept, TypedIsInductive, RoutedIsInductive, OneBrandIsInductive, PTL DEF Spec

-----------------------------------------------------------------------------
(* A load that is alone                                                     *)

\* A step of the load of a thread goes on in order, and ends in step.
LEMMA NextInOrder ==
  ASSUME TypeOK, NEW t \in Threads, LoadStep(t), Loading(t), InOrder(t)
  PROVE  InOrder(t)' /\ (~Loading(t)' => InStep')
<1> DEFINE x == task[t]
           y == task'[t]
<1>0. task \in [Threads -> Task] /\ x \in Task /\ rows # {}
  BY FixedAssumption DEF TypeOK
<1>1. CASE CountWallets(t)
  <2>1. y.at = "find" /\ current' = current /\ session' = session /\ client' = client
    BY <1>0, <1>1 DEF CountWallets, Goto, Task
  <2> QED BY <2>1 DEF InOrder, Loading, LoadSteps, Steps
<1>2. CASE FindCurrent(t)
  <2>1. y.at = "first" \/ (y.at = "session" /\ y.wallet = current /\ current' = current)
    <3>1. CASE current \in rows
      <4>1. task' = [task EXCEPT ![t].at = "session", ![t].wallet = current] /\ current' = current
        BY <1>2, <3>1 DEF FindCurrent
      <4> QED BY <1>0, <4>1 DEF Task
    <3>2. CASE current \notin rows
      <4>1. task' = [task EXCEPT ![t].at = "first"]
        BY <1>2, <3>2 DEF FindCurrent
      <4> QED BY <1>0, <4>1 DEF Task
    <3> QED BY <3>1, <3>2
  <2> QED BY <2>1 DEF InOrder, Loading, LoadSteps, Steps
<1>3. CASE FindFirst(t)
  <2>1. PICK w : task' = [task EXCEPT ![t].at = "store", ![t].wallet = w]
    BY <1>3 DEF FindFirst
  <2>2. y.at = "store"
    BY <1>0, <2>1 DEF Task
  <2> QED BY <2>2 DEF InOrder, Loading, LoadSteps, Steps
<1>4. CASE StoreCurrent(t)
  <2>1. y.at = "session" /\ y.wallet = current'
    BY <1>0, <1>4 DEF StoreCurrent, Goto, Task
  <2> QED BY <2>1 DEF InOrder, Loading, LoadSteps, Steps
<1>5. CASE SetSession(t)
  <2>1. /\ current' = current /\ session' = current
        /\ y.at = IF Brand(current) = "TRX" THEN "client" ELSE "ask"
    BY <1>0, <1>5 DEF SetSession, Goto, Task, InOrder
  <2> QED BY <2>1 DEF InOrder, InStep, Loading, LoadSteps, Steps, Brand
<1>6. CASE FindClient(t)
  <2>1. /\ y.at = "sign" /\ current' = current /\ session' = session /\ session = current
        /\ Brand(current) = "TRX" => y.seen = current
    BY <1>0, <1>6 DEF FindClient, Task, InOrder
  <2> QED BY <2>1 DEF InOrder, Loading, LoadSteps, Steps, Brand
<1>7. CASE SetClient(t)
  <2>1. /\ y = Idle /\ current' = current /\ session' = session /\ session = current
        /\ Brand(current) = "TRX" => client'.own = current
    BY <1>0, <1>7 DEF SetClient, InOrder
  <2> QED BY <2>1, IdleOK DEF InOrder, InStep, Brand
<1>8. CASE AskBalance(t) \/ FindCoin(t) \/ WriteCoin(t) \/ AskRate(t)
  <2>1. InStep /\ current' = current /\ session' = session /\ client' = client
    BY <1>8 DEF AskBalance, FindCoin, WriteCoin, AskRate, InOrder
  <2>2. y.at \in {"idle", "wait", "amount", "rate"}
    BY <1>0, <1>8, IdleOK DEF AskBalance, FindCoin, WriteCoin, AskRate, Goto, Task
  <2> QED BY <2>1, <2>2 DEF InOrder, InStep, Brand
<1> QED BY <1>1, <1>2, <1>3, <1>4, <1>5, <1>6, <1>7, <1>8 DEF LoadStep

\* Only a load that is running moves the current wallet, the session or the owner
\* of the client, and no thread starts a load by itself.
LEMMA LoadAlone ==
  ASSUME TypeOK, Alone, NEW t \in Threads, LoadStep(t)
  PROVE  Alone'
<1>0. overlapped' = overlapped
  BY DEF LoadStep, CountWallets, FindCurrent, FindFirst, StoreCurrent, SetSession, FindClient,
         SetClient, AskBalance, FindCoin, WriteCoin, AskRate
<1> SUFFICES ASSUME ~overlapped
             PROVE  /\ \A u, v \in Threads : Loading(u)' /\ Loading(v)' => u = v
                    /\ \A u \in Threads : Loading(u)' => InOrder(u)'
                    /\ Settled' => InStep'
  BY <1>0 DEF Alone
<1>1. \A u \in Threads \ {t} : Loading(u)' = Loading(u)
  BY OthersStay DEF Loading, Busy
<1>2. CASE Loading(t)
  <2>1. \A u \in Threads \ {t} : ~Loading(u)'
    BY <1>1, <1>2 DEF Alone
  <2>2. InOrder(t)' /\ (~Loading(t)' => InStep')
    BY <1>2, NextInOrder DEF Alone
  <2> QED BY <2>1, <2>2 DEF Settled
<1>3. CASE ~Loading(t)
  <2>1. FindCoin(t) \/ WriteCoin(t) \/ AskRate(t)
    BY <1>3 DEF LoadStep, CountWallets, FindCurrent, FindFirst, StoreCurrent, SetSession, FindClient,
                SetClient, AskBalance, Loading, LoadSteps, Steps
  <2>2. current' = current /\ session' = session /\ client' = client
    BY <2>1 DEF FindCoin, WriteCoin, AskRate
  <2>3. ~Loading(t)'
    <3>1. t \notin Loads
      BY <1>3, <2>1 DEF Loading, Busy, FindCoin, WriteCoin, AskRate
    <3>2. task'[t].at \in {"amount", "rate", "idle"}
      BY <2>1, IdleOK DEF FindCoin, WriteCoin, AskRate, Goto, TypeOK, Task
    <3> QED BY <3>1, <3>2 DEF Loading, LoadSteps
  <2>4. \A u \in Threads \ {t} : InOrder(u) => InOrder(u)'
    BY <2>2, OthersStay DEF InOrder, InStep, Brand
  <2>5. InStep => InStep'
    BY <2>2 DEF InStep, Brand
  <2> QED BY <1>1, <1>3, <2>3, <2>4, <2>5 DEF Alone, Settled
<1> QED BY <1>2, <1>3

\* An answer leaves the current wallet, the session and the client's owner; the
\* thread it moves was not loading, or has asked and goes on in step.
LEMMA AnswerAlone ==
  ASSUME TypeOK, Routed, Alone, NEW r \in requests, Answer(r)
  PROVE  Alone'
<1>0. overlapped' = overlapped /\ current' = current /\ session' = session /\ client'.own = client.own
  BY DEF Answer, Balance, Data, DataError, Account, Rate, Fail, TypeOK
<1> SUFFICES ASSUME ~overlapped
             PROVE  /\ \A u, v \in Threads : Loading(u)' /\ Loading(v)' => u = v
                    /\ \A u \in Threads : Loading(u)' => InOrder(u)'
                    /\ Settled' => InStep'
  BY <1>0 DEF Alone
<1>1. InStep => InStep'
  BY <1>0 DEF InStep, Brand
<1>2. ASSUME NEW u \in Threads, task'[u] = task[u]
      PROVE  Loading(u)' = Loading(u) /\ (InOrder(u) => InOrder(u)')
  BY <1>0, <1>1, <1>2 DEF Loading, Busy, InOrder, InStep, Brand
<1>3. ASSUME NEW u \in Threads, task'[u] # task[u]
      PROVE  /\ Loading(u)' => Loading(u)
             /\ Loading(u) => InStep
             /\ Loading(u)' => InOrder(u)'
  <2>1. CASE r.kind = "balance"
    <3>1. u = r.via /\ ~Busy(u) /\ task'[u] = [Idle EXCEPT !.at = "balance", !.wallet = r.wallet]
      BY <1>3, <2>1, AnswerMoves
    <3>2. u \notin Loads /\ task'[u].at = "balance"
      BY <2>1, <3>1, LoadsAssumption DEF Routed, Idle
    <3> QED BY <3>1, <3>2 DEF Loading, Busy, LoadSteps
  <2>2. CASE r.kind = "data"
    <3>1. u = r.via /\ task[u].at = "wait"
      BY <1>3, <2>2, AnswerMoves DEF Routed
    <3>2. Loading(u)
      BY <3>1 DEF Loading, LoadSteps, Steps
    <3>3. InStep
      BY <3>1, <3>2 DEF Alone, InOrder
    <3>4. task'[u].at \in {"idle", "wait", "balance"}
      <4>1. task[u] \in Task
        BY DEF TypeOK
      <4>2. task'[u] \in {Idle, [task[u] EXCEPT !.at = "wait"], [task[u] EXCEPT !.at = "balance"]}
        BY <2>2, <3>1, AnswerMoves
      <4> QED BY <4>1, <4>2, IdleOK DEF Task
    <3> QED BY <1>1, <3>2, <3>3, <3>4 DEF InOrder
  <2> QED BY <1>3, <2>1, <2>2, AnswerMoves
<1>4. \A u \in Threads : (Loading(u)' => Loading(u)) /\ (Loading(u)' => InOrder(u)')
  BY <1>2, <1>3 DEF Alone
<1>5. Settled' => InStep'
  <2>1. CASE Settled
    BY <1>1, <2>1 DEF Alone
  <2>2. CASE ~Settled
    BY <1>1, <1>2, <1>3, <2>2 DEF Settled
  <2> QED BY <2>1, <2>2
<1> QED BY <1>4, <1>5 DEF Alone

\* A load that starts beside none is the only one.
LEMMA UserAlone ==
  ASSUME TypeOK, Alone, NEW t \in Threads, ~Busy(t), StartLoad(t)
  PROVE  Alone'
<1>1. \A u \in Threads \ {t} : Loading(u)' = Loading(u)
  BY Started DEF Loading, Busy
<1>2. Loading(t)' /\ InOrder(t)'
  BY Started DEF Loading, LoadSteps, Steps, InOrder
<1>3. ~overlapped' => \A u \in Threads \ {t} : ~Loading(u)
  BY DEF StartLoad
<1> QED BY <1>1, <1>2, <1>3 DEF Alone, Settled

\* A load that overlaps no other stays in order.
LEMMA AloneIsInductive == (Init => Alone) /\ (TypeOK /\ Routed /\ Alone /\ [Next]_vars => Alone')
<1>1. ASSUME Init PROVE Alone
  <2>1. /\ task["main"].at = "count"
        /\ \A t \in Threads \ {"main"} : task[t].at = "idle"
    BY <1>1 DEF Init, Idle, Threads
  <2>2. Loading("main") /\ InOrder("main") /\ "main" \in Threads
    BY <2>1 DEF Loading, LoadSteps, Steps, InOrder, Threads
  <2>3. \A t \in Threads \ {"main"} : ~Loading(t)
    BY <2>1 DEF Loading, Busy, LoadSteps
  <2> QED BY <2>2, <2>3 DEF Alone, Settled
<1>2. ASSUME TypeOK, Routed, Alone, [Next]_vars PROVE Alone'
  <2>1. ASSUME NEW w \in Wallets, Switch(w) PROVE Alone'
    BY <1>2, <2>1, UserAlone DEF Switch, StartLoad, Threads
  <2>2. CASE UNCHANGED <<current, session, client, task, overlapped>>
    BY <1>2, <2>2 DEF Alone, Settled, Loading, Busy, InOrder, InStep, Brand
  <2>3. ASSUME NEW t \in Loads, Appear(t) PROVE Alone'
    BY <1>2, <2>3, UserAlone DEF Appear, Threads
  <2> QED BY <1>2, <2>1, <2>2, <2>3, LoadAlone, AnswerAlone DEF Next, Delete, vars
<1> QED BY <1>1, <1>2

\* A load that no other load overlapped leaves the session, and for Tron the
\* signing client, on the current wallet, in both kinds of build.
THEOREM LoneLoadsSettle == Spec => []LoneLoadSettles
<1>1. Alone => LoneLoadSettles
  BY DEF Alone, LoneLoadSettles, InStep
<1> QED BY <1>1, TypedIsInductive, RoutedIsInductive, AloneIsInductive, PTL DEF Spec

=============================================================================
