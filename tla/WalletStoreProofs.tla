-------------------------- MODULE WalletStoreProofs --------------------------
(* Theorems about WalletStore, for every set of keys and every bound. *)
EXTENDS WalletStore, TLAPS, SequenceTheorems, FiniteSetTheorems,
        WellFoundedInduction

(***************************************************************************)
(* Lemmas on the operators                                                 *)
(***************************************************************************)

\* A non-empty set of ids has a largest one: the queries that take lastObject
\* of the rows they found are well defined.
LEMMA NewestExists ==
  ASSUME NEW n \in Nat, NEW ids, ids \subseteq 1..n, ids # {}
  PROVE  \E i \in ids : \A j \in ids : j <= i
<1> DEFINE Below == {n - i : i \in ids}
           Less  == OpToRel(<, Nat)
<1>1. IsWellFoundedOn(Less, Nat)
  BY NatLessThanWellFounded
<1>2. Below \subseteq Nat /\ Below # {}
  <2>1. \A i \in ids : n - i \in Nat
    <3> HIDE DEF Below, Less
    <3> QED  OBVIOUS
  <2>2. PICK i \in ids : TRUE
    OBVIOUS
  <2>3. n - i \in Below
    BY <2>2
  <2> QED  BY <2>1, <2>3
<1>3. PICK m \in Below : \A k \in Below : ~ (<<k, m>> \in Less)
  <2> HIDE DEF Below, Less
  <2> QED  BY <1>1, <1>2, WFMin
<1>4. \A k \in Below : ~ (k < m)
  <2> SUFFICES ASSUME NEW k \in Below, k < m PROVE FALSE
    OBVIOUS
  <2>1. <<k, m>> \in Less
    BY <1>2, <1>3 DEF OpToRel
  <2> QED  BY <2>1, <1>3
<1>5. PICK i \in ids : m = n - i
  OBVIOUS
<1>6. \A j \in ids : j <= i
  <2> SUFFICES ASSUME NEW j \in ids PROVE j <= i
    OBVIOUS
  <2>1. n - j \in Below
    OBVIOUS
  <2>2. ~ (n - j < n - i)
    BY <2>1, <1>4, <1>5
  <2>3. i \in Int /\ j \in Int /\ n \in Int
    OBVIOUS
  <2> HIDE DEF Below, Less
  <2> QED  BY <2>2, <2>3
<1> QED  BY <1>6

\* lastObject is one of the rows found, or nil (0) when none was.
LEMMA LastOfType ==
  ASSUME NEW n \in Nat, NEW ids, ids \subseteq 1..n
  PROVE  LastOf(ids) \in 0..n
<1>1. CASE ids = {}
  BY <1>1 DEF LastOf
<1>2. CASE ids # {}
  <2>1. \E i \in ids : \A j \in ids : j <= i
    BY <1>2, NewestExists
  <2>2. LastOf(ids) \in ids
    BY <1>2, <2>1 DEF LastOf
  <2>3. LastOf(ids) \in 1..n
    BY <2>2
  <2> HIDE DEF LastOf
  <2> QED  BY <2>3
<1> QED  BY <1>1, <1>2

\* Saving a row keeps the tables typed and moves the autoincrement key on.
LEMMA InsertType ==
  ASSUME TablesOK, NEW row \in Row, InsertRow(row), UNCHANGED <<coins, clients, opId>>
  PROVE  TablesOK' /\ nextId' = nextId + 1
<1>1. nextId \in Nat \ {0} /\ nextId' = nextId + 1
  BY DEF TablesOK, InsertRow
<1>2. DOMAIN wallets' = DOMAIN wallets \cup {nextId}
  BY DEF InsertRow, RowId
<1>3. DOMAIN wallets' \subseteq 1..(nextId' - 1)
  BY <1>1, <1>2 DEF TablesOK
<1>4. \A i \in DOMAIN wallets' : wallets'[i] \in Row
  BY <1>2 DEF TablesOK, InsertRow, RowId
<1>5. 0..(nextId - 1) \subseteq 0..(nextId' - 1)
  BY <1>1
<1>6. /\ DOMAIN coins' \subseteq (0..(nextId' - 1)) \X Coins
      /\ \A p \in DOMAIN coins' : coins'[p] \in MaybeKey
  <2>1. (0..(nextId - 1)) \X Coins \subseteq (0..(nextId' - 1)) \X Coins
    BY <1>5
  <2> QED  BY <2>1 DEF TablesOK
<1>7. clients' \subseteq [own : 0..(nextId' - 1), key : MaybeKey]
  BY <1>5 DEF TablesOK
<1>8. opId' \in 0..(nextId' - 1)
  BY <1>5 DEF TablesOK
<1> QED  BY <1>1, <1>3, <1>4, <1>6, <1>7, <1>8 DEF TablesOK

\* Updating a row by its id adds no row and keeps the tables typed.
LEMMA FillType ==
  ASSUME TablesOK, NEW id, NEW key \in MaybeKey, FillRow(id, key),
         UNCHANGED <<nextId, coins, clients, opId>>
  PROVE  TablesOK'
<1>1. DOMAIN wallets' = DOMAIN wallets
  BY DEF FillRow
<1>2. \A i \in DOMAIN wallets' : wallets'[i] \in Row
  BY <1>1 DEF FillRow, TablesOK, Row
<1> QED  BY <1>1, <1>2 DEF TablesOK

\* creatCoins writes one coin row of an id that was handed out.
LEMMA CoinType ==
  ASSUME TablesOK, NEW id \in 0..(nextId - 1), NEW brand \in Coins, NEW key \in MaybeKey,
         CreatCoins(id, brand, key), UNCHANGED <<wallets, nextId, clients, opId>>
  PROVE  TablesOK'
<1>1. DOMAIN coins' = DOMAIN coins \cup {<<id, brand>>}
  BY DEF CreatCoins
<1>2. DOMAIN coins' \subseteq (0..(nextId' - 1)) \X Coins
  BY <1>1 DEF TablesOK
<1>3. \A p \in DOMAIN coins' : coins'[p] \in MaybeKey
  BY <1>1 DEF CreatCoins, StoredAddress, TablesOK, MaybeKey
<1> QED  BY <1>2, <1>3 DEF TablesOK

\* Taking the next step of the running block keeps the block typed.
LEMMA AdvanceType ==
  ASSUME task \in Task, task.todo # << >>, NEW obj \in Nat, Advance(obj)
  PROVE  task' \in Task /\ task'.obj = obj
<1>1. Tail(task.todo) \in Seq(Step)
  BY HeadTailProperties DEF Task
<1> QED  BY <1>1 DEF Advance, Task

\* The coin of the next step is a coin.
LEMMA NextCoinType ==
  ASSUME task \in Task, task.todo # << >>
  PROVE  NextCoin \in Coins
<1>1. Head(task.todo) \in Step
  BY HeadTailProperties DEF Task
<1> QED  BY <1>1 DEF NextCoin, Step

\* Every block the main thread is given is a sequence of steps.
LEMMA BlocksAreSteps ==
  /\ \A sys \in BOOLEAN : IdentityBlock(sys) \in Seq(Step)
  /\ EthBlock \in Seq(Step)
  /\ TrxBlock \in Seq(Step)
  /\ ResetBlock \in Seq(Step)
  /\ << >> \in Seq(Step)
  /\ \A coin \in Coins, how \in {"whole", "late", "tron"} :
       ImportBlock(coin, how) \in Seq(Step)
<1>1. \A op \in Ops, coin \in Coins : S(op, coin) \in Step
  BY DEF S, Step
<1>2. \A sys \in BOOLEAN : IdentitySaves(sys) \in Seq(Step)
  <2> SUFFICES ASSUME NEW sys \in BOOLEAN PROVE IdentitySaves(sys) \in Seq(Step)
    OBVIOUS
  <2>1. <<S("save", "BTC"), S("save", "ETH"), S("save", "TRX")>> \in Seq(Step)
    BY <1>1 DEF Ops, Coins
  <2>2. (IF sys THEN <<S("save", "ATOM")>> ELSE << >>) \in Seq(Step)
    BY <1>1 DEF Ops, Coins
  <2> QED  BY <2>1, <2>2, ConcatProperties DEF IdentitySaves
<1>3. <<S("find", "BTC"), S("fill", "BTC"), S("coin", "BTC"),
        S("find", "ETH"), S("askEth", "ETH"), S("askTrx", "TRX")>> \in Seq(Step)
  BY <1>1 DEF Ops, Coins
<1>4. \A sys \in BOOLEAN : IdentityBlock(sys) \in Seq(Step)
  BY <1>2, <1>3, ConcatProperties DEF IdentityBlock
<1>5. EthBlock \in Seq(Step) /\ TrxBlock \in Seq(Step)
  BY <1>1 DEF EthBlock, TrxBlock, Ops, Coins
<1>6. ResetBlock \in Seq(Step)
  BY <1>1 DEF ResetBlock, Ops, Coins
<1>7. \A coin \in Coins, how \in {"whole", "late", "tron"} :
        ImportBlock(coin, how) \in Seq(Step)
  <2> SUFFICES ASSUME NEW coin \in Coins, NEW how \in {"whole", "late", "tron"}
               PROVE  ImportBlock(coin, how) \in Seq(Step)
    OBVIOUS
  <2>1. CASE how = "whole"
    BY <1>1, <2>1 DEF ImportBlock, WholeImport, Ops
  <2>2. CASE how = "late"
    BY <1>1, <2>2 DEF ImportBlock, LateImport, Ops
  <2>3. CASE how = "tron"
    BY <1>1, <2>3 DEF ImportBlock, TronImport, Ops
  <2> QED  BY <2>1, <2>2, <2>3
<1> QED  BY <1>4, <1>5, <1>6, <1>7

\* The values the main thread and the page rest at are typed.
LEMMA RestType ==
  /\ Idle \in Task /\ Idle.obj = 0 /\ Idle.todo = << >>
  /\ [Idle EXCEPT !.todo = ResetBlock] \in Task
  /\ [Idle EXCEPT !.todo = ResetBlock].obj = 0
  /\ NoPage \in Page
<1>1. << >> \in Seq(Step) /\ ResetBlock \in Seq(Step)
  BY BlocksAreSteps
<1>2. NoKey \in MaybeKey
  BY DEF MaybeKey
<1>3. Idle \in Task /\ Idle.obj = 0 /\ Idle.todo = << >>
  BY <1>1, <1>2 DEF Idle, Task
<1>4. /\ [Idle EXCEPT !.todo = ResetBlock] \in Task
      /\ [Idle EXCEPT !.todo = ResetBlock].obj = 0
  BY <1>1, <1>2 DEF Idle, Task
<1>5. NoPage \in Page
  BY DEF NoPage, Page
<1> QED  BY <1>3, <1>4, <1>5

(***************************************************************************)
(* Type correctness                                                        *)
(***************************************************************************)

\* Every reachable state is typed, and no table, page or block names an id the
\* autoincrement key has not handed out: the invariant TypeOK of the runs.
THEOREM TypeCorrect == Spec => []TypeOK
<1>1. Init => TypeOK
  <2> SUFFICES ASSUME Init PROVE TablesOK /\ MemoryOK
    BY DEF TypeOK
  <2>1. TablesOK
    BY DEF Init, TablesOK
  <2>2. << >> \in Seq(Timer)
    OBVIOUS
  <2>3. task \in Task /\ task.obj < nextId /\ page \in Page
    <3>1. task = Idle /\ page = NoPage /\ nextId = 1
      BY DEF Init
    <3> QED  BY <3>1, RestType
  <2>4. MemoryOK
    BY <2>2, <2>3 DEF Init, MemoryOK
  <2> QED  BY <2>1, <2>4
<1>2. TypeOK /\ [Next]_vars => TypeOK'
  <2> SUFFICES ASSUME TypeOK, [Next]_vars PROVE TypeOK'
    OBVIOUS
  <2> USE DEF TypeOK
  <2>0. nextId \in Nat /\ nextId >= 1 /\ task.obj \in Nat
    BY DEF TablesOK, MemoryOK, Task
  <2>1. CASE SaveIdentityRow
    <3>1. task.todo # << >>
      BY <2>1 DEF SaveIdentityRow, Doing
    <3>2. [coin |-> NextCoin, name |-> NoName, key |-> NoKey,
           sys |-> task.sys, enc |-> FALSE] \in Row
      BY <3>1, NextCoinType DEF MemoryOK, Task, Row, MaybeKey, NoName
    <3>3. TablesOK' /\ nextId' = nextId + 1
      BY <2>1, <3>2, InsertType DEF SaveIdentityRow
    <3>4. task' \in Task /\ task'.obj = task.obj
      BY <2>0, <2>1, <3>1, AdvanceType DEF SaveIdentityRow, MemoryOK
    <3>5. MemoryOK'
      BY <2>0, <2>1, <3>3, <3>4 DEF SaveIdentityRow, MemoryOK, Blocks
    <3> QED  BY <3>3, <3>5
  <2>2. CASE FindIdentityRow
    <3>1. task.todo # << >>
      BY <2>2 DEF FindIdentityRow, Doing
    <3>2. RowsOf(NextCoin) \subseteq 1..(nextId - 1) /\ nextId - 1 \in Nat
      BY <2>0 DEF RowsOf, TablesOK
    <3>3. LastOf(RowsOf(NextCoin)) \in 0..(nextId - 1)
      BY <3>2, LastOfType
    <3>4. task' \in Task /\ task'.obj < nextId
      <4>1. LastOf(RowsOf(NextCoin)) \in Nat /\ LastOf(RowsOf(NextCoin)) < nextId
        BY <2>0, <3>3
      <4>2. task \in Task
        BY DEF MemoryOK
      <4> QED  BY <2>2, <3>1, <4>1, <4>2, AdvanceType DEF FindIdentityRow
    <3>5. TablesOK'
      BY <2>2 DEF FindIdentityRow, TablesOK
    <3>6. MemoryOK'
      BY <2>2, <3>4 DEF FindIdentityRow, MemoryOK
    <3> QED  BY <3>5, <3>6
  <2>3. CASE SaveImportRow
    <3>1. task.todo # << >>
      BY <2>3 DEF SaveImportRow, Doing
    <3>2. ImportName(NextCoin) \in Int
      <4>1. RowsOf(NextCoin) \subseteq 1..(nextId - 1)
        BY DEF RowsOf, TablesOK
      <4>2. IsFiniteSet(1..(nextId - 1))
        BY <2>0, FS_Interval
      <4>3. IsFiniteSet(RowsOf(NextCoin))
        BY <4>1, <4>2, FS_Subset
      <4> QED  BY <4>3, FS_CardinalityType DEF ImportName
    <3>3. [coin |-> NextCoin, name |-> ImportName(NextCoin),
           key |-> IF Doing("import") THEN task.key ELSE NoKey,
           sys |-> FALSE, enc |-> TRUE] \in Row
      BY <3>1, <3>2, NextCoinType DEF MemoryOK, Task, Row, MaybeKey
    <3>4. TablesOK' /\ nextId' = nextId + 1
      BY <2>3, <3>3, InsertType DEF SaveImportRow
    <3>5. FoundByName(ImportName(NextCoin)) \in 0..nextId
      <4>1. DOMAIN wallets' \subseteq 1..nextId
        BY <2>0, <3>4 DEF TablesOK
      <4>2. NamedRows(ImportName(NextCoin)) \subseteq 1..nextId
        BY <4>1 DEF NamedRows
      <4> QED  BY <2>0, <4>2, LastOfType DEF FoundByName
    <3>6. task' \in Task /\ task'.obj < nextId'
      <4>1. FoundByName(ImportName(NextCoin)) \in Nat
            /\ FoundByName(ImportName(NextCoin)) < nextId'
        BY <2>0, <3>4, <3>5
      <4>2. task \in Task
        BY DEF MemoryOK
      <4>3. task' \in Task /\ task'.obj = FoundByName(ImportName(NextCoin))
        BY <2>3, <3>1, <4>1, <4>2, AdvanceType DEF SaveImportRow
      <4> QED  BY <4>1, <4>3
    <3>7. MemoryOK'
      BY <2>0, <2>3, <3>4, <3>6 DEF SaveImportRow, MemoryOK, Blocks
    <3> QED  BY <3>4, <3>7
  <2>4. CASE UpdateRow
    <3>1. task.todo # << >>
      BY <2>4 DEF UpdateRow, Doing
    <3>2. task.key \in MaybeKey /\ task \in Task
      BY DEF MemoryOK, Task
    <3>3. TablesOK'
      BY <2>4, <3>2, FillType DEF UpdateRow
    <3>4. task' \in Task /\ task'.obj = task.obj
      BY <2>0, <2>4, <3>1, <3>2, AdvanceType DEF UpdateRow
    <3>5. MemoryOK'
      BY <2>4, <3>4 DEF UpdateRow, MemoryOK
    <3> QED  BY <3>3, <3>5
  <2>5. CASE SaveCoin
    <3>1. task.todo # << >>
      BY <2>5 DEF SaveCoin, Doing
    <3>2. task.key \in MaybeKey /\ task \in Task /\ NoKey \in MaybeKey
      BY DEF MemoryOK, Task, MaybeKey
    <3>3. NextCoin \in Coins
      BY <3>1, <3>2, NextCoinType
    <3>4. task.obj \in 0..(nextId - 1)
      BY <2>0 DEF MemoryOK
    <3>5. TablesOK'
      BY <2>5, <3>2, <3>3, <3>4, CoinType DEF SaveCoin
    <3>6. task' \in Task /\ task'.obj = task.obj
      BY <2>0, <2>5, <3>1, <3>2, AdvanceType DEF SaveCoin
    <3>7. MemoryOK'
      BY <2>5, <3>6 DEF SaveCoin, MemoryOK
    <3> QED  BY <3>5, <3>7
  <2>6. CASE SaveClient
    <3>1. task.todo # << >>
      BY <2>6 DEF SaveClient, Doing
    <3>2. task.key \in MaybeKey /\ task \in Task /\ task.obj \in 0..(nextId - 1)
      BY <2>0 DEF MemoryOK, Task
    <3>3. TablesOK'
      BY <2>6, <3>2 DEF SaveClient, TablesOK
    <3>4. task' \in Task /\ task'.obj = task.obj
      BY <2>0, <2>6, <3>1, <3>2, AdvanceType DEF SaveClient
    <3>5. MemoryOK'
      BY <2>6, <3>4 DEF SaveClient, MemoryOK
    <3> QED  BY <3>3, <3>5
  <2>7. CASE QueueBlock
    <3>1. task.todo # << >> /\ task \in Task
      BY <2>7 DEF QueueBlock, Doing, MemoryOK
    <3>2. task' \in Task /\ task'.obj = task.obj
      BY <2>0, <2>7, <3>1, AdvanceType DEF QueueBlock
    <3>3. queued' \subseteq Blocks /\ \A b \in queued' : b.obj < nextId
      <4>1. task.key \in MaybeKey /\ NoKey \in MaybeKey /\ task.obj < nextId
        BY DEF MemoryOK, Task, MaybeKey
      <4> QED  BY <2>0, <2>7, <4>1 DEF QueueBlock, MemoryOK, Blocks, Coins
    <3>4. TablesOK'
      BY <2>7 DEF QueueBlock, TablesOK
    <3>5. MemoryOK'
      BY <2>7, <3>2, <3>3 DEF QueueBlock, MemoryOK
    <3> QED  BY <3>4, <3>5
  <2>8. CASE EnterMain
    <3>1. task.todo # << >> /\ task \in Task
      BY <2>8 DEF EnterMain, Doing, MemoryOK
    <3>2. task' \in Task /\ task'.obj = task.obj
      BY <2>0, <2>8, <3>1, AdvanceType DEF EnterMain
    <3> QED  BY <2>8, <3>2 DEF EnterMain, TablesOK, MemoryOK, NoPage, Page
  <2>9. CASE ClearTable
    <3>1. task.todo # << >> /\ task \in Task
      BY <2>9 DEF ClearTable, Doing, MemoryOK
    <3>2. task' \in Task /\ task'.obj = task.obj
      BY <2>0, <2>9, <3>1, AdvanceType DEF ClearTable
    <3>3. TablesOK'
      BY <2>9 DEF ClearTable, TablesOK
    <3>4. MemoryOK'
      BY <2>9, <3>2 DEF ClearTable, MemoryOK
    <3> QED  BY <3>3, <3>4
  <2>10. CASE ResetRoot
    <3>1. task.todo # << >> /\ task \in Task
      BY <2>10 DEF ResetRoot, Doing, MemoryOK
    <3>2. task' \in Task /\ task'.obj = task.obj
      BY <2>0, <2>10, <3>1, AdvanceType DEF ResetRoot
    <3> QED  BY <2>10, <3>2 DEF ResetRoot, RootScreen, TablesOK, MemoryOK, NoPage, Page
  <2>11. CASE \E b \in queued : RunBlock(b)
    <3>1. PICK b \in queued : RunBlock(b)
      BY <2>11
    <3>2. b \in Blocks /\ b.obj < nextId
      BY DEF MemoryOK
    <3>3. BlockSteps(b) \in Seq(Step)
      BY <3>2, BlocksAreSteps DEF BlockSteps, Blocks
    <3>4. task' \in Task /\ task'.obj < nextId
      BY <3>1, <3>2, <3>3 DEF RunBlock, Task, Blocks
    <3> QED  BY <3>1, <3>4 DEF RunBlock, TablesOK, MemoryOK
  <2>12. CASE FireDelete
    <3>1. TablesOK'
      BY <2>12 DEF FireDelete, TablesOK
    <3>2. delayed' \in Seq(Timer)
      BY <2>12, HeadTailProperties DEF FireDelete, MemoryOK
    <3>3. page' \in {page, NoPage}
      BY <2>12 DEF FireDelete, LeavesPage
    <3>4. page' \in Page
      <4>1. NoPage \in Page
        BY DEF NoPage, Page
      <4>2. page \in Page
        BY DEF MemoryOK
      <4> QED  BY <3>3, <4>1, <4>2
    <3> QED  BY <2>12, <3>1, <3>2, <3>4 DEF FireDelete, MemoryOK
  <2>13. CASE FireExit
    <3>1. delayed' \in Seq(Timer)
      BY <2>13, HeadTailProperties DEF FireExit, MemoryOK
    <3>2. task' \in Task /\ task'.obj < nextId
      <4>1. task' = [Idle EXCEPT !.todo = ResetBlock] \/ task' = task
        BY <2>13 DEF FireExit
      <4>2. task \in Task /\ task.obj < nextId
        BY DEF MemoryOK
      <4>3. CASE task' = [Idle EXCEPT !.todo = ResetBlock]
        <5> HIDE DEF TypeOK
        <5> QED  BY <2>0, <4>3, RestType
      <4> QED  BY <4>1, <4>2, <4>3
    <3> QED  BY <2>13, <3>1, <3>2 DEF FireExit, TablesOK, MemoryOK
  <2>14. CASE \E key \in Keys, sys \in BOOLEAN : StartIdentity(key, sys)
    <3>1. PICK key \in Keys, sys \in BOOLEAN : StartIdentity(key, sys)
      BY <2>14
    <3>2. task' \in Task /\ task'.obj < nextId
      BY <2>0, <3>1, BlocksAreSteps DEF StartIdentity, Task, MaybeKey
    <3> QED  BY <3>1, <3>2 DEF StartIdentity, TablesOK, MemoryOK
  <2>15. CASE \E imp \in Imports, key \in Keys : StartImport(imp, key)
    <3>1. PICK imp \in Imports, key \in Keys : StartImport(imp, key)
      BY <2>15
    <3>2. imp.coin \in Coins /\ imp.how \in {"whole", "late", "tron"}
      BY ImportsAssumption DEF ImportKinds, Coins
    <3>3. ImportBlock(imp.coin, imp.how) \in Seq(Step)
      BY <3>2, BlocksAreSteps
    <3>4. task' \in Task /\ task'.obj < nextId
      <4>1. CASE imp.coin \in Answered
        BY <3>1, <4>1 DEF StartImport, MemoryOK
      <4>2. CASE imp.coin \notin Answered
        <5>1. task' = [todo |-> ImportBlock(imp.coin, imp.how), obj |-> 0,
                       key |-> key, sys |-> FALSE]
          BY <3>1, <4>2 DEF StartImport
        <5> QED  BY <2>0, <3>1, <3>3, <5>1 DEF Task, MaybeKey
      <4> QED  BY <4>1, <4>2
    <3>5. queued' \subseteq Blocks /\ \A b \in queued' : b.obj < nextId
      BY <2>0, <3>1, <3>2 DEF StartImport, MemoryOK, Blocks, MaybeKey, Coins
    <3> QED  BY <3>1, <3>4, <3>5 DEF StartImport, TablesOK, MemoryOK
  <2>16. CASE \E id \in 1..(nextId - 1) : OpenDetail(id)
    <3>1. PICK id \in 1..(nextId - 1) : OpenDetail(id)
      BY <2>16
    <3>2. Snapshot("detail", id) \in Page
      BY <2>0 DEF Snapshot, Page, TablesOK, Row
    <3> QED  BY <2>0, <3>1, <3>2 DEF OpenDetail, TablesOK, MemoryOK
  <2>17. CASE OpenMyId
    <3>1. SystemRows \subseteq 1..(nextId - 1) /\ nextId - 1 \in Nat
      BY <2>0 DEF SystemRows, RowsOf, TablesOK
    <3>2. LastOf(SystemRows) \in 0..(nextId - 1)
      BY <3>1, LastOfType
    <3>3. Snapshot("myId", LastOf(SystemRows)) \in Page
      BY <2>0, <3>2 DEF Snapshot, Page, TablesOK, Row
    <3> QED  BY <2>17, <3>3 DEF OpenMyId, TablesOK, MemoryOK
  <2>18. CASE ClosePage
    BY <2>18 DEF ClosePage, TablesOK, MemoryOK, NoPage, Page
  <2>19. CASE ConfirmDelete
    <3>1. [kind |-> "delete", id |-> page.id, right |-> TRUE, enc |-> TRUE] \in Timer
      BY DEF MemoryOK, Page, Timer
    <3>2. delayed' \in Seq(Timer)
      BY <2>19, <3>1, AppendProperties DEF ConfirmDelete, MemoryOK
    <3> QED  BY <2>19, <3>2 DEF ConfirmDelete, TablesOK, MemoryOK
  <2>20. CASE \E right \in BOOLEAN : ConfirmExit(right)
    <3>1. PICK right \in BOOLEAN : ConfirmExit(right)
      BY <2>20
    <3>2. [kind |-> "exit", id |-> page.id, right |-> right, enc |-> page.enc] \in Timer
      BY DEF MemoryOK, Page, Timer
    <3>3. delayed' \in Seq(Timer)
      BY <3>1, <3>2, AppendProperties DEF ConfirmExit, MemoryOK
    <3> QED  BY <3>1, <3>3 DEF ConfirmExit, TablesOK, MemoryOK
  <2>21. CASE Launch
    BY <2>21 DEF Launch, RootScreen, TablesOK, MemoryOK
  <2>22. CASE Kill
    <3>1. TablesOK'
      BY <2>22 DEF Kill, persistent, TablesOK
    <3>2. << >> \in Seq(Timer)
      OBVIOUS
    <3>3. task' \in Task /\ task'.obj < nextId' /\ page' \in Page
      <4>1. task' = Idle /\ page' = NoPage /\ nextId' = nextId
        BY <2>22 DEF Kill, persistent
      <4> QED  BY <2>0, <4>1, RestType
    <3>4. MemoryOK'
      BY <2>22, <3>2, <3>3 DEF Kill, MemoryOK
    <3> QED  BY <3>1, <3>4
  <2>23. CASE \E b \in queued : EndImport(b)
    <3>1. PICK b \in queued : EndImport(b)
      BY <2>23
    <3>2. page' \in Page
      BY <3>1, RestType DEF EndImport, MemoryOK
    <3>3. TablesOK'
      BY <3>1 DEF EndImport, TablesOK
    <3> QED  BY <3>1, <3>2, <3>3 DEF EndImport, MemoryOK
  <2>24. CASE UNCHANGED vars
    BY <2>24 DEF vars, TablesOK, MemoryOK
  <2> QED  BY <2>1, <2>2, <2>3, <2>4, <2>5, <2>6, <2>7, <2>8, <2>9, <2>10, <2>11,
              <2>12, <2>13, <2>14, <2>15, <2>16, <2>17, <2>18, <2>19, <2>20, <2>21,
              <2>22, <2>23, <2>24
           DEF Next, MainThread, User
<1> QED  BY <1>1, <1>2, PTL DEF Spec

(***************************************************************************)
(* Freshness of ids                                                        *)
(***************************************************************************)

\* The only id that can join the table is the one the autoincrement key gives.
LEMMA OnlyTheNextIdJoins ==
  ASSUME TypeOK, [Next]_vars
  PROVE  \A i \in DOMAIN wallets' \ DOMAIN wallets : i = nextId
<1>1. CASE SaveIdentityRow
  BY <1>1 DEF SaveIdentityRow, InsertRow, RowId
<1>2. CASE SaveImportRow
  BY <1>2 DEF SaveImportRow, InsertRow, RowId
<1>3. CASE UpdateRow
  BY <1>3 DEF UpdateRow, FillRow
<1>4. CASE ClearTable
  BY <1>4 DEF ClearTable
<1>5. CASE FireDelete
  BY <1>5 DEF FireDelete
<1>6. CASE FindIdentityRow \/ SaveCoin \/ SaveClient \/ QueueBlock \/ EnterMain \/ ResetRoot
           \/ FireExit \/ Launch \/ Kill \/ UNCHANGED vars
           \/ (\E b \in queued : RunBlock(b)) \/ (\E b \in queued : EndImport(b))
  BY <1>6 DEF FindIdentityRow, SaveCoin, SaveClient, QueueBlock, EnterMain, ResetRoot,
              FireExit, Launch, Kill, persistent, RunBlock, EndImport, vars
<1>7. CASE User
  BY <1>7 DEF User, StartIdentity, StartImport, OpenDetail, OpenMyId, ClosePage,
              ConfirmDelete, ConfirmExit
<1> QED  BY <1>1, <1>2, <1>3, <1>4, <1>5, <1>6, <1>7 DEF Next, MainThread

\* A wallet that joins the table finds no coin and no client of its id, however
\* many orphans deletions, resets and kills left: the property of the runs.
THEOREM NewWalletsAreFresh == Spec => NewWalletsStartEmpty
<1> DEFINE Fresh == \A i \in DOMAIN wallets' \ DOMAIN wallets :
                      /\ \A p \in DOMAIN coins : p[1] # i
                      /\ \A c \in clients : c.own # i
<1>1. TypeOK /\ [Next]_vars => [Fresh]_vars
  <2> SUFFICES ASSUME TypeOK, [Next]_vars,
                      NEW i \in DOMAIN wallets' \ DOMAIN wallets
               PROVE  /\ \A p \in DOMAIN coins : p[1] # i
                      /\ \A c \in clients : c.own # i
    OBVIOUS
  <2>1. i = nextId /\ nextId \in Nat
    BY OnlyTheNextIdJoins DEF TypeOK, TablesOK
  <2>2. \A p \in DOMAIN coins : p[1] # i
    <3>1. \A p \in DOMAIN coins : p[1] \in 0..(nextId - 1)
      BY DEF TypeOK, TablesOK
    <3> QED  BY <2>1, <3>1
  <2>3. \A c \in clients : c.own # i
    <3>1. \A c \in clients : c.own \in 0..(nextId - 1)
      BY DEF TypeOK, TablesOK
    <3> QED  BY <2>1, <3>1
  <2> QED  BY <2>2, <2>3
<1> QED  BY <1>1, TypeCorrect, PTL DEF Spec, NewWalletsStartEmpty

=============================================================================
