----------------------------- MODULE WalletStore -----------------------------
(***************************************************************************)
(* The persistent store of the wallet application and the screens that     *)
(* write it: creating or recovering an identity (SCAffirmBackupController, *)
(* SCRecoverIDController, CreateWalletTool), importing a wallet (the       *)
(* controllers under ImportWallet), deleting one (the detail controllers   *)
(* and SCRootTool), leaving the identity (SCMyIDController, AppDelegate    *)
(* reset) and the process being killed and launched again.                 *)
(*                                                                         *)
(* Every table write commits by itself, so the process can be killed       *)
(* between any two of them.  The main thread runs one block at a time: a   *)
(* block is the sequence task.todo of the writes it still has to make, the *)
(* blocks waiting in the main queue are in "queued", and the dispatch_after*)
(* blocks of two seconds, which fire in the order they were started, are   *)
(* the sequence "delayed".  A write that is made succeeds.                 *)
(*                                                                         *)
(* The definitions no action uses (TrxBlockRowFirst, RowIdReused, ...) are *)
(* faulty variants of the definition that follows them: with one in its    *)
(* place a property fails.                                                 *)
(***************************************************************************)
EXTENDS Integers, Sequences, FiniteSets

CONSTANTS Keys,        \* recovery phrases and private keys, named by their address
          NoKey,       \* the address of a row that has none yet
          Imports,     \* the import screens in use, a subset of ImportKinds
          MaxRows,     \* bound: wallet rows ever saved
          MaxDelayed,  \* bound: two-second blocks started and not yet fired
          MaxQueued    \* bound: blocks waiting in the main queue

Coins == {"BTC", "ETH", "TRX", "ATOM", "EOS", "IOST"}

\* "whole": the row is saved with its address; "late": the address is written
\* by a second update; "tron": the signing client and the coin come first.
ImportKinds == { [coin |-> "BTC",  how |-> "late"],  [coin |-> "ETH", how |-> "whole"],
                 [coin |-> "ETH",  how |-> "late"],  [coin |-> "TRX", how |-> "tron"],
                 [coin |-> "EOS",  how |-> "whole"], [coin |-> "IOST", how |-> "whole"],
                 [coin |-> "ATOM", how |-> "whole"] }

ASSUME BoundsAssumption == /\ MaxRows \in Nat
                           /\ MaxDelayed \in Nat
                           /\ MaxQueued \in Nat
ASSUME NoKeyAssumption == NoKey \notin Keys
ASSUME ImportsAssumption == Imports \subseteq ImportKinds

NoName == -1       \* any name an import does not generate

VARIABLES
  wallets,    \* table walletModel: bg_id -> row
  nextId,     \* the next bg_id SQLite hands out
  coins,      \* table coinModel: <<own_id, brand>> -> address
  clients,    \* table TWWalletAccountClient
  opId,       \* default CurrentOperationWalletID, 0 when never set
  screen,     \* "off" (not running), "enter" or "main"
  page,       \* the page pushed over the main screen, with the row it loaded
  task,       \* the block the main thread is running
  queued,     \* blocks waiting in the main queue
  delayed,    \* two-second blocks waiting, oldest first
  hud,        \* the progress HUD is on screen
  masked      \* the HUD blocks touches (mask type Clear, for this process)

persistent == <<wallets, nextId, coins, clients, opId>>
volatile   == <<screen, page, task, queued, delayed, hud, masked>>
vars       == <<wallets, nextId, coins, clients, opId,
                screen, page, task, queued, delayed, hud, masked>>

-----------------------------------------------------------------------------
(* Data *)

MaybeKey == Keys \cup {NoKey}

Row == [coin : Coins, name : Int, key : MaybeKey, sys : BOOLEAN, enc : BOOLEAN]

Ops == {"save", "find", "fill", "coin", "bareCoin", "client", "askEth", "askTrx",
        "enterMain", "import", "importBare", "timer",
        "clearWallets", "clearClients", "clearCoins", "root"}

Step == [op : Ops, coin : Coins]
Task == [todo : Seq(Step), obj : Nat, key : MaybeKey, sys : BOOLEAN]

Blocks == [kind : {"eth", "trx", "import", "imported"}, obj : Nat,
           key : MaybeKey, coin : Coins, how : {"whole", "late", "tron"}]

Timer == [kind : {"delete", "exit"}, id : Nat, right : BOOLEAN, enc : BOOLEAN]

Page == [kind : {"none", "detail", "myId"}, id : Nat, sys : BOOLEAN, enc : BOOLEAN]

NoPage == [kind |-> "none", id |-> 0, sys |-> FALSE, enc |-> FALSE]
Idle   == [todo |-> << >>, obj |-> 0, key |-> NoKey, sys |-> FALSE]

S(op, coin) == [op |-> op, coin |-> coin]

-----------------------------------------------------------------------------
(* The blocks of the main thread, as the writes they make in order *)

\* creatFmdb: the rows an identity is given, before any is filled.
IdentitySaves(sys) ==
  <<S("save", "BTC"), S("save", "ETH"), S("save", "TRX")>>
    \o (IF sys THEN <<S("save", "ATOM")>> ELSE << >>)

\* createAllWallet: save the rows, fill the BTC one, start the ETH key
\* derivation and queue the TRX block.
IdentityBlock(sys) ==
  IdentitySaves(sys) \o <<S("find", "BTC"), S("fill", "BTC"), S("coin", "BTC"),
                          S("find", "ETH"), S("askEth", "ETH"), S("askTrx", "TRX")>>

EthBlockWithoutCallback == <<S("coin", "ETH"), S("fill", "ETH")>>   \* faulty

\* The callback of creatETHWallet: coin, then row, then the main screen.  Writes
\* are taken to succeed: a row that could not be updated ends in a toast instead.
EthBlock == <<S("coin", "ETH"), S("fill", "ETH"), S("enterMain", "ETH")>>

TrxBlockRowFirst == <<S("find", "TRX"), S("fill", "TRX"), S("client", "TRX"), S("bareCoin", "TRX")>>   \* faulty

\* createTRXWallet: client, then a coin without address, then the row.
TrxBlock == <<S("find", "TRX"), S("client", "TRX"), S("bareCoin", "TRX"), S("fill", "TRX")>>

\* The imports by the order of their writes: the row with its address; the row
\* first and its address after; the row, the client, a bare coin, the address.
WholeImport(coin) == <<S("import", coin), S("coin", coin), S("timer", coin)>>
LateImport(coin)  == <<S("importBare", coin), S("fill", coin), S("coin", coin), S("timer", coin)>>
TronImport(coin)  == <<S("importBare", coin), S("client", coin), S("bareCoin", coin),
                       S("fill", coin), S("timer", coin)>>

ImportBlock(coin, how) == CASE how = "whole" -> WholeImport(coin)
                            [] how = "late"  -> LateImport(coin)
                            [] how = "tron"  -> TronImport(coin)

ResetBlockKeepingCoins == <<S("clearWallets", "BTC"), S("clearClients", "BTC"), S("root", "BTC")>>   \* faulty

\* reset: the tables one after the other, then the root controller.
ResetBlock == <<S("clearWallets", "BTC"), S("clearClients", "BTC"),
                S("clearCoins", "BTC"), S("root", "BTC")>>

-----------------------------------------------------------------------------
(* The tables *)

\* lastObject of a query: the newest of the rows, 0 (nil) when there is none.
LastOf(ids) == IF ids = {} THEN 0
               ELSE CHOOSE i \in ids : \A j \in ids : j <= i

RowIdReused == LastOf(DOMAIN wallets) + 1   \* faulty: a key without autoincrement
RowIdAhead  == nextId + 1                   \* faulty

\* "integer primary key autoincrement": an id is never handed out twice.
RowId == nextId

InsertRow(row) ==
  /\ wallets' = [i \in DOMAIN wallets \cup {RowId} |->
                   IF i = RowId THEN row ELSE wallets[i]]
  /\ nextId' = nextId + 1

RowsOf(coin) == {i \in DOMAIN wallets : wallets[i].coin = coin}

FillRowsOfCoin(id, key) ==   \* faulty: "where ID =" instead of "where bg_id ="
  wallets' = [i \in DOMAIN wallets |->
                IF id \in DOMAIN wallets /\ wallets[i].coin = wallets[id].coin
                  THEN [wallets[i] EXCEPT !.key = key, !.enc = TRUE]
                  ELSE wallets[i]]

\* bg_updateWhere bg_id = obj: no row changes when there is none.
FillRow(id, key) ==
  wallets' = [i \in DOMAIN wallets |->
                IF i = id THEN [wallets[i] EXCEPT !.key = key, !.enc = TRUE]
                          ELSE wallets[i]]

StoredAddress(p) == IF p \in DOMAIN coins THEN coins[p] ELSE NoKey

CreatCoinsByBrand(id, brand, key) ==   \* faulty: without "and own_id ="
  coins' = [p \in DOMAIN coins \cup {<<id, brand>>} |->
              IF p[2] = brand /\ key # NoKey THEN key ELSE StoredAddress(p)]

\* A coin written without address: bg_save and bg_updateWhere leave a nil
\* property out, so an address already there stays.
CreatCoins(id, brand, key) ==
  coins' = [p \in DOMAIN coins \cup {<<id, brand>>} |->
              IF p = <<id, brand>> /\ key # NoKey THEN key ELSE StoredAddress(p)]

-----------------------------------------------------------------------------
(* Launch and kill *)

Init ==
  /\ wallets = [i \in {} |-> {}]
  /\ nextId = 1
  /\ coins = [p \in {} |-> {}]
  /\ clients = {}
  /\ opId = 0
  /\ screen = "off"
  /\ page = NoPage
  /\ task = Idle
  /\ queued = {}
  /\ delayed = << >>
  /\ hud = FALSE
  /\ masked = FALSE

\* chooseRootController
RootScreen(rows) == IF rows = {} THEN "enter" ELSE "main"

Launch ==
  /\ screen = "off"
  /\ screen' = RootScreen(DOMAIN wallets)
  /\ UNCHANGED <<wallets, nextId, coins, clients, opId, page, task, queued, delayed, hud, masked>>

\* The user or the system ends the process: only tables and defaults remain.
Kill ==
  /\ screen # "off"
  /\ screen' = "off"
  /\ page' = NoPage
  /\ task' = Idle
  /\ queued' = {}
  /\ delayed' = << >>
  /\ hud' = FALSE
  /\ masked' = FALSE
  /\ UNCHANGED persistent

-----------------------------------------------------------------------------
(* The writes of the running block *)

Doing(op) == task.todo # << >> /\ Head(task.todo).op = op
NextCoin  == Head(task.todo).coin
Advance(obj) == task' = [task EXCEPT !.todo = Tail(@), !.obj = obj]

SaveIdentityRow ==
  /\ Doing("save")
  /\ InsertRow([coin |-> NextCoin, name |-> NoName, key |-> NoKey,
                sys |-> task.sys, enc |-> FALSE])
  /\ Advance(task.obj)
  /\ UNCHANGED <<coins, clients, opId, screen, page, queued, delayed, hud, masked>>

\* CreateWalletTool: the last row with this coin's ID.
FindIdentityRow ==
  /\ Doing("find")
  /\ Advance(LastOf(RowsOf(NextCoin)))
  /\ UNCHANGED <<wallets, nextId, coins, clients, opId, screen, page, queued, delayed, hud, masked>>

\* An import saves its row under a counted name and finds it by that name.
ImportName(coin) == Cardinality(RowsOf(coin))

NamedRows(name) == {i \in DOMAIN wallets' : wallets'[i].coin = NextCoin /\ wallets'[i].name = name}

FirstByName(name) == CHOOSE i \in NamedRows(name) : \A j \in NamedRows(name) : i <= j   \* faulty

FoundByName(name) == LastOf(NamedRows(name))

SaveImportRow ==
  /\ Doing("import") \/ Doing("importBare")
  /\ InsertRow([coin |-> NextCoin, name |-> ImportName(NextCoin),
                key |-> IF Doing("import") THEN task.key ELSE NoKey,
                sys |-> FALSE, enc |-> TRUE])
  /\ Advance(FoundByName(ImportName(NextCoin)))
  /\ UNCHANGED <<coins, clients, opId, screen, page, queued, delayed, hud, masked>>

UpdateRow ==
  /\ Doing("fill")
  /\ FillRow(task.obj, task.key)
  /\ Advance(task.obj)
  /\ UNCHANGED <<nextId, coins, clients, opId, screen, page, queued, delayed, hud, masked>>

SaveCoin ==
  /\ Doing("coin") \/ Doing("bareCoin")
  /\ CreatCoins(task.obj, NextCoin, IF Doing("coin") THEN task.key ELSE NoKey)
  /\ Advance(task.obj)
  /\ UNCHANGED <<wallets, nextId, clients, opId, screen, page, queued, delayed, hud, masked>>

SaveClient ==
  /\ Doing("client")
  /\ clients' = clients \cup {[own |-> task.obj, key |-> task.key]}
  /\ Advance(task.obj)
  /\ UNCHANGED <<wallets, nextId, coins, opId, screen, page, queued, delayed, hud, masked>>

\* The ETH callback keeps the row found here; the TRX block finds its own.
QueueBlock ==
  /\ \/ /\ Doing("askEth")
        /\ queued' = queued \cup {[kind |-> "eth", obj |-> task.obj, key |-> task.key,
                                   coin |-> "ETH", how |-> "late"]}
     \/ /\ Doing("askTrx")
        /\ queued' = queued \cup {[kind |-> "trx", obj |-> 0, key |-> task.key,
                                   coin |-> "TRX", how |-> "tron"]}
     \/ /\ Doing("timer")
        /\ queued' = queued \cup {[kind |-> "imported", obj |-> 0, key |-> NoKey,
                                   coin |-> "BTC", how |-> "late"]}
  /\ Advance(task.obj)
  /\ UNCHANGED <<wallets, nextId, coins, clients, opId, screen, page, delayed, hud, masked>>

\* createAccountDone
EnterMain ==
  /\ Doing("enterMain")
  /\ screen' = "main"
  /\ page' = NoPage
  /\ hud' = FALSE
  /\ Advance(task.obj)
  /\ UNCHANGED <<wallets, nextId, coins, clients, opId, queued, delayed, masked>>

ClearTable ==
  /\ \/ /\ Doing("clearWallets")
        /\ wallets' = [i \in {} |-> {}]
        /\ UNCHANGED <<clients, coins>>
     \/ /\ Doing("clearClients")
        /\ clients' = {}
        /\ UNCHANGED <<wallets, coins>>
     \/ /\ Doing("clearCoins")
        /\ coins' = [p \in {} |-> {}]
        /\ UNCHANGED <<wallets, clients>>
  /\ Advance(task.obj)
  /\ UNCHANGED <<nextId, opId, screen, page, queued, delayed, hud, masked>>

ResetRoot ==
  /\ Doing("root")
  /\ screen' = RootScreen(DOMAIN wallets)
  /\ page' = NoPage
  /\ hud' = FALSE
  /\ Advance(task.obj)
  /\ UNCHANGED <<wallets, nextId, coins, clients, opId, queued, delayed, masked>>

-----------------------------------------------------------------------------
(* The main queue *)

MainIdle == screen # "off" /\ task.todo = << >>

BlockSteps(b) == CASE b.kind = "eth"    -> EthBlock
                   [] b.kind = "trx"    -> TrxBlock
                   [] b.kind = "import" -> ImportBlock(b.coin, b.how)
                   [] OTHER             -> << >>

RunBlock(b) ==
  /\ MainIdle
  /\ b \in queued
  /\ b.kind \in {"eth", "trx", "import"}
  /\ queued' = queued \ {b}
  /\ task' = [todo |-> BlockSteps(b), obj |-> b.obj, key |-> b.key, sys |-> FALSE]
  /\ UNCHANGED <<wallets, nextId, coins, clients, opId, screen, page, delayed, hud, masked>>

\* One second after an import, or when its key derivation failed: the HUD goes.
EndImport(b) ==
  /\ MainIdle
  /\ b \in queued
  /\ b.kind \in {"imported", "import"}
  /\ queued' = queued \ {b}
  /\ hud' = FALSE
  /\ UNCHANGED <<wallets, nextId, coins, clients, opId, screen, page, task, delayed, masked>>

\* The block of delectWalletWithID: it reads CurrentOperationWalletID now, and
\* pops the page it was confirmed on unless the user has left that page.
LeavesPage(t) == IF page.kind = "detail" /\ page.id = t.id THEN {page, NoPage} ELSE {page}

FireDelete ==
  /\ MainIdle
  /\ delayed # << >>
  /\ Head(delayed).kind = "delete"
  /\ wallets' = [i \in DOMAIN wallets \ {opId} |-> wallets[i]]
  /\ delayed' = Tail(delayed)
  /\ page' \in LeavesPage(Head(delayed))
  /\ hud' = FALSE
  /\ UNCHANGED <<nextId, coins, clients, opId, screen, task, queued, masked>>

\* The block of exitID: the typed password against the row My ID loaded.
Decrypts(t) == t.id # 0 /\ t.enc /\ t.right

FireExit ==
  /\ MainIdle
  /\ delayed # << >>
  /\ Head(delayed).kind = "exit"
  /\ delayed' = Tail(delayed)
  /\ IF Decrypts(Head(delayed))
       THEN /\ task' = [Idle EXCEPT !.todo = ResetBlock]
            /\ hud' = hud
       ELSE /\ task' = task
            /\ hud' = FALSE
  /\ UNCHANGED <<wallets, nextId, coins, clients, opId, screen, page, queued, masked>>

-----------------------------------------------------------------------------
(* The user *)

\* Touches reach the application: the thread is free, no Clear-masked HUD is
\* on screen and no block that was queued at once is still waiting.
Touchable == /\ MainIdle
             /\ ~(hud /\ masked)
             /\ \A b \in queued : b.kind # "trx"

PendingImports == {b \in queued : b.kind = "import"}
RoomForRows(n) == nextId + n + Cardinality(PendingImports) <= MaxRows + 1
RoomInQueue    == Cardinality(queued) < MaxQueued

\* createAllWallet (sys) of a new identity, createIDAction of a recovered one.
\* Typing a password and twelve words outlasts the two seconds of a timer.
StartIdentity(key, sys) ==
  /\ screen = "enter"
  /\ delayed = << >>
  /\ Touchable
  /\ RoomForRows(IF sys THEN 4 ELSE 3)
  /\ task' = [todo |-> IdentityBlock(sys), obj |-> 0, key |-> key, sys |-> sys]
  /\ hud' = TRUE
  /\ masked' = TRUE
  /\ UNCHANGED <<wallets, nextId, coins, clients, opId, screen, page, queued, delayed>>

\* The ETH screens derive the key on another queue, the EOS and IOST ones ask
\* the chain for the account; the others run at once.
Answered == {"ETH", "EOS", "IOST"}

StartImport(imp, key) ==
  /\ screen = "main"
  /\ Touchable
  /\ page = NoPage
  /\ RoomForRows(1)
  /\ RoomInQueue
  /\ hud' = TRUE
  /\ IF imp.coin \in Answered
       THEN /\ queued' = queued \cup {[kind |-> "import", obj |-> 0, key |-> key,
                                       coin |-> imp.coin, how |-> imp.how]}
            /\ task' = task
       ELSE /\ queued' = queued
            /\ task' = [todo |-> ImportBlock(imp.coin, imp.how), obj |-> 0,
                        key |-> key, sys |-> FALSE]
  /\ UNCHANGED <<wallets, nextId, coins, clients, opId, screen, page, delayed, masked>>

Snapshot(kind, id) ==
  IF id \in DOMAIN wallets
    THEN [kind |-> kind, id |-> id, sys |-> wallets[id].sys,
          enc |-> kind = "myId" /\ wallets[id].enc]
    ELSE [kind |-> kind, id |-> 0, sys |-> FALSE, enc |-> FALSE]

\* Tapping "more" on a card or a list cell (which may show a row that is gone).
OpenDetail(id) ==
  /\ screen = "main"
  /\ Touchable
  /\ page = NoPage
  /\ opId' = id
  /\ page' = Snapshot("detail", id)
  /\ UNCHANGED <<wallets, nextId, coins, clients, screen, task, queued, delayed, hud, masked>>

SystemRows == {i \in RowsOf("BTC") : wallets[i].sys}

OpenMyId ==
  /\ screen = "main"
  /\ Touchable
  /\ page = NoPage
  /\ page' = Snapshot("myId", LastOf(SystemRows))
  /\ UNCHANGED <<wallets, nextId, coins, clients, opId, screen, task, queued, delayed, hud, masked>>

ClosePage ==
  /\ screen = "main"
  /\ Touchable
  /\ page.kind # "none"
  /\ page' = NoPage
  /\ UNCHANGED <<wallets, nextId, coins, clients, opId, screen, task, queued, delayed, hud, masked>>

ConfirmDeleteWithoutHud ==   \* faulty
  /\ screen = "main"
  /\ Touchable
  /\ page.kind = "detail"
  /\ ~page.sys
  /\ opId \in DOMAIN wallets
  /\ wallets[opId].enc
  /\ Len(delayed) < MaxDelayed
  /\ delayed' = Append(delayed, [kind |-> "delete", id |-> page.id, right |-> TRUE, enc |-> TRUE])
  /\ UNCHANGED <<wallets, nextId, coins, clients, opId, screen, page, task, queued, hud, masked>>

\* "Delete" is on the page when its row is not a system one; the password is
\* checked against the row CurrentOperationWalletID names.
ConfirmDelete ==
  /\ screen = "main"
  /\ Touchable
  /\ page.kind = "detail"
  /\ ~page.sys
  /\ opId \in DOMAIN wallets
  /\ wallets[opId].enc
  /\ Len(delayed) < MaxDelayed
  /\ hud' = TRUE
  /\ delayed' = Append(delayed, [kind |-> "delete", id |-> page.id, right |-> TRUE, enc |-> TRUE])
  /\ UNCHANGED <<wallets, nextId, coins, clients, opId, screen, page, task, queued, masked>>

\* exitID hands any text on; "right" says it is the identity's password.
ConfirmExit(right) ==
  /\ screen = "main"
  /\ Touchable
  /\ page.kind = "myId"
  /\ Len(delayed) < MaxDelayed
  /\ hud' = TRUE
  /\ delayed' = Append(delayed, [kind |-> "exit", id |-> page.id, right |-> right,
                                 enc |-> page.enc])
  /\ UNCHANGED <<wallets, nextId, coins, clients, opId, screen, page, task, queued, masked>>

-----------------------------------------------------------------------------
(* The steps *)

MainThread ==
  \/ SaveIdentityRow \/ FindIdentityRow \/ SaveImportRow \/ UpdateRow \/ SaveCoin
  \/ SaveClient \/ QueueBlock \/ EnterMain \/ ClearTable \/ ResetRoot
  \/ \E b \in queued : RunBlock(b)
  \/ FireDelete \/ FireExit

User ==
  \/ \E key \in Keys, sys \in BOOLEAN : StartIdentity(key, sys)
  \/ \E imp \in Imports, key \in Keys : StartImport(imp, key)
  \/ \E id \in 1..(nextId - 1) : OpenDetail(id)
  \/ OpenMyId \/ ClosePage \/ ConfirmDelete
  \/ \E right \in BOOLEAN : ConfirmExit(right)

Next == MainThread \/ User \/ Launch \/ Kill \/ \E b \in queued : EndImport(b)

Spec == Init /\ [][Next]_vars

\* The main thread runs what it has been given: the system's promise for the
\* writes of a block, for queued blocks and for timers.
FairSpec == Spec /\ WF_vars(MainThread)

-----------------------------------------------------------------------------
(* Properties *)

TablesOK ==
  /\ nextId \in Nat \ {0}
  /\ DOMAIN wallets \subseteq 1..(nextId - 1)
  /\ \A i \in DOMAIN wallets : wallets[i] \in Row
  /\ DOMAIN coins \subseteq (0..(nextId - 1)) \X Coins
  /\ \A p \in DOMAIN coins : coins[p] \in MaybeKey
  /\ clients \subseteq [own : 0..(nextId - 1), key : MaybeKey]
  /\ opId \in 0..(nextId - 1)

MemoryOK ==
  /\ screen \in {"off", "enter", "main"}
  /\ page \in Page
  /\ task \in Task
  /\ task.obj < nextId
  /\ queued \subseteq Blocks
  /\ \A b \in queued : b.obj < nextId
  /\ delayed \in Seq(Timer)
  /\ hud \in BOOLEAN
  /\ masked \in BOOLEAN

\* Every variable has its type and no table or block names an id not yet handed
\* out by the autoincrement key of the walletModel table.
TypeOK == TablesOK /\ MemoryOK

\* The coin stored for a wallet is of the wallet's chain and shows no other
\* wallet's address: orphans left by a deletion or by a kill are never
\* inherited (SCRootTool creatCoins finds rows by own_id and brand only).
CoinsBelongToTheirWallet ==
  \A p \in DOMAIN coins : p[1] \in DOMAIN wallets =>
    /\ p[2] = wallets[p[1]].coin
    /\ wallets[p[1]].key # NoKey => coins[p] \in {NoKey, wallets[p[1]].key}

\* A TRX wallet that shows its address can sign: its client and its coin were
\* stored before (createTRXWallet, ImportTronPriKeyController), also when the
\* process was killed anywhere in between or inside reset.
TronReadyHasClient ==
  \A i \in RowsOf("TRX") : wallets[i].key # NoKey =>
    /\ [own |-> i, key |-> wallets[i].key] \in clients
    /\ <<i, "TRX">> \in DOMAIN coins

\* A TRX wallet has one signing client at most: loadWallet takes the last.
OneClientPerWallet ==
  \A c, d \in clients : c.own = d.own => c = d

\* A wallet that joins the table has no coin and no client yet: the id is new
\* although deletions leave coins and clients of old ids behind.
NewWalletsStartEmpty ==
  [][\A i \in DOMAIN wallets' \ DOMAIN wallets :
       /\ \A p \in DOMAIN coins : p[1] # i
       /\ \A c \in clients : c.own # i]_vars

\* No block writes over the address of a wallet that has one: each finds the
\* row its own save added, whatever was imported, deleted or left half filled.
AddressesNeverChange ==
  [][\A i \in DOMAIN wallets \cap DOMAIN wallets' :
       wallets[i].key # NoKey => wallets'[i].key = wallets[i].key]_vars

\* In a process whose HUD blocks touches the delayed deletion removes the
\* wallet that was confirmed: nothing can move CurrentOperationWalletID meanwhile,
\* unless an import was on its way when the mask was set.
MaskedDeleteIsTheConfirmedOne ==
  [][masked /\ FireDelete =>
       DOMAIN wallets \ DOMAIN wallets' \subseteq {Head(delayed).id}]_vars

\* Leaving the main screen for the entry screen leaves no wallet, coin or
\* client behind (exitID: "all imported wallets are removed").
ExitLeavesNothing ==
  [][screen = "main" /\ screen' = "enter" =>
       DOMAIN wallets' = {} /\ coins' = [p \in {} |-> {}] /\ clients' = {}]_vars

\* An identity block that is running ends on the main screen with its three
\* wallets filled and the queue of its blocks empty, or the process was killed.
IdentityFilled ==
  /\ screen = "main" /\ task.todo = << >>
  /\ \A b \in queued : b.kind \notin {"eth", "trx"}
  /\ \A coin \in {"BTC", "ETH", "TRX"} :
       \E i \in RowsOf(coin) : wallets[i].key # NoKey /\ <<i, coin>> \in DOMAIN coins
IdentityCompletes ==
  (screen = "enter" /\ task.todo # << >>) ~> (screen = "off" \/ IdentityFilled)

(* What comments and messages of the code say, and the code does not do. *)

\* SCRootTool.h:18 declares the deletion of the wallet it is given; the block
\* of SCRootTool.m:89 deletes the one CurrentOperationWalletID names by then.
DeletesTheGivenWallet ==
  [][FireDelete => DOMAIN wallets \ DOMAIN wallets' \subseteq {Head(delayed).id}]_vars

\* SCRootTool.m:121 "keep the application from being left during creation": a
\* system wallet without address resets the store, so that none is ever shown.
UnfinishedIdentityIsReset ==
  screen = "main" /\ task.todo = << >> /\ (\A b \in queued : b.kind \notin {"eth", "trx"})
    => \A i \in DOMAIN wallets :
         wallets[i].sys /\ wallets[i].coin # "ATOM" => wallets[i].key # NoKey

=============================================================================
