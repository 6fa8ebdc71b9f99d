---------------------------- MODULE WalletSession ----------------------------
(***************************************************************************)
(* The wallet the application is working with, while it runs:              *)
(* WalletViewController loadWallet, which the main thread runs when the    *)
(* user switches wallets and a background queue runs whenever the screen   *)
(* appears, and the balances and rates that answer it later.               *)
(*                                                                         *)
(* "The current wallet" is kept three times: the default CurrentWalletID,  *)
(* UserinfoModel.wallet and, for Tron, AppDelegate.walletClient.  Answers  *)
(* of the network carry no wallet: the handlers look CurrentWalletID up    *)
(* when the answer comes.                                                  *)
(*                                                                         *)
(* A thread takes one step per table access or shared variable.  An amount *)
(* is named by the wallet whose address was asked for it.                  *)
(***************************************************************************)
EXTENDS Integers, FiniteSets

CONSTANTS Wallets,   \* ids of the wallet rows, positive numbers
          CoinOf,    \* the brand of each wallet
          Fixed,     \* the rows no page deletes (isSystem)
          Loads,     \* background loads that may run at a time
          Optimised, \* a build whose busy wait may read its variable once
          MaxOpen    \* bound: loads and requests under way

ASSUME WalletsAssumption == Wallets \subseteq Nat \ {0} /\ IsFiniteSet(Wallets)
ASSUME BrandsAssumption == CoinOf \in [Wallets -> {"BTC", "ETH", "TRX", "IOST"}]
ASSUME FixedAssumption == Fixed # {} /\ Fixed \subseteq Wallets
ASSUME LoadsAssumption == Loads \cap {"main", "net"} = {}
ASSUME BuildAssumption == Optimised \in BOOLEAN

VARIABLES
  rows,       \* table walletModel: the ids in it
  coins,      \* table coinModel, one row made for each wallet: owner and amount
  current,    \* default CurrentWalletID, 0 when never set
  session,    \* UserinfoModel.wallet, 0 before the first load
  client,     \* AppDelegate.walletClient: its wallet and whose account it holds
  task,       \* what each thread is doing
  requests,   \* requests not answered yet
  overlapped  \* a load or a switch started while a load was running

vars == <<rows, coins, current, session, client, task, requests, overlapped>>

Threads == {"main", "net"} \cup Loads
MaybeWallet == Wallets \cup {0}

CoinRow == [own : Wallets, amount : MaybeWallet]
NoCoin  == [own |-> 0, amount |-> 0]            \* nil: messages to it do nothing

Steps == {"idle", "count", "find", "first", "store", "session", "client", "sign",
          "ask", "wait", "balance", "amount", "rate"}
Task == [at : Steps, wallet : MaybeWallet, coin : CoinRow \cup {NoCoin}, seen : MaybeWallet]
Idle == [at |-> "idle", wallet |-> 0, coin |-> NoCoin, seen |-> 0]

\* "via" is the queue the answer comes on; a BTC load waits for its data itself.
Request == [kind : {"balance", "account", "data", "rate"}, wallet : MaybeWallet,
            coin : CoinRow \cup {NoCoin}, via : Threads]

-----------------------------------------------------------------------------
(* The coin table *)

Brand(w) == IF w = 0 THEN "none" ELSE CoinOf[w]

LookupAnyBrand(brand, own) ==   \* faulty: without "brand ="
  LET found == {w \in Wallets : coins[w].own = own}
  IN  IF found = {} THEN NoCoin
      ELSE coins[CHOOSE w \in found : \A v \in found : v <= w]

\* lastObject of "where brand = and own_id =".
Lookup(brand, own) ==
  LET found == {w \in Wallets : CoinOf[w] = brand /\ coins[w].own = own}
  IN  IF found = {} THEN NoCoin
      ELSE coins[CHOOSE w \in found : \A v \in found : v <= w]

UpdateAnyBrand(coin, brand, own) ==   \* faulty: without "brand ="
  coins' = [w \in Wallets |-> IF coin # NoCoin /\ coins[w].own = own THEN coin ELSE coins[w]]

\* bg_updateWhere with the same condition writes every property, the owner too.
Update(coin, brand, own) ==
  coins' = [w \in Wallets |->
              IF coin # NoCoin /\ CoinOf[w] = brand /\ coins[w].own = own
                THEN coin ELSE coins[w]]

-----------------------------------------------------------------------------
(* The steps of loadWallet *)

Busy(t) == task[t].at # "idle"
Goto(t, at) == task' = [task EXCEPT ![t].at = at]
Send(r) == requests' = requests \cup {r}

CountWallets(t) ==
  /\ task[t].at = "count"
  /\ IF rows = {} THEN task' = [task EXCEPT ![t] = Idle] ELSE Goto(t, "find")
  /\ UNCHANGED <<rows, coins, current, session, client, requests, overlapped>>

FindCurrent(t) ==
  /\ task[t].at = "find"
  /\ task' = IF current \in rows
               THEN [task EXCEPT ![t].at = "session", ![t].wallet = current]
               ELSE [task EXCEPT ![t].at = "first"]
  /\ UNCHANGED <<rows, coins, current, session, client, requests, overlapped>>

\* No row has the current id: the first of all rows becomes the current one.
FindFirst(t) ==
  /\ task[t].at = "first"
  /\ task' = [task EXCEPT ![t].at = "store",
                          ![t].wallet = CHOOSE w \in rows : \A v \in rows : w <= v]
  /\ UNCHANGED <<rows, coins, current, session, client, requests, overlapped>>

StoreCurrent(t) ==
  /\ task[t].at = "store"
  /\ current' = task[t].wallet
  /\ Goto(t, "session")
  /\ UNCHANGED <<rows, coins, session, client, requests, overlapped>>

SetSessionForgettingTron(t) ==   \* faulty: the client of the last Tron wallet stays
  /\ task[t].at = "session"
  /\ session' = task[t].wallet
  /\ Goto(t, "ask")
  /\ UNCHANGED <<rows, coins, current, client, requests, overlapped>>

SetSession(t) ==
  /\ task[t].at = "session"
  /\ session' = task[t].wallet
  /\ Goto(t, IF Brand(task[t].wallet) = "TRX" THEN "client" ELSE "ask")
  /\ UNCHANGED <<rows, coins, current, client, requests, overlapped>>

\* The client is looked up by CurrentWalletID, not by the wallet found above.
FindClient(t) ==
  /\ task[t].at = "client"
  /\ task' = [task EXCEPT ![t].at = "sign",
                          ![t].seen = IF Brand(current) = "TRX" THEN current ELSE 0]
  /\ UNCHANGED <<rows, coins, current, session, client, requests, overlapped>>

SetClient(t) ==
  /\ task[t].at = "sign"
  /\ client' = [own |-> task[t].seen, account |-> 0]
  /\ IF task[t].seen = 0 THEN requests' = requests
     ELSE Send([kind |-> "account", wallet |-> task[t].seen, coin |-> NoCoin, via |-> "net"])
  /\ task' = [task EXCEPT ![t] = Idle]
  /\ UNCHANGED <<rows, coins, current, session, overlapped>>

\* BTC waits in a loop for its data, the others are answered later: ETH on the
\* queue of the URL session, IOST on the main queue.
AskBalance(t) ==
  /\ task[t].at = "ask"
  /\ IF Brand(task[t].wallet) = "BTC"
       THEN /\ Goto(t, "wait")
            /\ Send([kind |-> "data", wallet |-> task[t].wallet, coin |-> NoCoin, via |-> t])
       ELSE /\ task' = [task EXCEPT ![t] = Idle]
            /\ Send([kind |-> "balance", wallet |-> task[t].wallet, coin |-> NoCoin,
                     via |-> IF Brand(task[t].wallet) = "ETH" THEN "net" ELSE "main"])
  /\ UNCHANGED <<rows, coins, current, session, client, overlapped>>

-----------------------------------------------------------------------------
(* The answers *)

\* getAddressBalance: the coin of the wallet that is current now ...
FindCoin(t) ==
  /\ task[t].at = "balance"
  /\ LET coin == Lookup(Brand(task[t].wallet), current) IN
     task' = [task EXCEPT ![t].at = "amount",
                          ![t].coin = IF coin = NoCoin THEN NoCoin
                                      ELSE [coin EXCEPT !.amount = task[t].wallet]]
  /\ UNCHANGED <<rows, coins, current, session, client, requests, overlapped>>

\* ... is given the amount and written to the wallet that is current then.
WriteCoin(t) ==
  /\ task[t].at = "amount"
  /\ Update(task[t].coin, Brand(task[t].wallet), current)
  /\ Goto(t, "rate")
  /\ UNCHANGED <<rows, current, session, client, requests, overlapped>>

RateOf(w) == [kind |-> "rate", wallet |-> w, coin |-> Lookup(Brand(w), current), via |-> "main"]

\* The handler of loadWallet looks the coin up again and asks for its rate.
AskRate(t) ==
  /\ task[t].at = "rate"
  /\ Send(RateOf(task[t].wallet))
  /\ task' = [task EXCEPT ![t] = Idle]
  /\ UNCHANGED <<rows, coins, current, session, client, overlapped>>

LoadStep(t) ==
  \/ CountWallets(t) \/ FindCurrent(t) \/ FindFirst(t) \/ StoreCurrent(t) \/ SetSession(t)
  \/ FindClient(t) \/ SetClient(t) \/ AskBalance(t)
  \/ FindCoin(t) \/ WriteCoin(t) \/ AskRate(t)

\* A balance comes on its queue.
Balance(r) ==
  /\ r \in requests /\ r.kind = "balance"
  /\ ~Busy(r.via)
  /\ requests' = requests \ {r}
  /\ task' = [task EXCEPT ![r.via] = [Idle EXCEPT !.at = "balance", !.wallet = r.wallet]]
  /\ UNCHANGED <<rows, coins, current, session, client, overlapped>>

DeliveringOnMain == ~Busy("main")   \* faulty: answers that the main queue delivers

\* Completion blocks of the shared session run one at a time on a queue of its own.
Delivering == ~Busy("net")

\* The loop "while (retVal == nil) {}" races with the block that ends it: in an
\* optimised build, which need not read the variable again, it may never end.
AfterLoop(at) == {at} \cup (IF Optimised THEN {"wait"} ELSE {})

\* The data a BTC load is waiting for: its thread goes on.
Data(r) ==
  /\ r \in requests /\ r.kind = "data"
  /\ Delivering
  /\ requests' = requests \ {r}
  /\ \E at \in AfterLoop("balance") : Goto(r.via, at)
  /\ UNCHANGED <<rows, coins, current, session, client, overlapped>>

\* The request failed or timed out: the handler runs, the data is empty.
DataError(r) ==
  /\ r \in requests /\ r.kind = "data"
  /\ Delivering
  /\ requests' = (requests \ {r}) \cup {RateOf(r.wallet)}
  /\ \E at \in AfterLoop("idle") :
       task' = [task EXCEPT ![r.via] = IF at = "idle" THEN Idle ELSE [@ EXCEPT !.at = at]]
  /\ UNCHANGED <<rows, coins, current, session, client, overlapped>>

\* getAccount: whatever client there is now holds the account.
Account(r) ==
  /\ r \in requests /\ r.kind = "account"
  /\ Delivering
  /\ requests' = requests \ {r}
  /\ client' = IF client.own = 0 THEN client ELSE [client EXCEPT !.account = r.wallet]
  /\ UNCHANGED <<rows, coins, current, session, task, overlapped>>

\* updateCoinDataWithResponse: the coin found with the balance, written whole to
\* the wallet that is current now.
Rate(r) ==
  /\ r \in requests /\ r.kind = "rate"
  /\ ~Busy("main")
  /\ requests' = requests \ {r}
  /\ Update(r.coin, Brand(r.wallet), current)
  /\ UNCHANGED <<rows, current, session, client, task, overlapped>>

\* The failure blocks of the other requests do nothing.
Fail(r) ==
  /\ r \in requests /\ r.kind # "data"
  /\ requests' = requests \ {r}
  /\ UNCHANGED <<rows, coins, current, session, client, task, overlapped>>

-----------------------------------------------------------------------------
(* The user *)

LoadSteps == Steps \ {"idle", "balance", "amount", "rate"}
Loading(t) == task[t].at \in LoadSteps \/ (t \in Loads /\ Busy(t))

Open == Cardinality(requests) + Cardinality({t \in Threads : Busy(t)})

StartLoad(t) ==
  /\ Open < MaxOpen
  /\ ~Busy("main")
  /\ task' = [task EXCEPT ![t] = [Idle EXCEPT !.at = "count"]]
  /\ overlapped' = \E u \in Threads \ {t} : Loading(u)

\* KEY_SCWALLET_TYPE: another wallet is chosen, the main thread loads it.
Switch(w) ==
  /\ w \in rows /\ w # current
  /\ current' = w
  /\ StartLoad("main")
  /\ UNCHANGED <<rows, coins, session, client, requests>>

\* viewDidAppear: a load on the global queue.
Appear(t) ==
  /\ t \in Loads /\ ~Busy(t)
  /\ StartLoad(t)
  /\ UNCHANGED <<rows, coins, current, session, client, requests>>

DeleteAny(w) ==   \* faulty: the detail page of an identity wallet deletes, too
  /\ ~Busy("main")
  /\ w \in rows
  /\ rows' = rows \ {w}
  /\ UNCHANGED <<coins, current, session, client, task, requests, overlapped>>

\* The detail page has no delete button for an isSystem wallet.
Delete(w) ==
  /\ ~Busy("main")
  /\ w \in rows \ Fixed
  /\ rows' = rows \ {w}
  /\ UNCHANGED <<coins, current, session, client, task, requests, overlapped>>

-----------------------------------------------------------------------------

\* viewDidLoad of a launch: no session yet, any default of an earlier one.
Init ==
  /\ rows = Wallets
  /\ coins = [w \in Wallets |-> [own |-> w, amount |-> 0]]
  /\ current \in MaybeWallet
  /\ session = 0
  /\ client = [own |-> 0, account |-> 0]
  /\ task = [t \in Threads |-> IF t = "main" THEN [Idle EXCEPT !.at = "count"] ELSE Idle]
  /\ requests = {}
  /\ overlapped = FALSE

Answer(r) == Balance(r) \/ Data(r) \/ DataError(r) \/ Account(r) \/ Rate(r) \/ Fail(r)

Next ==
  \/ \E t \in Threads : LoadStep(t)
  \/ \E r \in requests : Answer(r)
  \/ \E w \in Wallets : Switch(w) \/ Delete(w)
  \/ \E t \in Loads : Appear(t)

Spec == Init /\ [][Next]_vars

\* Threads run, and a request is answered or fails in the end: the URL session
\* times out by itself.
FairSpec == /\ Spec
            /\ \A t \in Threads : WF_vars(LoadStep(t))
            /\ WF_vars(\E r \in requests : Data(r) \/ DataError(r))

-----------------------------------------------------------------------------
(* Properties *)

TypeOK ==
  /\ rows \subseteq Wallets /\ Fixed \subseteq rows
  /\ coins \in [Wallets -> CoinRow]
  /\ current \in MaybeWallet
  /\ session \in MaybeWallet
  /\ client \in [own : MaybeWallet, account : MaybeWallet]
  /\ task \in [Threads -> Task]
  /\ requests \subseteq Request
  /\ overlapped \in BOOLEAN

Sole(w) == \A v \in Wallets \ {w} : CoinOf[v] # CoinOf[w]

\* A late answer never reaches the only wallet of another brand, whatever was
\* switched meanwhile: its coin keeps its owner and shows its own balance, and
\* the signing client of the only Tron wallet holds that wallet's account.
NothingCrosses ==
  /\ \A w \in Wallets : Sole(w) => coins[w].own = w /\ coins[w].amount \in {0, w}
  /\ client.own # 0 /\ Sole(client.own) => client.account \in {0, client.own}

\* Also with several wallets of a brand, no answer writes into a coin of another
\* brand, and what a coin shows was asked for a wallet of its brand.
BrandsKept ==
  \A w \in Wallets : /\ CoinOf[coins[w].own] = CoinOf[w]
                     /\ coins[w].amount # 0 => CoinOf[coins[w].amount] = CoinOf[w]

Settled == \A t \in Threads : ~Loading(t)

\* A load that ran with no other load beside it leaves the session and the
\* Tron client on the current wallet (loadWallet reads CurrentWalletID twice).
LoneLoadSettles ==
  Settled /\ ~overlapped =>
    /\ session = current
    /\ Brand(current) = "TRX" => client.own = current

\* Every load ends, in a build whose loop reads the variable again: the busy
\* wait of BTCClient never waits on a thread that waits on it, also when the
\* main thread is the one in the loop.
LoadsEnd == \A t \in Threads : Busy(t) ~> ~Busy(t)

(* What comments of the code say, and the code does not do. *)

\* coinModel.h:15 "owner": the row made for a wallet stays with that wallet.
CoinsKeepTheirOwner == \A w \in Wallets : coins[w].own = w

\* TWDefines.h:18 "id of the wallet that is chosen": once the loads have ended
\* the session works with that wallet.
SessionIsTheChosenWallet == Settled => session = current

=============================================================================
