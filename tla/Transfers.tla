----------------------------- MODULE Transfers -----------------------------
(***************************************************************************)
(* Transfers of Ether, Tron, IOST and Bitcoin from the transfer page       *)
(* (SCTransferController), from the password to the answer of the network, *)
(* when several are under way.  EosPush has those of EOS.                  *)
(*                                                                         *)
(* All share one HUD (SVProgressHUD).  A transfer of Ether asks for the    *)
(* number of its sender's mined transactions and uses it as its nonce; one *)
(* of Tron is created, signed and broadcast by servers, with the key of    *)
(* the client that is current by then; one of Bitcoin blocks the main      *)
(* thread while it reads the unspent outputs.                              *)
(*                                                                         *)
(* A wallet stands for its address and its key.  Amounts matter for        *)
(* Bitcoin only: the others have what they pay.                            *)
(***************************************************************************)
EXTENDS BtcSelection, Sequences

CONSTANTS Wallets,   \* positive numbers
          BrandOf,   \* the brand of each
          Prices,    \* gas prices the user may offer
          Amounts,   \* satoshi the user may send
          Rates,     \* satoshi per byte the user may choose
          Outputs,   \* the unspent outputs a Bitcoin wallet may start with
          MaxSends   \* bound: transfers confirmed

ASSUME WalletsAssumption == Wallets \subseteq Nat \ {0} /\ IsFiniteSet(Wallets)
ASSUME BrandsAssumption == BrandOf \in [Wallets -> {"BTC", "ETH", "TRX", "IOST"}]
ASSUME PricesAssumption == Prices \subseteq Nat \ {0}
ASSUME AmountsAssumption == Amounts \subseteq Nat \ {0} /\ Rates \subseteq Nat
ASSUME OutputsAssumption ==
         \A outs \in Outputs : outs \subseteq [value : Nat, from : {0}] /\ IsFiniteSet(outs)
ASSUME MaxSendsAssumption == MaxSends \in Nat

VARIABLES
  session,     \* UserinfoModel.wallet, settled
  client,      \* AppDelegate.walletClient: the last Tron wallet of the session, or 0
  masked,      \* the process created an identity: its HUD blocks touches
  hud,         \* SVProgressHUD is shown
  dismissals,  \* delayed dismissals of the HUD that are waiting
  prompt,      \* what a confirmed Bitcoin prompt that is still there asks for
  sends,       \* the transfers confirmed, in order
  txs,         \* the Bitcoin transaction of each
  mined,       \* number of mined transactions of each Ethereum account
  pool,        \* its transaction that is not mined yet, or 0
  unspent      \* unspent outputs of each Bitcoin address

page  == <<session, client, prompt>>
chain == <<mined, pool, unspent>>
vars  == <<page, masked, hud, dismissals, sends, txs, chain>>

-----------------------------------------------------------------------------
(* Data *)

Of(brand) == {w \in Wallets : BrandOf[w] = brand}
NoWallet  == 0
NoPrompt  == [amount |-> 0, rate |-> 0]
NoTx      == [inputs |-> {}, amount |-> 0, change |-> 0]

\* An output names the transfer whose change it is, or 0.
Output == [value : Nat, from : 0..MaxSends]
Tx     == [inputs : SUBSET Output, amount : Nat, change : Nat]

\* owner is the account the transfer is to be taken from, key whose key signs it.
\* "alone": no other transfer of its Ethereum account met it.
Send == [wallet : Wallets,
         at : {"unlock", "nonce", "gas", "create", "sign", "info", "raw", "stray", "reply", "end"},
         owner : Wallets \cup {NoWallet}, key : Wallets \cup {NoWallet},
         nonce : Nat, price : Prices \cup {0},
         told : {"none", "success", "failure"},
         fate : {"none", "pooled", "executed", "dropped", "refused"},
         alone : BOOLEAN]

Fresh(at) == [wallet |-> session, at |-> at, owner |-> session, key |-> session,
              nonce |-> 0, price |-> 0, told |-> "none", fate |-> "none", alone |-> TRUE]

Brand(i)    == BrandOf[sends[i].wallet]
UnderWay(i) == sends[i].at # "end"

-----------------------------------------------------------------------------
(* The page *)

Touchable == ~(hud /\ masked)

SwitchClientAlways(w) ==   \* faulty: the client is looked up for any wallet
  /\ Touchable /\ prompt = NoPrompt
  /\ w # session
  /\ session' = w
  /\ client' = w
  /\ UNCHANGED <<prompt, masked, hud, dismissals, sends, txs, chain>>

\* loadWallet: the client is set for Tron wallets, and stays for the others.
Switch(w) ==
  /\ Touchable /\ prompt = NoPrompt
  /\ w # session
  /\ session' = w
  /\ client' = IF BrandOf[w] = "TRX" THEN w ELSE client
  /\ UNCHANGED <<prompt, masked, hud, dismissals, sends, txs, chain>>

\* transactionAction: the password of the session's wallet has been entered.
Confirming(brand) ==
  /\ Touchable /\ prompt = NoPrompt
  /\ BrandOf[session] = brand
  /\ Len(sends) < MaxSends

\* The transfers of an account that a new one of it may meet.
Meets(i) == /\ sends[i].wallet = session
            /\ UnderWay(i) \/ sends[i].fate = "pooled"
Met == {i \in DOMAIN sends : Meets(i)}

EthTransfer(price) ==
  /\ Confirming("ETH")
  /\ hud' = TRUE
  /\ sends' = Append([i \in DOMAIN sends |-> [sends[i] EXCEPT !.alone = @ /\ ~Meets(i)]],
                     [Fresh("unlock") EXCEPT !.price = price, !.alone = (Met = {})])
  /\ txs' = Append(txs, NoTx)
  /\ UNCHANGED <<page, masked, dismissals, chain>>

Enter(send, tx) == sends' = Append(sends, send) /\ txs' = Append(txs, tx)

TronTransfer ==
  /\ Confirming("TRX")
  /\ Enter([Fresh("create") EXCEPT !.owner = client, !.key = NoWallet], NoTx)
  /\ UNCHANGED <<page, masked, hud, dismissals, chain>>

IostTransfer ==
  /\ Confirming("IOST")
  /\ hud' = TRUE
  /\ Enter(Fresh("info"), NoTx)
  /\ UNCHANGED <<page, masked, dismissals, chain>>

\* sendToAddress: up to the request that pushes the transaction.  The block is
\* told of a failure when the outputs do not suffice or could not be had.
BtcSend(amount, rate) ==
  LET sel == Select(unspent[session], amount, rate)
      tx  == [inputs |-> sel.inputs, amount |-> amount, change |-> Change(sel)]
  IN  \/ Payable(sel) /\ Enter(Fresh("raw"), tx)
      \/ Enter([Fresh("end") EXCEPT !.told = "failure"], NoTx)

\* The main thread was in sendToAddress; the prompt is removed by a block that
\* waits behind it ...
BtcTransfer(amount, rate) ==
  /\ Confirming("BTC")
  /\ prompt' = [amount |-> amount, rate |-> rate]
  /\ BtcSend(amount, rate)
  /\ UNCHANGED <<session, client, masked, hud, dismissals, chain>>

\* ... and so may a touch of its button.
TapAgain ==
  /\ Touchable /\ prompt # NoPrompt
  /\ Len(sends) < MaxSends
  /\ BtcSend(prompt.amount, prompt.rate)
  /\ UNCHANGED <<page, masked, hud, dismissals, chain>>

RemovePrompt ==
  /\ prompt # NoPrompt
  /\ prompt' = NoPrompt
  /\ UNCHANGED <<session, client, masked, hud, dismissals, sends, txs, chain>>

-----------------------------------------------------------------------------
(* Answers on the way to the transaction *)

Goto(i, at) == sends' = [sends EXCEPT ![i].at = at]

UnlockedDismissing(i) ==   \* faulty: the HUD goes when the key is there
  /\ sends[i].at = "unlock"
  /\ Goto(i, "nonce")
  /\ hud' = FALSE
  /\ UNCHANGED <<page, masked, dismissals, txs, chain>>

\* hs_sendToAssress: the key store is decrypted on another queue.
Unlocked(i) ==
  /\ sends[i].at = "unlock"
  /\ Goto(i, "nonce")
  /\ UNCHANGED <<page, masked, hud, dismissals, txs, chain>>

CountedOfSession(i) ==   \* faulty: the count of the wallet that is current by now
  /\ sends[i].at = "nonce"
  /\ sends' = [sends EXCEPT ![i].at = "gas",
                 ![i].nonce = mined[IF BrandOf[session] = "ETH" THEN session ELSE sends[i].owner]]
  /\ UNCHANGED <<page, masked, hud, dismissals, txs, chain>>

\* getTransactionCount of the key store's address, at the latest block.
Counted(i) ==
  /\ sends[i].at = "nonce"
  /\ sends' = [sends EXCEPT ![i].at = "gas", ![i].nonce = mined[sends[i].owner]]
  /\ UNCHANGED <<page, masked, hud, dismissals, txs, chain>>

Priced(i) ==
  /\ sends[i].at = "gas"
  /\ Goto(i, "raw")
  /\ UNCHANGED <<page, masked, hud, dismissals, txs, chain>>

EthFailsSilently(i) ==   \* faulty: one of the errors does not call the block
  /\ sends[i].at \in {"unlock", "nonce", "gas"}
  /\ sends' = [sends EXCEPT ![i].at = "end",
                 ![i].told = IF sends[i].at = "gas" THEN "none" ELSE "failure"]
  /\ hud' = FALSE
  /\ UNCHANGED <<page, masked, dismissals, txs, chain>>

\* Any error calls the block of the page, which takes the HUD away.
EthFails(i) ==
  /\ sends[i].at \in {"unlock", "nonce", "gas"}
  /\ sends' = [sends EXCEPT ![i].at = "end", ![i].told = "failure"]
  /\ hud' = FALSE
  /\ UNCHANGED <<page, masked, dismissals, txs, chain>>

CreatedOfClient(i) ==   \* faulty: the transaction is made out to the client, too
  /\ sends[i].at = "create"
  /\ sends' = [sends EXCEPT ![i].at = "sign", ![i].owner = client, ![i].key = client]
  /\ UNCHANGED <<page, masked, hud, dismissals, txs, chain>>

\* broadcastTransaction: the key of whatever client there is by now.
Created(i) ==
  /\ sends[i].at = "create"
  /\ sends' = [sends EXCEPT ![i].at = "sign", ![i].key = client]
  /\ UNCHANGED <<page, masked, hud, dismissals, txs, chain>>

\* The failure block of createTransaction dismisses a HUD that is not its own.
CreationFails(i) ==
  /\ sends[i].at = "create"
  /\ Goto(i, "end")
  /\ dismissals' = dismissals + 1
  /\ UNCHANGED <<page, masked, hud, txs, chain>>

HudDismissed ==
  /\ dismissals > 0
  /\ dismissals' = dismissals - 1
  /\ hud' = FALSE
  /\ UNCHANGED <<page, masked, sends, txs, chain>>

\* The server signs; the chain information of IOST has come.
Signed(i) ==
  /\ sends[i].at \in {"sign", "info"}
  /\ Goto(i, "raw")
  /\ UNCHANGED <<page, masked, hud, dismissals, txs, chain>>

\* Their failure blocks are empty: the HUD of IOST stays.
FailsSilently(i) ==
  /\ sends[i].at \in {"sign", "info"}
  /\ Goto(i, "end")
  /\ UNCHANGED <<page, masked, hud, dismissals, txs, chain>>

-----------------------------------------------------------------------------
(* The networks *)

\* An Ethereum node has one transaction for a nonce, the one that pays more.
Accepts(i) ==
  LET s == sends[i] IN
  CASE Brand(i) = "ETH" -> /\ s.nonce = mined[s.owner]
                           /\ pool[s.owner] # 0 => s.price > sends[pool[s.owner]].price
    [] Brand(i) = "BTC" -> /\ txs[i].inputs \subseteq unspent[s.owner]
                           /\ txs[i].amount + txs[i].change <= Values(txs[i].inputs)
    [] OTHER            -> s.owner = s.key

Fate(i) == IF ~Accepts(i) THEN "refused"
           ELSE IF Brand(i) = "ETH" THEN "pooled" ELSE "executed"

Replaced(i) == IF Brand(i) = "ETH" /\ Accepts(i) THEN {pool[sends[i].owner]} \ {0} ELSE {}

\* A transaction arrives, also when its sender no longer waits for the answer.
Arrives(i) ==
  /\ sends[i].at \in {"raw", "stray"}
  /\ sends' = [j \in DOMAIN sends |->
                 IF j = i THEN [sends[i] EXCEPT !.fate = Fate(i),
                                !.at = IF @ = "raw" THEN "reply" ELSE "end"]
                 ELSE IF j \in Replaced(i) THEN [sends[j] EXCEPT !.fate = "dropped"]
                 ELSE sends[j]]
  /\ pool' = IF Fate(i) = "pooled" THEN [pool EXCEPT ![sends[i].owner] = i] ELSE pool
  /\ unspent' = IF Brand(i) = "BTC" /\ Accepts(i)
                  THEN [unspent EXCEPT ![sends[i].owner] =
                          (@ \ txs[i].inputs)
                            \cup {[value |-> txs[i].change, from |-> i]}]
                  ELSE unspent
  /\ UNCHANGED <<page, masked, hud, dismissals, txs, mined>>

Mine(w) ==
  /\ pool[w] # 0
  /\ sends' = [sends EXCEPT ![pool[w]].fate = "executed"]
  /\ mined' = [mined EXCEPT ![w] = @ + 1]
  /\ pool' = [pool EXCEPT ![w] = 0]
  /\ UNCHANGED <<page, masked, hud, dismissals, txs, unspent>>

-----------------------------------------------------------------------------
(* The end *)

HidesHud(i) == hud' = (hud /\ Brand(i) \notin {"ETH", "IOST"})

\* The blocks of the page, and signedbroadcastTransaction's for Tron.
Replied(i) ==
  /\ sends[i].at = "reply"
  /\ sends' = [sends EXCEPT ![i].at = "end",
                 ![i].told = IF sends[i].fate = "refused" THEN "failure" ELSE "success"]
  /\ HidesHud(i)
  /\ UNCHANGED <<page, masked, dismissals, txs, chain>>

LostWaiting(i) ==   \* faulty: a timeout is told, and the answer is awaited still
  /\ sends[i].at \in {"raw", "reply"}
  /\ \E at \in {"end"} \cup (IF sends[i].at = "raw" THEN {"raw"} ELSE {}) :
       sends' = [sends EXCEPT ![i].at = at,
                   ![i].told = IF Brand(i) = "IOST" THEN "none" ELSE "failure"]
  /\ hud' = (hud /\ Brand(i) # "ETH")
  /\ UNCHANGED <<page, masked, dismissals, txs, chain>>

\* The request fails or its answer is lost.  IOST says nothing and keeps the HUD.
Lost(i) ==
  /\ sends[i].at \in {"raw", "reply"}
  /\ \E at \in {"end"} \cup (IF sends[i].at = "raw" THEN {"stray"} ELSE {}) :
       sends' = [sends EXCEPT ![i].at = at,
                   ![i].told = IF Brand(i) = "IOST" THEN "none" ELSE "failure"]
  /\ hud' = (hud /\ Brand(i) # "ETH")
  /\ UNCHANGED <<page, masked, dismissals, txs, chain>>

-----------------------------------------------------------------------------

Init ==
  /\ session \in Wallets
  /\ client = IF BrandOf[session] = "TRX" THEN session ELSE NoWallet
  /\ masked \in BOOLEAN
  /\ hud = FALSE
  /\ dismissals = 0
  /\ prompt = NoPrompt
  /\ sends = <<>> /\ txs = <<>>
  /\ mined = [w \in Of("ETH") |-> 0]
  /\ pool = [w \in Of("ETH") |-> 0]
  /\ unspent \in [Of("BTC") -> Outputs]

Confirm ==
  \/ \E price \in Prices : EthTransfer(price)
  \/ TronTransfer
  \/ IostTransfer
  \/ \E amount \in Amounts, rate \in Rates : BtcTransfer(amount, rate)
  \/ TapAgain

Answer(i) ==
  \/ Unlocked(i) \/ Counted(i) \/ Priced(i) \/ EthFails(i)
  \/ Created(i) \/ CreationFails(i) \/ Signed(i) \/ FailsSilently(i)
  \/ Replied(i) \/ Lost(i)

Next ==
  \/ \E w \in Wallets : Switch(w)
  \/ Confirm \/ RemovePrompt \/ HudDismissed
  \/ \E i \in DOMAIN sends : Answer(i) \/ Arrives(i)
  \/ \E w \in Of("ETH") : Mine(w)

Spec == Init /\ [][Next]_vars

\* Every promise and URL task ends: with an answer, an error or its timeout.
FairSpec == Spec /\ \A i \in 1..MaxSends : WF_vars(i \in DOMAIN sends /\ Answer(i))

-----------------------------------------------------------------------------
(* Properties *)

\* A change is never a debt, and the prompt asks for nothing the user did not.
TypeOK ==
  /\ session \in Wallets
  /\ client \in Of("TRX") \cup {NoWallet}
  /\ masked \in BOOLEAN /\ hud \in BOOLEAN
  /\ dismissals \in Nat
  /\ prompt \in [amount : Amounts, rate : Rates] \cup {NoPrompt}
  /\ sends \in Seq(Send)
  /\ txs \in Seq(Tx) /\ Len(txs) = Len(sends)
  /\ mined \in [Of("ETH") -> Nat]
  /\ pool \in [Of("ETH") -> 0..Len(sends)]
  /\ unspent \in [Of("BTC") -> SUBSET Output]

\* Whatever is switched while servers answer, a transfer a network takes is
\* taken from the wallet it was confirmed for, signed with its key.
PaidByItsWallet ==
  \A i \in DOMAIN sends : sends[i].fate \in {"pooled", "executed", "dropped"} =>
    sends[i].owner = sends[i].wallet /\ sends[i].key = sends[i].wallet

\* A transfer of Ether that meets no other of its account is neither refused for
\* its nonce nor replaced, and what the user is told to have succeeded was taken.
SuccessesAreTaken ==
  \A i \in DOMAIN sends :
    /\ sends[i].told = "success" => sends[i].fate \notin {"none", "refused"}
    /\ Brand(i) = "ETH" /\ sends[i].alone => sends[i].fate \notin {"refused", "dropped"}

CreationFailed == \E i \in DOMAIN sends :
  Brand(i) = "TRX" /\ sends[i].at = "end" /\ sends[i].key = NoWallet

\* A masked HUD keeps transfers of Ether and IOST apart, unless a failed Tron
\* creation takes it away from them.
MaskKeepsSendsApart ==
  masked /\ ~CreationFailed =>
    \A i, j \in DOMAIN sends :
      /\ Brand(i) \in {"ETH", "IOST"} /\ sends[i].at \notin {"stray", "end"}
      /\ Brand(j) \in {"ETH", "IOST"} /\ sends[j].at \notin {"stray", "end"}
      => i = j

\* Of any outputs a wallet comes to have, the loop refuses an amount only when
\* they do not make it up, and never takes it for paid when they do not.
AmountsAreSpendable ==
  \A w \in Of("BTC"), amount \in Amounts, rate \in Rates :
    Payable(Select(unspent[w], amount, rate)) <=> Values(unspent[w]) >= amount

\* A transfer pays either no fee at all or at least what the comment of the loop
\* asks for its inputs.  (As long as the fee of each round is a word.)
FeesPayForInputs ==
  \A w \in Of("BTC"), amount \in Amounts, rate \in Rates :
    LET sel == Select(unspent[w], amount, rate)
        fee == sel.total - amount
    IN  Payable(sel) => fee = 0 \/ fee >= Size(Cardinality(sel.inputs)) * rate

\* The ledger of the transfers: each is its own, so that no mark tells two takings
\* of it apart.
IsTaken(i) == sends[i].fate \in {"pooled", "executed", "dropped"}
Verdict(i) == IF i \in DOMAIN sends /\ sends[i].told # "none" THEN sends[i].told ELSE "nothing"

Settled == INSTANCE Settlement
  WITH Ops <- 1..MaxSends, Marks <- {0},
       confirmed <- DOMAIN sends,
       taken <- {[op |-> i, mark |-> 0] : i \in {j \in DOMAIN sends : IsTaken(j)}},
       told <- [i \in 1..MaxSends |-> Verdict(i)]

\* However transfers overlap, requests fail and transactions arrive after their
\* senders gave up: a network takes a confirmed transfer once at most, the user
\* has one verdict on it and keeps it, and a success was taken before it is told.
SettlesEach == Settled!StrictSpec

\* The user is told of the end of every transfer of Ether and Bitcoin.
SendsAreTold ==
  \A i \in 1..MaxSends :
    (i \in DOMAIN sends /\ Brand(i) \in {"ETH", "BTC"}) ~>
      (i \in DOMAIN sends /\ sends[i].told # "none")

(* What a comment says, and the code does not do. *)

\* BTCClient.m:160 "148 * inputs + 34 * outputs + 10 = b : fee sat/b".
FeesAreAsStated ==
  \A i \in DOMAIN sends :
    LET tx == txs[i] IN
    tx # NoTx => \E rate \in Rates :
      Values(tx.inputs) - tx.amount - tx.change = Size(Cardinality(tx.inputs)) * rate

=============================================================================
