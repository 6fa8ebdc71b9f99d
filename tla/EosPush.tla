------------------------------- MODULE EosPush -------------------------------
(***************************************************************************)
(* An EOS operation from the user's confirmation to its result: the        *)
(* transfer page (SCTransferController eosTransfer) and the resource pages *)
(* (EOSBandWidthController, EOSRAMResourceController), each with one       *)
(* TransferService that runs four requests in a row:                       *)
(*    abi_json_to_bin, get_info, get_required_keys, push_transaction.      *)
(*                                                                         *)
(* The service keeps what it is pushing in its own properties, which the   *)
(* answers of an earlier operation read and those of a later one write.    *)
(* POST answers run one at a time on the queue of the shared URL session   *)
(* ("net"), GET answers and the user's touches on the main thread.         *)
(***************************************************************************)
EXTENDS FiniteSets, Integers

CONSTANTS Ops,       \* operations the user may confirm, each once
          ActionOf,  \* contract action of each, on a resource page
          NoArgs,    \* the binargs of an answer that has none
          Stamps     \* blocks get_info may answer with

ASSUME NoArgsAssumption == NoArgs \notin Ops
ASSUME StampsAssumption == Stamps \subseteq Nat \ {0}
ASSUME ActionsAssumption == ActionOf \in [Ops -> {"delegatebw", "undelegatebw", "buyram", "sellram"}]

VARIABLES
  page,       \* the page: "transfer" or "resource"
  open,       \* it has not been left
  masked,     \* the process created an identity: its HUD blocks touches
  hud,        \* SVProgressHUD is shown
  confirmed,  \* operations confirmed with the password
  service,    \* TransferService: action, binargs, and the block of get_info
  keyReq,     \* GetRequiredPublicKeyRequest: the same, copied
  net,        \* what the URL session's queue is doing
  main,       \* the operation whose get_info answer the main thread is handling
  requests,   \* requests not answered yet
  executed,   \* the transactions the chain has executed
  told,       \* what the page has shown about each operation
  overlapped  \* an operation was confirmed while one was under way

vars == <<page, open, masked, hud, confirmed, service, keyReq, net, main,
          requests, executed, told, overlapped>>

-----------------------------------------------------------------------------
(* Data *)

Names == {"none", "transfer", "delegatebw", "undelegatebw", "buyram", "sellram"}

\* A transaction by what tells two apart: its reference block, action and data.
Tx == [stamp : Stamps \cup {0}, action : Names, args : Ops \cup {NoArgs}]
NoTx == [stamp |-> 0, action |-> "none", args |-> NoArgs]

\* "op" is the operation a request belongs to; no handler reads it but the one
\* of "abi", whose block has captured it.
Request == [kind : {"abi", "info", "keys", "push", "answer"}, op : Ops,
            sig : Tx, tx : Tx, ok : BOOLEAN]

Net == [at : {"idle", "args", "push"}, op : Ops \cup {NoArgs},
        args : Ops \cup {NoArgs}, sig : Tx]
NetIdle == [at |-> "idle", op |-> NoArgs, args |-> NoArgs, sig |-> NoTx]

MainIdle == main = NoArgs

ActionName(c) == IF page = "transfer" THEN "transfer" ELSE ActionOf[c]

Ask(kind, c) == [kind |-> kind, op |-> c, sig |-> NoTx, tx |-> NoTx, ok |-> FALSE]

UnderWay == requests # {} \/ net # NetIdle \/ ~MainIdle

-----------------------------------------------------------------------------
(* The page *)

Touchable == MainIdle /\ open /\ ~(hud /\ masked)

\* The password is entered.  The transfer page shows the HUD first of all and
\* returns with it when the balance does not suffice.
Confirm(c) ==
  /\ Touchable
  /\ c \notin confirmed
  /\ confirmed' = confirmed \cup {c}
  /\ hud' = (page = "transfer" \/ hud)
  /\ \/ /\ requests' = requests \cup {Ask("abi", c)}
        /\ overlapped' = (overlapped \/ UnderWay)
        /\ UNCHANGED told
     \/ /\ page = "transfer"
        /\ told' = [told EXCEPT ![c] = "failure"]
        /\ UNCHANGED <<requests, overlapped>>
  /\ UNCHANGED <<page, open, masked, service, keyReq, net, main, executed>>

Leave ==
  /\ Touchable
  /\ open' = FALSE
  /\ UNCHANGED <<page, masked, hud, confirmed, service, keyReq, net, main,
                 requests, executed, told, overlapped>>

AbiAnswerDismissing(r) ==   \* faulty: takes the HUD away, as postOuterDataSuccess does
  /\ r.kind = "abi" /\ net = NetIdle
  /\ requests' = requests \ {r}
  /\ hud' = FALSE
  /\ \E args \in {r.op, NoArgs} : net' = [NetIdle EXCEPT !.at = "args", !.op = r.op, !.args = args]
  /\ service' = [service EXCEPT !.action = ActionName(r.op)]
  /\ UNCHANGED <<page, open, masked, confirmed, keyReq, main, executed, told, overlapped>>

\* The block of abi_json_to_bin fills the service, the binargs last; an error
\* body has none.  It holds the page weakly, but a page that was left is still
\* there: the prompt's block holds it, and the prompt's own tap the prompt.
AbiAnswer(r) ==
  /\ r.kind = "abi" /\ net = NetIdle
  /\ requests' = requests \ {r}
  /\ \E args \in {r.op, NoArgs} : net' = [NetIdle EXCEPT !.at = "args", !.op = r.op, !.args = args]
  /\ service' = [service EXCEPT !.action = ActionName(r.op)]
  /\ UNCHANGED <<page, open, masked, hud, confirmed, keyReq, main, executed, told, overlapped>>

SetArgs ==
  /\ net.at = "args"
  /\ service' = [service EXCEPT !.args = net.args]
  /\ requests' = requests \cup {Ask("info", net.op)}
  /\ net' = NetIdle
  /\ UNCHANGED <<page, open, masked, hud, confirmed, keyReq, main, executed, told, overlapped>>

-----------------------------------------------------------------------------
(* TransferService *)

\* getBlockChainInfoOperation: the block goes into the service ...
InfoAnswer(r) ==
  /\ r.kind = "info" /\ MainIdle
  /\ requests' = requests \ {r}
  /\ \E s \in Stamps : service' = [service EXCEPT !.stamp = s]
  /\ main' = r.op
  /\ UNCHANGED <<page, open, masked, hud, confirmed, keyReq, net, executed, told, overlapped>>

CopyKeysWithoutBlock ==   \* faulty: the request keeps the block of the last one
  /\ ~MainIdle
  /\ keyReq' = [service EXCEPT !.stamp = keyReq.stamp]
  /\ requests' = requests \cup {Ask("keys", main)}
  /\ main' = NoArgs
  /\ UNCHANGED <<page, open, masked, hud, confirmed, service, net, executed, told, overlapped>>

CopyKeysForNone ==   \* faulty: the operation is forgotten before it is asked for
  /\ ~MainIdle
  /\ keyReq' = service
  /\ requests' = requests \cup {Ask("keys", NoArgs)}
  /\ main' = NoArgs
  /\ UNCHANGED <<page, open, masked, hud, confirmed, service, net, executed, told, overlapped>>

\* ... and getRequiredPublicKeyRequestOperation copies what is there by then.
CopyKeys ==
  /\ ~MainIdle
  /\ keyReq' = service
  /\ requests' = requests \cup {Ask("keys", main)}
  /\ main' = NoArgs
  /\ UNCHANGED <<page, open, masked, hud, confirmed, service, net, executed, told, overlapped>>

\* pushTransactionRequestOperation signs what the key request holds; without a
\* key of the wallet it shows a message and leaves the HUD.
KeysAnswer(r) ==
  /\ r.kind = "keys" /\ net = NetIdle
  /\ requests' = requests \ {r}
  /\ \/ net' = [NetIdle EXCEPT !.at = "push", !.op = r.op, !.sig = keyReq] /\ UNCHANGED told
     \/ told' = [told EXCEPT ![r.op] = "failure"] /\ UNCHANGED net
  /\ UNCHANGED <<page, open, masked, hud, confirmed, service, keyReq, main, executed, overlapped>>

PushKeyRequest ==   \* faulty: what was signed is sent, not what the service holds
  /\ net.at = "push"
  /\ requests' = requests \cup
       {[Ask("push", net.op) EXCEPT !.sig = net.sig, !.tx = net.sig]}
  /\ net' = NetIdle
  /\ UNCHANGED <<page, open, masked, hud, confirmed, service, keyReq, main, executed, told, overlapped>>

\* What is sent with the signature is read from the service again.
Push ==
  /\ net.at = "push"
  /\ requests' = requests \cup
       {[Ask("push", net.op) EXCEPT !.sig = net.sig, !.tx = service]}
  /\ net' = NetIdle
  /\ UNCHANGED <<page, open, masked, hud, confirmed, service, keyReq, main, executed, told, overlapped>>

\* The chain executes a transaction that its signature fits, and that it has not
\* executed before.
Accepts(r) == r.sig = r.tx /\ r.tx.args # NoArgs /\ r.tx \notin executed

Chain(r) ==
  /\ r.kind = "push"
  /\ requests' = (requests \ {r}) \cup {[r EXCEPT !.kind = "answer", !.ok = Accepts(r)]}
  /\ executed' = IF Accepts(r) THEN executed \cup {r.tx} ELSE executed
  /\ UNCHANGED <<page, open, masked, hud, confirmed, service, keyReq, net, main, told, overlapped>>

\* Toasts are shown over any page, and so is every success; the alert with which
\* a resource page reports a failure cannot be presented once it has been left.
Silent(what) == page = "resource" /\ ~open /\ what = "failure"
Tell(c, what) == told' = IF Silent(what) THEN told ELSE [told EXCEPT ![c] = what]

PushAnswerTrusting(r) ==   \* faulty: any answer is a success
  /\ r.kind = "answer" /\ net = NetIdle
  /\ requests' = requests \ {r}
  /\ hud' = FALSE
  /\ Tell(r.op, "success")
  /\ UNCHANGED <<page, open, masked, confirmed, service, keyReq, net, main, executed, overlapped>>

\* pushTransactionDidFinish: a success when the answer has a transaction id.
PushAnswer(r) ==
  /\ r.kind = "answer" /\ net = NetIdle
  /\ requests' = requests \ {r}
  /\ hud' = FALSE
  /\ Tell(r.op, IF r.ok THEN "success" ELSE "failure")
  /\ UNCHANGED <<page, open, masked, confirmed, service, keyReq, net, main, executed, overlapped>>

FailRetrying(r) ==   \* faulty: a push that failed is tried again
  /\ IF r.kind = "info" THEN MainIdle ELSE net = NetIdle
  /\ requests' = (requests \ {r}) \cup
                   (IF r.kind \in {"push", "answer"} THEN {Ask("info", r.op)} ELSE {})
  /\ hud' = FALSE
  /\ UNCHANGED <<page, open, masked, confirmed, service, keyReq, net, main, executed, told, overlapped>>

FailKeepingRequest(r) ==   \* faulty: a timeout is told, and the answer is awaited still
  /\ IF r.kind = "info" THEN MainIdle ELSE net = NetIdle
  /\ requests' = IF r.kind \in {"push", "answer"} THEN requests ELSE requests \ {r}
  /\ hud' = FALSE
  /\ IF r.kind \in {"push", "answer"} THEN Tell(r.op, "failure") ELSE UNCHANGED told
  /\ UNCHANGED <<page, open, masked, confirmed, service, keyReq, net, main, executed, overlapped>>

\* A request, or its answer, is lost: the HUD goes, only a push is reported.
Fail(r) ==
  /\ IF r.kind = "info" THEN MainIdle ELSE net = NetIdle
  /\ requests' = requests \ {r}
  /\ hud' = FALSE
  /\ IF r.kind \in {"push", "answer"} THEN Tell(r.op, "failure") ELSE UNCHANGED told
  /\ UNCHANGED <<page, open, masked, confirmed, service, keyReq, net, main, executed, overlapped>>

-----------------------------------------------------------------------------

Init ==
  /\ page \in {"transfer", "resource"}
  /\ open = TRUE
  /\ masked \in BOOLEAN
  /\ hud = FALSE
  /\ confirmed = {}
  /\ service = NoTx
  /\ keyReq = NoTx
  /\ net = NetIdle
  /\ main = NoArgs
  /\ requests = {}
  /\ executed = {}
  /\ told = [c \in Ops |-> "nothing"]
  /\ overlapped = FALSE

Handle(r) == \/ AbiAnswer(r) \/ InfoAnswer(r) \/ KeysAnswer(r)
             \/ Chain(r) \/ PushAnswer(r) \/ Fail(r)

Next ==
  \/ \E c \in Ops : Confirm(c)
  \/ Leave
  \/ SetArgs \/ CopyKeys \/ Push
  \/ \E r \in requests : Handle(r)

Spec == Init /\ [][Next]_vars

-----------------------------------------------------------------------------
(* Properties *)

TypeOK ==
  /\ page \in {"transfer", "resource"}
  /\ open \in BOOLEAN /\ masked \in BOOLEAN /\ hud \in BOOLEAN
  /\ confirmed \subseteq Ops
  /\ service \in Tx /\ keyReq \in Tx
  /\ net \in Net
  /\ main \in Ops \cup {NoArgs}
  /\ requests \subseteq Request
  /\ executed \subseteq Tx
  /\ told \in [Ops -> {"nothing", "failure", "success"}]
  /\ overlapped \in BOOLEAN

\* However operations overlap in the shared service, what the chain executes is
\* an operation the user confirmed: never the action of one with the data of
\* another (TransferService signs one copy of its properties and sends another).
ExecutedWasConfirmed ==
  \A tx \in executed : tx.args \in confirmed /\ tx.action = ActionName(tx.args)

\* Each success a page shows stands for a transaction of its own.
SuccessesAreExecuted ==
  Cardinality({c \in Ops : told[c] = "success"}) <= Cardinality(executed)

\* Operations confirmed one after the other: each is executed at most once, a
\* success is the operation's own, and what is sent is what was signed.
LoneOperationsAreExact ==
  ~overlapped =>
    /\ \A s, t \in executed : s.args = t.args => s = t
    /\ \A c \in Ops : told[c] = "success" => \E tx \in executed : tx.args = c
    /\ \A r \in requests : r.kind = "push" => r.sig = r.tx

\* Where the HUD blocks touches, the transfer page keeps operations apart.
MaskKeepsApart == masked /\ page = "transfer" => ~overlapped

\* The ledger of the operations: a transaction is known by its operation and its
\* block.
Settled == INSTANCE Settlement
  WITH Marks <- Stamps \cup {0},
       taken <- {[op |-> tx.args, mark |-> tx.stamp] : tx \in executed}

\* However operations overlap, answers are lost and pages are left: only what was
\* confirmed is taken, an operation has one verdict and keeps it, and no success
\* is told that no transaction pays for.
SettlesAll == Settled!Spec

\* Until operations overlap, each is settled by itself.
SettlesLone == [][~overlapped' => [Settled!StrictNext]_(Settled!ledger)]_vars

(* What the code tells the user, and does not hold. *)

\* "The operation succeeded" is shown for an operation that was executed.
SuccessIsOfTheOperation ==
  \A c \in Ops : told[c] = "success" => \E tx \in executed : tx.args = c

=============================================================================
