---------------------------- MODULE EosPushProofs ----------------------------
(***************************************************************************)
(* Proofs about EosPush, for any operations and any blocks: the type       *)
(* invariant, that only confirmed operations are executed, that the masked *)
(* HUD of the transfer page keeps operations apart, that the user is told  *)
(* of no more successes than there were executions, and that an operation  *)
(* that meets no other is reported as what became of it.                   *)
(***************************************************************************)
EXTENDS EosPush, TLAPS, FunctionTheorems, FiniteSetTheorems

Kinds == {"abi", "info", "keys", "push", "answer"}

\* The name a page gives an operation is one of the names of actions.
LEMMA ActionNameType == ASSUME NEW c \in Ops PROVE ActionName(c) \in Names
BY ActionsAssumption DEF ActionName, Names

\* The transaction of no operation is a transaction.
LEMMA NoTxType == NoTx \in Tx
BY DEF NoTx, Tx, Names

\* A request that is asked is a request.
LEMMA AskType ==
  ASSUME NEW c \in Ops, NEW kind \in Kinds
  PROVE  Ask(kind, c) \in Request
BY NoTxType DEF Ask, Request, Kinds

\* The net thread between the action and the binargs of an operation.
LEMMA NetArgsType ==
  ASSUME NEW c \in Ops, NEW args \in Ops \cup {NoArgs}
  PROVE  /\ [NetIdle EXCEPT !.at = "args", !.op = c, !.args = args] \in Net
         /\ [NetIdle EXCEPT !.at = "args", !.op = c, !.args = args].op = c
BY NoTxType DEF NetIdle, Net

\* The net thread on its way to a push.
LEMMA NetPushType ==
  ASSUME NEW c \in Ops, NEW tx \in Tx
  PROVE  /\ [NetIdle EXCEPT !.at = "push", !.op = c, !.sig = tx] \in Net
         /\ [NetIdle EXCEPT !.at = "push", !.op = c, !.sig = tx].at = "push"
BY DEF NetIdle, Net

\* Each of the fields of the service takes a value of its own kind.
LEMMA ServiceType ==
  ASSUME NEW tx \in Tx
  PROVE  /\ \A s \in Stamps : [tx EXCEPT !.stamp = s] \in Tx
         /\ \A a \in Names : [tx EXCEPT !.action = a] \in Tx
         /\ \A x \in Ops \cup {NoArgs} : [tx EXCEPT !.args = x] \in Tx
BY DEF Tx

\* A push and its fields.
LEMMA PushType ==
  ASSUME NEW c \in Ops, NEW sig \in Tx, NEW tx \in Tx
  PROVE  /\ [Ask("push", c) EXCEPT !.sig = sig, !.tx = tx] \in Request
         /\ [Ask("push", c) EXCEPT !.sig = sig, !.tx = tx].kind = "push"
         /\ [Ask("push", c) EXCEPT !.sig = sig, !.tx = tx].tx = tx
         /\ [Ask("push", c) EXCEPT !.sig = sig, !.tx = tx].sig = sig
         /\ [Ask("push", c) EXCEPT !.sig = sig, !.tx = tx].op = c
BY DEF Ask, Request

\* An answer and its fields.
LEMMA AnswerType ==
  ASSUME NEW r \in Request, NEW b \in BOOLEAN
  PROVE  /\ [r EXCEPT !.kind = "answer", !.ok = b] \in Request
         /\ [r EXCEPT !.kind = "answer", !.ok = b].kind = "answer"
         /\ [r EXCEPT !.kind = "answer", !.ok = b].tx = r.tx
         /\ [r EXCEPT !.kind = "answer", !.ok = b].op = r.op
         /\ [r EXCEPT !.kind = "answer", !.ok = b].ok = b
BY DEF Request

\* Telling the user a result keeps the type of the results.
LEMMA ToldType ==
  ASSUME told \in [Ops -> {"nothing", "failure", "success"}], open \in BOOLEAN,
         NEW c \in Ops, NEW what \in {"failure", "success"}, Tell(c, what)
  PROVE  told' \in [Ops -> {"nothing", "failure", "success"}]
BY DEF Tell

-----------------------------------------------------------------------------
(* Types.  TypeOK is not inductive: a net thread in the middle of a handler  *)
(* asks on behalf of the operation it holds, so it must hold one.            *)

Typed == TypeOK /\ (net.at = "idle" \/ net.op \in Ops)

\* Typed holds at first and is kept by every step.
LEMMA TypedIsInductive ==
  (Init => Typed) /\ (Typed /\ [Next]_vars => Typed')
<1>1. Init => Typed
  <2>1. NetIdle \in Net /\ NetIdle.at = "idle"
    BY NoTxType DEF NetIdle, Net
  <2>2. ASSUME Init PROVE told \in [Ops -> {"nothing", "failure", "success"}]
    BY <2>2 DEF Init
  <2> QED BY <2>1, <2>2, NoTxType DEF Init, TypeOK, Typed
<1>2. Typed /\ [Next]_vars => Typed'
  <2> SUFFICES ASSUME Typed, [Next]_vars PROVE Typed'
    OBVIOUS
  <2> USE DEF TypeOK, Typed
  <2>1. ASSUME NEW c \in Ops, Confirm(c) PROVE Typed'
    <3>1. Ask("abi", c) \in Request
      BY AskType DEF Kinds
    <3> QED BY <2>1, <3>1 DEF Confirm
  <2>2. CASE Leave
    BY <2>2 DEF Leave
  <2>3. CASE SetArgs
    <3>1. net.op \in Ops /\ net.args \in Ops \cup {NoArgs}
      BY <2>3 DEF Net, SetArgs
    <3>2. service' \in Tx
      BY <2>3, <3>1, ServiceType DEF SetArgs
    <3>3. Ask("info", net.op) \in Request
      BY <3>1, AskType DEF Kinds
    <3>4. NetIdle \in Net
      BY NoTxType DEF NetIdle, Net
    <3> QED BY <2>3, <3>2, <3>3, <3>4 DEF SetArgs, NetIdle
  <2>4. CASE CopyKeys
    <3>1. main \in Ops
      BY <2>4 DEF CopyKeys, MainIdle
    <3>2. Ask("keys", main) \in Request
      BY <3>1, AskType DEF Kinds
    <3> QED BY <2>4, <3>2 DEF CopyKeys
  <2>5. CASE Push
    <3>1. net.op \in Ops /\ net.sig \in Tx
      BY <2>5 DEF Net, Push
    <3>2. [Ask("push", net.op) EXCEPT !.sig = net.sig, !.tx = service] \in Request
      BY <3>1, PushType
    <3>3. NetIdle \in Net
      BY NoTxType DEF NetIdle, Net
    <3> QED BY <2>5, <3>2, <3>3 DEF Push, NetIdle
  <2>6. ASSUME NEW r \in requests, AbiAnswer(r) PROVE Typed'
    <3>1. r.op \in Ops
      BY DEF Request
    <3>2. net' \in Net /\ net'.op \in Ops
      <4>1. PICK args \in {r.op, NoArgs} :
              net' = [NetIdle EXCEPT !.at = "args", !.op = r.op, !.args = args]
        BY <2>6 DEF AbiAnswer
      <4> QED BY <3>1, <4>1, NetArgsType
    <3>3. service' \in Tx
      BY <2>6, <3>1, ActionNameType, ServiceType DEF AbiAnswer
    <3> QED BY <2>6, <3>2, <3>3 DEF AbiAnswer
  <2>7. ASSUME NEW r \in requests, InfoAnswer(r) PROVE Typed'
    <3>1. service' \in Tx
      BY <2>7, ServiceType DEF InfoAnswer
    <3>2. r.op \in Ops
      BY DEF Request
    <3> QED BY <2>7, <3>1, <3>2 DEF InfoAnswer
  <2>8. ASSUME NEW r \in requests, KeysAnswer(r) PROVE Typed'
    <3>1. r.op \in Ops
      BY DEF Request
    <3>2. [NetIdle EXCEPT !.at = "push", !.op = r.op, !.sig = keyReq] \in Net
      BY <3>1, NetPushType
    <3>3. net'.op \in Ops \/ net' = net
      BY <2>8, <3>1 DEF KeysAnswer, NetIdle
    <3> QED BY <2>8, <3>1, <3>2, <3>3 DEF KeysAnswer
  <2>9. ASSUME NEW r \in requests, Chain(r) PROVE Typed'
    <3>1. Accepts(r) \in BOOLEAN /\ r.tx \in Tx
      BY DEF Accepts, Request
    <3>2. [r EXCEPT !.kind = "answer", !.ok = Accepts(r)] \in Request
      BY <3>1, AnswerType
    <3> QED BY <2>9, <3>1, <3>2 DEF Chain
  <2>10. ASSUME NEW r \in requests, PushAnswer(r) PROVE Typed'
    <3>1. r.op \in Ops
      BY DEF Request
    <3>2. told' \in [Ops -> {"nothing", "failure", "success"}]
      BY <2>10, <3>1, ToldType DEF PushAnswer
    <3> QED BY <2>10, <3>2 DEF PushAnswer
  <2>11. ASSUME NEW r \in requests, Fail(r) PROVE Typed'
    <3>1. r.op \in Ops
      BY DEF Request
    <3>2. told' \in [Ops -> {"nothing", "failure", "success"}]
      BY <2>11, <3>1, ToldType DEF Fail
    <3> QED BY <2>11, <3>2 DEF Fail
  <2>12. CASE UNCHANGED vars
    BY <2>12 DEF vars
  <2> QED BY <2>1, <2>2, <2>3, <2>4, <2>5, <2>6, <2>7, <2>8, <2>9, <2>10, <2>11, <2>12
          DEF Next, Handle
<1> QED BY <1>1, <1>2

\* Every variable of EosPush keeps its type.
THEOREM TypeCorrect == Spec => []TypeOK
<1>1. Typed => TypeOK
  BY DEF Typed
<1> QED BY <1>1, TypedIsInductive, PTL DEF Spec

-----------------------------------------------------------------------------
(* Only confirmed operations are executed.  The service is a pair of an      *)
(* action and binargs that belong together, except while the net thread is   *)
(* between the two; a push is built on that same thread, so it never reads   *)
(* the service there.                                                        *)

Paired(tx) == tx.args = NoArgs \/ (tx.args \in confirmed /\ tx.action = ActionName(tx.args))

ServicePaired ==
  /\ net.at # "args" => Paired(service)
  /\ net.at = "args" => /\ net.op \in confirmed
                        /\ net.args \in {net.op, NoArgs}
                        /\ service.action = ActionName(net.op)

RequestsPaired ==
  \A r \in requests : /\ r.kind = "abi" => r.op \in confirmed
                      /\ r.kind = "push" => Paired(r.tx)

Mixless == Typed /\ ServicePaired /\ RequestsPaired /\ ExecutedWasConfirmed

\* A step confirms operations and never takes one back, on the same page.
LEMMA ConfirmedStays ==
  ASSUME [Next]_vars
  PROVE  page' = page /\ confirmed \subseteq confirmed'
BY DEF Next, vars, Confirm, Leave, SetArgs, CopyKeys, Push, Handle, AbiAnswer, InfoAnswer,
       KeysAnswer, Chain, PushAnswer, Fail

\* The requests of EosPush are asked for by their kind.
LEMMA AskKind ==
  ASSUME NEW c, NEW kind
  PROVE  Ask(kind, c).kind = kind /\ Ask(kind, c).op = c
BY DEF Ask

\* The service stays paired: the step that writes the action and the step that
\* writes the binargs are of one handler.
LEMMA ServiceStaysPaired ==
  ASSUME Mixless, [Next]_vars
  PROVE  ServicePaired'
<1> USE DEF Mixless, Typed, TypeOK, ServicePaired, Paired
<1>0. /\ page' = page /\ confirmed \subseteq confirmed'
      /\ \A c : ActionName(c)' = ActionName(c)
  BY ConfirmedStays DEF ActionName
<1>1. CASE UNCHANGED <<net, service>>
  BY <1>0, <1>1 DEF ActionName
<1>2. CASE SetArgs
  <2>1. net'.at = "idle"
    BY <1>2 DEF SetArgs, NetIdle
  <2>2. service'.args = net.args /\ service'.action = service.action
    BY <1>2 DEF SetArgs, Tx
  <2> QED BY <1>0, <1>2, <2>1, <2>2 DEF SetArgs, ActionName
<1>3. CASE Push
  BY <1>0, <1>3 DEF Push, NetIdle, ActionName
<1>4. ASSUME NEW r \in requests, AbiAnswer(r) PROVE ServicePaired'
  <2>1. PICK args \in {r.op, NoArgs} :
          net' = [NetIdle EXCEPT !.at = "args", !.op = r.op, !.args = args]
    BY <1>4 DEF AbiAnswer
  <2>2. net'.at = "args" /\ net'.op = r.op /\ net'.args = args
    BY <2>1 DEF NetIdle
  <2>3. service'.action = ActionName(r.op)
    BY <1>4 DEF AbiAnswer, Tx
  <2>4. r.op \in confirmed
    BY <1>4 DEF AbiAnswer, RequestsPaired
  <2> QED BY <1>0, <2>2, <2>3, <2>4 DEF ActionName
<1>5. ASSUME NEW r \in requests, InfoAnswer(r) PROVE ServicePaired'
  <2>1. net' = net /\ service'.args = service.args /\ service'.action = service.action
    BY <1>5 DEF InfoAnswer, Tx
  <2> QED BY <1>0, <2>1 DEF ActionName
<1>6. ASSUME NEW r \in requests, KeysAnswer(r) PROVE ServicePaired'
  <2>1. service' = service /\ net = NetIdle
        /\ (net' = net \/ net' = [NetIdle EXCEPT !.at = "push", !.op = r.op, !.sig = keyReq])
    BY <1>6 DEF KeysAnswer
  <2>2. [NetIdle EXCEPT !.at = "push", !.op = r.op, !.sig = keyReq].at = "push"
    BY NetPushType DEF Request
  <2>3. NetIdle.at = "idle"
    BY DEF NetIdle
  <2>4. net.at # "args" /\ net'.at # "args"
    BY <2>1, <2>2, <2>3
  <2> QED BY <1>0, <2>1, <2>4 DEF ActionName
<1> QED BY <1>1, <1>2, <1>3, <1>4, <1>5, <1>6
        DEF Next, vars, Handle, Confirm, Leave, CopyKeys, Chain, PushAnswer, Fail

\* A push carries the service as it is while the net thread is pushing.
LEMMA RequestsStayPaired ==
  ASSUME Mixless, [Next]_vars
  PROVE  RequestsPaired'
<1> USE DEF Mixless, Typed, TypeOK, RequestsPaired, Paired
<1>0. /\ page' = page /\ confirmed \subseteq confirmed'
      /\ \A c : ActionName(c)' = ActionName(c)
  BY ConfirmedStays DEF ActionName
<1>1. CASE requests' \subseteq requests
  BY <1>0, <1>1 DEF ActionName
<1>2. ASSUME NEW c \in Ops, Confirm(c), requests' = requests \cup {Ask("abi", c)}
      PROVE  RequestsPaired'
  BY <1>0, <1>2, AskKind DEF Confirm, ActionName
<1>3. CASE SetArgs
  BY <1>0, <1>3, AskKind DEF SetArgs, ActionName
<1>4. CASE CopyKeys
  BY <1>0, <1>4, AskKind DEF CopyKeys, ActionName
<1>5. CASE Push
  <2>0. net.at = "push"
    BY <1>5 DEF Push
  <2>1. net.op \in Ops /\ net.sig \in Tx /\ service \in Tx /\ Paired(service)
    <3>1. Paired(service)
      BY <2>0 DEF ServicePaired
    <3> QED BY <2>0, <3>1 DEF Net
  <2> DEFINE p == [Ask("push", net.op) EXCEPT !.sig = net.sig, !.tx = service]
  <2>2. p.kind = "push" /\ p.tx = service
    BY <2>1 DEF Ask
  <2>3. requests' = requests \cup {p}
    BY <1>5 DEF Push
  <2> HIDE DEF p
  <2> QED BY <1>0, <2>1, <2>2, <2>3 DEF ActionName
<1>6. ASSUME NEW r \in requests, Chain(r) PROVE RequestsPaired'
  <2> DEFINE a == [r EXCEPT !.kind = "answer", !.ok = Accepts(r)]
  <2>0. Accepts(r) \in BOOLEAN /\ r \in Request
    BY DEF Accepts
  <2>1. a.kind = "answer"
    BY <2>0, AnswerType
  <2>2. requests' \subseteq requests \cup {a}
    BY <1>6 DEF Chain
  <2> HIDE DEF a
  <2> QED BY <1>0, <2>1, <2>2 DEF ActionName
<1> QED BY <1>1, <1>2, <1>3, <1>4, <1>5, <1>6
        DEF Next, vars, Handle, Confirm, Leave, AbiAnswer, InfoAnswer, KeysAnswer,
            PushAnswer, Fail

\* No step mixes the action of one operation with the data of another where the
\* chain takes it.
LEMMA MixlessIsInductive == (Init => Mixless) /\ (Mixless /\ [Next]_vars => Mixless')
<1>1. Init => Mixless
  <2>1. NetIdle.at = "idle" /\ NoTx.args = NoArgs
    BY DEF NetIdle, NoTx
  <2> QED BY <2>1, TypedIsInductive
          DEF Init, Mixless, ServicePaired, RequestsPaired, ExecutedWasConfirmed, Paired
<1>2. Mixless /\ [Next]_vars => Mixless'
  <2> SUFFICES ASSUME Mixless, [Next]_vars PROVE Mixless'
    OBVIOUS
  <2>1. Typed'
    BY TypedIsInductive DEF Mixless
  <2>2. ExecutedWasConfirmed'
    <3>0. /\ page' = page /\ confirmed \subseteq confirmed'
          /\ \A c : ActionName(c)' = ActionName(c)
      BY ConfirmedStays DEF ActionName
    <3>1. CASE executed' = executed
      BY <3>0, <3>1 DEF Mixless, ExecutedWasConfirmed, ActionName
    <3>2. ASSUME NEW r \in requests, Chain(r), executed' # executed PROVE ExecutedWasConfirmed'
      <4>1. executed' = executed \cup {r.tx} /\ r.kind = "push" /\ r.tx.args # NoArgs
        BY <3>2 DEF Chain, Accepts
      <4>2. r.tx.args \in confirmed /\ r.tx.action = ActionName(r.tx.args)
        BY <4>1 DEF Mixless, RequestsPaired, Paired
      <4> QED BY <3>0, <4>1, <4>2 DEF Mixless, ExecutedWasConfirmed, ActionName
    <3> QED BY <3>1, <3>2 DEF Next, vars, Handle, Confirm, Leave, SetArgs, CopyKeys, Push,
                              AbiAnswer, InfoAnswer, KeysAnswer, PushAnswer, Fail
  <2> QED BY <2>1, <2>2, ServiceStaysPaired, RequestsStayPaired DEF Mixless
<1> QED BY <1>1, <1>2

\* For any operations and blocks, whatever the chain executes was confirmed.
THEOREM ConfirmedOnly == Spec => []ExecutedWasConfirmed
<1>1. Mixless => ExecutedWasConfirmed
  BY DEF Mixless
<1> QED BY <1>1, MixlessIsInductive, PTL DEF Spec

-----------------------------------------------------------------------------
(* The masked HUD keeps the operations of the transfer page apart: from the  *)
(* confirmation to the last answer exactly one request, handler of the main  *)
(* thread or handler of the net thread carries the operation, and the HUD is *)
(* there all the time.                                                       *)

OneCarrier ==
  /\ \A r, s \in requests : r = s
  /\ requests # {} => net = NetIdle /\ MainIdle
  /\ net # NetIdle => MainIdle

Covered == masked /\ page = "transfer" => OneCarrier /\ (UnderWay => hud) /\ ~overlapped

\* The HUD covers a masked page's operation from its confirmation to its last answer.
LEMMA CoveredIsInductive == (Init => Covered) /\ (Covered /\ [Next]_vars => Covered')
<1>1. Init => Covered
  BY DEF Init, Covered, OneCarrier, MainIdle, UnderWay
<1>2. Covered /\ [Next]_vars => Covered'
  <2> SUFFICES ASSUME Covered, [Next]_vars, masked', page' = "transfer" PROVE Covered'
    BY DEF Covered
  <2>0. masked /\ page = "transfer"
    BY DEF Next, vars, Confirm, Leave, SetArgs, CopyKeys, Push, Handle, AbiAnswer, InfoAnswer,
           KeysAnswer, Chain, PushAnswer, Fail
  <2>i. OneCarrier /\ (UnderWay => hud) /\ ~overlapped
    BY <2>0 DEF Covered
  <2> USE <2>0, <2>i DEF OneCarrier, UnderWay, MainIdle
  <2> SUFFICES (OneCarrier /\ (UnderWay => hud) /\ ~overlapped)'
    BY DEF Covered
  <2>1. ASSUME NEW c \in Ops, Confirm(c) PROVE (OneCarrier /\ (UnderWay => hud) /\ ~overlapped)'
    <3>1. requests = {} /\ net = NetIdle /\ main = NoArgs
      BY <2>1 DEF Confirm, Touchable
    <3>2. hud'
      BY <2>1 DEF Confirm
    <3>3. ~overlapped'
      BY <2>1, <3>1 DEF Confirm
    <3>4. OneCarrier'
      BY <2>1, <3>1 DEF Confirm
    <3> QED BY <3>2, <3>3, <3>4
  <2>2. CASE Leave
    BY <2>2 DEF Leave
  <2>3. CASE SetArgs
    <3>1. net # NetIdle
      BY <2>3 DEF SetArgs, NetIdle
    <3> QED BY <2>3, <3>1 DEF SetArgs
  <2>4. CASE CopyKeys
    BY <2>4 DEF CopyKeys
  <2>5. CASE Push
    <3>1. net # NetIdle
      BY <2>5 DEF Push, NetIdle
    <3> QED BY <2>5, <3>1 DEF Push
  <2>6. ASSUME NEW r \in requests, AbiAnswer(r)
        PROVE  (OneCarrier /\ (UnderWay => hud) /\ ~overlapped)'
    BY <2>6 DEF AbiAnswer
  <2>7. ASSUME NEW r \in requests, InfoAnswer(r)
        PROVE  (OneCarrier /\ (UnderWay => hud) /\ ~overlapped)'
    BY <2>7 DEF InfoAnswer
  <2>8. ASSUME NEW r \in requests, KeysAnswer(r)
        PROVE  (OneCarrier /\ (UnderWay => hud) /\ ~overlapped)'
    BY <2>8 DEF KeysAnswer
  <2>9. ASSUME NEW r \in requests, Chain(r)
        PROVE  (OneCarrier /\ (UnderWay => hud) /\ ~overlapped)'
    BY <2>9 DEF Chain
  <2>10. ASSUME NEW r \in requests, PushAnswer(r)
         PROVE  (OneCarrier /\ (UnderWay => hud) /\ ~overlapped)'
    BY <2>10 DEF PushAnswer
  <2>11. ASSUME NEW r \in requests, Fail(r)
         PROVE  (OneCarrier /\ (UnderWay => hud) /\ ~overlapped)'
    BY <2>11 DEF Fail
  <2>12. CASE UNCHANGED vars
    BY <2>12 DEF vars
  <2> QED BY <2>1, <2>2, <2>3, <2>4, <2>5, <2>6, <2>7, <2>8, <2>9, <2>10, <2>11, <2>12
          DEF Next, Handle
<1> QED BY <1>1, <1>2

\* For any operations and blocks, no two operations of a masked transfer page
\* are ever under way together.
THEOREM MaskApart == Spec => []MaskKeepsApart
<1>1. Covered => MaskKeepsApart
  BY DEF Covered, MaskKeepsApart
<1> QED BY <1>1, CoveredIsInductive, PTL DEF Spec

-----------------------------------------------------------------------------
(* Successes and transactions are counted against each other: a transaction  *)
(* that was executed is owed one success by the answer that says so, and the *)
(* page takes the answer when it shows it.                                   *)

Accepted  == {r \in requests : r.kind = "answer" /\ r.ok}
Successes == {c \in Ops : told[c] = "success"}

Counted ==
  /\ IsFiniteSet(Accepted) /\ IsFiniteSet(Successes) /\ IsFiniteSet(executed)
  /\ Cardinality(Accepted) + Cardinality(Successes) <= Cardinality(executed)

\* A step owes no more than it had executed: it owes nothing new, or the chain
\* executes one transaction and owes one success, or the page pays one.
OwesNothingNew ==
  Accepted' \subseteq Accepted /\ Successes' \subseteq Successes /\ executed' = executed
OwesOneMore ==
  \E tx, a : /\ tx \notin executed /\ executed' = executed \cup {tx}
             /\ Accepted' \subseteq Accepted \cup {a} /\ Successes' \subseteq Successes
PaysOne ==
  \E r \in Accepted : \E c : /\ Accepted' \subseteq Accepted \ {r}
                              /\ Successes' \subseteq Successes \cup {c} /\ executed' = executed

\* Whatever the step is, it is one of the three.
LEMMA StepsOwe ==
  ASSUME Typed, [Next]_vars
  PROVE  OwesNothingNew \/ OwesOneMore \/ PaysOne
<1> USE DEF Typed, TypeOK
<1>1. ASSUME requests' \subseteq requests, UNCHANGED <<told, executed>> PROVE OwesNothingNew
  BY <1>1 DEF OwesNothingNew, Accepted, Successes
<1>2. ASSUME NEW a, a.kind # "answer", requests' = requests \cup {a}, UNCHANGED <<told, executed>>
      PROVE  OwesNothingNew
  BY <1>2 DEF OwesNothingNew, Accepted, Successes
<1>3. ASSUME NEW c \in Ops, requests' \subseteq requests, UNCHANGED executed,
             told' = [told EXCEPT ![c] = "failure"] \/ told' = told
      PROVE  OwesNothingNew
  BY <1>3 DEF OwesNothingNew, Accepted, Successes
<1>4. ASSUME NEW c \in Ops, Confirm(c) PROVE OwesNothingNew
  <2>1. CASE requests' = requests \cup {Ask("abi", c)} /\ UNCHANGED told
    <3>1. Ask("abi", c).kind # "answer"
      BY AskKind
    <3> QED  BY <1>2, <1>4, <2>1, <3>1 DEF Confirm
  <2>2. CASE told' = [told EXCEPT ![c] = "failure"] /\ UNCHANGED requests
    BY <1>3, <1>4, <2>2 DEF Confirm
  <2> QED  BY <1>4, <2>1, <2>2 DEF Confirm
<1>5. CASE SetArgs
  <2>1. Ask("info", net.op).kind # "answer"
    BY AskKind
  <2> QED  BY <1>2, <1>5, <2>1 DEF SetArgs
<1>6. CASE CopyKeys
  <2>1. Ask("keys", main).kind # "answer"
    BY AskKind
  <2> QED  BY <1>2, <1>6, <2>1 DEF CopyKeys
<1>7. CASE Push
  <2> DEFINE p == [Ask("push", net.op) EXCEPT !.sig = net.sig, !.tx = service]
  <2>1. p.kind = "push"
    BY DEF Ask
  <2>2. requests' = requests \cup {p} /\ UNCHANGED <<told, executed>>
    BY <1>7 DEF Push
  <2> HIDE DEF p
  <2> QED  BY <1>2, <2>1, <2>2
<1>8. CASE Leave \/ UNCHANGED vars \/ (\E r \in requests : AbiAnswer(r) \/ InfoAnswer(r))
  BY <1>1, <1>8 DEF Leave, vars, AbiAnswer, InfoAnswer
<1>9. ASSUME NEW r \in requests, KeysAnswer(r) PROVE OwesNothingNew
  <2>1. r.op \in Ops
    BY DEF Request
  <2> QED  BY <1>3, <1>9, <2>1 DEF KeysAnswer
<1>10. ASSUME NEW r \in requests, Chain(r) PROVE OwesNothingNew \/ OwesOneMore
  <2> DEFINE a == [r EXCEPT !.kind = "answer", !.ok = Accepts(r)]
  <2>1. Accepts(r) \in BOOLEAN /\ r \in Request
    BY DEF Accepts
  <2>2. a.ok = Accepts(r)
    BY <2>1, AnswerType
  <2>3. requests' = (requests \ {r}) \cup {a} /\ UNCHANGED told
        /\ executed' = IF Accepts(r) THEN executed \cup {r.tx} ELSE executed
    BY <1>10 DEF Chain
  <2> HIDE DEF a
  <2>4. CASE Accepts(r)
    <3>1. r.tx \notin executed /\ executed' = executed \cup {r.tx}
      BY <2>3, <2>4 DEF Accepts
    <3>2. Accepted' \subseteq Accepted \cup {a} /\ Successes' \subseteq Successes
      BY <2>3 DEF Accepted, Successes
    <3> QED  BY <3>1, <3>2 DEF OwesOneMore
  <2>5. CASE ~Accepts(r)
    <3>1. ~a.ok
      BY <2>2, <2>5
    <3> QED  BY <2>3, <2>5, <3>1 DEF OwesNothingNew, Accepted, Successes
  <2> QED  BY <2>4, <2>5
<1>11. ASSUME NEW r \in requests, PushAnswer(r) PROVE OwesNothingNew \/ PaysOne
  <2>1. r.op \in Ops /\ r.ok \in BOOLEAN /\ r.kind = "answer"
    BY <1>11 DEF Request, PushAnswer
  <2>2. requests' = requests \ {r} /\ UNCHANGED executed
    BY <1>11 DEF PushAnswer
  <2>3. CASE r.ok
    <3>1. r \in Accepted
      BY <2>1, <2>3 DEF Accepted
    <3>2. Successes' \subseteq Successes \cup {r.op}
      BY <1>11, <2>1 DEF PushAnswer, Tell, Successes
    <3>3. Accepted' \subseteq Accepted \ {r}
      BY <2>2 DEF Accepted
    <3> QED  BY <2>2, <3>1, <3>2, <3>3 DEF PaysOne
  <2>4. CASE ~r.ok
    <3>1. told' = [told EXCEPT ![r.op] = "failure"] \/ told' = told
      BY <1>11, <2>4 DEF PushAnswer, Tell
    <3> QED  BY <1>3, <2>1, <2>2, <3>1
  <2> QED  BY <2>3, <2>4
<1>12. ASSUME NEW r \in requests, Fail(r) PROVE OwesNothingNew
  <2>1. r.op \in Ops
    BY DEF Request
  <2> QED  BY <1>3, <1>12, <2>1 DEF Fail, Tell
<1> QED  BY <1>4, <1>5, <1>6, <1>7, <1>8, <1>9, <1>10, <1>11, <1>12 DEF Next, Handle

\* There are never fewer executions than accepted pushes and successes together.
LEMMA CountedIsKept ==
  ASSUME Typed, Counted, [Next]_vars
  PROVE  Counted'
<1>0. /\ IsFiniteSet(Accepted) /\ IsFiniteSet(Successes) /\ IsFiniteSet(executed)
      /\ Cardinality(Accepted) + Cardinality(Successes) <= Cardinality(executed)
      /\ Cardinality(Accepted) \in Nat /\ Cardinality(Successes) \in Nat
      /\ Cardinality(executed) \in Nat
  BY FS_CardinalityType DEF Counted
<1>1. CASE OwesNothingNew
  <2>1. /\ IsFiniteSet(Accepted') /\ Cardinality(Accepted') <= Cardinality(Accepted)
        /\ Cardinality(Accepted') \in Nat
    BY <1>0, <1>1, FS_Subset, FS_CardinalityType DEF OwesNothingNew
  <2>2. /\ IsFiniteSet(Successes') /\ Cardinality(Successes') <= Cardinality(Successes)
        /\ Cardinality(Successes') \in Nat
    BY <1>0, <1>1, FS_Subset, FS_CardinalityType DEF OwesNothingNew
  <2>3. executed' = executed
    BY <1>1 DEF OwesNothingNew
  <2> QED  BY <1>0, <2>1, <2>2, <2>3 DEF Counted
<1>2. CASE OwesOneMore
  <2>1. PICK tx, a : /\ tx \notin executed /\ executed' = executed \cup {tx}
                     /\ Accepted' \subseteq Accepted \cup {a} /\ Successes' \subseteq Successes
    BY <1>2 DEF OwesOneMore
  <2>2. IsFiniteSet(executed') /\ Cardinality(executed') = Cardinality(executed) + 1
    BY <1>0, <2>1, FS_AddElement
  <2>3. /\ IsFiniteSet(Accepted \cup {a})
        /\ Cardinality(Accepted \cup {a}) <= Cardinality(Accepted) + 1
        /\ Cardinality(Accepted \cup {a}) \in Nat
    <3>1. /\ IsFiniteSet(Accepted \cup {a})
          /\ Cardinality(Accepted \cup {a}) = IF a \in Accepted THEN Cardinality(Accepted)
                                                       ELSE Cardinality(Accepted) + 1
      BY <1>0, FS_AddElement
    <3> QED  BY <1>0, <3>1
  <2>4. /\ IsFiniteSet(Accepted') /\ Cardinality(Accepted') <= Cardinality(Accepted \cup {a})
        /\ Cardinality(Accepted') \in Nat
    BY <2>1, <2>3, FS_Subset, FS_CardinalityType
  <2>5. /\ IsFiniteSet(Successes') /\ Cardinality(Successes') <= Cardinality(Successes)
        /\ Cardinality(Successes') \in Nat
    BY <1>0, <2>1, FS_Subset, FS_CardinalityType
  <2> QED  BY <1>0, <2>2, <2>3, <2>4, <2>5 DEF Counted
<1>3. CASE PaysOne
  <2>0. PICK r \in Accepted : \E c : /\ Accepted' \subseteq Accepted \ {r}
                                     /\ Successes' \subseteq Successes \cup {c} /\ executed' = executed
    BY <1>3 DEF PaysOne
  <2>1. PICK c : /\ Accepted' \subseteq Accepted \ {r}
                 /\ Successes' \subseteq Successes \cup {c} /\ executed' = executed
    BY <2>0
  <2>2. /\ IsFiniteSet(Accepted \ {r})
        /\ Cardinality(Accepted \ {r}) = Cardinality(Accepted) - 1
        /\ Cardinality(Accepted \ {r}) \in Nat
    BY <1>0, FS_RemoveElement, FS_CardinalityType
  <2>3. /\ IsFiniteSet(Accepted') /\ Cardinality(Accepted') <= Cardinality(Accepted \ {r})
        /\ Cardinality(Accepted') \in Nat
    BY <2>1, <2>2, FS_Subset, FS_CardinalityType
  <2>4. /\ IsFiniteSet(Successes \cup {c})
        /\ Cardinality(Successes \cup {c}) <= Cardinality(Successes) + 1
        /\ Cardinality(Successes \cup {c}) \in Nat
    <3>1. /\ IsFiniteSet(Successes \cup {c})
          /\ Cardinality(Successes \cup {c}) = IF c \in Successes THEN Cardinality(Successes)
                                                       ELSE Cardinality(Successes) + 1
      BY <1>0, FS_AddElement
    <3> QED  BY <1>0, <3>1
  <2>5. /\ IsFiniteSet(Successes') /\ Cardinality(Successes') <= Cardinality(Successes \cup {c})
        /\ Cardinality(Successes') \in Nat
    BY <2>1, <2>4, FS_Subset, FS_CardinalityType
  <2> QED  BY <1>0, <2>1, <2>2, <2>3, <2>4, <2>5 DEF Counted
<1> QED  BY <1>1, <1>2, <1>3, StepsOwe

\* However operations overlap, the page never shows more successes than the chain
\* has executed transactions.
THEOREM SuccessesAreReal == Spec => []SuccessesAreExecuted
<1>1. Init => Typed /\ Counted
  <2> SUFFICES ASSUME Init PROVE Counted
    BY TypedIsInductive
  <2>1. Accepted = {} /\ Successes = {} /\ executed = {}
    BY DEF Init, Accepted, Successes
  <2> QED  BY <2>1, FS_EmptySet DEF Counted
<1>2. Typed /\ Counted /\ [Next]_vars => Typed' /\ Counted'
  BY TypedIsInductive, CountedIsKept
<1>3. Counted => SuccessesAreExecuted
  <2> SUFFICES ASSUME Counted PROVE Cardinality(Successes) <= Cardinality(executed)
    BY DEF SuccessesAreExecuted, Successes
  <2>1. /\ Cardinality(Accepted) \in Nat /\ Cardinality(Successes) \in Nat
        /\ Cardinality(executed) \in Nat
    BY FS_CardinalityType DEF Counted
  <2> QED  BY <2>1 DEF Counted
<1> QED  BY <1>1, <1>2, <1>3, PTL DEF Spec

-----------------------------------------------------------------------------
(* Operations confirmed one after the other.  One carrier has the operation, *)
(* and every copy of it on the way - the service, the key request, what was  *)
(* signed, what is sent - is its own; nothing of it has been executed before *)
(* the push that carries it arrives.                                         *)

Fresh(c) == \A tx \in executed : tx.args # c
Holds(tx, c) == tx.args \in {c, NoArgs}

RequestExact(r) ==
  /\ r.kind # "answer" => Fresh(r.op)
  /\ r.kind \in {"info", "keys"} => Holds(service, r.op)
  /\ r.kind = "keys" => keyReq = service
  /\ r.kind = "push" => r.sig = r.tx /\ Holds(r.tx, r.op)
  /\ r.kind = "answer" /\ r.ok => ~Fresh(r.op)

RequestsExact == \A r \in requests : RequestExact(r)

ThreadsExact ==
  /\ net.at = "args" => Fresh(net.op) /\ net.args \in {net.op, NoArgs}
  /\ net.at = "push" => Fresh(net.op) /\ Holds(service, net.op) /\ net.sig = service
  /\ ~MainIdle => Fresh(main) /\ Holds(service, main)

ResultsExact ==
  /\ \A s, t \in executed : s.args = t.args => s = t
  /\ \A c \in Ops : told[c] = "success" => ~Fresh(c)

Exact == OneCarrier /\ RequestsExact /\ ThreadsExact /\ ResultsExact
Lone  == ~overlapped => Exact

\* While nothing overlaps, every step hands the operation on to the next carrier.
LEMMA ExactIsKept ==
  ASSUME Typed, ExecutedWasConfirmed, Exact, ~overlapped', [Next]_vars
  PROVE  Exact'
<1> USE DEF Typed, TypeOK, Exact
<1>0. \A r, s \in requests : r = s
  BY DEF OneCarrier
<1>1. ASSUME NEW c \in Ops, Confirm(c) PROVE Exact'
  <2>1. UNCHANGED <<service, keyReq, net, main, executed>>
    BY <1>1 DEF Confirm
  <2>2. CASE UNCHANGED requests /\ told' = [told EXCEPT ![c] = "failure"]
    <3>1. OneCarrier' /\ RequestsExact' /\ ThreadsExact'
      BY <2>1, <2>2 DEF OneCarrier, MainIdle, RequestsExact, RequestExact, ThreadsExact, Fresh, Holds
    <3>2. ResultsExact'
      BY <2>1, <2>2 DEF ResultsExact, Fresh
    <3> QED  BY <3>1, <3>2
  <2>3. CASE requests' = requests \cup {Ask("abi", c)} /\ UNCHANGED told /\ ~UnderWay
    <3>1. requests = {} /\ net = NetIdle /\ MainIdle
      BY <2>3 DEF UnderWay
    <3>2. PICK a : a = Ask("abi", c)
      OBVIOUS
    <3>3. requests' = {a} /\ a.kind = "abi" /\ a.op = c
      BY <2>3, <3>1, <3>2, AskKind
    <3>4. Fresh(c)'
      BY <1>1, <2>1 DEF ExecutedWasConfirmed, Confirm, Fresh
    <3>5. OneCarrier'
      BY <2>1, <3>1, <3>3 DEF OneCarrier, MainIdle
    <3>6. RequestsExact'
      BY <3>3, <3>4 DEF RequestsExact, RequestExact
    <3>7. ThreadsExact' /\ ResultsExact'
      BY <2>1, <2>3 DEF ThreadsExact, ResultsExact, Fresh, Holds, MainIdle
    <3> QED  BY <3>5, <3>6, <3>7
  <2> QED  BY <1>1, <2>2, <2>3 DEF Confirm
<1>2. CASE SetArgs
  <2>1. net.at = "args" /\ net.op \in Ops /\ net' = NetIdle /\ net'.at = "idle" /\ net # NetIdle
    BY <1>2 DEF SetArgs, NetIdle
  <2>2. requests = {} /\ MainIdle
    BY <2>1 DEF OneCarrier
  <2>3. PICK a : a = Ask("info", net.op)
    OBVIOUS
  <2>4. /\ requests' = {a} /\ a.kind = "info" /\ a.op = net.op
        /\ UNCHANGED <<main, executed, told>>
    BY <1>2, <2>2, <2>3, AskKind DEF SetArgs
  <2>5. service'.args = net.args
    BY <1>2 DEF SetArgs, Tx
  <2>6. Fresh(net.op) /\ net.args \in {net.op, NoArgs}
    BY <2>1 DEF ThreadsExact
  <2>7. OneCarrier'
    BY <2>1, <2>2, <2>4 DEF OneCarrier, MainIdle
  <2>8. RequestsExact'
    BY <2>4, <2>5, <2>6 DEF RequestsExact, RequestExact, Fresh, Holds
  <2>9. ThreadsExact' /\ ResultsExact'
    BY <2>1, <2>2, <2>4 DEF ThreadsExact, ResultsExact, Fresh, Holds, MainIdle
  <2> QED  BY <2>7, <2>8, <2>9
<1>3. CASE CopyKeys
  <2>1. ~MainIdle /\ requests = {} /\ net = NetIdle /\ net.at = "idle"
    BY <1>3 DEF CopyKeys, OneCarrier, NetIdle
  <2>2. PICK a : a = Ask("keys", main)
    OBVIOUS
  <2>3. /\ requests' = {a} /\ a.kind = "keys" /\ a.op = main /\ keyReq' = service
        /\ main' = NoArgs /\ UNCHANGED <<service, net, executed, told>>
    BY <1>3, <2>1, <2>2, AskKind DEF CopyKeys
  <2>4. Fresh(main) /\ Holds(service, main)
    BY <2>1 DEF ThreadsExact
  <2>5. OneCarrier'
    BY <2>1, <2>3 DEF OneCarrier, MainIdle
  <2>6. RequestsExact'
    BY <2>3, <2>4 DEF RequestsExact, RequestExact, Fresh, Holds
  <2>7. ThreadsExact' /\ ResultsExact'
    BY <2>1, <2>3 DEF ThreadsExact, ResultsExact, Fresh, Holds, MainIdle
  <2> QED  BY <2>5, <2>6, <2>7
<1>4. CASE Push
  <2>1. net.at = "push" /\ net.op \in Ops /\ net.sig \in Tx /\ service \in Tx
    BY <1>4 DEF Push, Net
  <2>2. net # NetIdle /\ NetIdle.at = "idle"
    BY <2>1 DEF NetIdle
  <2>3. requests = {} /\ MainIdle
    BY <2>2 DEF OneCarrier
  <2>4. PICK p : p = [Ask("push", net.op) EXCEPT !.sig = net.sig, !.tx = service]
    OBVIOUS
  <2>5. p.kind = "push" /\ p.tx = service /\ p.sig = net.sig /\ p.op = net.op
    BY <2>1, <2>4 DEF Ask
  <2>6. requests' = {p} /\ net' = NetIdle /\ UNCHANGED <<service, keyReq, main, executed, told>>
    BY <1>4, <2>3, <2>4 DEF Push
  <2>7. Fresh(net.op) /\ Holds(service, net.op) /\ net.sig = service
    BY <2>1 DEF ThreadsExact
  <2>8. OneCarrier'
    BY <2>3, <2>6 DEF OneCarrier, MainIdle
  <2>9. RequestsExact'
    BY <2>5, <2>6, <2>7 DEF RequestsExact, RequestExact, Fresh, Holds
  <2>10. ThreadsExact' /\ ResultsExact'
    BY <2>2, <2>3, <2>6 DEF ThreadsExact, ResultsExact, Fresh, Holds, MainIdle
  <2> QED  BY <2>8, <2>9, <2>10
<1>5. ASSUME NEW r \in requests, AbiAnswer(r) PROVE Exact'
  <2>1. /\ requests' = {} /\ net = NetIdle /\ NetIdle.at = "idle" /\ MainIdle /\ r.kind = "abi"
        /\ UNCHANGED <<main, executed, told>>
    BY <1>0, <1>5 DEF AbiAnswer, OneCarrier, NetIdle
  <2>2. Fresh(r.op)
    BY <2>1 DEF RequestsExact, RequestExact
  <2>3. net'.at = "args" /\ net'.op = r.op /\ net'.args \in {r.op, NoArgs}
    BY <1>5, <2>1 DEF AbiAnswer, NetIdle
  <2>4. ThreadsExact' /\ OneCarrier' /\ RequestsExact'
    BY <2>1, <2>2, <2>3 DEF ThreadsExact, OneCarrier, RequestsExact, Fresh, MainIdle
  <2>5. ResultsExact'
    BY <2>1 DEF ResultsExact, Fresh
  <2> QED  BY <2>4, <2>5
<1>6. ASSUME NEW r \in requests, InfoAnswer(r) PROVE Exact'
  <2>1. /\ requests' = {} /\ net = NetIdle /\ NetIdle.at = "idle" /\ r.kind = "info" /\ main' = r.op
        /\ UNCHANGED <<net, executed, told>>
    BY <1>0, <1>6 DEF InfoAnswer, OneCarrier, NetIdle
  <2>2. Fresh(r.op) /\ Holds(service, r.op)
    BY <2>1 DEF RequestsExact, RequestExact
  <2>3. service'.args = service.args
    BY <1>6 DEF InfoAnswer, Tx
  <2>4. ThreadsExact' /\ OneCarrier' /\ RequestsExact'
    BY <2>1, <2>2, <2>3 DEF ThreadsExact, OneCarrier, RequestsExact, Fresh, Holds, MainIdle
  <2>5. ResultsExact'
    BY <2>1 DEF ResultsExact, Fresh
  <2> QED  BY <2>4, <2>5
<1>7. ASSUME NEW r \in requests, KeysAnswer(r) PROVE Exact'
  <2>1. /\ requests' = {} /\ net = NetIdle /\ NetIdle.at = "idle" /\ MainIdle /\ r.kind = "keys"
        /\ UNCHANGED <<service, main, executed>> /\ r.op \in Ops
    BY <1>0, <1>7 DEF KeysAnswer, OneCarrier, NetIdle, Request
  <2>2. Fresh(r.op) /\ Holds(service, r.op) /\ keyReq = service
    BY <2>1 DEF RequestsExact, RequestExact
  <2>3. \/ net' = NetIdle /\ told' = [told EXCEPT ![r.op] = "failure"]
        \/ /\ net' = [NetIdle EXCEPT !.at = "push", !.op = r.op, !.sig = keyReq]
           /\ UNCHANGED told
    BY <1>7, <2>1 DEF KeysAnswer
  <2>4. \/ net' = NetIdle
        \/ net'.at = "push" /\ net'.op = r.op /\ net'.sig = keyReq
    BY <2>3 DEF NetIdle
  <2>5. ThreadsExact' /\ OneCarrier' /\ RequestsExact'
    BY <2>1, <2>2, <2>4 DEF ThreadsExact, OneCarrier, RequestsExact, Fresh, Holds, MainIdle
  <2>6. ResultsExact'
    BY <2>1, <2>3 DEF ResultsExact, Fresh
  <2> QED  BY <2>5, <2>6
<1>8. ASSUME NEW r \in requests, Chain(r) PROVE Exact'
  <2> DEFINE a == [r EXCEPT !.kind = "answer", !.ok = Accepts(r)]
  <2>1. Accepts(r) \in BOOLEAN /\ r \in Request
    BY DEF Accepts
  <2>2. a.kind = "answer" /\ a.op = r.op /\ a.ok = Accepts(r)
    BY <2>1, AnswerType
  <2>3. /\ requests' = {a} /\ net = NetIdle /\ NetIdle.at = "idle" /\ MainIdle
        /\ UNCHANGED <<service, keyReq, net, main, told>> /\ r.kind = "push"
        /\ executed' = IF Accepts(r) THEN executed \cup {r.tx} ELSE executed
    BY <1>0, <1>8 DEF Chain, OneCarrier, NetIdle
  <2> HIDE DEF a
  <2>4. Fresh(r.op) /\ Holds(r.tx, r.op)
    BY <2>3 DEF RequestsExact, RequestExact
  <2>5. OneCarrier' /\ ThreadsExact'
    BY <2>3 DEF OneCarrier, ThreadsExact, MainIdle
  <2>6. CASE Accepts(r)
    <3>1. r.tx.args = r.op /\ executed' = executed \cup {r.tx}
      BY <2>3, <2>4, <2>6 DEF Accepts, Holds
    <3>2. RequestsExact'
      BY <2>2, <2>3, <3>1 DEF RequestsExact, RequestExact, Fresh
    <3>3. ResultsExact'
      BY <2>3, <2>4, <3>1 DEF ResultsExact, Fresh
    <3> QED  BY <2>5, <3>2, <3>3
  <2>7. CASE ~Accepts(r)
    <3>1. RequestsExact'
      BY <2>2, <2>3, <2>7 DEF RequestsExact, RequestExact
    <3>2. ResultsExact'
      BY <2>3, <2>7 DEF ResultsExact, Fresh
    <3> QED  BY <2>5, <3>1, <3>2
  <2> QED  BY <2>6, <2>7
<1>9. ASSUME NEW r \in requests, PushAnswer(r) \/ Fail(r) PROVE Exact'
  <2>1. /\ requests' = {} /\ net = NetIdle /\ NetIdle.at = "idle" /\ MainIdle
        /\ UNCHANGED <<net, main, executed>> /\ r.op \in Ops
    BY <1>0, <1>9 DEF PushAnswer, Fail, OneCarrier, NetIdle, Request
  <2>2. OneCarrier' /\ ThreadsExact' /\ RequestsExact'
    BY <2>1 DEF OneCarrier, ThreadsExact, RequestsExact, MainIdle
  <2>3. \/ told' = told \/ told' = [told EXCEPT ![r.op] = "failure"]
        \/ r.kind = "answer" /\ r.ok /\ told' = [told EXCEPT ![r.op] = "success"]
    BY <1>9 DEF PushAnswer, Fail, Tell
  <2>4. r.kind = "answer" /\ r.ok => ~Fresh(r.op)
    BY DEF RequestsExact, RequestExact
  <2>5. ResultsExact'
    BY <2>1, <2>3, <2>4 DEF ResultsExact, Fresh
  <2> QED  BY <2>2, <2>5
<1>10. CASE Leave \/ UNCHANGED vars
  BY <1>10 DEF Leave, vars, OneCarrier, RequestsExact, RequestExact, ThreadsExact, ResultsExact,
               Fresh, Holds, MainIdle
<1> QED  BY <1>1, <1>2, <1>3, <1>4, <1>5, <1>6, <1>7, <1>8, <1>9, <1>10 DEF Next, Handle

\* Operations that have overlapped stay so.
LEMMA OverlapStays == [Next]_vars /\ ~overlapped' => ~overlapped
BY DEF Next, vars, Confirm, Leave, SetArgs, CopyKeys, Push, Handle, AbiAnswer, InfoAnswer,
       KeysAnswer, Chain, PushAnswer, Fail

\* At the start nothing is on its way.
LEMMA LoneInit == Init => Lone
<1>1. NetIdle.at = "idle"
  BY DEF NetIdle
<1> QED  BY <1>1 DEF Init, Lone, Exact, OneCarrier, RequestsExact, ThreadsExact, ResultsExact,
                     MainIdle

\* What lone operations hold, they go on holding.
LEMMA LoneIsKept == Typed /\ ExecutedWasConfirmed /\ Lone /\ [Next]_vars => Lone'
BY OverlapStays, ExactIsKept DEF Lone

\* For any operations and blocks: operations confirmed one after the other are
\* executed at most once each, with what was signed, and their successes are theirs.
THEOREM LoneAreExact == Spec => []LoneOperationsAreExact
<1>1. Lone => LoneOperationsAreExact
  <2> SUFFICES ASSUME Exact
               PROVE  /\ \A s, t \in executed : s.args = t.args => s = t
                      /\ \A c \in Ops : told[c] = "success" => \E tx \in executed : tx.args = c
                      /\ \A r \in requests : r.kind = "push" => r.sig = r.tx
    BY DEF Lone, LoneOperationsAreExact
  <2> QED  BY DEF Exact, ResultsExact, RequestsExact, RequestExact, Fresh
<1> QED  BY <1>1, LoneInit, LoneIsKept, TypedIsInductive, ConfirmedOnly, PTL DEF Spec

-----------------------------------------------------------------------------
(* The ledger.  An operation has one carrier from its confirmation to its    *)
(* verdict - a request, a handler of the net thread or one of the main       *)
(* thread - so nobody is left to tell a second verdict, also when several    *)
(* operations overlap.                                                       *)

Awaits(c) == c \in confirmed /\ told[c] = "nothing"

Carriers ==
  /\ \A c \in Ops : told[c] # "nothing" => c \in confirmed
  /\ \A r \in requests : Awaits(r.op)
  /\ \A r, s \in requests : r.op = s.op => r = s
  /\ net.at # "idle" => Awaits(net.op) /\ \A r \in requests : r.op # net.op
  /\ ~MainIdle => /\ Awaits(main) /\ \A r \in requests : r.op # main
                  /\ net.at # "idle" => net.op # main

\* A carrier goes, with a verdict on its operation or without.
LEMMA CarrierGoes ==
  ASSUME Typed, Carriers, NEW r \in requests, requests' = requests \ {r},
         UNCHANGED <<confirmed, net, main>>,
         told' = told \/ \E what : told' = [told EXCEPT ![r.op] = what]
  PROVE  Carriers'
<1>1. /\ \A c \in Ops : c # r.op => told'[c] = told[c]
      /\ r.op \in confirmed
  BY DEF Carriers, Awaits, Typed, TypeOK
<1>2. \A s \in requests' : s \in requests /\ s.op # r.op /\ s.op \in Ops
  BY DEF Carriers, Typed, TypeOK, Request
<1>3. net.at # "idle" => net.op # r.op /\ net.op \in Ops
  BY DEF Carriers, Typed, TypeOK
<1>4. ~MainIdle => main # r.op /\ main \in Ops
  BY DEF Carriers, MainIdle, Typed, TypeOK
<1> QED  BY <1>1, <1>2, <1>3, <1>4 DEF Carriers, Awaits, MainIdle

\* Every step hands an operation on to one carrier, or ends it.
LEMMA CarriersAreKept ==
  ASSUME Typed, Carriers, [Next]_vars
  PROVE  Carriers'
<1> USE DEF Typed, TypeOK
<1>0. NetIdle.at = "idle"
  BY DEF NetIdle
<1>1. ASSUME NEW c \in Ops, Confirm(c) PROVE Carriers'
  <2>1. c \notin confirmed /\ confirmed' = confirmed \cup {c} /\ UNCHANGED <<net, main>>
    BY <1>1 DEF Confirm
  <2>2. /\ \A r \in requests : r.op # c
        /\ net.at # "idle" => net.op # c
        /\ ~MainIdle => main # c
    BY <2>1 DEF Carriers, Awaits
  <2>3. CASE UNCHANGED requests /\ told' = [told EXCEPT ![c] = "failure"]
    <3>1. \A d \in Ops : d # c => told'[d] = told[d]
      BY <2>3
    <3>2. \A r \in requests : r.op \in Ops
      BY DEF Request
    <3> QED  BY <2>1, <2>2, <2>3, <3>1, <3>2 DEF Carriers, Awaits, MainIdle
  <2>4. CASE requests' = requests \cup {Ask("abi", c)} /\ UNCHANGED told
    <3>1. PICK a : a = Ask("abi", c)
      OBVIOUS
    <3>2. a.op = c /\ requests' = requests \cup {a}
      BY <2>4, <3>1, AskKind
    <3>3. told[c] = "nothing"
      BY <2>1 DEF Carriers
    <3> QED  BY <2>1, <2>2, <2>4, <3>2, <3>3 DEF Carriers, Awaits, MainIdle
  <2> QED  BY <1>1, <2>3, <2>4 DEF Confirm
<1>2. CASE SetArgs
  <2>1. PICK a : a = Ask("info", net.op)
    OBVIOUS
  <2>2. a.op = net.op /\ requests' = requests \cup {a} /\ net.at = "args" /\ net'.at = "idle"
    BY <1>0, <1>2, <2>1, AskKind DEF SetArgs
  <2>3. UNCHANGED <<confirmed, told, main>>
    BY <1>2 DEF SetArgs
  <2> QED  BY <2>2, <2>3 DEF Carriers, Awaits, MainIdle
<1>3. CASE CopyKeys
  <2>1. PICK a : a = Ask("keys", main)
    OBVIOUS
  <2>2. a.op = main /\ requests' = requests \cup {a} /\ ~MainIdle /\ main' = NoArgs
    BY <1>3, <2>1, AskKind DEF CopyKeys
  <2>3. UNCHANGED <<confirmed, told, net>>
    BY <1>3 DEF CopyKeys
  <2> QED  BY <2>2, <2>3 DEF Carriers, Awaits, MainIdle
<1>4. CASE Push
  <2>1. PICK a : a = [Ask("push", net.op) EXCEPT !.sig = net.sig, !.tx = service]
    OBVIOUS
  <2>2. a.op = net.op
    BY <2>1 DEF Ask
  <2>3. requests' = requests \cup {a} /\ net.at = "push" /\ net'.at = "idle"
    BY <1>0, <1>4, <2>1 DEF Push
  <2>4. UNCHANGED <<confirmed, told, main>>
    BY <1>4 DEF Push
  <2> QED  BY <2>2, <2>3, <2>4 DEF Carriers, Awaits, MainIdle
<1>5. ASSUME NEW r \in requests, AbiAnswer(r) PROVE Carriers'
  <2>1. requests' = requests \ {r} /\ net.at = "idle" /\ UNCHANGED <<confirmed, told, main>>
    BY <1>0, <1>5 DEF AbiAnswer
  <2>2. PICK args : net' = [NetIdle EXCEPT !.at = "args", !.op = r.op, !.args = args]
    BY <1>5 DEF AbiAnswer
  <2>3. net'.at = "args" /\ net'.op = r.op
    BY <2>2 DEF NetIdle
  <2> QED  BY <2>1, <2>3 DEF Carriers, Awaits, MainIdle
<1>6. ASSUME NEW r \in requests, InfoAnswer(r) PROVE Carriers'
  <2>1. /\ requests' = requests \ {r} /\ MainIdle /\ main' = r.op /\ r.op # NoArgs
        /\ UNCHANGED <<confirmed, told, net>>
    BY <1>6, NoArgsAssumption DEF InfoAnswer, Request
  <2> QED  BY <2>1 DEF Carriers, Awaits, MainIdle
<1>7. ASSUME NEW r \in requests, KeysAnswer(r) PROVE Carriers'
  <2>1. requests' = requests \ {r} /\ net.at = "idle" /\ UNCHANGED <<confirmed, main>>
    BY <1>0, <1>7 DEF KeysAnswer
  <2>2. CASE told' = [told EXCEPT ![r.op] = "failure"] /\ UNCHANGED net
    BY <2>1, <2>2, CarrierGoes
  <2>3. CASE net' = [NetIdle EXCEPT !.at = "push", !.op = r.op, !.sig = keyReq] /\ UNCHANGED told
    <3>1. net'.at = "push" /\ net'.op = r.op
      BY <2>3 DEF NetIdle
    <3> QED  BY <2>1, <2>3, <3>1 DEF Carriers, Awaits, MainIdle
  <2> QED  BY <1>7, <2>2, <2>3 DEF KeysAnswer
<1>8. ASSUME NEW r \in requests, Chain(r) PROVE Carriers'
  <2>1. PICK a : a = [r EXCEPT !.kind = "answer", !.ok = Accepts(r)]
    OBVIOUS
  <2>2. a.op = r.op
    BY <2>1, AnswerType DEF Accepts
  <2>3. requests' = (requests \ {r}) \cup {a} /\ UNCHANGED <<confirmed, told, net, main>>
    BY <1>8, <2>1 DEF Chain
  <2> QED  BY <2>2, <2>3 DEF Carriers, Awaits, MainIdle
<1>9. ASSUME NEW r \in requests, PushAnswer(r) \/ Fail(r) PROVE Carriers'
  <2>1. requests' = requests \ {r} /\ UNCHANGED <<confirmed, net, main>>
    BY <1>9 DEF PushAnswer, Fail
  <2>2. told' = told \/ \E what : told' = [told EXCEPT ![r.op] = what]
    BY <1>9 DEF PushAnswer, Fail, Tell
  <2> QED  BY <2>1, <2>2, CarrierGoes
<1>10. CASE Leave \/ UNCHANGED vars
  BY <1>10 DEF Leave, vars, Carriers, Awaits, MainIdle
<1> QED  BY <1>1, <1>2, <1>3, <1>4, <1>5, <1>6, <1>7, <1>8, <1>9, <1>10 DEF Next, Handle

-----------------------------------------------------------------------------
(* The steps of the ledger.  A transaction is known by its operation and its *)
(* block, since the page and the operation give its action: the entries of   *)
(* the ledger are as many as the transactions.                               *)

Entry(tx) == [op |-> tx.args, mark |-> tx.stamp]
Entries   == {[op |-> tx.args, mark |-> tx.stamp] : tx \in executed}

\* Transactions of confirmed operations with one entry are one transaction.
LEMMA EntryDetermines ==
  ASSUME NEW tx \in Tx, NEW ty \in Tx, Entry(tx) = Entry(ty),
         tx.action = ActionName(tx.args), ty.action = ActionName(ty.args)
  PROVE  tx = ty
<1>1. /\ tx = [stamp |-> tx.stamp, action |-> tx.action, args |-> tx.args]
      /\ ty = [stamp |-> ty.stamp, action |-> ty.action, args |-> ty.args]
  BY DEF Tx
<1>2. Entry(tx).op = tx.args /\ Entry(ty).op = ty.args
      /\ Entry(tx).mark = tx.stamp /\ Entry(ty).mark = ty.stamp
  BY DEF Entry
<1>3. tx.args = ty.args /\ tx.stamp = ty.stamp
  BY <1>2
<1> QED  BY <1>1, <1>3

\* The ledger has as many entries as the chain has executed transactions.
LEMMA EntriesCount ==
  ASSUME Mixless, IsFiniteSet(executed)
  PROVE  Cardinality(Entries) = Cardinality(executed)
<1> DEFINE f == [tx \in executed |-> Entry(tx)]
<1>1. f \in [executed -> Entries]
  BY DEF Entry, Entries
<1>2. \A tx, ty \in executed : f[tx] = f[ty] => tx = ty
  BY EntryDetermines DEF Mixless, Typed, TypeOK, ExecutedWasConfirmed
<1>3. \A e \in Entries : \E tx \in executed : f[tx] = e
  BY DEF Entry, Entries
<1>4. f \in Bijection(executed, Entries)
  BY <1>1, <1>2, <1>3, Fun_IsBij
<1> QED  BY <1>4, FS_Bijection DEF ExistsBijection

\* A step that is neither a transaction nor a success confirms an operation, tells
\* a failure, or leaves the ledger alone.
LEMMA OtherStepsBegin ==
  ASSUME Typed, Carriers, [Next]_vars
  PROVE  \/ UNCHANGED Settled!ledger
         \/ \E c \in Ops : Settled!Begin(c)
         \/ \E r \in requests : Chain(r) /\ Accepts(r)
         \/ \E r \in requests : PushAnswer(r) /\ r.ok /\ told' = [told EXCEPT ![r.op] = "success"]
<1>1. ASSUME UNCHANGED <<confirmed, executed, told>> PROVE UNCHANGED Settled!ledger
  BY <1>1 DEF Settled!ledger
<1>2. ASSUME NEW c \in Ops, Confirm(c) PROVE Settled!Begin(c)
  BY <1>2 DEF Confirm, Settled!Begin, Settled!Confirm, Settled!Refuse
<1>3. ASSUME NEW r \in requests, told' = [told EXCEPT ![r.op] = "failure"],
             UNCHANGED <<confirmed, executed>>
      PROVE  r.op \in Ops /\ Settled!Begin(r.op)
  <2>1. r.op \in Ops /\ r.op \in confirmed /\ told[r.op] = "nothing"
    BY DEF Carriers, Awaits, Typed, TypeOK, Request
  <2> QED  BY <1>3, <2>1 DEF Settled!Begin, Settled!Tell
<1>4. ASSUME NEW r \in requests, KeysAnswer(r) \/ Fail(r)
      PROVE  UNCHANGED Settled!ledger \/ \E c \in Ops : Settled!Begin(c)
  <2>1. /\ UNCHANGED <<confirmed, executed>>
        /\ told' = told \/ told' = [told EXCEPT ![r.op] = "failure"]
    BY <1>4 DEF KeysAnswer, Fail, Tell
  <2> QED  BY <1>1, <1>3, <2>1
<1>5. ASSUME NEW r \in requests, PushAnswer(r)
      PROVE  \/ UNCHANGED Settled!ledger
             \/ \E c \in Ops : Settled!Begin(c)
             \/ r.ok /\ told' = [told EXCEPT ![r.op] = "success"]
  <2>1. /\ UNCHANGED <<confirmed, executed>>
        /\ \/ told' = told
           \/ told' = [told EXCEPT ![r.op] = "failure"]
           \/ r.ok /\ told' = [told EXCEPT ![r.op] = "success"]
    BY <1>5 DEF PushAnswer, Tell
  <2> QED  BY <1>1, <1>3, <2>1
<1>6. ASSUME NEW r \in requests, Chain(r), ~Accepts(r) PROVE UNCHANGED Settled!ledger
  BY <1>1, <1>6 DEF Chain
<1>7. CASE SetArgs \/ CopyKeys \/ Push \/ Leave \/ UNCHANGED vars
           \/ \E r \in requests : AbiAnswer(r) \/ InfoAnswer(r)
  BY <1>1, <1>7 DEF SetArgs, CopyKeys, Push, Leave, vars, AbiAnswer, InfoAnswer
<1> QED  BY <1>2, <1>4, <1>5, <1>6, <1>7 DEF Next, Handle

\* The chain takes a confirmed operation, with an entry the ledger does not have.
LEMMA ChainTakes ==
  ASSUME Mixless, NEW r \in requests, Chain(r), Accepts(r)
  PROVE  /\ r.tx.args \in Ops /\ r.kind = "push"
         /\ \E mark \in Stamps \cup {0} : Settled!Take(r.tx.args, mark)
<1>1. /\ r.kind = "push" /\ r.tx \in Tx /\ r.tx \notin executed
      /\ r.tx.args \in confirmed /\ r.tx.action = ActionName(r.tx.args)
      /\ executed' = executed \cup {r.tx} /\ UNCHANGED <<confirmed, told>>
  BY DEF Chain, Accepts, Mixless, Typed, TypeOK, RequestsPaired, Paired, Request
<1>2. r.tx.args \in Ops /\ r.tx.stamp \in Stamps \cup {0}
  BY <1>1 DEF Mixless, Typed, TypeOK, Tx
<1>3. \A tx \in executed : tx \in Tx /\ tx.action = ActionName(tx.args) /\ Entry(tx) # Entry(r.tx)
  BY <1>1, EntryDetermines DEF Mixless, Typed, TypeOK, ExecutedWasConfirmed
<1>4. [op |-> r.tx.args, mark |-> r.tx.stamp]
        \notin {[op |-> tx.args, mark |-> tx.stamp] : tx \in executed}
  BY <1>3 DEF Entry
<1>5. {[op |-> tx.args, mark |-> tx.stamp] : tx \in executed'}
        = {[op |-> tx.args, mark |-> tx.stamp] : tx \in executed}
            \cup {[op |-> r.tx.args, mark |-> r.tx.stamp]}
  BY <1>1
<1>6. Settled!Take(r.tx.args, r.tx.stamp)
  BY <1>1, <1>4, <1>5 DEF Settled!Take
<1> QED  BY <1>1, <1>2, <1>6

\* A success the page tells is told of a confirmed operation that had no verdict.
LEMMA AnswerTells ==
  ASSUME Typed, Carriers, NEW r \in requests, PushAnswer(r),
         told' = [told EXCEPT ![r.op] = "success"]
  PROVE  r.op \in Ops /\ Settled!Tell(r.op, "success")
<1>1. r.op \in Ops /\ r.op \in confirmed /\ told[r.op] = "nothing"
  BY DEF Carriers, Awaits, Typed, TypeOK, Request
<1>2. UNCHANGED <<confirmed, executed>>
  BY DEF PushAnswer
<1> QED  BY <1>1, <1>2 DEF Settled!Tell

\* Every step of an operation is a step of the ledger, or leaves it alone.
LEMMA StepsSettle ==
  ASSUME Mixless, Counted, Carriers, [Next]_vars
  PROVE  [Settled!Next]_(Settled!ledger)
<1>1. ASSUME NEW r \in requests, PushAnswer(r), r.ok PROVE Cardinality(Successes) < Cardinality(Entries)
  <2>1. r \in Accepted /\ IsFiniteSet(Accepted) /\ IsFiniteSet(Successes) /\ IsFiniteSet(executed)
        /\ Cardinality(Accepted) + Cardinality(Successes) <= Cardinality(executed)
    BY <1>1 DEF PushAnswer, Accepted, Counted
  <2>2. Cardinality(Accepted) # 0
    BY <2>1, FS_EmptySet
  <2>3. Cardinality(Accepted) \in Nat /\ Cardinality(Successes) \in Nat /\ Cardinality(executed) \in Nat
    BY <2>1, FS_CardinalityType
  <2> QED  BY <2>1, <2>2, <2>3, EntriesCount
<1>2. ASSUME NEW r \in requests, PushAnswer(r), r.ok, told' = [told EXCEPT ![r.op] = "success"]
      PROVE  Settled!Next
  <2>1. r.op \in Ops /\ Settled!Tell(r.op, "success")
    BY <1>2, AnswerTells DEF Mixless
  <2>2. Cardinality(Settled!Successes)
          < Cardinality({[op |-> tx.args, mark |-> tx.stamp] : tx \in executed})
    BY <1>1, <1>2 DEF Settled!Successes, Successes, Entries
  <2>3. \A S : Settled!Cardinality(S) = Cardinality(S)
    BY DEF Settled!Cardinality, Cardinality
  <2> QED  BY <2>1, <2>2, <2>3 DEF Settled!Next
<1>3. ASSUME NEW r \in requests, Chain(r), Accepts(r) PROVE Settled!Next
  BY <1>3, ChainTakes DEF Settled!Next
<1>4. ASSUME NEW c \in Ops, Settled!Begin(c) PROVE Settled!Next
  BY <1>4 DEF Settled!Next
<1> QED  BY <1>2, <1>3, <1>4, OtherStepsBegin DEF Mixless

\* Until operations overlap, every step is a step of the strict ledger.
LEMMA StepsSettleLone ==
  ASSUME Mixless, Carriers, Exact, [Next]_vars
  PROVE  [Settled!StrictNext]_(Settled!ledger)
<1>1. ASSUME NEW r \in requests, PushAnswer(r), r.ok, told' = [told EXCEPT ![r.op] = "success"]
      PROVE  Settled!StrictNext
  <2>1. r.op \in Ops /\ Settled!Tell(r.op, "success")
    BY <1>1, AnswerTells DEF Mixless
  <2>2. PICK tx \in executed : tx.args = r.op
    BY <1>1 DEF PushAnswer, Exact, RequestsExact, RequestExact, Fresh
  <2>3. PICK e : e = [op |-> tx.args, mark |-> tx.stamp]
    OBVIOUS
  <2>4. e \in {[op |-> ty.args, mark |-> ty.stamp] : ty \in executed} /\ e.op = r.op
    BY <2>2, <2>3
  <2>5. Settled!Taken(r.op)
    BY <2>4 DEF Settled!Taken
  <2> QED  BY <2>1, <2>5 DEF Settled!StrictNext
<1>2. ASSUME NEW r \in requests, Chain(r), Accepts(r) PROVE Settled!StrictNext
  <2>1. r.tx.args \in Ops /\ \E mark \in Stamps \cup {0} : Settled!Take(r.tx.args, mark)
    BY <1>2, ChainTakes
  <2>2. r.kind = "push" /\ r.tx.args # NoArgs
    BY <1>2, ChainTakes DEF Accepts
  <2>3. r.tx.args = r.op /\ \A tx \in executed : tx.args # r.op
    BY <2>2 DEF Exact, RequestsExact, RequestExact, Fresh, Holds
  <2>4. ~Settled!Taken(r.tx.args)
    BY <2>3 DEF Settled!Taken
  <2> QED  BY <2>1, <2>4 DEF Settled!StrictNext
<1>3. ASSUME NEW c \in Ops, Settled!Begin(c) PROVE Settled!StrictNext
  BY <1>3 DEF Settled!StrictNext
<1> QED  BY <1>1, <1>2, <1>3, OtherStepsBegin DEF Mixless

\* At the start nothing is confirmed, and nobody carries an operation.
LEMMA CarriersInit == Init => Carriers
<1>1. NetIdle.at = "idle"
  BY DEF NetIdle
<1> QED  BY <1>1 DEF Init, Carriers, MainIdle

\* For any operations and blocks, and however operations overlap: the page and
\* the chain together are a settlement - the chain takes confirmed operations
\* only, an operation has one verdict, and no success is told of nothing.
THEOREM OperationsSettle == Spec => SettlesAll
<1>1. Init => Settled!Init
  <2> SUFFICES ASSUME Init PROVE Settled!Init
    OBVIOUS
  <2> QED  BY DEF Init, Settled!Init
<1>2. Init => Mixless /\ Counted /\ Carriers
  <2> SUFFICES ASSUME Init PROVE Counted
    BY MixlessIsInductive, CarriersInit
  <2>1. Accepted = {} /\ Successes = {} /\ executed = {}
    BY DEF Init, Accepted, Successes
  <2> QED  BY <2>1, FS_EmptySet DEF Counted
<1>3. Mixless /\ Counted /\ Carriers /\ [Next]_vars => Mixless' /\ Counted' /\ Carriers'
  BY MixlessIsInductive, CountedIsKept, CarriersAreKept DEF Mixless
<1>4. Mixless /\ Counted /\ Carriers /\ [Next]_vars => [Settled!Next]_(Settled!ledger)
  BY StepsSettle
<1> QED  BY <1>1, <1>2, <1>3, <1>4, PTL DEF Spec, SettlesAll, Settled!Spec

\* For any operations and blocks: as long as no operation is confirmed while
\* another is under way, each is taken once at most, and succeeds only if it was.
THEOREM LoneOperationsSettle == Spec => SettlesLone
<1>1. Init => Mixless /\ Carriers /\ Lone
  BY MixlessIsInductive, CarriersInit, LoneInit
<1>2. Mixless /\ Carriers /\ Lone /\ [Next]_vars => Mixless' /\ Carriers' /\ Lone'
  BY MixlessIsInductive, CarriersAreKept, LoneIsKept DEF Mixless
<1>3. Mixless /\ Carriers /\ Lone /\ [Next]_vars
        => [~overlapped' => [Settled!StrictNext]_(Settled!ledger)]_vars
  BY StepsSettleLone, OverlapStays DEF Lone
<1> QED  BY <1>1, <1>2, <1>3, PTL DEF Spec, SettlesLone

=============================================================================
