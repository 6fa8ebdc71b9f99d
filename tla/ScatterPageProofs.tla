--------------------------- MODULE ScatterPageProofs ---------------------------
(***************************************************************************)
(* Proofs about ScatterPage, for any requests, methods, lists and bounds,  *)
(* whatever the app below answers and in whatever order: who asks for a    *)
(* signature was named, an identity given up stays given up, and a         *)
(* signature the page gets is one the user's password has made.            *)
(***************************************************************************)
EXTENDS ScatterPage, DappBridgeProofs

-----------------------------------------------------------------------------
(* The page.  None of the properties is inductive: what a page may ask is   *)
(* needed to know what an answer is taken for, an identity on its way has   *)
(* to be excluded and not only one that is there, and an identity that is   *)
(* held must itself go back to an answer of this page.                      *)

ScriptMethods == {"read", "sign", "message"}

\* What the script asks, through an Index of this page, and what its eos objects
\* have built so far.
Scripted ==
  /\ \A r \in Pending : method[r] \in ScriptMethods /\ owner[r] \in Here
  /\ \A r \in called : method[r] = "sign"

\* What is forgotten is neither held nor asked for.
GivenUp == \A i \in forgotten : i \notin identity /\ ~IdentityOnItsWay(i)

\* An answer to a request for the account that went to Index i of this page.
NamedBefore(i) ==
  \E q \in Requests : method[q] = "read" /\ owner[q] = i /\ promise[q] = "settled"

\* Index objects that hold an identity were given it, as were those that sign.
Named ==
  /\ \A i \in identity : NamedBefore(i)
  /\ \A r \in Pending : method[r] = "sign" => NamedBefore(owner[r])

PageInv == PageTypeOK /\ PromiseOK /\ Scripted /\ GivenUp /\ Named

\* A request that is made leaves the others as they are.
LEMMA AskedOnly ==
  ASSUME PromiseOK, NEW r \in Requests, Ask(r)
  PROVE  /\ PromiseOK' /\ method' = method
         /\ promise[r] = "unborn" /\ promise'[r] = "pending"
         /\ \A q \in Requests : q # r => promise'[q] = promise[q]
         /\ Pending' = Pending \cup {r} /\ r \notin Pending
BY DEF Ask, PromiseOK, Status, Pending

\* PageInv holds at first.
LEMMA PageInvInit == PageInit => PageInv
<1> SUFFICES ASSUME PageInit PROVE PageInv
  OBVIOUS
<1>1. PromiseOK /\ Pending = {}
  BY DEF PageInit, Init, ChannelInit, PromiseOK, Status, Pending
<1>2. PageTypeOK
  BY MaxIndexesAssumption DEF PageInit, PageTypeOK, Indexes, Here
<1> QED BY <1>1, <1>2 DEF PageInit, PageInv, Scripted, GivenUp, Named

\* The app's steps do not touch the page.
LEMMA AppKeepsPageInv ==
  ASSUME PageInv, method' = method, promise' = promise, UNCHANGED page
  PROVE  PageInv'
BY DEF PageInv, page, PageTypeOK, Here, PromiseOK, Scripted, Pending, GivenUp,
       IdentityOnItsWay, Named, NamedBefore

\* A call to read the account.
LEMMA GetIdentityKeeps ==
  ASSUME PageInv, NEW r \in Requests, NEW i \in Here, GetIdentity(r, i)
  PROVE  PageInv'
<1>1. /\ Ask(r) /\ method[r] = "read" /\ owner' = [owner EXCEPT ![r] = i]
      /\ forgotten' = forgotten \ {i}
      /\ UNCHANGED <<made, injecting, identity, called, outcome>>
  BY DEF GetIdentity
<1>2. /\ PromiseOK' /\ method' = method
      /\ promise[r] = "unborn" /\ promise'[r] = "pending"
      /\ \A q \in Requests : q # r => promise'[q] = promise[q]
      /\ Pending' = Pending \cup {r} /\ r \notin Pending
  BY <1>1, AskedOnly DEF PageInv
<1>3. owner \in [Requests -> 0..MaxIndexes] /\ i \in 0..MaxIndexes /\ owner'[r] = i
  BY <1>1, MaxIndexesAssumption DEF PageInv, PageTypeOK, Here, Indexes
<1>4. \A q \in Requests : q # r => owner'[q] = owner[q]
  BY <1>1, <1>3
<1>5. PageTypeOK'
  BY <1>1, <1>3 DEF PageInv, PageTypeOK, Here
<1>6. Scripted'
  BY <1>1, <1>2, <1>3, <1>4 DEF PageInv, Scripted, ScriptMethods, Here, Pending
<1>7. GivenUp'
  BY <1>1, <1>2, <1>3, <1>4 DEF PageInv, GivenUp, IdentityOnItsWay
<1>8. \A k : NamedBefore(k) => NamedBefore(k)'
  BY <1>2, <1>4 DEF NamedBefore
<1>9. Named'
  BY <1>1, <1>2, <1>4, <1>8 DEF PageInv, Named, Pending
<1> QED BY <1>2, <1>5, <1>6, <1>7, <1>9 DEF PageInv

\* A call to sign a text.
LEMMA GetArbitrarySignatureKeeps ==
  ASSUME PageInv, NEW r \in Requests, NEW i \in Here, GetArbitrarySignature(r, i)
  PROVE  PageInv'
<1>1. /\ Ask(r) /\ method[r] = "message" /\ owner' = [owner EXCEPT ![r] = i]
      /\ UNCHANGED <<made, injecting, identity, called, outcome, forgotten>>
  BY DEF GetArbitrarySignature
<1>2. /\ PromiseOK' /\ method' = method
      /\ promise[r] = "unborn" /\ promise'[r] = "pending"
      /\ \A q \in Requests : q # r => promise'[q] = promise[q]
      /\ Pending' = Pending \cup {r} /\ r \notin Pending
  BY <1>1, AskedOnly DEF PageInv
<1>3. owner \in [Requests -> 0..MaxIndexes] /\ i \in 0..MaxIndexes /\ owner'[r] = i
  BY <1>1, MaxIndexesAssumption DEF PageInv, PageTypeOK, Here, Indexes
<1>4. \A q \in Requests : q # r => owner'[q] = owner[q]
  BY <1>1, <1>3
<1>5. PageTypeOK'
  BY <1>1, <1>3 DEF PageInv, PageTypeOK, Here
<1>6. Scripted'
  BY <1>1, <1>2, <1>3, <1>4 DEF PageInv, Scripted, ScriptMethods, Here, Pending
<1>7. GivenUp'
  BY <1>1, <1>2, <1>4 DEF PageInv, GivenUp, IdentityOnItsWay
<1>8. \A k : NamedBefore(k) => NamedBefore(k)'
  BY <1>2, <1>4 DEF NamedBefore
<1>9. Named'
  BY <1>1, <1>2, <1>4, <1>8 DEF PageInv, Named, Pending
<1> QED BY <1>2, <1>5, <1>6, <1>7, <1>9 DEF PageInv

\* A transaction is built before anything is asked.
LEMMA TransactKeeps ==
  ASSUME PageInv, NEW r \in Requests, NEW i \in Here, Transact(r, i)
  PROVE  PageInv'
<1>1. /\ method[r] = "sign" /\ promise[r] = "unborn"
      /\ owner' = [owner EXCEPT ![r] = i] /\ called' = called \cup {r}
      /\ UNCHANGED <<method, promise, made, injecting, identity, outcome, forgotten>>
  BY DEF Transact, channel
<1>2. owner \in [Requests -> 0..MaxIndexes] /\ i \in 0..MaxIndexes /\ owner'[r] = i
  BY <1>1, MaxIndexesAssumption DEF PageInv, PageTypeOK, Here, Indexes
<1>3. \A q \in Requests : q # r => owner'[q] = owner[q]
  BY <1>1, <1>2
<1>4. PageTypeOK' /\ PromiseOK' /\ Pending' = Pending /\ r \notin Pending
  BY <1>1, <1>2 DEF PageInv, PageTypeOK, Here, PromiseOK, Pending
<1>5. Scripted'
  BY <1>1, <1>3, <1>4 DEF PageInv, Scripted, Here, Pending
<1>6. GivenUp'
  BY <1>1, <1>3, <1>4 DEF PageInv, GivenUp, IdentityOnItsWay, Pending
<1>7. \A k : NamedBefore(k) => NamedBefore(k)'
  BY <1>1, <1>3 DEF NamedBefore
<1>8. Named'
  BY <1>1, <1>3, <1>4, <1>7 DEF PageInv, Named, Pending
<1> QED BY <1>4, <1>5, <1>6, <1>8 DEF PageInv

\* An identity is given up.
LEMMA ForgetKeeps ==
  ASSUME PageInv, NEW i \in Here, Forget(i)
  PROVE  PageInv'
<1>1. /\ identity' = identity \ {i}
      /\ forgotten' = IF IdentityOnItsWay(i) THEN forgotten ELSE forgotten \cup {i}
      /\ UNCHANGED <<method, promise, made, injecting, owner, called, outcome>>
  BY DEF Forget, channel
<1>2. PageTypeOK' /\ PromiseOK' /\ Pending' = Pending
  BY <1>1 DEF PageInv, PageTypeOK, Here, PromiseOK, Pending
<1>3. \A k : IdentityOnItsWay(k)' = IdentityOnItsWay(k)
  BY <1>1, <1>2 DEF IdentityOnItsWay
<1>4. GivenUp'
  BY <1>1, <1>3 DEF PageInv, GivenUp
<1>5. Scripted' /\ Named'
  BY <1>1, <1>2 DEF PageInv, Scripted, Here, Named, NamedBefore
<1> QED BY <1>2, <1>4, <1>5 DEF PageInv

\* A signature is asked for through an Index that holds an identity, or not at all.
LEMMA SignProviderKeeps ==
  ASSUME PageInv, NEW r \in Requests, SignProvider(r)
  PROVE  PageInv'
<1>1. /\ r \in called /\ called' = called \ {r} /\ method[r] = "sign"
      /\ UNCHANGED <<made, injecting, identity, owner, forgotten>>
  BY DEF SignProvider, PageInv, Scripted
<1>2. CASE owner[r] \in identity
  <2>1. Ask(r) /\ outcome' = outcome
    BY <1>2 DEF SignProvider
  <2>2. /\ PromiseOK' /\ method' = method
        /\ promise[r] = "unborn" /\ promise'[r] = "pending"
        /\ \A q \in Requests : q # r => promise'[q] = promise[q]
        /\ Pending' = Pending \cup {r} /\ r \notin Pending
    BY <2>1, AskedOnly DEF PageInv
  <2>3. PageTypeOK'
    BY <1>1, <2>1 DEF PageInv, PageTypeOK, Here
  <2>4. Scripted'
    BY <1>1, <1>2, <2>2 DEF PageInv, PageTypeOK, Scripted, ScriptMethods, Here
  <2>5. GivenUp'
    BY <1>1, <2>2 DEF PageInv, GivenUp, IdentityOnItsWay
  <2>6. \A k : NamedBefore(k) => NamedBefore(k)'
    BY <1>1, <2>2 DEF NamedBefore
  <2>7. NamedBefore(owner[r])
    BY <1>2 DEF PageInv, Named
  <2>8. Named'
    BY <1>1, <2>2, <2>6, <2>7 DEF PageInv, Named
  <2> QED BY <2>2, <2>3, <2>4, <2>5, <2>8 DEF PageInv
<1>3. CASE owner[r] \notin identity
  <2>1. outcome' = [outcome EXCEPT ![r] = "error"] /\ UNCHANGED <<method, promise>>
    BY <1>3 DEF SignProvider, channel
  <2> QED
    BY <1>1, <2>1 DEF PageInv, PageTypeOK, Here, PromiseOK, Scripted, Pending, GivenUp,
       IdentityOnItsWay, Named, NamedBefore
<1> QED BY <1>2, <1>3

\* An answer settles one request, and names the Index it was made through.
LEMMA SettleKeeps ==
  ASSUME PageInv, NEW m, Settle(m)
  PROVE  PageInv'
<1>1. /\ method' = method
      /\ UNCHANGED <<made, injecting, owner, called, forgotten>>
  BY DEF Settle, CallBack
<1>2. CASE promise' = promise
  <2>1. UNCHANGED <<identity, outcome>>
    BY <1>2 DEF Settle
  <2> QED BY <1>1, <1>2, <2>1, AppKeepsPageInv DEF page
<1>3. CASE promise' # promise
  <2>1. PICK r : r = m.serial
    OBVIOUS
  <2>2. PICK a : a = m.answer
    OBVIOUS
  <2>3. r \in Pending /\ promise' = [promise EXCEPT ![r] = "settled"]
    BY <1>3, <2>1 DEF Settle, CallBack
  <2>4. Then(r, a)
    BY <1>3, <2>1, <2>2 DEF Settle
  <2>5. r \in Requests /\ method[r] \in ScriptMethods /\ PromiseOK' /\ Pending' = Pending \ {r}
    BY <1>1, <2>3 DEF PageInv, PromiseOK, Status, Pending, Scripted
  <2>6. \A q \in Requests : q # r => promise'[q] = promise[q]
    BY <2>3, <2>5 DEF PageInv, PromiseOK
  <2>7. promise[r] = "pending" /\ promise'[r] = "settled"
    BY <2>3, <2>5 DEF PageInv, PromiseOK, Pending
  <2>8. outcome' \in [Requests -> {"none", "identity", "signature", "text", "null", "error"}]
    <3> DEFINE what == CASE method[r] = "read" -> "identity"
                         [] method[r] = "message" -> IF a.good THEN "signature" ELSE "text"
                         [] method[r] = "sign" -> SignData(a)
    <3>1. what \in {"none", "identity", "signature", "text", "null", "error"}
      BY <2>5 DEF ScriptMethods, SignData
    <3>2. outcome' = [outcome EXCEPT ![r] = what]
      BY <2>4 DEF Then
    <3> HIDE DEF what
    <3> QED BY <2>5, <3>1, <3>2 DEF PageInv, PageTypeOK
  <2>9. Scripted'
    BY <1>1, <2>5 DEF PageInv, Scripted, Here
  <2>10. \A k : NamedBefore(k) => NamedBefore(k)'
    BY <1>1, <2>6, <2>7 DEF NamedBefore
  <2>11. \A q \in Pending' : method[q] = "sign" => NamedBefore(owner[q])
    BY <2>5 DEF PageInv, Named
  <2>12. \A k : IdentityOnItsWay(k)' => IdentityOnItsWay(k)
    BY <1>1, <2>5 DEF IdentityOnItsWay
  <2>13. CASE method[r] = "read"
    <3>1. identity' = identity \cup {owner[r]}
      BY <2>4, <2>13 DEF Then
    <3>2. IdentityOnItsWay(owner[r]) /\ owner[r] \in Here
      BY <2>3, <2>13 DEF IdentityOnItsWay, PageInv, Scripted
    <3>3. PageTypeOK'
      BY <1>1, <2>8, <3>1, <3>2 DEF PageInv, PageTypeOK, Here
    <3>4. GivenUp'
      BY <1>1, <2>12, <3>1, <3>2 DEF PageInv, GivenUp
    <3>5. NamedBefore(owner[r])'
      BY <1>1, <2>5, <2>7, <2>13 DEF NamedBefore
    <3>6. Named'
      BY <1>1, <2>10, <2>11, <3>1, <3>5 DEF PageInv, Named
    <3> QED BY <2>5, <2>9, <3>3, <3>4, <3>6 DEF PageInv
  <2>14. CASE method[r] # "read"
    <3>1. identity' = identity
      BY <2>4, <2>14 DEF Then
    <3>2. PageTypeOK' /\ GivenUp' /\ Named'
      BY <1>1, <2>8, <2>10, <2>11, <2>12, <3>1 DEF PageInv, PageTypeOK, Here, GivenUp, Named
    <3> QED BY <2>5, <2>9, <3>2 DEF PageInv
  <2> QED BY <2>13, <2>14
<1> QED BY <1>2, <1>3

\* Another Index of this page holds no identity.
LEMMA InjectKeeps ==
  ASSUME PageInv, Inject
  PROVE  PageInv'
<1>1. /\ made < MaxIndexes /\ made' = made + 1 /\ identity' = identity \cap 1..made
      /\ injecting' = FALSE
      /\ UNCHANGED <<method, promise, owner, called, outcome, forgotten>>
  BY DEF Inject, NewIndex, channel, PageInv, PageTypeOK, Indexes
<1>2. made \in 1..MaxIndexes /\ identity \subseteq 1..made /\ forgotten \subseteq 1..made
  BY DEF PageInv, PageTypeOK, Here, Indexes
<1>3. identity' = identity /\ 1..made \subseteq 1..made' /\ made' \in 1..MaxIndexes
  <2>1. identity' = identity
    BY <1>1, <1>2
  <2>2. made < MaxIndexes /\ made' = made + 1 /\ made \in 1..MaxIndexes /\ MaxIndexes \in Nat
    BY <1>1, <1>2, MaxIndexesAssumption
  <2> QED BY <2>1, <2>2
<1>4. Here \subseteq Here'
  BY <1>3 DEF Here
<1>5. PageTypeOK'
  BY <1>1, <1>2, <1>3 DEF PageInv, PageTypeOK, Here, Indexes
<1>6. Pending' = Pending /\ PromiseOK'
  BY <1>1 DEF Pending, PageInv, PromiseOK
<1>7. Scripted'
  BY <1>1, <1>4, <1>6 DEF PageInv, Scripted
<1>8. GivenUp' /\ Named'
  BY <1>1, <1>3, <1>6 DEF PageInv, GivenUp, IdentityOnItsWay, Named, NamedBefore
<1> QED BY <1>5, <1>6, <1>7, <1>8 DEF PageInv

\* In a new page nothing is pending, held or forgotten.
LEMMA LoadPageKeeps ==
  ASSUME PageInv, LoadPage
  PROVE  PageInv'
<1>1. /\ made' = 1 /\ injecting' = TRUE /\ identity' = {} /\ called' = {} /\ forgotten' = {}
      /\ owner' = [r \in Requests |-> 0] /\ outcome' = outcome
  BY DEF LoadPage, NewIndex
<1>2. PromiseOK' /\ Pending' = {}
  BY DEF LoadPage, Load, PageInv, PromiseOK, Status, Pending
<1>3. PageTypeOK'
  BY <1>1, MaxIndexesAssumption DEF PageInv, PageTypeOK, Here, Indexes
<1> QED BY <1>1, <1>2, <1>3 DEF PageInv, Scripted, GivenUp, Named

\* Every step keeps PageInv.
LEMMA PageInvKept ==
  ASSUME PageInv, [PageNext]_all
  PROVE  PageInv'
<1>1. CASE App /\ UNCHANGED page
  BY <1>1, AppKeepsPage, AppKeepsPageInv
<1>2. CASE PageStep
  BY <1>2, GetIdentityKeeps, GetArbitrarySignatureKeeps, TransactKeeps, ForgetKeeps,
     SignProviderKeeps, SettleKeeps, InjectKeeps, LoadPageKeeps DEF PageStep
<1>3. CASE UNCHANGED all
  BY <1>3, AppKeepsPageInv DEF all, vars, channel
<1> QED BY <1>1, <1>2, <1>3 DEF PageNext

-----------------------------------------------------------------------------

\* What the page holds keeps its kind: an identity, given up or not, is one of an
\* Index there is (scatter_pe2.js:225).
THEOREM PageTypes == PageSpec => []PageTypeOK
<1>1. PageInv => PageTypeOK
  BY DEF PageInv
<1> QED BY <1>1, PageInvInit, PageInvKept, PTL DEF PageSpec

\* forgetIdentity is not undone by any answer but to a later getIdentity, or to
\* one that was on its way (scatter_pe2.js:300).
THEOREM ForgottenStays == PageSpec => []ForgottenStaysForgotten
<1>1. PageInv => ForgottenStaysForgotten
  BY DEF PageInv, GivenUp, ForgottenStaysForgotten
<1> QED BY <1>1, PageInvInit, PageInvKept, PTL DEF PageSpec

\* throwIfNoIdentity lets nothing through that the app has not named to this page
\* (scatter_pe2.js:396).
THEOREM SignersNamed == PageSpec => []SignersWereNamed
<1>1. PageInv => SignersWereNamed
  BY DEF PageInv, Named, NamedBefore, SignersWereNamed
<1> QED BY <1>1, PageInvInit, PageInvKept, PTL DEF PageSpec

-----------------------------------------------------------------------------
(* The app.  A page of the Scatter API asks for accounts and for signatures *)
(* only, so that no list is executed and nothing is transferred.  What the  *)
(* app is asked for may change under a view that is open; what keeps an     *)
(* answer honest is that the latest message to sign is what a signature is  *)
(* given for, and that an answer to another message has another shape.      *)

\* The messages that wait, and those the app holds.
Posted ==
  \A k \in DOMAIN toNative : toNative[k] \in Requests /\ method[toNative[k]] \in ScriptMethods

Someone == Requests \cup {Nobody}

Heard ==
  /\ models \in [latest : Someone, toSign : Someone, actions : Someone,
                transfer : Someone, message : Someone]
  /\ models.latest # Nobody =>
       LET r == models.latest IN
       /\ method[r] \in ScriptMethods
       /\ method[r] = "message" => models.message = r
       /\ method[r] = "sign" => models.toSign = r
  /\ models.message # Nobody => method[models.message] = "message"

Window == [name : {"nopass", "message"}, of : Someone]

\* The views: no transfer is prompted for, a view to authorize has a message, and
\* a password is not remembered.
ViewsAsked ==
  /\ windows \in Seq(Window)
  /\ \A k \in DOMAIN windows : windows[k].name = "message" => models.message # Nobody
  /\ nopass \in [right : BOOLEAN, tick : {FALSE}]

OnlyDecodes == \A j \in jobs : j.kind = "decode"

Signed(r) == \E i \in DOMAIN acts : acts[i].by = r /\ acts[i].done = Whole(r)

\* An answer that the request it goes to takes for a signature was signed for it.
Honest(call) ==
  LET r == call.serial
      a == call.answer IN
  r \in Requests /\ a.good =>
    /\ method[r] = "message" => Signed(r)
    /\ method[r] = "sign" /\ (a.of = Nobody \/ method[a.of] = "sign") => Signed(r)

AppInv ==
  /\ Indexed(toNative) /\ Indexed(toPage) /\ Indexed(acts)
  /\ Posted /\ Heard /\ ViewsAsked /\ OnlyDecodes
  /\ \A k \in DOMAIN toPage : Honest(toPage[k])

\* A sequence without its first element.
LEMMA TailIndexed ==
  ASSUME NEW s, Indexed(s), s # <<>>
  PROVE  /\ Indexed(Tail(s)) /\ 1 \in DOMAIN s /\ Head(s) = s[1]
         /\ \A k \in DOMAIN Tail(s) : k + 1 \in DOMAIN s /\ Tail(s)[k] = s[k + 1]
<1> DEFINE S == {s[i] : i \in DOMAIN s}
<1>1. s \in Seq(S)
  BY DEF Indexed
<1> HIDE DEF S
<1>2. /\ Tail(s) \in Seq(S) /\ Len(Tail(s)) = Len(s) - 1 /\ Len(s) \in Nat \ {0}
      /\ Head(s) = s[1] /\ DOMAIN s = 1..Len(s)
      /\ \A k \in 1..Len(Tail(s)) : Tail(s)[k] = s[k + 1]
  BY <1>1, HeadTailProperties, LenProperties, EmptySeq
<1>3. DOMAIN Tail(s) = 1..(Len(s) - 1)
  BY <1>2, LenProperties
<1> DEFINE n == Len(s) - 1
<1>4. PICK t : t = Tail(s)
  OBVIOUS
<1>5. n \in Nat /\ Len(t) = n /\ DOMAIN t = 1..n /\ t \in Seq(S)
  BY <1>2, <1>3, <1>4
<1> DEFINE T == {t[k] : k \in DOMAIN t}
<1>6. t \in [1..n -> T]
  <2> HIDE DEF n
  <2>1. t \in [1..n -> S]
    BY <1>5, LenProperties
  <2> QED BY <1>5, <2>1
<1>7. t \in Seq(T)
  <2> HIDE DEF n, T
  <2> QED BY <1>5, <1>6, SeqDef
<1>8. Indexed(Tail(s))
  BY <1>4, <1>7 DEF Indexed
<1>9. \A k \in 1..n : k + 1 \in 1..Len(s)
  BY <1>2
<1> QED BY <1>2, <1>3, <1>8, <1>9

\* What a step of the app has to keep.
AppGoal ==
  /\ Heard' /\ ViewsAsked' /\ OnlyDecodes'
  /\ acts' = acts \/ \E a : acts' = Append(acts, a)
  /\ toPage' = toPage \/ \E call : (toPage' = Append(toPage, call) /\ Honest(call)')

\* And what comes of it: nothing signed is taken back.
AppKept == AppInv' /\ \A r : Signed(r) => Signed(r)'

\* Acts are never taken back, so that what was honest stays so.
LEMMA HonestStays ==
  ASSUME Indexed(acts), method' = method, acts' = acts \/ \E a : acts' = Append(acts, a)
  PROVE  /\ Indexed(acts')
         /\ \A r : Signed(r) => Signed(r)'
         /\ \A call : Honest(call) => Honest(call)'
<1>1. \A r : Whole(r)' = Whole(r)
  BY DEF Whole, Size
<1>2. Indexed(acts') /\ \A i \in DOMAIN acts : i \in DOMAIN acts' /\ acts'[i] = acts[i]
  <2>1. CASE acts' = acts
    BY <2>1
  <2>2. ASSUME NEW a, acts' = Append(acts, a)
        PROVE  Indexed(acts') /\ \A i \in DOMAIN acts : i \in DOMAIN acts' /\ acts'[i] = acts[i]
    <3>1. /\ Indexed(acts') /\ DOMAIN acts = 1..Len(acts) /\ Len(acts) \in Nat
          /\ DOMAIN acts' = 1..(Len(acts) + 1)
          /\ \A i \in 1..Len(acts) : acts'[i] = acts[i]
      BY <2>2, AppendIndexed
    <3> QED BY <3>1
  <2> QED BY <2>1, <2>2
<1>3. \A r : Signed(r) => Signed(r)'
  BY <1>1, <1>2 DEF Signed
<1> QED BY <1>2, <1>3 DEF Honest

\* AppGoal is enough.
LEMMA AppGoalKeeps ==
  ASSUME AppInv, AppGoal, method' = method,
         toNative' = toNative \/ (toNative # <<>> /\ toNative' = Tail(toNative))
  PROVE  AppKept
<1>1. /\ Indexed(acts')
      /\ \A r : Signed(r) => Signed(r)'
      /\ \A call : Honest(call) => Honest(call)'
  BY HonestStays DEF AppInv, AppGoal
<1>2. Indexed(toPage') /\ (\A k \in DOMAIN toPage : Honest(toPage[k]))'
  <2>1. CASE toPage' = toPage
    <3>1. \A k \in DOMAIN toPage : Honest(toPage[k])
      BY DEF AppInv
    <3> QED BY <1>1, <2>1, <3>1 DEF AppInv
  <2>2. ASSUME NEW call, toPage' = Append(toPage, call), Honest(call)'
        PROVE  Indexed(toPage') /\ (\A k \in DOMAIN toPage : Honest(toPage[k]))'
    <3>1. /\ Indexed(toPage')
          /\ DOMAIN toPage = 1..Len(toPage) /\ Len(toPage) \in Nat
          /\ DOMAIN toPage' = 1..(Len(toPage) + 1)
          /\ \A k \in 1..Len(toPage) : toPage'[k] = toPage[k]
          /\ toPage'[Len(toPage) + 1] = call
      BY <2>2, AppendIndexed DEF AppInv
    <3>2. \A k \in DOMAIN toPage : Honest(toPage[k])
      BY DEF AppInv
    <3>3. ASSUME NEW k \in DOMAIN toPage' PROVE Honest(toPage[k])'
      <4>1. CASE k = Len(toPage) + 1
        BY <2>2, <3>1, <4>1
      <4>2. CASE k # Len(toPage) + 1
        <5>1. k \in DOMAIN toPage
          BY <3>1, <3>3, <4>2
        <5> QED BY <1>1, <3>1, <3>2, <5>1
      <4> QED BY <4>1, <4>2
    <3> QED BY <3>1, <3>3
  <2> QED BY <2>1, <2>2 DEF AppGoal
<1>3. Indexed(toNative') /\ Posted'
  <2>1. CASE toNative' = toNative
    BY <2>1 DEF AppInv, Posted
  <2>2. CASE toNative # <<>> /\ toNative' = Tail(toNative)
    <3>1. \A k \in DOMAIN toNative' : \E i \in DOMAIN toNative : toNative'[k] = toNative[i]
      BY <2>2, TailIndexed DEF AppInv
    <3>2. Indexed(toNative')
      BY <2>2, TailIndexed DEF AppInv
    <3> QED BY <3>1, <3>2 DEF AppInv, Posted
  <2> QED BY <2>1, <2>2
<1> QED BY <1>1, <1>2, <1>3 DEF AppInv, AppGoal, AppKept

\* An answer to a call for something else, or one that says no, is honest.
LEMMA HonestAnswers ==
  ASSUME NEW r, NEW a, r \in Requests => (method[r] = "read" \/ ~a.good), method' = method
  PROVE  Honest([serial |-> r, answer |-> a])'
BY DEF Honest

\* The fields of a call into the page.
LEMMA Fields ==
  ASSUME NEW r, NEW clear \in BOOLEAN
  PROVE  /\ [Good(r) EXCEPT !.clear = clear].good = TRUE /\ [Good(r) EXCEPT !.clear = clear].of = r
         /\ Good(r).good = TRUE /\ Good(r).of = r /\ Bad(r).good = FALSE
BY DEF Good, Bad

\* A view less, or with one more on top.
LEMMA ViewsLess ==
  ASSUME windows \in Seq(Window), windows # <<>>
  PROVE  /\ Front(windows) \in Seq(Window)
         /\ \A k \in DOMAIN Front(windows) : k \in DOMAIN windows /\ Front(windows)[k] = windows[k]
BY DEF Front

\* One more view on top of the others.
LEMMA ViewsMore ==
  ASSUME NEW views \in Seq(Window), NEW r \in Someone
  PROVE  Upon(views, View("message", r)) \in Seq(Window)
<1> DEFINE there == {i \in DOMAIN views : views[i].name = "message"}
           i == CHOOSE i \in there : TRUE
<1>1. View("message", r) \in Window
  BY DEF View, Window
<1>2. CASE there = {}
  BY <1>1, <1>2 DEF Upon, View
<1>3. CASE there # {}
  <2>1. i \in 1..Len(views)
    BY <1>3
  <2> HIDE DEF i
  <2>2. RemoveAt(views, i) \in Seq(Window)
    BY <2>1 DEF RemoveAt
  <2> QED BY <1>1, <1>3, <2>2 DEF Upon, View, i
<1> QED BY <1>2, <1>3

-----------------------------------------------------------------------------
(* What the app does with a message *)

\* The message at hand is one of the page's.
LEMMA AtMessage ==
  ASSUME AppInv, NEW r \in Requests, Receive(r)
  PROVE  /\ method[r] \in ScriptMethods /\ method' = method /\ r # Nobody
         /\ toNative # <<>> /\ toNative' = Tail(toNative)
<1>1. toNative # <<>> /\ r = Head(toNative) /\ toNative' = Tail(toNative) /\ method' = method
  BY DEF Receive
<1>2. 1 \in DOMAIN toNative /\ Head(toNative) = toNative[1]
  BY <1>1, TailIndexed DEF AppInv
<1> QED BY <1>1, <1>2, NobodyAssumption DEF AppInv, Posted

\* What the views and the requests to servers have to keep.
LEMMA ViewsStay ==
  ASSUME AppInv, windows' = windows, nopass' = nopass, models'.message = models.message \/ models'.message # Nobody
  PROVE  ViewsAsked'
BY DEF AppInv, ViewsAsked

\* A read is answered, and with no signature.
LEMMA ReadHonest ==
  ASSUME AppInv, NEW r \in Requests, method[r] \in ScriptMethods, r # Nobody, method' = method, Read(r)
  PROVE  AppGoal
<1>1. /\ method[r] = "read" /\ models' = [models EXCEPT !.latest = r]
      /\ UNCHANGED <<windows, nopass, jobs, acts>>
  BY DEF Read, Latest, ScriptMethods
<1>2. models'.latest = r /\ models'.message = models.message /\ models'.toSign = models.toSign
  BY <1>1 DEF AppInv, Heard
<1>3. Heard'
  BY <1>1, <1>2 DEF AppInv, Heard, Someone
<1>4. ViewsAsked' /\ OnlyDecodes'
  BY <1>1, <1>2, ViewsStay DEF AppInv, OnlyDecodes
<1>5. PICK a : toPage' = Append(toPage, [serial |-> r, answer |-> a])
  BY DEF Read, Reply
<1>6. Honest([serial |-> r, answer |-> a])'
  BY <1>1, HonestAnswers
<1> QED BY <1>1, <1>3, <1>4, <1>5, <1>6 DEF AppGoal

\* A transaction to sign: its actions are asked for, nothing is answered yet.
LEMMA SignHonest ==
  ASSUME AppInv, NEW r \in Requests, method[r] \in ScriptMethods, r # Nobody, method' = method, Sign(r)
  PROVE  AppGoal
<1>1. /\ method[r] = "sign" /\ models' = [models EXCEPT !.latest = r, !.toSign = r]
      /\ jobs' = jobs \cup {[Job("decode", r, 0) EXCEPT !.n = n] : n \in 1..Size(r)}
      /\ UNCHANGED <<windows, nopass, acts, toPage>>
  BY DEF Sign
<1>2. models'.latest = r /\ models'.message = models.message /\ models'.toSign = r
  BY <1>1 DEF AppInv, Heard
<1>3. Heard'
  BY <1>1, <1>2 DEF AppInv, Heard, Someone
<1>4. OnlyDecodes'
  BY <1>1 DEF AppInv, OnlyDecodes, Job
<1>5. ViewsAsked'
  BY <1>1, <1>2, ViewsStay
<1> QED BY <1>1, <1>3, <1>4, <1>5 DEF AppGoal

\* A message to authorize replaces the one there was, in its view too.
LEMMA AuthorizeHonest ==
  ASSUME AppInv, NEW r \in Requests, r # Nobody, method' = method,
         NEW others \in Seq(Window), nopass' = nopass \/ nopass' = NoPass,
         method[r] = "message", AuthorizeMessage(r, others), UNCHANGED <<jobs, acts>>
  PROVE  AppGoal
<1>1. /\ models' = [models EXCEPT !.latest = r, !.message = r]
      /\ windows' = others \/ windows' = Upon(others, View("message", r))
  BY DEF AuthorizeMessage
<1>2. models'.latest = r /\ models'.message = r
  BY <1>1 DEF AppInv, Heard
<1>3. Heard'
  BY <1>1, <1>2 DEF AppInv, Heard, Someone, ScriptMethods
<1>4. windows' \in Seq(Window)
  BY <1>1, ViewsMore DEF Someone
<1>5. nopass' \in [right : BOOLEAN, tick : {FALSE}]
  <2>1. NoPass \in [right : BOOLEAN, tick : {FALSE}]
    BY DEF NoPass
  <2>2. nopass \in [right : BOOLEAN, tick : {FALSE}]
    BY DEF AppInv, ViewsAsked
  <2> QED BY <2>1, <2>2
<1>6. ViewsAsked' /\ OnlyDecodes'
  BY <1>2, <1>4, <1>5 DEF AppInv, ViewsAsked, OnlyDecodes
<1>7. toPage' = toPage \/ toPage' = Append(toPage, [serial |-> r, answer |-> Bad(r)])
  BY DEF AuthorizeMessage, Reply
<1>8. Honest([serial |-> r, answer |-> Bad(r)])'
  <2>1. Bad(r).good = FALSE
    BY DEF Bad
  <2> QED BY <2>1, HonestAnswers
<1> QED BY <1>3, <1>6, <1>7, <1>8 DEF AppGoal

\* Any message of the page.
LEMMA MessageHonest ==
  ASSUME AppInv, NEW r \in Requests, Message(r)
  PROVE  AppKept
<1>1. Receive(r)
  BY DEF Message
<1>2. /\ method[r] \in ScriptMethods /\ method' = method /\ r # Nobody
      /\ toNative # <<>> /\ toNative' = Tail(toNative)
  BY <1>1, AtMessage
<1>3. CASE Read(r)
  BY <1>2, <1>3, ReadHonest, AppGoalKeeps
<1>4. CASE Sign(r)
  BY <1>2, <1>4, SignHonest, AppGoalKeeps
<1>5. CASE SignMessage(r)
  <2>1. /\ method[r] = "message" /\ AuthorizeMessage(r, windows)
        /\ UNCHANGED <<nopass, jobs, acts>>
    BY <1>5 DEF SignMessage
  <2>2. windows \in Seq(Window)
    BY DEF AppInv, ViewsAsked
  <2>3. AppGoal
    BY <1>2, <2>1, <2>2, AuthorizeHonest
  <2> QED BY <1>2, <2>3, AppGoalKeeps
<1>6. CASE ReadNet(r) \/ PushActions(r) \/ PushTransfer(r)
  BY <1>2, <1>6 DEF ScriptMethods, ReadNet, PushActions, PushTransfer
<1> QED BY <1>3, <1>4, <1>5, <1>6 DEF Message

-----------------------------------------------------------------------------
(* Answers of servers: the decoding of actions, which says nothing to the page *)

\* A server's answer: a signature needs no other than those that decode an action.
LEMMA AnsweredHonest ==
  ASSUME AppInv, NEW j \in jobs, Answered(j), method' = method, toNative' = toNative
  PROVE  AppKept
<1>1. j.kind = "decode"
  BY DEF AppInv, OnlyDecodes
<1>2. DecodeAnswer(j) \/ Fail(j)
  BY <1>1 DEF Answered, NetAnswer, AccountAnswer, AccountReply, InfoAnswer, EncodeAnswer, KeysAnswer,
              ExecuteAtNode, Executed, AbiAnswer, SetArgs, Send, TransferAtNode, Transferred, Report
<1>3. jobs' \subseteq jobs /\ UNCHANGED <<models, windows, nopass, acts, toPage>>
  BY <1>1, <1>2 DEF DecodeAnswer, Fail
<1>4. Heard' /\ ViewsAsked' /\ OnlyDecodes'
  BY <1>3 DEF AppInv, Heard, ViewsAsked, OnlyDecodes
<1>5. AppGoal
  BY <1>3, <1>4 DEF AppGoal
<1> QED BY <1>5, AppGoalKeeps

-----------------------------------------------------------------------------
(* Touches *)

\* Views are taken away, or asked for the password; nothing else is held.
LEMMA TouchedHonest ==
  ASSUME AppInv, method' = method, toNative' = toNative, UNCHANGED <<models, jobs, acts>>,
         \/ windows' = windows
         \/ windows # <<>> /\ windows' = Front(windows)
         \/ windows' = <<View("nopass", Nobody)>>,
         nopass' \in [right : BOOLEAN, tick : {FALSE}],
         toPage' = toPage \/ \E r, a : toPage' = Append(toPage, [serial |-> r, answer |-> a]) /\ ~a.good
  PROVE  AppKept
<1>1. ViewsAsked'
  <2>1. CASE windows' = windows
    BY <2>1 DEF AppInv, ViewsAsked
  <2>2. CASE windows # <<>> /\ windows' = Front(windows)
    <3>1. /\ windows' \in Seq(Window)
          /\ \A k \in DOMAIN windows' : k \in DOMAIN windows /\ windows'[k] = windows[k]
      BY <2>2, ViewsLess DEF AppInv, ViewsAsked
    <3> QED BY <3>1 DEF AppInv, ViewsAsked
  <2>3. CASE windows' = <<View("nopass", Nobody)>>
    <3>1. View("nopass", Nobody) \in Window /\ View("nopass", Nobody).name = "nopass"
      BY DEF View, Window, Someone
    <3>2. windows' \in Seq(Window) /\ \A k \in DOMAIN windows' : windows'[k] = View("nopass", Nobody)
      BY <2>3, <3>1
    <3> QED BY <3>1, <3>2 DEF ViewsAsked
  <2> QED BY <2>1, <2>2, <2>3
<1>2. Heard' /\ OnlyDecodes'
  BY DEF AppInv, Heard, OnlyDecodes
<1>3. toPage' = toPage \/ \E call : (toPage' = Append(toPage, call) /\ Honest(call)')
  BY HonestAnswers
<1>4. AppGoal
  BY <1>1, <1>2, <1>3 DEF AppGoal
<1> QED BY <1>4, AppGoalKeeps

\* The password opens the key for the latest message, which is the one to sign.
LEMMA SignedHonest ==
  ASSUME AppInv, method' = method, toNative' = toNative,
         NEW meant, nopass.right = TRUE, models.latest # Nobody, method[models.latest] = "sign",
         SignActions(meant), windows # <<>>, windows' = Front(windows),
         nopass' \in [right : BOOLEAN, tick : {FALSE}]
  PROVE  AppKept
<1>1. PICK r : r = models.latest
  OBVIOUS
<1>2. models.toSign = r /\ r \in Requests /\ method[r] = "sign"
  BY <1>1 DEF AppInv, Heard, Someone
<1>3. /\ acts' = Append(acts, Act(r, meant, Whole(r)))
      /\ toPage' = Append(toPage, [serial |-> r, answer |-> Good(r)])
      /\ UNCHANGED <<models, jobs>>
  BY <1>1, <1>2 DEF SignActions, Reply
<1>4. Signed(r)'
  <2>1. PICK a : a = Act(r, meant, Whole(r))
    OBVIOUS
  <2>2. a.by = r /\ a.done = Whole(r)
    BY <2>1 DEF Act
  <2>3. /\ Len(acts) \in Nat /\ DOMAIN acts' = 1..(Len(acts) + 1) /\ acts'[Len(acts) + 1] = a
    BY <1>3, <2>1, AppendIndexed DEF AppInv
  <2>4. Len(acts) + 1 \in DOMAIN acts' /\ Whole(r)' = Whole(r)
    BY <2>3 DEF Whole, Size
  <2> QED BY <2>2, <2>3, <2>4 DEF Signed
<1>5. Honest([serial |-> r, answer |-> Good(r)])'
  BY <1>2, <1>4 DEF Honest
<1>6. ViewsAsked'
  <2>1. /\ windows' \in Seq(Window)
        /\ \A k \in DOMAIN windows' : k \in DOMAIN windows /\ windows'[k] = windows[k]
    BY ViewsLess DEF AppInv, ViewsAsked
  <2> QED BY <1>3, <2>1 DEF AppInv, ViewsAsked
<1>7. Heard' /\ OnlyDecodes'
  BY <1>3 DEF AppInv, Heard, OnlyDecodes
<1>8. AppGoal
  BY <1>3, <1>5, <1>6, <1>7 DEF AppGoal
<1> QED BY <1>8, AppGoalKeeps

\* A message is signed for whoever asked last: only a message takes it for its own.
LEMMA ConfirmMessageHonest ==
  ASSUME AppInv, method' = method, toNative' = toNative, ConfirmMessage
  PROVE  AppKept
<1>1. /\ windows # <<>> /\ Last(windows).name = "message" /\ windows' = Front(windows)
      /\ UNCHANGED <<models, nopass, jobs>>
  BY DEF ConfirmMessage, OnTop
<1>2. models.message \in Requests /\ method[models.message] = "message"
  <2>1. Len(windows) \in DOMAIN windows /\ Last(windows) = windows[Len(windows)]
    BY <1>1 DEF AppInv, ViewsAsked, Last
  <2> QED BY <1>1, <2>1 DEF AppInv, ViewsAsked, Heard, Someone
<1>3. CASE acts' = acts /\ Reply(models.latest, Bad(models.latest))
  <2>1. Bad(models.latest).good = FALSE
    BY DEF Bad
  <2>2. nopass \in [right : BOOLEAN, tick : {FALSE}]
    BY DEF AppInv, ViewsAsked
  <2> QED BY <1>1, <1>3, <2>1, <2>2, TouchedHonest DEF Reply
<1>4. CASE /\ acts' = Append(acts, Act(models.message, Whole(text), Whole(models.message)))
           /\ Reply(models.latest, Good(models.message))
  <2>1. PICK r : r = models.message
    OBVIOUS
  <2>2. PICK a : a = Act(r, Whole(text), Whole(r))
    OBVIOUS
  <2>3. a.by = r /\ a.done = Whole(r) /\ acts' = Append(acts, a)
    BY <1>4, <2>1, <2>2 DEF Act
  <2>4. /\ Len(acts) \in Nat /\ DOMAIN acts' = 1..(Len(acts) + 1) /\ acts'[Len(acts) + 1] = a
    BY <2>3, AppendIndexed DEF AppInv
  <2>5. Signed(r)'
    <3>1. Len(acts) + 1 \in DOMAIN acts' /\ Whole(r)' = Whole(r)
      BY <2>4 DEF Whole, Size
    <3> QED BY <2>3, <2>4, <3>1 DEF Signed
  <2>6. PICK l : l = models.latest
    OBVIOUS
  <2>7. l \in Requests /\ method[l] = "message" => l = r
    BY <2>1, <2>6, NobodyAssumption DEF AppInv, Heard
  <2>8. Honest([serial |-> l, answer |-> Good(r)])'
    <3>1. Good(r).of = r /\ r # Nobody /\ method[r] = "message"
      BY <1>2, <2>1, NobodyAssumption DEF Good
    <3> QED BY <2>5, <2>7, <3>1 DEF Honest
  <2>9. ViewsAsked'
    <3>1. /\ windows' \in Seq(Window)
          /\ \A k \in DOMAIN windows' : k \in DOMAIN windows /\ windows'[k] = windows[k]
      BY <1>1, ViewsLess DEF AppInv, ViewsAsked
    <3> QED BY <1>1, <3>1 DEF AppInv, ViewsAsked
  <2>10. Heard' /\ OnlyDecodes'
    BY <1>1 DEF AppInv, Heard, OnlyDecodes
  <2>11. toPage' = Append(toPage, [serial |-> l, answer |-> Good(r)])
    BY <1>4, <2>1, <2>6 DEF Reply
  <2>12. AppGoal
    BY <2>3, <2>8, <2>9, <2>10, <2>11 DEF AppGoal
  <2> QED BY <2>12, AppGoalKeeps
<1> QED BY <1>3, <1>4 DEF ConfirmMessage

\* The password is right: the latest message decides what it is given for.
LEMMA ConfirmPasswordHonest ==
  ASSUME AppInv, method' = method, toNative' = toNative, ConfirmPassword
  PROVE  AppKept
<1>1. /\ windows # <<>> /\ nopass.right /\ Confirmed(sheet.pages, Front(windows))
      /\ nopass' \in {nopass, NoPass}
  BY DEF ConfirmPassword, OnTop, NopassGone
<1>2. nopass' \in [right : BOOLEAN, tick : {FALSE}] /\ nopass.right = TRUE
  <2>1. NoPass \in [right : BOOLEAN, tick : {FALSE}]
    BY DEF NoPass
  <2> QED BY <1>1, <2>1 DEF AppInv, ViewsAsked
<1>3. PICK r : r = models.latest
  OBVIOUS
<1>4. r # Nobody => r \in Requests /\ method[r] \in ScriptMethods
  BY <1>3 DEF AppInv, Heard, Someone
<1>5. CASE r # Nobody /\ method[r] = "sign"
  <2>1. SignActions(sheet.pages) /\ windows' = Front(windows)
    BY <1>1, <1>3, <1>5 DEF Confirmed
  <2> QED BY <1>1, <1>2, <1>3, <1>5, <2>1, SignedHonest
<1>6. CASE r # Nobody /\ method[r] = "message"
  <2>1. AuthorizeMessage(r, Front(windows)) /\ UNCHANGED <<jobs, acts>>
    BY <1>1, <1>3, <1>6 DEF Confirmed
  <2>2. Front(windows) \in Seq(Window)
    BY <1>1, ViewsLess DEF AppInv, ViewsAsked
  <2>3. AppGoal
    BY <1>1, <1>4, <1>6, <2>1, <2>2, AuthorizeHonest
  <2> QED BY <2>3, AppGoalKeeps
<1>7. CASE r = Nobody \/ method[r] = "read"
  <2>1. windows' = Front(windows) /\ UNCHANGED <<models, jobs, acts, toPage>>
    BY <1>1, <1>3, <1>7 DEF Confirmed
  <2> QED BY <1>1, <1>2, <2>1, TouchedHonest
<1> QED BY <1>4, <1>5, <1>6, <1>7 DEF ScriptMethods

\* A touch, as long as no password is remembered.
LEMMA TouchHonest ==
  ASSUME AppInv, Remembers = FALSE, method' = method, toNative' = toNative, Touch
  PROVE  AppKept
<1>1. nopass \in [right : BOOLEAN, tick : {FALSE}] /\ NoPass \in [right : BOOLEAN, tick : {FALSE}]
  BY DEF AppInv, ViewsAsked, NoPass
<1>2. CASE LookAtAll \/ HideSheet
  BY <1>1, <1>2, TouchedHonest DEF LookAtAll, HideSheet
<1>3. CASE CloseSheet
  <2>1. Bad(models.latest).good = FALSE
    BY DEF Bad
  <2> QED BY <1>1, <1>3, <2>1, TouchedHonest DEF CloseSheet, Reply
<1>4. CASE ConfirmSheet
  <2>1. windows' = <<View("nopass", Nobody)>> /\ UNCHANGED <<models, nopass, jobs, acts, toPage>>
    BY <1>1, <1>4 DEF ConfirmSheet
  <2> QED BY <1>1, <2>1, TouchedHonest
<1>5. ASSUME NEW right \in BOOLEAN, NEW tick \in BOOLEAN, TypePassword(right, tick)
      PROVE  AppKept
  <2>1. nopass' \in [right : BOOLEAN, tick : {FALSE}]
    BY <1>5 DEF TypePassword
  <2> QED BY <1>5, <2>1, TouchedHonest DEF TypePassword
<1>6. CASE CancelPassword
  <2>1. nopass' \in [right : BOOLEAN, tick : {FALSE}]
    BY <1>1, <1>6 DEF CancelPassword, NopassGone
  <2> QED BY <1>6, <2>1, TouchedHonest DEF CancelPassword, OnTop
<1>7. CASE LeaveMessage
  BY <1>1, <1>7, TouchedHonest DEF LeaveMessage, OnTop
<1>8. CASE PromptRefused \/ PromptCancelled \/ PromptConfirmed
  <2>1. windows # <<>> /\ Last(windows).name = "prompt"
    BY <1>8 DEF PromptRefused, PromptCancelled, PromptConfirmed, OnTop
  <2>2. Last(windows) \in Window
    BY <2>1 DEF AppInv, ViewsAsked, Last
  <2> QED BY <2>1, <2>2 DEF Window
<1> QED BY <1>2, <1>3, <1>4, <1>5, <1>6, <1>7, <1>8, ConfirmPasswordHonest, ConfirmMessageHonest DEF Touch

-----------------------------------------------------------------------------
(* Every step *)

\* The app's steps.
LEMMA AppHonest ==
  ASSUME AppInv, Remembers = FALSE, App
  PROVE  AppKept
BY MessageHonest, AnsweredHonest, TouchHonest DEF App

\* The page adds a message of its own, or evaluates what the app has answered.
LEMMA PageHonest ==
  ASSUME AppInv, UNCHANGED native, method' = method,
         \/ toNative' = toNative
         \/ \E r \in Requests : method[r] \in ScriptMethods /\ toNative' = Append(toNative, r),
         toPage' = toPage \/ (toPage # <<>> /\ toPage' = Tail(toPage))
  PROVE  AppInv'
<1>1. /\ UNCHANGED <<models, windows, nopass, jobs, acts>>
      /\ Heard' /\ ViewsAsked' /\ OnlyDecodes' /\ Indexed(acts')
  BY DEF native, AppInv, Heard, ViewsAsked, OnlyDecodes
<1>2. Indexed(toNative') /\ Posted'
  <2>1. CASE toNative' = toNative
    BY <2>1 DEF AppInv, Posted
  <2>2. ASSUME NEW r \in Requests, method[r] \in ScriptMethods, toNative' = Append(toNative, r)
        PROVE  Indexed(toNative') /\ Posted'
    <3>1. /\ Indexed(toNative') /\ DOMAIN toNative = 1..Len(toNative) /\ Len(toNative) \in Nat
          /\ DOMAIN toNative' = 1..(Len(toNative) + 1)
          /\ \A i \in 1..Len(toNative) : toNative'[i] = toNative[i]
          /\ toNative'[Len(toNative) + 1] = r
      BY <2>2, AppendIndexed DEF AppInv
    <3>2. \A k \in DOMAIN toNative' : k \in DOMAIN toNative \/ k = Len(toNative) + 1
      BY <3>1
    <3> QED BY <2>2, <3>1, <3>2 DEF AppInv, Posted
  <2> QED BY <2>1, <2>2
<1>3. \A call : Honest(call) => Honest(call)'
  <2>1. \A r : Whole(r)' = Whole(r)
    BY DEF Whole, Size
  <2>2. \A r : Signed(r) => Signed(r)'
    BY <1>1, <2>1 DEF Signed
  <2> QED BY <2>2 DEF Honest
<1>4. Indexed(toPage') /\ \A k \in DOMAIN toPage' : \E i \in DOMAIN toPage : toPage'[k] = toPage[i]
  <2>1. CASE toPage' = toPage
    BY <2>1 DEF AppInv
  <2>2. CASE toPage # <<>> /\ toPage' = Tail(toPage)
    BY <2>2, TailIndexed DEF AppInv
  <2> QED BY <2>1, <2>2
<1>5. (\A k \in DOMAIN toPage : Honest(toPage[k]))'
  <2>1. \A k \in DOMAIN toPage : Honest(toPage[k])
    BY DEF AppInv
  <2> QED BY <1>3, <1>4, <2>1
<1> QED BY <1>1, <1>2, <1>4, <1>5 DEF AppInv

\* A step of the page posts a message of the Scatter API, or takes an answer, and signs nothing.
LEMMA PageStepHonest ==
  ASSUME AppInv, PageInv, PageStep, UNCHANGED native
  PROVE  AppInv'
<1>1. ASSUME NEW r \in Requests, Ask(r), method[r] \in ScriptMethods PROVE AppInv'
  BY <1>1, PageHonest DEF Ask, Post
<1>2. ASSUME UNCHANGED channel PROVE AppInv'
  BY <1>2, PageHonest DEF channel
<1>3. ASSUME NEW r \in Requests, NEW i \in Here,
             GetIdentity(r, i) \/ GetArbitrarySignature(r, i) \/ Transact(r, i)
      PROVE  AppInv'
  BY <1>1, <1>2, <1>3 DEF GetIdentity, GetArbitrarySignature, Transact, ScriptMethods
<1>4. ASSUME NEW i \in Here, Forget(i) PROVE AppInv'
  BY <1>2, <1>4 DEF Forget
<1>5. ASSUME NEW r \in Requests, SignProvider(r) PROVE AppInv'
  BY <1>1, <1>2, <1>5 DEF SignProvider, PageInv, Scripted, ScriptMethods
<1>6. CASE toPage # <<>> /\ Settle(Head(toPage))
  BY <1>6, PageHonest DEF Settle, CallBack
<1>7. CASE Inject
  BY <1>2, <1>7 DEF Inject
<1>8. CASE LoadPage
  BY <1>8, PageHonest DEF LoadPage, Load
<1> QED BY <1>3, <1>4, <1>5, <1>6, <1>7, <1>8 DEF PageStep

\* What the page takes for a signature is one: SignData lets nothing else through.
LEMMA SettleReal ==
  ASSUME AppInv, PageInv, SignaturesAreReal, toPage # <<>>, Settle(Head(toPage)), UNCHANGED native
  PROVE  SignaturesAreReal'
<1>1. PICK call : call = Head(toPage)
  OBVIOUS
<1>2. Honest(call)
  <2>1. 1 \in DOMAIN toPage /\ call = toPage[1]
    BY <1>1, TailIndexed DEF AppInv
  <2> QED BY <2>1 DEF AppInv
<1>3. \A r : Signed(r)' = Signed(r)
  BY DEF Settle, CallBack, native, Signed, Whole, Size
<1>4. PICK r, a : r = call.serial /\ a = call.answer
  OBVIOUS
<1>5. outcome' = outcome \/ (r \in Pending /\ Then(r, a))
  BY <1>1, <1>4 DEF Settle, CallBack
<1>6. outcome' = outcome \/ (r \in Requests /\ method[r] \in ScriptMethods /\ Then(r, a))
  BY <1>5 DEF PageInv, Scripted, Pending
<1>7. \A q \in Requests : outcome[q] = "signature" => Signed(q)
  BY DEF SignaturesAreReal, Signed
<1>8. \A q \in Requests : outcome'[q] = "signature" => Signed(q)
  <2>1. CASE r \in Requests /\ method[r] \in ScriptMethods /\ Then(r, a)
    <3> DEFINE what == CASE method[r] = "read" -> "identity"
                         [] method[r] = "message" -> IF a.good THEN "signature" ELSE "text"
                         [] method[r] = "sign" -> SignData(a)
    <3>1. outcome' = [outcome EXCEPT ![r] = what]
      BY <2>1 DEF Then
    <3>2. what = "signature" => Signed(r)
      BY <1>2, <1>4, <2>1 DEF ScriptMethods, SignData, Honest
    <3> HIDE DEF what
    <3> QED BY <1>7, <2>1, <3>1, <3>2 DEF PageInv, PageTypeOK
  <2> QED BY <1>6, <1>7, <2>1
<1> QED BY <1>3, <1>8 DEF SignaturesAreReal, Signed

\* Nothing else gives the page one.
LEMMA PageStepReal ==
  ASSUME PageInv, SignaturesAreReal, UNCHANGED native, method' = method, NEW r \in Requests,
         outcome' = outcome \/ outcome' = [outcome EXCEPT ![r] = "error"]
  PROVE  SignaturesAreReal'
<1>1. \A q : Whole(q)' = Whole(q)
  BY DEF Whole, Size
<1>2. \A q \in Requests : outcome'[q] = "signature" => outcome[q] = "signature"
  BY DEF PageInv, PageTypeOK
<1> QED BY <1>1, <1>2 DEF SignaturesAreReal, native

SignInv == AppInv /\ PageInv /\ SignaturesAreReal

\* SignInv holds at first.
LEMMA SignInvInit == PageInit => SignInv
<1> SUFFICES ASSUME PageInit PROVE SignInv
  OBVIOUS
<1>1. PageInv
  BY PageInvInit
<1>2. toNative = <<>> /\ toPage = <<>> /\ acts = <<>> /\ windows = <<>> /\ jobs = {} /\ nopass = NoPass
  BY DEF PageInit, Init, ChannelInit
<1>3. Indexed(toNative) /\ Indexed(toPage) /\ Indexed(acts)
  BY <1>2, EmptyIndexed
<1>4. Posted /\ \A k \in DOMAIN toPage : Honest(toPage[k])
  BY <1>2 DEF Posted
<1>5. Heard
  BY DEF PageInit, Init, Heard, Someone
<1>6. ViewsAsked /\ OnlyDecodes
  BY <1>2 DEF ViewsAsked, OnlyDecodes, NoPass
<1>7. SignaturesAreReal
  BY DEF PageInit, SignaturesAreReal
<1> QED BY <1>1, <1>3, <1>4, <1>5, <1>6, <1>7 DEF SignInv, AppInv

\* Every step keeps SignInv.
LEMMA SignInvKept ==
  ASSUME SignInv, Remembers = FALSE, [PageNext]_all
  PROVE  SignInv'
<1>1. PageInv'
  BY PageInvKept DEF SignInv
<1>2. CASE App /\ UNCHANGED page
  <2>1. AppKept
    BY <1>2, AppHonest DEF SignInv
  <2>2. AppInv' /\ \A r : Signed(r) => Signed(r)'
    BY <2>1 DEF AppKept
  <2>3. outcome' = outcome
    BY <1>2 DEF page
  <2>4. \A r \in Requests : outcome[r] = "signature" => Signed(r)
    BY DEF SignInv, SignaturesAreReal, Signed
  <2>5. \A r \in Requests : outcome'[r] = "signature" => Signed(r)'
    BY <2>2, <2>3, <2>4
  <2>6. SignaturesAreReal'
    BY <2>5 DEF SignaturesAreReal, Signed
  <2> QED BY <1>1, <2>2, <2>6 DEF SignInv
<1>3. CASE PageStep /\ UNCHANGED native
  <2>1. AppInv'
    BY <1>3, PageStepHonest DEF SignInv
  <2>2. CASE toPage # <<>> /\ Settle(Head(toPage))
    BY <1>1, <1>3, <2>1, <2>2, SettleReal DEF SignInv
  <2>3. ASSUME NEW r \in Requests, method' = method,
               outcome' = outcome \/ outcome' = [outcome EXCEPT ![r] = "error"]
        PROVE  SignInv'
    BY <1>1, <1>3, <2>1, <2>3, PageStepReal DEF SignInv
  <2>4. ASSUME method' = method, outcome' = outcome PROVE SignInv'
    <3>1. CASE Requests = {}
      BY <1>1, <2>1, <3>1 DEF SignInv, SignaturesAreReal
    <3>2. CASE Requests # {}
      BY <2>3, <2>4, <3>2
    <3> QED BY <3>1, <3>2
  <2>5. CASE \E r \in Requests, i \in Here :
               GetIdentity(r, i) \/ GetArbitrarySignature(r, i) \/ Transact(r, i)
    BY <2>4, <2>5 DEF GetIdentity, GetArbitrarySignature, Transact, Ask, channel
  <2>6. CASE (\E i \in Here : Forget(i)) \/ Inject \/ LoadPage
    BY <2>4, <2>6 DEF Forget, Inject, LoadPage, Load, channel
  <2>7. CASE \E r \in Requests : SignProvider(r)
    BY <2>3, <2>7 DEF SignProvider, Ask, channel
  <2> QED BY <1>3, <2>2, <2>5, <2>6, <2>7 DEF PageStep
<1>4. CASE UNCHANGED all
  <2>1. UNCHANGED native /\ UNCHANGED channel /\ outcome' = outcome
    BY <1>4 DEF all, vars, page
  <2>2. AppInv'
    BY <2>1, PageHonest DEF SignInv, channel
  <2>3. \A q : Whole(q)' = Whole(q)
    BY <2>1 DEF Whole, Size, channel
  <2>4. SignaturesAreReal'
    BY <2>1, <2>3 DEF SignInv, SignaturesAreReal, native
  <2> QED BY <1>1, <2>2, <2>4 DEF SignInv
<1> QED BY <1>2, <1>3, <1>4 DEF PageNext

\* As long as no password is remembered, what the page takes for a signature was
\* made with the user's password, of what this very call asked to sign: the app
\* may answer the wrong request (DAppDetailViewController.m:513), but then with an
\* answer the page does not take for a signature (scatter_pe2.js:402).  With a
\* wrong password ticked to be remembered the app says "signed" without one.
THEOREM SignaturesReal ==
  ASSUME Remembers = FALSE
  PROVE  PageSpec => []SignaturesAreReal
<1>1. SignInv /\ [PageNext]_all => SignInv'
  BY SignInvKept
<1>2. SignInv => SignaturesAreReal
  BY DEF SignInv
<1> QED BY <1>1, <1>2, SignInvInit, PTL DEF PageSpec

=============================================================================
