----------------------------- MODULE ScatterPage -----------------------------
(***************************************************************************)
(* The Scatter API the app puts into a page (scatter_pe2.js from Network   *)
(* on), on top of the app's own end of the bridge, DappBridge.             *)
(*                                                                         *)
(* window.scatter is an Index, which holds an identity once the app has    *)
(* named the account.  An eos object made by an Index asks the app for     *)
(* signatures as long as that Index, not window.scatter, has an identity.  *)
(* The script makes an Index when the document is loaded, and the app has  *)
(* it make another five seconds after the navigation has finished.         *)
(***************************************************************************)
EXTENDS DappBridge

CONSTANT MaxIndexes   \* bound: Index objects of one page

ASSUME MaxIndexesAssumption == MaxIndexes \in Nat \ {0}

VARIABLES
  made,       \* Index objects made in this page; window.scatter is the last
  injecting,  \* the app is still to evaluate inject()
  identity,   \* the Index objects that hold an identity
  owner,      \* the Index of this page each request is made through, or 0
  called,     \* transactions an eos object builds, before it asks to sign them
  outcome,    \* what the page has got for each call
  forgotten   \* history: identities given up while none was on its way

page == <<made, injecting, identity, owner, called, outcome, forgotten>>
all == <<vars, page>>

Indexes == 1..MaxIndexes
Here == 1..made

-----------------------------------------------------------------------------
(* Index: the calls of a page                                               *)

IdentityOnItsWay(i) == \E r \in Pending : method[r] = "read" /\ owner[r] = i

\* getIdentity, getIdentityFromPermissions, authenticate: all ask for the account.
GetIdentity(r, i) ==
  /\ method[r] = "read"
  /\ Ask(r)
  /\ owner' = [owner EXCEPT ![r] = i]
  /\ forgotten' = forgotten \ {i}
  /\ UNCHANGED <<made, injecting, identity, called, outcome>>

ForgetLatest(i) ==   \* faulty: the identity of window.scatter is forgotten
  /\ identity' = identity \ {made}
  /\ forgotten' = IF IdentityOnItsWay(i) THEN forgotten ELSE forgotten \cup {i}
  /\ UNCHANGED <<channel, made, injecting, owner, called, outcome>>

\* forgetIdentity: an answer on its way is not called off.
Forget(i) ==
  /\ identity' = identity \ {i}
  /\ forgotten' = IF IdentityOnItsWay(i) THEN forgotten ELSE forgotten \cup {i}
  /\ UNCHANGED <<channel, made, injecting, owner, called, outcome>>

\* getArbitrarySignature needs no identity.
GetArbitrarySignature(r, i) ==
  /\ method[r] = "message"
  /\ Ask(r)
  /\ owner' = [owner EXCEPT ![r] = i]
  /\ UNCHANGED <<made, injecting, identity, called, outcome, forgotten>>

-----------------------------------------------------------------------------
(* ScatterEOS                                                               *)

\* scatter.eos(network, Eos, options) of an Index, with a valid network, keeps
\* nothing but the Index; then a method of that object, or of a contract it gives,
\* without a keyProvider among its arguments: the library builds the transaction
\* first, and what it rejects is the page's error.
Transact(r, i) ==
  /\ method[r] = "sign" /\ promise[r] = "unborn" /\ outcome[r] = "none" /\ r \notin called
  /\ owner' = [owner EXCEPT ![r] = i]
  /\ called' = called \cup {r}
  /\ UNCHANGED <<channel, made, injecting, identity, outcome, forgotten>>

SignProviderUnchecked(r) ==   \* faulty: without throwIfNoIdentity
  /\ r \in called
  /\ called' = called \ {r}
  /\ Ask(r)
  /\ UNCHANGED <<made, injecting, identity, owner, outcome, forgotten>>

\* signProvider: throws without an identity, which rejects the page's promise.
SignProvider(r) ==
  /\ r \in called
  /\ called' = called \ {r}
  /\ IF owner[r] \in identity
       THEN Ask(r) /\ UNCHANGED outcome
       ELSE outcome' = [outcome EXCEPT ![r] = "error"] /\ UNCHANGED channel
  /\ UNCHANGED <<made, injecting, identity, owner, forgotten>>

-----------------------------------------------------------------------------
(* Answers, and the script itself                                           *)

SignDataAny(a) ==   \* faulty: what is there is taken for signatures
  IF a.good THEN "signature" ELSE "null"

\* res.data.signData is there in the answer to a signature only; without it the
\* library gets null.
SignData(a) ==
  IF a.good /\ (a.of = Nobody \/ method[a.of] = "sign") THEN "signature" ELSE "null"

\* The blocks after an answer.  An identity is one whatever came, a text that
\* says why there is no signature is handed on as one.
Then(r, a) ==
  /\ identity' = IF method[r] = "read" THEN identity \cup {owner[r]} ELSE identity
  /\ outcome' = [outcome EXCEPT ![r] =
       CASE method[r] = "read" -> "identity"
         [] method[r] = "message" -> IF a.good THEN "signature" ELSE "text"
         [] method[r] = "sign" -> SignData(a)]

Settle(m) ==
  /\ CallBack(m)
  /\ IF promise' # promise THEN Then(m.serial, m.answer) ELSE UNCHANGED <<identity, outcome>>
  /\ UNCHANGED <<made, injecting, owner, called, forgotten>>

\* new Index() and loadPlugin: the i-th of this page, without an identity.
NewIndex(i) ==
  /\ made' = i
  /\ identity' = identity \cap 1..(i - 1)

\* inject() evaluated by the app: window.scatter is another Index.
Inject ==
  /\ injecting /\ made < MaxIndexes
  /\ NewIndex(made + 1)
  /\ injecting' = FALSE
  /\ UNCHANGED <<channel, owner, called, outcome, forgotten>>

LoadPageStayingNamed ==   \* faulty: the identity of the page before stays
  /\ Load
  /\ made' = 1 /\ injecting' = TRUE
  /\ called' = {} /\ forgotten' = {}
  /\ owner' = [r \in Requests |-> 0]
  /\ UNCHANGED <<identity, outcome>>

\* A navigation: the script runs in a new page.
LoadPage ==
  /\ Load
  /\ NewIndex(1)
  /\ injecting' = TRUE
  /\ called' = {} /\ forgotten' = {}
  /\ owner' = [r \in Requests |-> 0]
  /\ UNCHANGED outcome

-----------------------------------------------------------------------------

PageInit ==
  /\ Init
  /\ made = 1 /\ injecting = TRUE
  /\ identity = {} /\ called = {} /\ forgotten = {}
  /\ owner = [r \in Requests |-> 0]
  /\ outcome = [r \in Requests |-> "none"]

PageStep ==
  \/ \E r \in Requests, i \in Here :
       GetIdentity(r, i) \/ GetArbitrarySignature(r, i) \/ Transact(r, i)
  \/ \E i \in Here : Forget(i)
  \/ \E r \in Requests : SignProvider(r)
  \/ toPage # <<>> /\ Settle(Head(toPage))
  \/ Inject
  \/ LoadPage

PageNext ==
  \/ PageStep /\ UNCHANGED native
  \/ App /\ UNCHANGED page

PageSpec == PageInit /\ [][PageNext]_all

-----------------------------------------------------------------------------
(* Properties *)

PageTypeOK ==
  /\ made \in Indexes /\ injecting \in BOOLEAN
  /\ identity \subseteq Here /\ forgotten \subseteq Here
  /\ owner \in [Requests -> 0..MaxIndexes]
  /\ called \subseteq Requests
  /\ outcome \in [Requests -> {"none", "identity", "signature", "text", "null", "error"}]

\* What the page takes for a signature is one the user's password has made, of
\* what this very call asked to sign, however its calls overlap: the app may mix
\* up whom it answers, but the answer to another request has another shape.
SignaturesAreReal ==
  \A r \in Requests : outcome[r] = "signature" =>
    \E i \in DOMAIN acts : acts[i].by = r /\ acts[i].done = Whole(r)

\* An identity given up while none was on its way stays given up until it is
\* asked for again.
ForgottenStaysForgotten == forgotten \cap identity = {}

\* Every signature the app is asked for was asked for through an Index that had
\* been given an identity by the app, in the same page.
SignersWereNamed ==
  \A r \in Pending : method[r] = "sign" =>
    \E q \in Requests : method[q] = "read" /\ owner[q] = owner[r] /\ promise[q] = "settled"

=============================================================================
