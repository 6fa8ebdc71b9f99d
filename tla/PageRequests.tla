---------------------------- MODULE PageRequests ----------------------------
(***************************************************************************)
(* The page's end of the DApp bridge: class pefun of scatter_pe2.js.       *)
(*                                                                         *)
(* Each method posts a message with a serial number to the app, then puts  *)
(* a function in the one global window.callbackResult that settles its own *)
(* promise when it is called with that serial number.  The app answers by  *)
(* evaluating callbackResult('serial', 'answer') in whatever page is there.*)
(* Nothing rejects a promise, and nothing times out.                       *)
(***************************************************************************)
EXTENDS Integers, Sequences

CONSTANTS Requests,  \* the requests pages make, each once, with a serial of its own
          Methods,   \* the methods they call
          Nobody     \* no request

AllMethods == {"read", "wallet", "net", "sign", "message", "transfer", "actions"}

ASSUME NobodyAssumption == Nobody \notin Requests
ASSUME MethodsAssumption == Methods \subseteq AllMethods

VARIABLES
  method,    \* the method each request calls
  promise,   \* "unborn", "pending", "settled", or "lost" with the page that held it
  result,    \* the answer a settled promise was given
  callback,  \* the request whose function window.callbackResult is
  toNative,  \* messages posted and not handled by the app yet
  toPage     \* calls of callbackResult not evaluated yet

channel == <<method, promise, result, callback, toNative, toPage>>

-----------------------------------------------------------------------------
(* An answer by what tells two apart: the request whose data, transaction or *)
(* signature it carries, whether it says that it was done, and whether the  *)
(* page can read it: it is put between quotes as it is, so that a quote or a *)
(* backslash in a name or a message breaks the script or JSON.parse.        *)

Answer == [of : Requests \cup {Nobody}, good : BOOLEAN, clear : BOOLEAN]
NoAnswer == [of |-> Nobody, good |-> FALSE, clear |-> FALSE]

Call == [serial : Requests \cup {Nobody}, answer : Answer]

ConsentMethods == {"sign", "message", "transfer", "actions"}
NeedsConsent(r) == method[r] \in ConsentMethods

Pending == {r \in Requests : promise[r] = "pending"}

\* A later request has taken callbackResult.
Overtaken(r) == r \in Pending /\ callback # r

-----------------------------------------------------------------------------

\* _sendScRequest, with a serial number no other request has.
Post(r) == toNative' = Append(toNative, r)

AskQueueing(r) ==   \* faulty: the function of the first request is kept
  /\ promise[r] = "unborn"
  /\ promise' = [promise EXCEPT ![r] = "pending"]
  /\ callback' = IF callback = Nobody THEN r ELSE callback
  /\ Post(r)
  /\ UNCHANGED <<method, result, toPage>>

\* A method of pefun: the message goes first, the function is replaced after.
Ask(r) ==
  /\ promise[r] = "unborn"
  /\ promise' = [promise EXCEPT ![r] = "pending"]
  /\ callback' = r
  /\ Post(r)
  /\ UNCHANGED <<method, result, toPage>>

CallBackAny(m) ==   \* faulty: the serial number is not compared
  /\ toPage' = Tail(toPage)
  /\ IF m.serial \in Pending /\ m.answer.clear
       THEN /\ promise' = [promise EXCEPT ![m.serial] = "settled"]
            /\ result' = [result EXCEPT ![m.serial] = m.answer]
       ELSE UNCHANGED <<promise, result>>
  /\ UNCHANGED <<method, callback, toNative>>

\* window.callbackResult(returnSerialNumber, result)
CallBack(m) ==
  /\ toPage' = Tail(toPage)
  /\ IF m.serial = callback /\ m.serial \in Pending /\ m.answer.clear
       THEN /\ promise' = [promise EXCEPT ![m.serial] = "settled"]
            /\ result' = [result EXCEPT ![m.serial] = m.answer]
       ELSE UNCHANGED <<promise, result>>
  /\ UNCHANGED <<method, callback, toNative>>

\* Another page, or the same again, is loaded: the script starts anew.  What was
\* posted is still handled, and what comes back is evaluated in the new page.
Load ==
  /\ promise' = [r \in Requests |-> IF r \in Pending THEN "lost" ELSE promise[r]]
  /\ callback' = Nobody
  /\ UNCHANGED <<method, result, toNative, toPage>>

\* For the app: the message at hand, and the call it evaluates.
Receive(r) ==
  /\ toNative # <<>>
  /\ r = Head(toNative)
  /\ toNative' = Tail(toNative)
  /\ UNCHANGED <<method, promise, result, callback>>

Reply(serial, answer) ==
  toPage' = Append(toPage, [serial |-> serial, answer |-> answer])

ChannelInit ==
  /\ method \in [Requests -> Methods]
  /\ promise = [r \in Requests |-> "unborn"]
  /\ result = [r \in Requests |-> NoAnswer]
  /\ callback = Nobody
  /\ toNative = <<>>
  /\ toPage = <<>>

ChannelOK ==
  /\ method \in [Requests -> Methods]
  /\ promise \in [Requests -> {"unborn", "pending", "settled", "lost"}]
  /\ result \in [Requests -> Answer]
  /\ callback \in Requests \cup {Nobody}
  /\ toNative \in Seq(Requests)
  /\ toPage \in Seq(Call)

=============================================================================
