----------------------------- MODULE RequestBook -----------------------------
(***************************************************************************)
(* What the DApp bridge promises a page that waits for each answer: a      *)
(* request that needs the user's consent is carried out at most once, as a *)
(* whole, and not after the page has been told of its end; it is answered  *)
(* at most once, with what is its own, and "done" only when it was done.   *)
(***************************************************************************)
EXTENDS Sequences

CONSTANT Requests

VARIABLES
  consents,  \* the requests that need the user's consent
  asked,     \* those the page has made
  done,      \* those carried out, in their order
  told       \* what the page has been told of each

book == <<consents, asked, done, told>>

Init ==
  /\ consents \subseteq Requests
  /\ asked = {}
  /\ done = <<>>
  /\ told = [r \in Requests |-> "nothing"]

Ask(r) ==
  /\ r \notin asked
  /\ asked' = asked \cup {r}
  /\ UNCHANGED <<consents, done, told>>

CarryOut(r) ==
  /\ r \in asked \cap consents
  /\ \A i \in DOMAIN done : done[i] # r
  /\ told[r] = "nothing"
  /\ done' = Append(done, r)
  /\ UNCHANGED <<consents, asked, told>>

Answer(r, what) ==
  /\ r \in asked
  /\ told[r] = "nothing"
  /\ what = "done" /\ r \in consents => \E i \in DOMAIN done : done[i] = r
  /\ told' = [told EXCEPT ![r] = what]
  /\ UNCHANGED <<consents, asked, done>>

Next == \E r \in Requests :
          \/ Ask(r)
          \/ CarryOut(r)
          \/ \E what \in {"done", "refused"} : Answer(r, what)

Spec == Init /\ [][Next]_book

=============================================================================
