----------------------------- MODULE Settlement -----------------------------
(***************************************************************************)
(* What the wallet promises about what the user confirms: no network takes *)
(* anything else, and the user is told the end of each once, as a failure  *)
(* or as a success, and of no more successes than were taken.              *)
(*                                                                         *)
(* A strict settlement promises it of each by itself: it is taken once at  *)
(* most, and said to have succeeded only when it was.                      *)
(***************************************************************************)
EXTENDS FiniteSets, Integers

CONSTANTS Ops,   \* what the user may confirm
          Marks  \* what tells apart two takings of the same

VARIABLES
  confirmed,  \* what has been confirmed
  taken,      \* what a network has taken, each time with its mark
  told        \* the verdict on each

ledger == <<confirmed, taken, told>>

Init ==
  /\ confirmed = {}
  /\ taken = {}
  /\ told = [c \in Ops |-> "nothing"]

Confirm(c) ==
  /\ c \notin confirmed
  /\ confirmed' = confirmed \cup {c}
  /\ UNCHANGED <<taken, told>>

\* Confirmed and refused at once, before anything is sent.
Refuse(c) ==
  /\ c \notin confirmed
  /\ confirmed' = confirmed \cup {c}
  /\ told' = [told EXCEPT ![c] = "failure"]
  /\ UNCHANGED taken

Take(c, mark) ==
  /\ c \in confirmed
  /\ [op |-> c, mark |-> mark] \notin taken
  /\ taken' = taken \cup {[op |-> c, mark |-> mark]}
  /\ UNCHANGED <<confirmed, told>>

\* A verdict is final.
Tell(c, what) ==
  /\ c \in confirmed
  /\ told[c] = "nothing"
  /\ told' = [told EXCEPT ![c] = what]
  /\ UNCHANGED <<confirmed, taken>>

Taken(c)  == \E t \in taken : t.op = c
Successes == {c \in Ops : told[c] = "success"}

Begin(c) == Confirm(c) \/ Refuse(c) \/ Tell(c, "failure")

Next == \E c \in Ops :
  \/ Begin(c)
  \/ \E mark \in Marks : Take(c, mark)
  \/ Cardinality(Successes) < Cardinality(taken) /\ Tell(c, "success")

StrictNext == \E c \in Ops :
  \/ Begin(c)
  \/ ~Taken(c) /\ \E mark \in Marks : Take(c, mark)
  \/ Taken(c) /\ Tell(c, "success")

Spec       == Init /\ [][Next]_ledger
StrictSpec == Init /\ [][StrictNext]_ledger

=============================================================================
