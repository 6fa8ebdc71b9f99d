---------------------------- MODULE BtcSelection ----------------------------
(***************************************************************************)
(* How BTCClient sendToAddress:... chooses the outputs a Bitcoin transfer  *)
(* spends and what it leaves as the fee.                                   *)
(*                                                                         *)
(* Outputs are records with a "value" in satoshi.  All of them pay to a    *)
(* public key hash, as the address does, so the test for that kind is left *)
(* out.  Fees are words of the width the program has: Word is 2^64 there.  *)
(***************************************************************************)
EXTENDS Integers, FiniteSets, FiniteSetsExt, Folds

CONSTANT Word

ASSUME WordAssumption == Word \in Nat \ {0} /\ Word % 2 = 0

Values(outs) == MapThenSumSet(LAMBDA out : out.value, outs)

\* Bytes of a transaction with two outputs, as the comment in the loop has it.
Size(inputs) == 148 * inputs + 34 * 2 + 10

\* A product of words as an NSInteger, which has a sign.
Wrapped(x) == ((x + Word \div 2) % Word) - Word \div 2

Dearest(outs) == CHOOSE x \in outs : \A y \in outs : y.value <= x.value

\* Before the loop: fee is the rate the user has chosen.
NothingTaken(amount, rate) ==
  [inputs |-> {}, balance |-> 0, fee |-> rate, total |-> amount, enough |-> FALSE]

FeeRoundOfOutputs(n, amount, sel, out) ==   \* faulty: the size forgets the inputs
  LET balance == sel.balance + out.value
      fee     == Wrapped(Size(0) * sel.fee)
      enough  == balance >= amount /\ balance >= amount + fee
  IN  [inputs |-> sel.inputs \cup {out}, balance |-> balance, fee |-> fee,
       total |-> IF enough THEN amount + fee ELSE amount, enough |-> enough]

FeeRoundForced(n, amount, sel, out) ==   \* faulty: the fee is added when it cannot be paid
  LET balance == sel.balance + out.value
      fee     == Wrapped(Size(n) * sel.fee)
      enough  == balance >= amount
  IN  [inputs |-> sel.inputs \cup {out}, balance |-> balance, fee |-> fee,
       total |-> IF enough THEN amount + fee ELSE amount, enough |-> enough]

\* One round: one more output is taken, and the fee becomes the size of a
\* transaction of all n outputs times what the fee was before.
FeeRound(n, amount, sel, out) ==
  LET balance == sel.balance + out.value
      fee     == Wrapped(Size(n) * sel.fee)
      enough  == balance >= amount /\ balance >= amount + fee
  IN  [inputs |-> sel.inputs \cup {out}, balance |-> balance, fee |-> fee,
       total |-> IF enough THEN amount + fee ELSE amount, enough |-> enough]

\* The loop over outs, the cheapest first, when there are n outputs in all.  It
\* is left by break as soon as the outputs taken pay for the fee, too.
Rounds(n, amount, rate, outs) ==
  MapThenFoldSet(LAMBDA out, sel : IF sel.enough THEN sel ELSE FeeRound(n, amount, sel, out),
                 NothingTaken(amount, rate), LAMBDA out : out, Dearest, outs)

Select(outs, amount, rate) == Rounds(Cardinality(outs), amount, rate, outs)

Payable(sel) == sel.balance >= sel.total
Change(sel)  == sel.balance - sel.total

=============================================================================
