----------------------------- MODULE MCDelivery -----------------------------
(***************************************************************************)
(* Small instances of Delivery: two or three messages, and a budget of     *)
(* faults.                                                                 *)
(***************************************************************************)
EXTENDS Delivery

CONSTANTS b1, b2, b3

TwoBodies == {b1, b2}
ThreeBodies == {b1, b2, b3}

\* Messages differ in nothing but the order they are written in.
BodySymmetry == Permutations(Bodies)

Faults(kinds) == [k \in FaultKinds |-> IF k \in DOMAIN kinds THEN kinds[k] ELSE 0]

\* Every kind of fault once, but three of them at most and then over two
\* messages: the connection breaks, either side is killed, cannot write its file
\* or forgets the other, the outbox is deleted, an id goes to somebody else.
MCEverything == [k \in FaultKinds |-> 1]
Struck == FoldSet(LAMBDA k, sum : sum + Budget[k] - budget[k], 0, FaultKinds)
NotTooMany == Struck <= 3 /\ Struck + Cardinality(Written) <= 5

\* Where fairness is checked: the connection breaks twice, and somebody is
\* killed.
MCFair == Faults([break |-> 2, crash |-> 1])
=============================================================================
