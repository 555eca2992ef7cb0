----------------------------- MODULE SeenWindow -----------------------------
(***************************************************************************)
(* One Seen value fed with numbers in any order, any number of times each: *)
(* redelivered, relayed, overtaken, or never arriving at all.              *)
(***************************************************************************)
EXTENDS Seen

CONSTANTS Numbers,   \* the numbers that may arrive
          Start      \* Seen::starting_at's argument

ASSUME NumbersAssumption == Numbers \subseteq Nat /\ Start \in Nat

VARIABLES seen,      \* the value kept for one contact or one room key
          taken      \* history: every number answered "new"

vars == <<seen, taken>>

Init == /\ seen = StartingAt(Start)
        /\ taken = {}

\* accept(n) on a number not seen yet: recorded, and answered true.
Take(n) == /\ ~ Has(seen, n)
           /\ seen' = Accept(seen, n)
           /\ taken' = taken \cup {n}

\* accept(n) on a number it has: answered false, nothing changes.
Refuse(n) == /\ Has(seen, n)
             /\ UNCHANGED vars

Next == \E n \in Numbers : Take(n) \/ Refuse(n)

Spec == Init /\ [][Next]_vars

-----------------------------------------------------------------------------
\* The types, and what settle keeps true of them: nothing in above is at or
\* below the floor, so no number is recorded twice.
TypeOK == /\ seen \in SeenType /\ taken \subseteq Numbers
          /\ \A n \in seen.above : n > seen.floor

\* A number once answered "new" is never answered "new" again, whatever was
\* folded into the floor or given up since.  Every redelivered /tell and every
\* room line that comes round twice relies on it.
TakenOnce == \A n \in taken : Has(seen, n)

\* A number refused although it never came was overtaken by more than WINDOW
\* larger ones: the only loss seen.rs admits to.
OnlyTheLateAreLost ==
  \A n \in Numbers \ taken :
    n >= Start /\ Has(seen, n) => Cardinality({m \in taken : m > n}) > WINDOW

\* Gaps that never fill (ids that went to somebody else) do not make what is
\* stored, and saved with every message, grow without bound.
BoundedWindow == Cardinality(seen.above) <= WINDOW
=============================================================================
