----------------------------- MODULE SeenProofs -----------------------------
(***************************************************************************)
(* The properties of SeenWindow for every window, starting floor and set   *)
(* of numbers that may arrive.                                             *)
(***************************************************************************)
EXTENDS SeenWindow, SeenLemmas

(***************************************************************************)
(* The inductive invariant.  BoundedWindow is what makes one turn of the   *)
(* eviction loop enough; HeldWereTaken turns "more than WINDOW held" into  *)
(* "more than WINDOW taken", which is what OnlyTheLateAreLost counts.      *)
(***************************************************************************)
HeldWereTaken == seen.above \subseteq taken

IInv == /\ Settled(seen)
        /\ taken \subseteq Numbers
        /\ IsFiniteSet(taken)
        /\ seen.floor >= Start
        /\ HeldWereTaken
        /\ BoundedWindow
        /\ TakenOnce
        /\ OnlyTheLateAreLost

LEMMA InitIInv == Init => IInv
<1> SUFFICES ASSUME Init PROVE IInv
  OBVIOUS
<1>1. seen.floor = Start /\ seen.above = {} /\ taken = {} /\ seen \in SeenType
  BY NumbersAssumption DEF Init, StartingAt, SeenType
<1>2. Settled(seen) /\ BoundedWindow /\ IsFiniteSet(taken)
  BY <1>1, FS_EmptySet, WindowAssumption DEF Settled, BoundedWindow
<1>3. TakenOnce /\ HeldWereTaken /\ seen.floor >= Start
  BY <1>1, NumbersAssumption DEF TakenOnce, HeldWereTaken
<1>4. \A n \in Numbers : n >= Start => ~ Has(seen, n)
  BY <1>1, NumbersAssumption DEF Has
<1>5. OnlyTheLateAreLost
  BY <1>4 DEF OnlyTheLateAreLost
<1>6. QED
  BY <1>1, <1>2, <1>3, <1>5 DEF IInv

LEMMA TakeIInv ==
  ASSUME IInv, NEW n \in Numbers, Take(n)
  PROVE  IInv'
<1>1. /\ Settled(seen) /\ Cardinality(seen.above) <= WINDOW
      /\ n \in Nat /\ ~ Has(seen, n)
      /\ seen' = Accept(seen, n)
      /\ taken' = taken \cup {n}
  BY NumbersAssumption DEF IInv, Take, BoundedWindow
<1>2. /\ Settled(seen') /\ Cardinality(seen'.above) <= WINDOW
      /\ seen'.above \subseteq seen.above \cup {n}
      /\ Has(seen', n)
      /\ \A k \in Nat : Has(seen, k) => Has(seen', k)
      /\ \A k \in Nat : Has(seen', k) =>
            \/ Has(seen, k) \/ k = n
            \/ \E S \in SUBSET (seen.above \cup {n}) :
                 Cardinality(S) > WINDOW /\ \A m \in S : m > k
  BY <1>1, AcceptKeeps
<1>3. taken' \subseteq Numbers /\ IsFiniteSet(taken') /\ taken \subseteq taken'
  BY <1>1, FS_AddElement DEF IInv
<1>4. HeldWereTaken' /\ BoundedWindow'
  BY <1>1, <1>2 DEF IInv, HeldWereTaken, BoundedWindow
<1>5. TakenOnce'
  BY <1>1, <1>2, <1>3, NumbersAssumption DEF IInv, TakenOnce
<1>6. OnlyTheLateAreLost'
  <2>1. SUFFICES ASSUME NEW k \in Numbers \ taken', k >= Start, Has(seen', k)
                 PROVE  Cardinality({m \in taken' : m > k}) > WINDOW
    BY DEF OnlyTheLateAreLost
  <2> DEFINE later == {m \in taken' : m > k}
  <2>2. IsFiniteSet(later) /\ Cardinality(later) \in Nat /\ WINDOW \in Nat
    BY <1>3, FS_Subset, FS_CardinalityType, WindowAssumption
  <2>3. k \in Nat /\ k # n /\ k \notin taken
    BY <1>1, <2>1, NumbersAssumption
  <2>4. \A S \in SUBSET later : Cardinality(S) > WINDOW => Cardinality(later) > WINDOW
    <3>1. SUFFICES ASSUME NEW S \in SUBSET later, Cardinality(S) > WINDOW
                   PROVE  Cardinality(later) > WINDOW
      OBVIOUS
    <3>2. Cardinality(S) <= Cardinality(later) /\ Cardinality(S) \in Nat
      BY <2>2, FS_Subset, FS_CardinalityType
    <3>3. QED
      BY <2>2, <3>1, <3>2
  <2>5. CASE Has(seen, k)
    <3>1. Cardinality({m \in taken : m > k}) > WINDOW
      BY <2>1, <2>3, <2>5 DEF IInv, OnlyTheLateAreLost
    <3>2. {m \in taken : m > k} \in SUBSET later
      BY <1>3
    <3>3. QED
      BY <2>4, <3>1, <3>2
  <2>6. CASE \E S \in SUBSET (seen.above \cup {n}) :
               Cardinality(S) > WINDOW /\ \A m \in S : m > k
    <3>1. seen.above \cup {n} \subseteq taken'
      BY <1>1 DEF IInv, HeldWereTaken
    <3>2. QED
      BY <2>4, <2>6, <3>1
  <2>7. QED
    BY <1>2, <2>1, <2>3, <2>5, <2>6
<1>7. seen'.floor >= Start
  <2>1. CASE Start = 0
    BY <1>2, <2>1 DEF Settled, SeenType
  <2>2. CASE Start # 0
    <3>1. Start - 1 \in Nat /\ Has(seen, Start - 1)
      BY <2>2, NumbersAssumption DEF IInv, Settled, SeenType, Has
    <3>2. Has(seen', Start - 1) /\ Start - 1 \notin seen'.above
      <4>1. Start - 1 \notin seen.above /\ n # Start - 1
        BY <1>1, <3>1, NumbersAssumption DEF IInv, Settled, SeenType, Has
      <4>2. QED
        BY <1>2, <3>1, <4>1
    <3>3. QED
      BY <1>2, <3>1, <3>2, NumbersAssumption DEF Has, Settled, SeenType
  <2>3. QED
    BY <2>1, <2>2
<1>8. QED
  BY <1>2, <1>3, <1>4, <1>5, <1>6, <1>7 DEF IInv

LEMMA NextIInv == IInv /\ [Next]_vars => IInv'
<1> SUFFICES ASSUME IInv, [Next]_vars PROVE IInv'
  OBVIOUS
<1>1. ASSUME NEW n \in Numbers, Take(n) PROVE IInv'
  BY <1>1, TakeIInv
<1>2. ASSUME NEW n \in Numbers, Refuse(n) PROVE IInv'
  BY <1>2 DEF Refuse, vars, IInv, HeldWereTaken, BoundedWindow, TakenOnce,
              OnlyTheLateAreLost
<1>3. CASE UNCHANGED vars
  BY <1>3 DEF vars, IInv, HeldWereTaken, BoundedWindow, TakenOnce,
              OnlyTheLateAreLost
<1>4. QED
  BY <1>1, <1>2, <1>3 DEF Next

LEMMA SpecIInv == Spec => []IInv
  BY InitIInv, NextIInv, PTL DEF Spec

-----------------------------------------------------------------------------
\* The state keeps its type: a floor in Nat, a finite-window set of numbers.
THEOREM TypeCorrect == Spec => []TypeOK
<1>1. IInv => TypeOK
  BY DEF IInv, TypeOK, Settled
<1>2. QED
  BY <1>1, SpecIInv, PTL

\* For every window, floor and order of arrival, Seen::accept never answers
\* "new" twice for one number.
THEOREM AcceptedOnce == Spec => []TakenOnce
<1>1. IInv => TakenOnce
  BY DEF IInv
<1>2. QED
  BY <1>1, SpecIInv, PTL

\* A number that never came is refused only after more than WINDOW larger ones.
THEOREM LossIsLate == Spec => []OnlyTheLateAreLost
<1>1. IInv => OnlyTheLateAreLost
  BY DEF IInv
<1>2. QED
  BY <1>1, SpecIInv, PTL

\* above never outgrows the window, although its loop runs at most once.
THEOREM WindowHolds == Spec => []BoundedWindow
<1>1. IInv => BoundedWindow
  BY DEF IInv
<1>2. QED
  BY <1>1, SpecIInv, PTL
=============================================================================
