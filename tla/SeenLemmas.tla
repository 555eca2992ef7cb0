----------------------------- MODULE SeenLemmas -----------------------------
(***************************************************************************)
(* What the operators of Seen do, for every window and every value the     *)
(* program can hold: the facts SeenProofs and DeliveryProofs rest on.      *)
(***************************************************************************)
EXTENDS Seen, FiniteSetTheorems, WellFoundedInduction, TLAPS

\* Every non-empty set of naturals has a least element (no operator parameter
\* to instantiate: a subset of Nat, by well-foundedness of < on Nat).
LEMMA LeastNatural ==
  ASSUME NEW T \in SUBSET Nat, T # {}
  PROVE  \E n \in T : \A m \in T : n <= m
<1>1. PICK n \in T : \A m \in T : <<m, n>> \notin OpToRel(<, Nat)
  BY NatLessThanWellFounded, WFMin
<1>2. \A m \in T : ~ (m < n)
  BY <1>1 DEF OpToRel
<1>3. QED
  BY <1>2

\* A state of Seen that the program can be in: above is finite, and nothing in
\* it is at the floor or below.
Settled(s) == /\ s \in SeenType
              /\ IsFiniteSet(s.above)
              /\ \A n \in s.above : n > s.floor

\* The same before settle has run: the floor itself may be in above.
Unsettled(s) == /\ s \in SeenType
                /\ IsFiniteSet(s.above)
                /\ \A n \in s.above : n >= s.floor

\* settle's loop terminates: there is a number to stop at, and everything from
\* the floor up to it is in above.
LEMMA FirstGapExists ==
  ASSUME NEW s, Unsettled(s)
  PROVE  /\ FirstGap(s) \in Nat
         /\ FirstGap(s) >= s.floor
         /\ FirstGap(s) \notin s.above
         /\ s.floor .. FirstGap(s) - 1 \subseteq s.above
<1> DEFINE range == s.floor .. s.floor + Cardinality(s.above)
           T == {n \in range : n \notin s.above}
<1>1. s.floor \in Nat /\ Cardinality(s.above) \in Nat /\ s.above \subseteq Nat
  BY FS_CardinalityType DEF Unsettled, SeenType
<1>2. T # {}
  <2>1. SUFFICES ASSUME range \subseteq s.above PROVE FALSE
    OBVIOUS
  <2>2. Cardinality(range) = Cardinality(s.above) + 1
    BY <1>1, FS_Interval
  <2>3. Cardinality(range) <= Cardinality(s.above)
    BY <2>1, FS_Subset DEF Unsettled
  <2>4. QED
    BY <1>1, <2>2, <2>3
<1>3. T \in SUBSET Nat
  BY <1>1
<1>4. PICK n \in T : \A m \in T : n <= m
  BY <1>2, <1>3, LeastNatural
<1>5. s.floor .. n - 1 \subseteq s.above
  BY <1>1, <1>4
<1>6. /\ FirstGap(s) \in range
      /\ FirstGap(s) \notin s.above
      /\ s.floor .. FirstGap(s) - 1 \subseteq s.above
  BY <1>4, <1>5 DEF FirstGap
<1>7. QED
  BY <1>1, <1>6

\* settle loses and invents no number: what has been seen is what was.
LEMMA SettleKeeps ==
  ASSUME NEW s, Unsettled(s)
  PROVE  /\ Settled(Settle(s))
         /\ Settle(s).above \subseteq s.above
         /\ Cardinality(Settle(s).above) <= Cardinality(s.above)
         /\ \A n \in Nat : Has(Settle(s), n) <=> Has(s, n)
<1> DEFINE g == FirstGap(s)
           t == Settle(s)
<1>1. /\ g \in Nat /\ g >= s.floor /\ g \notin s.above
      /\ s.floor .. g - 1 \subseteq s.above
  BY FirstGapExists
<1>2. t.floor = g /\ t.above = s.above \ (s.floor .. g - 1) /\ t \in SeenType
  BY <1>1 DEF Settle, Unsettled, SeenType
<1>3. s.floor \in Nat /\ s.above \subseteq Nat /\ \A n \in s.above : n >= s.floor
  BY DEF Unsettled, SeenType
<1>4. \A n \in t.above : n > t.floor
  BY <1>1, <1>2, <1>3
<1>5. IsFiniteSet(t.above) /\ Cardinality(t.above) <= Cardinality(s.above)
  BY <1>2, FS_Subset DEF Unsettled
<1>6. \A n \in Nat : Has(t, n) <=> Has(s, n)
  BY <1>1, <1>2, <1>3 DEF Has
<1>7. QED
  BY <1>2, <1>4, <1>5, <1>6 DEF Settled

\* Giving the oldest up takes nothing back; what becomes "seen" lies below it.
LEMMA GiveUpOldestKeeps ==
  ASSUME NEW s, Settled(s), s.above # {}
  PROVE  /\ Settled(GiveUpOldest(s))
         /\ GiveUpOldest(s).above \subseteq s.above
         /\ Cardinality(GiveUpOldest(s).above) < Cardinality(s.above)
         /\ \A n \in Nat : Has(GiveUpOldest(s), n)
                            <=> Has(s, n) \/ \A m \in s.above : n < m
<1> DEFINE oldest == Min(s.above)
           u == [floor |-> oldest + 1, above |-> s.above \ {oldest}]
<1>1. s.floor \in Nat /\ s.above \subseteq Nat /\ IsFiniteSet(s.above)
      /\ \A n \in s.above : n > s.floor
  BY DEF Settled, SeenType
<1>2. oldest \in s.above /\ \A m \in s.above : oldest <= m
  <2>1. PICK n \in s.above : \A m \in s.above : n <= m
    BY <1>1, LeastNatural
  <2>2. QED
    BY <2>1 DEF Min
<1>3. oldest \in Nat
  BY <1>1, <1>2
<1>4. Unsettled(u)
  <2>1. u \in SeenType
    BY <1>1, <1>3 DEF SeenType
  <2>2. IsFiniteSet(u.above)
    BY <1>1, FS_RemoveElement
  <2>3. \A n \in u.above : n >= u.floor
    BY <1>1, <1>2, <1>3
  <2>4. QED
    BY <2>1, <2>2, <2>3 DEF Unsettled
<1>5. Cardinality(u.above) = Cardinality(s.above) - 1
      /\ Cardinality(s.above) \in Nat
  BY <1>1, <1>2, FS_RemoveElement, FS_CardinalityType
<1>6. \A n \in Nat : Has(u, n) <=> Has(s, n) \/ \A m \in s.above : n < m
  <2>1. SUFFICES ASSUME NEW n \in Nat
                 PROVE  Has(u, n) <=> Has(s, n) \/ \A m \in s.above : n < m
    OBVIOUS
  <2>2. Has(u, n) <=> n < oldest + 1 \/ n \in s.above \ {oldest}
    BY DEF Has
  <2>3. (\A m \in s.above : n < m) <=> n < oldest
    BY <1>1, <1>2, <1>3
  <2>4. n < s.floor => n < oldest
    BY <1>1, <1>2, <1>3
  <2>5. QED
    BY <1>1, <1>2, <1>3, <2>2, <2>3, <2>4 DEF Has
<1>7. GiveUpOldest(s) = Settle(u)
  BY DEF GiveUpOldest
<1>8. /\ Settled(Settle(u))
      /\ Settle(u).above \subseteq u.above
      /\ Cardinality(Settle(u).above) <= Cardinality(u.above)
      /\ \A n \in Nat : Has(Settle(u), n) <=> Has(u, n)
  BY <1>4, SettleKeeps
<1>9. Cardinality(Settle(u).above) \in Nat /\ Cardinality(u.above) \in Nat
  BY SMTT(20), <1>1, <1>8, FS_CardinalityType, FS_RemoveElement DEF Settled
<1>10. Cardinality(Settle(u).above) < Cardinality(s.above)
  BY <1>5, <1>8, <1>9
<1>11. \A n \in Nat : Has(Settle(u), n) <=> Has(s, n) \/ \A m \in s.above : n < m
  BY <1>6, <1>8
<1>12. Settle(u).above \subseteq s.above
  BY <1>8
<1>13. QED
  BY <1>7, <1>8, <1>10, <1>11, <1>12

\* accept records the number, forgets none, stays within the window, and makes
\* a number "seen" that never came only below more than WINDOW that did.
LEMMA AcceptKeeps ==
  ASSUME NEW s, Settled(s), Cardinality(s.above) <= WINDOW,
         NEW n \in Nat, ~ Has(s, n)
  PROVE  /\ Settled(Accept(s, n))
         /\ Cardinality(Accept(s, n).above) <= WINDOW
         /\ Accept(s, n).above \subseteq s.above \cup {n}
         /\ Has(Accept(s, n), n)
         /\ \A k \in Nat : Has(s, k) => Has(Accept(s, n), k)
         /\ \A k \in Nat : Has(Accept(s, n), k) =>
              \/ Has(s, k) \/ k = n
              \/ \E S \in SUBSET (s.above \cup {n}) :
                   Cardinality(S) > WINDOW /\ \A m \in S : m > k
<1> DEFINE u == [floor |-> s.floor, above |-> s.above \cup {n}]
           held == Settle(u)
<1>1. s.floor \in Nat /\ s.above \subseteq Nat /\ IsFiniteSet(s.above)
      /\ s \in SeenType
      /\ \A m \in s.above : m > s.floor
  BY DEF Settled, SeenType
<1>2. u.floor = s.floor /\ u.above = s.above \cup {n} /\ u \in SeenType
  BY <1>1 DEF SeenType
<1>3. n >= s.floor /\ n \notin s.above
  BY <1>1 DEF Has
<1>4. /\ IsFiniteSet(u.above)
      /\ Cardinality(u.above) = Cardinality(s.above) + 1
      /\ Cardinality(s.above) \in Nat
  BY <1>1, <1>2, <1>3, FS_AddElement, FS_CardinalityType
<1>5. Unsettled(u)
  BY <1>1, <1>2, <1>3, <1>4 DEF Unsettled
<1>6. /\ Settled(held)
      /\ held.above \subseteq u.above
      /\ Cardinality(held.above) <= Cardinality(u.above)
      /\ \A k \in Nat : Has(held, k) <=> Has(u, k)
  BY <1>5, SettleKeeps
<1>7. \A k \in Nat : Has(u, k) <=> Has(s, k) \/ k = n
  BY <1>2 DEF Has
<1>8. Cardinality(held.above) \in Nat /\ WINDOW \in Nat
  BY <1>6, FS_CardinalityType, WindowAssumption DEF Settled
<1>9. CASE Cardinality(held.above) > WINDOW
  <2>1. Accept(s, n) = GiveUpOldest(held)
    BY <1>9 DEF Accept
  <2>2. held.above # {}
    BY <1>8, <1>9, FS_EmptySet
  <2>3. /\ Settled(GiveUpOldest(held))
        /\ GiveUpOldest(held).above \subseteq held.above
        /\ Cardinality(GiveUpOldest(held).above) < Cardinality(held.above)
        /\ \A k \in Nat : Has(GiveUpOldest(held), k)
                            <=> Has(held, k) \/ \A m \in held.above : k < m
    BY <1>6, <2>2, GiveUpOldestKeeps
  <2>4. Cardinality(GiveUpOldest(held).above) <= WINDOW
    <3>1. Cardinality(GiveUpOldest(held).above) \in Nat
      BY <2>3, FS_CardinalityType DEF Settled
    <3>2. QED
      BY <1>4, <1>6, <1>8, <2>3, <3>1
  <2>5. \A k \in Nat : (\A m \in held.above : k < m) =>
          \E S \in SUBSET (s.above \cup {n}) :
             Cardinality(S) > WINDOW /\ \A m \in S : m > k
    <3>1. held.above \in SUBSET (s.above \cup {n})
      BY <1>2, <1>6
    <3>2. \A k \in Nat, m \in held.above : k < m => m > k
      BY <1>6 DEF Settled, SeenType
    <3>3. QED
      BY <1>9, <3>1, <3>2
  <2>6. QED
    BY <1>2, <1>6, <1>7, <2>1, <2>3, <2>4, <2>5
<1>10. CASE ~ (Cardinality(held.above) > WINDOW)
  <2>1. Accept(s, n) = held
    BY <1>10 DEF Accept
  <2>2. QED
    BY SMTT(20), <1>2, <1>6, <1>7, <1>8, <1>10, <2>1
<1>11. QED
  BY <1>9, <1>10
=============================================================================
