-------------------------------- MODULE Seen --------------------------------
(***************************************************************************)
(* seen.rs: "have I had this one already?", for numbers that mostly arrive *)
(* in order.  A contact's /tell ids and a room member's line numbers are   *)
(* both filtered through a value of this type.  Every number below floor   *)
(* has been seen, plus the ones in above; above holds at most WINDOW.      *)
(***************************************************************************)
EXTENDS Integers, FiniteSetsExt

CONSTANT WINDOW      \* how many numbers are kept above a gap (256 in the code)

ASSUME WindowAssumption == WINDOW \in Nat

SeenType == [floor : Nat, above : SUBSET Nat]

\* Seen::starting_at; Seen::default is StartingAt(0).
StartingAt(n) == [floor |-> n, above |-> {}]

\* Seen already, or below the floor.
Has(s, n) == n < s.floor \/ n \in s.above

\* The least number from the floor up that is not in above: where the loop
\* of settle stops.
FirstGap(s) ==
  CHOOSE n \in s.floor .. s.floor + Cardinality(s.above) :
     /\ n \notin s.above
     /\ s.floor .. n - 1 \subseteq s.above

\* Mutant: the floor stays where it is, numbers that follow it stay in above.
SettleMissing(s) == s

\* Mutant: the floor moves past the first gap as well.
SettleTooFar(s) ==
  [floor |-> FirstGap(s) + 1, above |-> s.above \ (s.floor .. FirstGap(s))]

\* Fold into the floor whatever now follows it without a gap.
Settle(s) ==
  [floor |-> FirstGap(s), above |-> s.above \ (s.floor .. FirstGap(s) - 1)]

\* Mutant: an eviction that forgets the number it pops instead of raising the floor
\* past it.
GiveUpOldestUnraised(s) ==
  Settle([floor |-> Min(s.above), above |-> s.above \ {Min(s.above)}])

\* Past the window the oldest gap is given up for lost: the least number of
\* above leaves it and the floor moves past that number.
GiveUpOldest(s) ==
  Settle([floor |-> Min(s.above) + 1, above |-> s.above \ {Min(s.above)}])

\* Mutants: one number is evicted too early; none ever is.
AcceptEarly(s, n) ==
  LET held == Settle([floor |-> s.floor, above |-> s.above \cup {n}])
  IN  IF held.above # {} /\ Cardinality(held.above) >= WINDOW
        THEN GiveUpOldest(held) ELSE held

AcceptUnbounded(s, n) == Settle([floor |-> s.floor, above |-> s.above \cup {n}])

\* Seen::accept for a number it does not have yet.  The code evicts in a loop;
\* one turn is all it ever takes, because above held at most WINDOW numbers
\* before n (BoundedWindow) and settle only shrinks it.
Accept(s, n) ==
  LET held == Settle([floor |-> s.floor, above |-> s.above \cup {n}])
  IN  IF Cardinality(held.above) > WINDOW THEN GiveUpOldest(held) ELSE held
=============================================================================
