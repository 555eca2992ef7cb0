---------------------------- MODULE MCSeenWindow ----------------------------
(***************************************************************************)
(* Ten numbers through a window of three, one of them below the start.     *)
(***************************************************************************)
EXTENDS SeenWindow

MCNumbers == 0 .. 9

\* settle and accept of seen.rs turn by turn, as their loops are written.
RECURSIVE SettleLoop(_)
SettleLoop(s) ==
  IF s.floor \in s.above
    THEN SettleLoop([floor |-> s.floor + 1, above |-> s.above \ {s.floor}])
    ELSE s

RECURSIVE EvictLoop(_)
EvictLoop(s) ==
  IF Cardinality(s.above) > WINDOW
    THEN LET oldest == Min(s.above)
         IN  EvictLoop(SettleLoop([floor |-> oldest + 1,
                                   above |-> s.above \ {oldest}]))
    ELSE s

\* The closed forms of Seen compute, in every reachable state and for every
\* number that may come next, what the loops of accept compute.
AcceptIsTheLoop ==
  \A n \in Numbers :
    ~ Has(seen, n) => Accept(seen, n) =
        EvictLoop(SettleLoop([floor |-> seen.floor, above |-> seen.above \cup {n}]))
=============================================================================
