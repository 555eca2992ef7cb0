----------------------------- MODULE MCKeeping -----------------------------
(***************************************************************************)
(* One person's disk, for TLC.                                             *)
(***************************************************************************)
EXTENDS Keeping

CONSTANTS TYPED, SAID, FAULTS, LINKS

MCBudget ==
  [kind \in Kinds |-> CASE kind = "typed" -> TYPED
                        [] kind = "said" -> SAID
                        [] kind = "fault" -> FAULTS
                        [] OTHER -> LINKS]
=============================================================================
