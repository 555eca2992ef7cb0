----------------------------- MODULE MCTransfer -----------------------------
(***************************************************************************)
(* Two files for TLC, one of two chunks and one of a single one: both of   *)
(* one person, or one of each.                                             *)
(***************************************************************************)
EXTENDS Transfer

CONSTANTS alice, bob, long, short, OFFERS, CANCELS, BYES, TROUBLE, QUIETS, UPSETS

MCPeople == {alice, bob}
MCFiles == {long, short}
MCOwners == {[x \in MCFiles |-> alice], [x \in MCFiles |-> IF x = long THEN alice ELSE bob]}
MCSize == [x \in MCFiles |-> IF x = long THEN 2 ELSE 1]

MCBudget ==
  [kind \in Kinds |-> CASE kind = "offer" -> OFFERS
                        [] kind = "cancel" -> CANCELS
                        [] kind = "bye" -> BYES
                        [] kind = "trouble" -> TROUBLE
                        [] kind = "quiet" -> QUIETS
                        [] OTHER -> UPSETS]

\* What follows once a direct transfer went astray is not looked at: no
\* property speaks of it; nor what follows both trouble and a /bye, of which
\* NothingCutShort does not speak.
Followed == ~ astray /\ (budget["trouble"] = TROUBLE \/ budget["bye"] = BYES)
=============================================================================
