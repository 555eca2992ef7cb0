------------------------------- MODULE MCCall -------------------------------
(***************************************************************************)
(* Three people for TLC, one of whom both others know, and room for one    *)
(* line before an answer.                                                  *)
(***************************************************************************)
EXTENDS Call

CONSTANTS alice, bob, carol, CALLS, LINES, TROUBLE

MCPeople == {alice, bob, carol}
MCContacts == {{alice, bob}, {bob, carol}}
MCStarts == {{{bob, carol}}}

MCBudget ==
  [kind \in Kinds |-> CASE kind = "call" -> CALLS
                        [] kind = "say" -> LINES
                        [] OTHER -> TROUBLE]
=============================================================================
