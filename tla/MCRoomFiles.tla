---------------------------- MODULE MCRoomFiles ----------------------------
(***************************************************************************)
(* A host, and two members who know only the host, for TLC.  One of them   *)
(* has a file of two chunks; the host has another.                         *)
(***************************************************************************)
EXTENDS RoomFiles

CONSTANTS host, member, other, long, short, GETS, STALLS, TROUBLE, BACKS

MCPeople == {host, member, other}
MCLinks == {{host, member}, {host, other}}
MCFiles == {long, short}
MCAuthor == [i \in MCFiles |-> IF i = long THEN member ELSE host]
MCSize == [i \in MCFiles |-> IF i = long THEN 2 ELSE 1]

MCBudget ==
  [kind \in Kinds |-> CASE kind = "get" -> GETS
                        [] kind = "stall" -> STALLS
                        [] kind = "trouble" -> TROUBLE
                        [] OTHER -> BACKS]
=============================================================================
