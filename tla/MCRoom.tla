------------------------------- MODULE MCRoom -------------------------------
(***************************************************************************)
(* Three people: all of them contacts of each other, or two who only know  *)
(* the third.                                                              *)
(***************************************************************************)
EXTENDS Room

CONSTANTS alice, bob, carol

MCPeople == {alice, bob, carol}
Mesh == {{alice, bob}, {alice, carol}, {bob, carol}}
Star == {{alice, bob}, {alice, carol}}
Symmetry == Permutations(MCPeople)
StarSymmetry == Permutations({bob, carol})

Some(kinds) == [k \in Kinds |-> IF k \in DOMAIN kinds THEN kinds[k] ELSE 0]

\* Talk, with somebody leaving, and something going wrong or somebody asked in
\* again.
MCTalk == Some([create |-> 1, invite |-> 3, say |-> 1, leave |-> 1, fault |-> 1])
OneThing == budget["invite"] > 0 \/ Unbroken

\* Invitations that cross, expire and are refused.
MCPlaces ==
  Some([create |-> 2, invite |-> 3, leave |-> 1, expire |-> 1, fault |-> 1])

\* Somebody leaves and is asked in again.
MCRejoin == Some([create |-> 1, invite |-> 3, leave |-> 1])
=============================================================================
