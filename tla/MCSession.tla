----------------------------- MODULE MCSession -----------------------------
(***************************************************************************)
(* A small connection for TLC: three addresses, queues of one, and a few   *)
(* frames each way, so that both ratchets turn several times and cross.    *)
(***************************************************************************)
EXTENDS Session

CONSTANTS SAY, BEATS, EVENTS

MCAddress == [s \in Sides |-> IF s = "caller" THEN "alice" ELSE "bob"]

MCBudget ==
  [kind \in EventKinds |-> CASE kind = "say" -> SAY [] kind = "beat" -> BEATS
                              [] OTHER -> EVENTS]
=============================================================================
