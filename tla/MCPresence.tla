----------------------------- MODULE MCPresence -----------------------------
(***************************************************************************)
(* The two of them for TLC, and what they do and meet with.                *)
(***************************************************************************)
EXTENDS Presence

CONSTANTS alice, bob

MCPeers == {alice, bob}

\* Much is said, or less where something goes wrong, once or twice.
MCEverything ==
  [k \in Kinds |-> CASE k \in {"ask", "stop"} -> 4 [] k = "call" -> 2 [] OTHER -> 1]

Spent(kinds) == FoldSet(LAMBDA k, sum : sum + Budget[k] - budget[k], 0, kinds)

NotTooMuch ==
  Spent({"ask", "stop", "call"}) + 2 * Spent({"break", "crash", "save", "forget"}) <= 6
=============================================================================
