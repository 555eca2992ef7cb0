------------------------------- MODULE Store -------------------------------
(***************************************************************************)
(* One file that is replaced whole, step by step (store.rs write_sealed;   *)
(* identity.rs write_seed_bytes and create), and what a crash may leave.   *)
(***************************************************************************)
EXTENDS Sequences

CONSTANTS
  Absent,   \* there is no file
  Torn      \* there is one, and not all of it

ASSUME StoreAssumption == Absent # Torn

\* What is read, what lies beside it, and what a crash now may leave.
Holding(v) == [is |-> v, beside |-> Absent, flushed |-> FALSE, after |-> {v}]

\* Mutant: renamed before what is in it has reached the disk.
RenamedFirst == <<"open", "write", "rename", "flush", "sync">>

\* write_sealed: write beside, then rename.
Beside == <<"open", "write", "flush", "rename", "sync">>

\* create: the first seed is written where it stays.
InPlace == <<"create", "fill", "settle", "sync">>

\* A step of writing v.
Written(f, step, v) ==
  CASE step = "open"   -> [f EXCEPT !.beside = Torn, !.flushed = FALSE]
    [] step = "write"  -> [f EXCEPT !.beside = v]
    [] step = "flush"  -> [f EXCEPT !.flushed = TRUE, !.after = @ \ {Torn}]
    [] step = "rename" -> [f EXCEPT !.is = f.beside, !.beside = Absent,
                             !.after = @ \cup {f.beside} \cup (IF f.flushed THEN {} ELSE {Torn})]
    [] step = "create" -> [f EXCEPT !.is = Torn, !.after = @ \cup {Torn}]
    [] step = "fill"   -> [f EXCEPT !.is = v, !.after = @ \cup {v}]
    [] step = "settle" -> [f EXCEPT !.after = @ \ {Torn}]
    [] step = "sync"   -> [f EXCEPT !.after = @ \cap {f.is, Torn}]

\* What a crash makes of it.  What lay beside is never read.
Crashed(f) == {Holding(v) : v \in f.after}
=============================================================================
