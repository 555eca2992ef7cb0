--------------------------- MODULE DeliveryPromise ---------------------------
(***************************************************************************)
(* What /tell promises, without files, connections or acknowledgements: a  *)
(* message is kept until it was had, it is shown once at most, and it is   *)
(* let go of without having been had only when its writer knows.           *)
(***************************************************************************)
EXTENDS Naturals

CONSTANT Bodies

VARIABLES written,   \* messages ever written
          kept,      \* those its writer still holds
          copies,    \* how often each was shown to its reader
          missed,    \* had by a reader killed before showing it
          excused    \* those the writer was told will not go

vars == <<written, kept, copies, missed, excused>>

Init == /\ written = {} /\ kept = {} /\ missed = {} /\ excused = {}
        /\ copies = [b \in Bodies |-> 0]

Had(b) == copies[b] > 0 \/ b \in missed

\* Written down; older ones may have to make room, and the writer is told.
Write(b) == \E room \in SUBSET kept :
  /\ b \notin written
  /\ written' = written \cup {b}
  /\ kept' = (kept \ room) \cup {b}
  /\ excused' = excused \cup room
  /\ UNCHANGED <<copies, missed>>

Show(b) == /\ b \in written /\ ~ Had(b)
           /\ copies' = [copies EXCEPT ![b] = 1]
           /\ UNCHANGED <<written, kept, missed, excused>>

Miss(b) == /\ b \in written /\ ~ Had(b)
           /\ missed' = missed \cup {b}
           /\ UNCHANGED <<written, kept, copies, excused>>

Release(b) == /\ b \in kept /\ Had(b)
              /\ kept' = kept \ {b}
              /\ UNCHANGED <<written, copies, missed, excused>>

Next == \E b \in Bodies : Write(b) \/ Show(b) \/ Miss(b) \/ Release(b)

Spec == Init /\ [][Next]_vars

\* Nothing waits for ever: a message kept is had, and then let go of.
FairSpec == Spec /\ \A b \in Bodies : WF_vars(Release(b))
                                   /\ WF_vars(b \in kept /\ (Show(b) \/ Miss(b)))
=============================================================================
