------------------------------- MODULE Links -------------------------------
(***************************************************************************)
(* The connections between several people, as the idle loop of main.rs     *)
(* sees them through the pool (pool.rs): at most one per pair of contacts, *)
(* each direction a stream that arrives in order or ends.  A connection    *)
(* may die before either side notices; what is sent without one waits, a   *)
(* little of it.                                                           *)
(***************************************************************************)
EXTENDS Naturals, SequencesExt

CONSTANTS
  People,
  Contacts,      \* the pairs {p, q} who have each other in their books
  WAITING        \* frames the pool holds for a missing connection (4)

ASSUME LinksAssumption ==
  /\ Contacts \subseteq SUBSET People
  /\ \A c \in Contacts : \E p, q \in c : p # q /\ c = {p, q}
  /\ WAITING \in Nat

VARIABLES
  open,          \* <<p, q>>: p has a connection to q, and takes it for good
  live,          \* {p, q}: it still carries frames
  wire,          \* frames p wrote to q, not yet handled
  waiting        \* Pool::waiting: frames of p for the next connection to q

linkVars == <<open, live, wire, waiting>>

Ways == {w \in People \X People : {w[1], w[2]} \in Contacts}
Back(w) == <<w[2], w[1]>>
ContactsOf(p) == {q \in People : <<p, q>> \in Ways}

\* Nothing to send to anybody; one frame to each of some.
Nothing == [q \in People |-> <<>>]
ToEach(some, frame) == [q \in People |-> IF q \in some THEN <<frame>> ELSE <<>>]

LinksInit ==
  /\ live \in SUBSET Contacts
  /\ open = {w \in Ways : {w[1], w[2]} \in live}
  /\ wire = [w \in Ways |-> <<>>] /\ waiting = wire

\* Pool::send without a connection: held up to WAITING, then dropped.
Held(queue, frames) ==
  IF Len(queue) + Len(frames) <= WAITING THEN queue \o frames ELSE queue

\* Pool::send of out[q] to each q, with `unread` left to handle.  A connection
\* that died unnoticed swallows a frame, or fails and lets it wait.
Send(p, out, unread) ==
  \E swallowed \in SUBSET {q \in ContactsOf(p) :
                             /\ out[q] # <<>> /\ <<p, q>> \in open
                             /\ {p, q} \notin live} :
    LET Goes(w) == w[1] = p /\ w \in open /\ {p, w[2]} \in live
        Waits(w) == w[1] = p /\ ~ Goes(w) /\ w[2] \notin swallowed
    IN  /\ wire' = [w \in Ways |-> IF Goes(w) THEN unread[w] \o out[w[2]]
                                              ELSE unread[w]]
        /\ waiting' = [w \in Ways |-> IF Waits(w) THEN Held(waiting[w], out[w[2]])
                                                  ELSE waiting[w]]

\* What is left when the next frame from q to p has been taken.
Unread(q, p) == [wire EXCEPT ![<<q, p>>] = Tail(@)]

\* A dial of p's lands at q, and both keep the connection: what waited goes
\* out on it.  If q still holds a dead one it is replaced, with what q had
\* not read of it (Pool::keep).
Connect(p, q) ==
  LET w == <<p, q>>
  IN  /\ w \in Ways \ open /\ {p, q} \notin live
      /\ open' = open \cup {w, Back(w)}
      /\ live' = live \cup {{p, q}}
      /\ wire' = [wire EXCEPT ![w] = waiting[w], ![Back(w)] = waiting[Back(w)]]
      /\ waiting' = [waiting EXCEPT ![w] = <<>>, ![Back(w)] = <<>>]

\* The circuit dies, with any part of what was on its way or of what a side
\* that let it go had flushed.
Break(p, q) ==
  /\ q \in ContactsOf(p)
  /\ {p, q} \in live \/ wire[<<p, q>>] # <<>>
  /\ live' = live \ {{p, q}}
  /\ \E there \in Prefixes(wire[<<p, q>>]), back \in Prefixes(wire[<<q, p>>]) :
       wire' = [wire EXCEPT ![<<p, q>>] = there, ![<<q, p>>] = back]
  /\ UNCHANGED <<open, waiting>>

\* p notices that the connection to q has ended, after the last frame.
Ends(p, q) ==
  /\ <<p, q>> \in open /\ {p, q} \notin live
  /\ wire[<<q, p>>] = <<>>

\* p lets the connection to q go: what p wrote still arrives, what p has not
\* read does not (Pool::forget).
LetGo(p, q) ==
  /\ open' = open \ {<<p, q>>}
  /\ live' = live \ {{p, q}}
  /\ waiting' = [waiting EXCEPT ![<<p, q>>] = <<>>]
  /\ wire' = [wire EXCEPT ![<<q, p>>] = <<>>]

\* p is killed, and all its connections with it.
Killed(p) ==
  /\ open' = {w \in open : w[1] # p}
  /\ live' = {c \in live : p \notin c}
  /\ waiting' = [w \in Ways |-> IF w[1] = p THEN <<>> ELSE waiting[w]]
  /\ \E some \in [ContactsOf(p) -> UNION {Prefixes(wire[w]) : w \in Ways}] :
       /\ \A q \in ContactsOf(p) : some[q] \in Prefixes(wire[<<p, q>>])
       /\ wire' = [w \in Ways |-> CASE w[1] = p -> some[w[2]]
                                    [] w[2] = p -> <<>>
                                    [] OTHER -> wire[w]]

\* Every connection held carries frames, and none are on their way.
Quiet ==
  /\ \A w \in Ways : wire[w] = <<>> /\ waiting[w] = <<>>
  /\ \A w \in open : {w[1], w[2]} \in live
=============================================================================
