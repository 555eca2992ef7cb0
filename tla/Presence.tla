------------------------------ MODULE Presence ------------------------------
(***************************************************************************)
(* Agreeing to see each other online: the state machine of contacts.rs,    *)
(* the function that stores, sends and acts on it (presence in main.rs),   *)
(* and as much of the pool (pool.rs) as decides whether its frames arrive. *)
(*                                                                         *)
(* Two people who have each other in their book.  A frame is put on the    *)
(* connection, or on the one a call has taken, or waits in memory for the  *)
(* next; a frame that arrives during a call is handed to the idle loop     *)
(* through a channel of its own.  Any of it may be lost with the           *)
(* connection, and either side may crash, fail to write its book, or       *)
(* /forget the other.                                                      *)
(***************************************************************************)
EXTENDS Integers, SequencesExt

CONSTANTS
  Peers,         \* the two of them
  WAITING,       \* frames the pool holds for a missing connection (4)
  Budget         \* how often each kind of event may happen

Kinds == {"ask", "stop", "call", "break", "crash", "save", "forget"}

ASSUME PresenceAssumption ==
  /\ \E a, b \in Peers : a # b /\ Peers = {a, b}
  /\ WAITING \in Nat
  /\ Budget \in [Kinds -> Nat]

VARIABLES
  agreement,     \* Contact::presence in memory, NoContact when not in the book
  file,          \* the same in contacts.sealed, as last written
  waiting,       \* Pool::waiting: frames for the next connection
  link,          \* what each side has of the connection
  up,            \* does it still carry frames?
  wire,          \* frames written to each peer and not yet handled
  aside,         \* frames a call handed to each peer's idle loop
  budget,        \* what remains of Budget
  \* history, for the properties
  word,          \* the last thing each typed about the other
  everAsked      \* who ever typed /presence

vars == <<agreement, file, waiting, link, up, wire, aside, budget, word, everAsked>>
connection == <<link, up, wire, aside>>
history == <<word, everAsked>>

NoContact == "no contact"
Agreement == {"Off", "WeAsked", "TheyAsked", "On"}
Frames == {"Ask", "Yes", "No"}

\* The connection as one side has it: "dialled" and "taken" are open and not
\* yet in the pool, the first on Pool::landed, the second among the `opening`.
LinkStates == {"none", "dialled", "taken", "idle", "lent"}

Other(p) == CHOOSE q \in Peers : q # p

\* Contacts::presence_of: somebody not in the book has agreed to nothing.
PresenceOf(p) == IF agreement[p] = NoContact THEN "Off" ELSE agreement[p]
Filed(p) == agreement[p] # NoContact

\* They start out connected if an earlier call left its connection in the pool.
Init ==
  /\ agreement = [p \in Peers |-> "Off"] /\ file = agreement
  /\ waiting = [p \in Peers |-> <<>>]
  /\ up \in BOOLEAN
  /\ link = [p \in Peers |-> IF up THEN "idle" ELSE "none"]
  /\ wire = [p \in Peers |-> <<>>] /\ aside = wire
  /\ budget = Budget
  /\ word = [p \in Peers |-> "nothing"] /\ everAsked = {}

Afford(kind) == budget[kind] > 0
Spend(kind) == [budget EXCEPT ![kind] = @ - 1]
Strikes(kind) == Afford(kind) /\ budget' = Spend(kind)

-----------------------------------------------------------------------------
(***************************************************************************)
(* The state machine: Presence::step.                                      *)
(***************************************************************************)

\* Mutant: asking again is taken for an answer.
ToAskTwice(was, said) ==
  CASE said = "WeAsk" -> IF was = "Off" THEN "WeAsked" ELSE "On"
    [] said = "Ask" -> IF was \in {"WeAsked", "On"} THEN "On" ELSE "TheyAsked"
    [] said = "Yes" -> IF was \in {"WeAsked", "On"} THEN "On" ELSE was
    [] OTHER -> "Off"

\* Where an event leaves the agreement.  What we type is "WeAsk" or "WeStop";
\* what they say is the frame itself.
To(was, said) ==
  CASE said = "WeAsk" -> IF was \in {"TheyAsked", "On"} THEN "On" ELSE "WeAsked"
    [] said = "Ask" -> IF was \in {"WeAsked", "On"} THEN "On" ELSE "TheyAsked"
    [] said = "Yes" -> IF was \in {"WeAsked", "On"} THEN "On" ELSE was
    [] OTHER -> "Off"

\* Mutant: an agreement that asking completes is not answered.
ReplySilent(was, said) ==
  CASE said = "WeAsk" /\ was \in {"Off", "WeAsked"} -> <<"Ask">>
    [] said = "Ask" /\ was \in {"WeAsked", "On"} -> <<"Yes">>
    [] said = "WeStop" /\ was # "Off" -> <<"No">>
    [] OTHER -> <<>>

\* What they are sent: one frame or none.
Reply(was, said) ==
  CASE said = "WeAsk" /\ was \in {"Off", "WeAsked"} -> <<"Ask">>
    [] said = "WeAsk" /\ was = "TheyAsked" -> <<"Yes">>
    [] said = "Ask" /\ was \in {"WeAsked", "On"} -> <<"Yes">>
    [] said = "WeStop" /\ was # "Off" -> <<"No">>
    [] OTHER -> <<>>

-----------------------------------------------------------------------------
(***************************************************************************)
(* Saying it: Pool::send and Pool::forget.                                 *)
(***************************************************************************)

Open(p) == link[p] \in {"idle", "lent"}

\* Mutant: no ceiling.
HeldAll(p, frames) == [waiting EXCEPT ![p] = @ \o frames]

\* Pool::send with no connection to send on: held up to WAITING, then dropped.
Held(p, frames) ==
  LET all == waiting[p] \o frames
  IN  [waiting EXCEPT ![p] = IF Len(all) <= WAITING THEN all ELSE @]

\* p sends `frames` with `unread` left to handle, and lets the other go if
\* told to: what waits is dropped, and an idle connection is closed once what
\* is queued on it is out, with what was not read of it.  The frames go on the
\* connection; or are swallowed by one that died unnoticed; or wait for the
\* next.  A call that takes nothing more makes them wait too.
Send(p, frames, unread, letGo, purse) ==
  LET closes == letGo /\ link[p] = "idle"
      left == [unread EXCEPT ![p] = IF closes THEN <<>> ELSE @]
      Waits(w) == waiting' = IF letGo THEN [w EXCEPT ![p] = <<>>] ELSE w
  IN  /\ link' = IF closes THEN [link EXCEPT ![p] = "none"] ELSE link
      /\ up' = (up /\ ~ closes)
      /\ \/ /\ Open(p) /\ up
            /\ wire' = [left EXCEPT ![Other(p)] = @ \o frames]
            /\ Waits(waiting) /\ budget' = purse
         \/ /\ Open(p) /\ ~ up
            /\ wire' = left /\ Waits(waiting) /\ budget' = purse
         \/ /\ ~ Open(p) \/ ~ up
            /\ wire' = left /\ Waits(Held(p, frames)) /\ budget' = purse
         \/ /\ link[p] = "lent" /\ up /\ purse["break"] > 0 /\ frames # <<>>
            /\ wire' = left /\ Waits(Held(p, frames))
            /\ budget' = [purse EXCEPT !["break"] = @ - 1]

\* presence in main.rs: step, store, send, connect or let go.  The book is
\* written only when the state in memory changes.
Stored(p, said, unread, purse) ==
  LET was == PresenceOf(p)
      to == To(was, said)
  IN  /\ agreement' = [agreement EXCEPT ![p] = to]
      /\ file' = IF to = was THEN file ELSE [file EXCEPT ![p] = to]
      /\ Send(p, Reply(was, said), unread, to = "Off" /\ was # "Off", purse)

\* The same when contacts.sealed cannot be written: an error on screen, the
\* state moved in memory, and nothing else of it done.
NotStored(p, said, unread, purse) ==
  LET was == PresenceOf(p)
      to == To(was, said)
  IN  /\ to # was /\ purse["save"] > 0
      /\ agreement' = [agreement EXCEPT ![p] = to]
      /\ wire' = unread
      /\ budget' = [purse EXCEPT !["save"] = @ - 1]
      /\ UNCHANGED <<file, waiting, link, up>>

-----------------------------------------------------------------------------
(***************************************************************************)
(* What is typed.                                                          *)
(***************************************************************************)

\* /presence <name>
Ask(p) ==
  /\ Filed(p) /\ Afford("ask")
  /\ everAsked' = everAsked \cup {p}
  /\ \/ Stored(p, "WeAsk", wire, Spend("ask")) /\ word' = [word EXCEPT ![p] = "ask"]
     \/ NotStored(p, "WeAsk", wire, Spend("ask")) /\ word' = [word EXCEPT ![p] = "unsure"]
  /\ UNCHANGED aside

\* /presence <name> off
Stop(p) ==
  /\ Filed(p) /\ Afford("stop")
  /\ \/ Stored(p, "WeStop", wire, Spend("stop")) /\ word' = [word EXCEPT ![p] = "stop"]
     \/ NotStored(p, "WeStop", wire, Spend("stop")) /\ word' = [word EXCEPT ![p] = "unsure"]
  /\ UNCHANGED <<aside, everAsked>>

\* /forget <name>, refused during a call with them.  It stops short when the
\* book cannot be written (or, after that, when a later step fails): then
\* nothing is done about the connection.
Forget(p) ==
  /\ Filed(p) /\ link[p] # "lent" /\ Afford("forget")
  /\ agreement' = [agreement EXCEPT ![p] = NoContact]
  /\ word' = [word EXCEPT ![p] = "nothing"]
  /\ \/ /\ file' = [file EXCEPT ![p] = NoContact]
        /\ Send(p, <<>>, wire, TRUE, Spend("forget"))
     \/ /\ Afford("save")
        /\ file' \in {file, [file EXCEPT ![p] = NoContact]}
        /\ budget' = [Spend("forget") EXCEPT !["save"] = @ - 1]
        /\ UNCHANGED <<waiting, link, up, wire>>
  /\ UNCHANGED <<aside, everAsked>>

\* /add
Add(p) ==
  /\ ~ Filed(p)
  /\ agreement' = [agreement EXCEPT ![p] = "Off"]
  /\ \/ file' = [file EXCEPT ![p] = "Off"] /\ UNCHANGED budget
     \/ Strikes("save") /\ UNCHANGED file
  /\ word' = [word EXCEPT ![p] = "nothing"]
  /\ UNCHANGED <<waiting, connection, everAsked>>

-----------------------------------------------------------------------------
(***************************************************************************)
(* What arrives.                                                           *)
(***************************************************************************)

\* A frame of theirs reaches the idle loop; from a stranger it is dropped.
Handle(p, frame, unread) ==
  \/ /\ Filed(p)
     /\ Stored(p, frame, unread, budget) \/ NotStored(p, frame, unread, budget)
  \/ /\ ~ Filed(p)
     /\ wire' = unread
     /\ UNCHANGED <<agreement, file, waiting, link, up, budget>>

\* On a connection nobody is talking over.
Hear(p) ==
  /\ link[p] = "idle" /\ wire[p] # <<>>
  /\ Handle(p, Head(wire[p]), [wire EXCEPT ![p] = Tail(@)])
  /\ UNCHANGED <<aside, history>>

\* During a call: the call hands it to the idle loop,
HandOver(p) ==
  /\ link[p] = "lent" /\ wire[p] # <<>>
  /\ aside' = [aside EXCEPT ![p] = Append(@, Head(wire[p]))]
  /\ wire' = [wire EXCEPT ![p] = Tail(@)]
  /\ UNCHANGED <<agreement, file, waiting, link, up, budget, history>>

\* which takes it up when select! says so, the call over or not.
HearAside(p) ==
  /\ aside[p] # <<>>
  /\ aside' = [aside EXCEPT ![p] = Tail(@)]
  /\ Handle(p, Head(aside[p]), wire)
  /\ UNCHANGED history

-----------------------------------------------------------------------------
(***************************************************************************)
(* The connection.                                                         *)
(***************************************************************************)

\* A dial of p's lands, and the handshake with it, as `role` at p, and takes
\* `frames` with it.  The other side may still hold the end of a dead
\* connection: it is replaced, and what was not read of it goes, which is a
\* loss like any other.
Connect(p, role, frames, purse) ==
  LET q == Other(p)
  IN  /\ ~ up /\ link[p] = "none" /\ link[q] \in {"none", "idle"}
      /\ Filed(p) /\ Filed(q)
      /\ up' = TRUE
      /\ link' = [link EXCEPT ![p] = role, ![q] = "taken"]
      /\ wire' = [wire EXCEPT ![p] = <<>>, ![q] = frames]
      /\ IF wire[q] = <<>> THEN budget' = purse
         ELSE purse["break"] > 0 /\ budget' = [purse EXCEPT !["break"] = @ - 1]
      /\ UNCHANGED <<agreement, file, aside, history>>

\* Mutant: an unanswered request is dialled for as well.
ReachAskers(p) ==
  /\ agreement[p] \in {"WeAsked", "On"}
  /\ Connect(p, "dialled", <<>>, budget)
  /\ UNCHANGED waiting

\* Pool::reach, by the sweep or at once: only for somebody agreed.
Reach(p) ==
  /\ agreement[p] = "On"
  /\ Connect(p, "dialled", <<>>, budget)
  /\ UNCHANGED waiting

\* Pool::keep: into the pool, and what waited goes out.  A connection taken is
\* kept from somebody in the book; one dialled, whatever happened since.
Keep(p) ==
  /\ \/ link[p] = "dialled"
     \/ link[p] = "taken" /\ Filed(p)
  /\ link' = [link EXCEPT ![p] = "idle"]
  /\ waiting' = [waiting EXCEPT ![p] = <<>>]
  /\ wire' = IF up THEN [wire EXCEPT ![Other(p)] = @ \o waiting[p]] ELSE wire
  /\ UNCHANGED <<agreement, file, up, aside, budget, history>>

\* Contacts::admits: closed again.
Refuse(p) ==
  /\ link[p] = "taken" /\ ~ Filed(p)
  /\ link' = [link EXCEPT ![p] = "none"]
  /\ up' = FALSE
  /\ wire' = [wire EXCEPT ![p] = <<>>]
  /\ UNCHANGED <<agreement, file, waiting, aside, budget, history>>

\* /call or /answer over the connection there is,
Lend(p) ==
  /\ link[p] = "idle" /\ Strikes("call")
  /\ link' = [link EXCEPT ![p] = "lent"]
  /\ UNCHANGED <<agreement, file, waiting, up, wire, aside, history>>

\* or over one dialled for it, which takes what waited (Pool::opened).
CallDials(p) ==
  /\ Afford("call")
  /\ Connect(p, "lent", waiting[p], Spend("call"))
  /\ waiting' = [waiting EXCEPT ![p] = <<>>]

\* The call is over.  Its connection comes back and takes what waited, or it
\* had ended, and the call with it.
GiveBack(p) ==
  /\ link[p] = "lent"
  /\ \/ /\ link' = [link EXCEPT ![p] = "idle"]
        /\ waiting' = [waiting EXCEPT ![p] = <<>>]
        /\ wire' = IF up THEN [wire EXCEPT ![Other(p)] = @ \o waiting[p]] ELSE wire
     \/ /\ ~ up /\ wire[p] = <<>>
        /\ link' = [link EXCEPT ![p] = "none"]
        /\ UNCHANGED <<waiting, wire>>
  /\ UNCHANGED <<agreement, file, up, aside, budget, history>>

\* The circuit dies, with any part of what was on its way, or of what a side
\* that closed it had flushed.
Break ==
  /\ up \/ \E p \in Peers : wire[p] # <<>>
  /\ Strikes("break")
  /\ up' = FALSE
  /\ wire' \in [Peers -> UNION {Prefixes(wire[p]) : p \in Peers}]
  /\ \A p \in Peers : wire'[p] \in Prefixes(wire[p])
  /\ UNCHANGED <<agreement, file, waiting, link, aside, history>>

\* A side notices the end, after the last frame.
Notice(p) ==
  /\ ~ up /\ link[p] = "idle" /\ wire[p] = <<>>
  /\ link' = [link EXCEPT ![p] = "none"]
  /\ UNCHANGED <<agreement, file, waiting, up, wire, aside, budget, history>>

\* Killed and started again: contacts.sealed is what p comes back with.
Restart(p) ==
  /\ Strikes("crash")
  /\ agreement' = [agreement EXCEPT ![p] = file[p]]
  /\ waiting' = [waiting EXCEPT ![p] = <<>>]
  /\ aside' = [aside EXCEPT ![p] = <<>>]
  /\ link' = [link EXCEPT ![p] = "none"]
  /\ up' = FALSE
  /\ \E some \in Prefixes(wire[Other(p)]) :
       wire' = [wire EXCEPT ![p] = <<>>, ![Other(p)] = some]
  /\ UNCHANGED <<file, history>>

-----------------------------------------------------------------------------
Next ==
  \/ Break
  \/ \E p \in Peers :
       \/ Ask(p) \/ Stop(p) \/ Forget(p) \/ Add(p)
       \/ Hear(p) \/ HandOver(p) \/ HearAside(p)
       \/ Reach(p) \/ Keep(p) \/ Refuse(p)
       \/ Lend(p) \/ CallDials(p) \/ GiveBack(p)
       \/ Notice(p) \/ Restart(p)

Spec == Init /\ [][Next]_vars

\* The loop takes up every event that is ready, the sweep dials whoever agreed
\* until it lands, and calls end.  Nobody has to type, call or crash.
Fairness ==
  \A p \in Peers :
    /\ WF_vars(Hear(p)) /\ WF_vars(HandOver(p)) /\ WF_vars(HearAside(p))
    /\ WF_vars(Reach(p)) /\ WF_vars(Keep(p))
    /\ WF_vars(GiveBack(p)) /\ WF_vars(Notice(p))

FairSpec == Spec /\ Fairness

-----------------------------------------------------------------------------
TypeOK ==
  /\ agreement \in [Peers -> Agreement \cup {NoContact}]
  /\ file \in [Peers -> Agreement \cup {NoContact}]
  /\ waiting \in [Peers -> Seq(Frames)]
  /\ \A p \in Peers : Len(waiting[p]) <= WAITING
  /\ link \in [Peers -> LinkStates]
  /\ up \in BOOLEAN
  /\ wire \in [Peers -> Seq(Frames)]
  /\ aside \in [Peers -> Seq(Frames)]
  /\ budget \in [Kinds -> Nat]
  /\ word \in [Peers -> {"nothing", "ask", "stop", "unsure"}]
  /\ everAsked \subseteq Peers

\* "Silence is not consent, and neither is a yes to a question nobody asked":
\* one side holds the agreement only if the other once asked for it, whatever
\* is lost, reordered, repeated, forgotten or not written in between.
NeverAlone ==
  \A p \in Peers :
    "On" \in {agreement[p], file[p]} => {p, Other(p)} \subseteq everAsked

\* Nothing is on its way between them, and no call takes it up.
AtRest ==
  \A p \in Peers :
    /\ wire[p] = <<>> /\ aside[p] = <<>> /\ waiting[p] = <<>>
    /\ link[p] \in {"none", "idle"} /\ (link[p] = "idle" => up)

Unstruck(kind) == budget[kind] = Budget[kind]

\* Nothing broke, crashed, failed or was forgotten; and nobody called besides
\* ending an agreement, since a call hands frames to the idle loop behind those
\* that follow them, and keeps the connection a withdrawal lets go.
Smooth ==
  /\ \A kind \in {"break", "crash", "save", "forget"} : Unstruck(kind)
  /\ Unstruck("call") \/ Unstruck("stop")

\* "Both halves have to be On before either side holds a connection open":
\* once everything has arrived, nobody takes for agreed what the other does
\* not, or has ended.  (main.rs presence, Presence::step)
MutualAtRest ==
  AtRest /\ Smooth =>
    \A p \in Peers : agreement[p] = "On" =>
      agreement[Other(p)] = "On" /\ word[Other(p)] # "stop"

\* Nobody goes on taking for agreed what the other does not: the other does
\* too in the end, or it is over for both; however often it was ended and asked
\* for again before.  (Presence::step, Pool::reach)
AgreementCompletes ==
  \A p \in Peers :
    agreement[p] = "On" ~> agreement[Other(p)] = "On" \/ agreement[p] # "On" \/ ~ Smooth

\* A connection dialled because of an agreement is kept only under one, as
\* long as nobody has taken one back or forgotten the other (a dial that is
\* under way is not called off), whatever broke, crashed or could not be
\* written in between.  (Pool::reach, Pool::landed)
HeldWhileAgreed ==
  [][\A p \in Peers :
       link[p] = "dialled" /\ link'[p] = "idle" =>
         \/ agreement[p] = "On"
         \/ ~ Unstruck("stop") \/ ~ Unstruck("forget")]_vars
=============================================================================
