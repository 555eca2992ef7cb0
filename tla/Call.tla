-------------------------------- MODULE Call --------------------------------
(***************************************************************************)
(* Calls between several people: the idle loop that rings, answers, turns  *)
(* down and places them (main.rs), the task a call runs in (chat.rs run),  *)
(* and the pool that lends it a connection and takes it back (pool.rs).    *)
(*                                                                         *)
(* A connection is not a call.  Connections stay open between calls, two   *)
(* people may come to hold two of them, and the first line said over one   *)
(* is what rings.                                                          *)
(***************************************************************************)
EXTENDS Naturals, SequencesExt, FiniteSets

CONSTANTS
  People,
  Contacts,        \* the pairs {p, q} who have each other in their books
  Starts,          \* which of those may be connected when it starts
  RINGING_LINES,   \* lines held before an answer, or before a dial lands (16)
  MAX_OPENING,     \* incoming handshakes at once (8)
  WAITING,         \* frames the pool holds for a missing connection (4)
  Budget,          \* how often each kind of event may happen
  Nobody

Kinds == {"call", "say", "trouble"}

ASSUME CallAssumption ==
  /\ Nobody \notin People
  /\ \A two \in Contacts : \E p, q \in People : p # q /\ two = {p, q}
  /\ Starts \subseteq SUBSET Contacts /\ \A some \in Starts : IsFiniteSet(some)
  /\ RINGING_LINES \in Nat /\ MAX_OPENING \in Nat \ {0} /\ WAITING \in Nat
  /\ Budget \in [Kinds -> Nat]

VARIABLES
  pair,       \* the two people of each connection made so far
  holds,      \* <<p, c>>: p has not let go of connection c
  dead,       \* connections whose circuit died
  wire,       \* what each side wrote on a connection, not yet taken
  arriving,   \* connections of each person still on their way to the pool
  strangers,  \* handshakes with people in nobody's book
  idle,       \* Pool::idle, 0 for no connection
  lent,       \* Pool::lent
  waiting,    \* Pool::waiting
  phone,      \* the call of each person's Phone
  ringing,    \* who is calling, and what they said
  asides,     \* Aside::Opened, not yet heard by the idle loop
  budget,
  \* history, for the properties
  said,       \* lines each person said to each other one
  shown,      \* lines each person was shown
  crossed     \* pairs who hold two connections, of whom one called while the
              \* other was ringing, or to whom a refusal was late

netVars == <<pair, holds, dead, wire, arriving, strangers>>
poolVars == <<idle, lent, waiting>>
historyVars == <<said, shown, crossed>>
vars == <<netVars, poolVars, phone, ringing, asides, budget, historyVars>>

Text(n) == [t |-> "text", n |-> n]
HangUp == [t |-> "hangup", n |-> 0]
CallDecline == [t |-> "decline", n |-> 0]

NoCall == [state |-> "none", peer |-> Nobody, conn |-> 0, first |-> <<>>,
           held |-> <<>>, spoke |-> FALSE, alive |-> FALSE]
NoRing == [peer |-> Nobody, said |-> <<>>]
NotLent == [to |-> Nobody, conn |-> 0]

Strikes(kind) == budget[kind] > 0 /\ budget' = [budget EXCEPT ![kind] = @ - 1]

Conns == DOMAIN pair
Far(p, c) == CHOOSE q \in pair[c] : q # p
Between(p, q) == {c \in Conns : pair[c] = {p, q}}
Silent == [p \in People |-> <<>>]

\* Who is connected when it starts, each by one connection.
Init ==
  /\ \E some \in Starts :
       /\ pair = SetToSeq(some)
       /\ holds = UNION {{<<p, c>> : p \in pair[c]} : c \in DOMAIN pair}
       /\ wire = [c \in DOMAIN pair |-> Silent]
       /\ idle = [p \in People |-> [q \in People |->
            IF {p, q} \in some THEN CHOOSE c \in DOMAIN pair : pair[c] = {p, q} ELSE 0]]
  /\ dead = {} /\ crossed = {}
  /\ arriving = [p \in People |-> {}]
  /\ strangers = [p \in People |-> 0]
  /\ lent = [p \in People |-> NotLent]
  /\ waiting = [p \in People |-> Silent]
  /\ phone = [p \in People |-> NoCall]
  /\ ringing = [p \in People |-> NoRing]
  /\ asides = Silent /\ shown = Silent
  /\ said = [p \in People |-> [q \in People |-> 0]]
  /\ budget = Budget

-----------------------------------------------------------------------------
(***************************************************************************)
(* Connections.  Each operator below gives the value of one variable after *)
(* something is done to it, so that an action can do several.              *)
(***************************************************************************)

Up(p, c) == c \notin dead /\ <<Far(p, c), c>> \in holds

\* p writes: on a connection the other side let go, or that died, to nobody.
Written(w, p, c, frames) ==
  IF Up(p, c) THEN [w EXCEPT ![c][p] = @ \o frames] ELSE w

\* p stops reading: what p wrote still arrives.
Unheard(w, p, c) == [w EXCEPT ![c][Far(p, c)] = <<>>]

Taken(p, c) == [wire EXCEPT ![c][Far(p, c)] = Tail(@)]
Comes(p, c, kind) ==
  wire[c][Far(p, c)] # <<>> /\ Head(wire[c][Far(p, c)]).t = kind

\* Nothing more will come to p on c.
Ends(p, c) == wire[c][Far(p, c)] = <<>> /\ ~ Up(p, c)

\* Pool::send: on the call's connection when the call is with q, else on the
\* pool's; without one, or with one that turns out to be gone, the frame waits.
Route(p, q) ==
  IF lent[p].to = q /\ <<p, lent[p].conn>> \in holds THEN lent[p].conn ELSE idle[p][q]

Sends(p, q, frame, w) ==
  LET c == Route(p, q)
  IN  \/ /\ c # 0
         /\ wire' = Written(w, p, c, <<frame>>) /\ UNCHANGED <<waiting, crossed>>
      \/ /\ c \notin {d \in Conns : Up(p, d)}
         /\ wire' = w
         /\ waiting' = [waiting EXCEPT ![p][q] =
                          IF Len(@) < WAITING THEN Append(@, frame) ELSE @]
         /\ crossed' = crossed \cup {{p, q}}

\* Pool::keep: what waited goes out on it, and an earlier connection to the
\* same person is closed, without a word to anybody.
Keep(p, c, w) ==
  LET q == Far(p, c)
      stale == idle[p][q]
      drained == Written(w, p, c, waiting[p][q])
  IN  /\ wire' = IF stale = 0 THEN drained ELSE Unheard(drained, p, stale)
      /\ holds' = holds \ {<<p, stale>>}
      /\ idle' = [idle EXCEPT ![p][q] = c]
      /\ waiting' = [waiting EXCEPT ![p][q] = <<>>]

\* A dial of p's comes to q: a connection more, unless q is busy with others.
Lands(p, q, w) ==
  LET c == Len(pair) + 1
  IN  /\ strangers[q] + Cardinality(arriving[q]) < MAX_OPENING
      /\ pair' = Append(pair, {p, q})
      /\ holds' = holds \cup {<<p, c>>, <<q, c>>}
      /\ wire' = Append(wire, [Silent EXCEPT ![p] = w])
      /\ crossed' = IF \E old \in Between(p, q), r \in {p, q} : <<r, old>> \in holds
                      THEN crossed \cup {{p, q}} ELSE crossed

\* Pool::reach, and its dial landing on both sides.
Reach(p, q) ==
  /\ {p, q} \in Contacts /\ idle[p][q] = 0 /\ lent[p].to # q /\ Strikes("call")
  /\ ~ \E c \in arriving[p] : q \in pair[c]
  /\ Lands(p, q, <<>>)
  /\ arriving' = [arriving EXCEPT ![p] = @ \cup {Len(pair) + 1},
                                  ![q] = @ \cup {Len(pair) + 1}]
  /\ UNCHANGED <<dead, strangers, poolVars, phone, ringing, asides, said, shown>>

\* Event::Opened, or a landed dial of our own: into the pool.
Arrives(p, c) ==
  /\ c \in arriving[p]
  /\ arriving' = [arriving EXCEPT ![p] = @ \ {c}]
  /\ Keep(p, c, wire)
  /\ UNCHANGED <<pair, dead, strangers, lent, phone, ringing, asides, budget,
                 historyVars>>

\* Event::Called for somebody in nobody's book, who is refused in the end.
Stranger(p) ==
  /\ strangers[p] + Cardinality(arriving[p]) < MAX_OPENING /\ Strikes("trouble")
  /\ strangers' = [strangers EXCEPT ![p] = @ + 1]
  /\ UNCHANGED <<pair, holds, dead, wire, arriving, poolVars, phone, ringing, asides,
                 historyVars>>

Refused(p) ==
  /\ strangers[p] > 0
  /\ strangers' = [strangers EXCEPT ![p] = @ - 1]
  /\ UNCHANGED <<pair, holds, dead, wire, arriving, poolVars, phone, ringing, asides,
                 budget, historyVars>>

-----------------------------------------------------------------------------
(***************************************************************************)
(* The idle loop.                                                          *)
(***************************************************************************)

NoLongerRinging(p, q) ==
  ringing' = [ringing EXCEPT ![p] = IF @.peer = q THEN NoRing ELSE @]

\* Heard::Lost.
Lost(p, q) ==
  /\ idle[p][q] # 0 /\ Ends(p, idle[p][q])
  /\ idle' = [idle EXCEPT ![p][q] = 0]
  /\ holds' = holds \ {<<p, idle[p][q]>>}
  /\ NoLongerRinging(p, q)
  /\ UNCHANGED <<pair, dead, wire, arriving, strangers, lent, waiting, phone, asides,
                 budget, historyVars>>

\* Mutant: whoever speaks during a call is left to wonder.
BusyUntold(p, q, w) == wire' = w /\ UNCHANGED <<waiting, crossed>>

Busy(p, q, w) == Sends(p, q, CallDecline, w)

\* Somebody speaks over a connection nobody was talking over: they are told
\* we are taken, or their phone call rings, or goes on ringing.
SpokenTo(p, q) ==
  LET c == idle[p][q]
      line == Head(wire[c][q])
      ring == ringing[p]
      rung(r) == ringing' = [ringing EXCEPT ![p] = r]
      heard == wire' = Taken(p, c) /\ UNCHANGED <<waiting, crossed>>
  IN  /\ c # 0 /\ Comes(p, c, "text")
      /\ CASE phone[p].state # "none" ->
                Busy(p, q, Taken(p, c)) /\ NoLongerRinging(p, q)
           [] phone[p].state = "none" /\ ring.peer \notin {q, Nobody} ->
                Busy(p, q, Taken(p, c)) /\ UNCHANGED ringing
           [] phone[p].state = "none" /\ ring.peer = q ->
                heard /\ rung([ring EXCEPT !.said =
                           IF Len(@) < RINGING_LINES THEN Append(@, line) ELSE @])
           [] OTHER -> heard /\ rung([peer |-> q, said |-> <<line>>])
      /\ UNCHANGED <<pair, holds, dead, arriving, strangers, idle, lent, phone, asides,
                     budget, said, shown>>

\* A caller who gave up, and a frame that opens no call.
Stopped(p, q) ==
  LET c == idle[p][q]
  IN  /\ c # 0 /\ Comes(p, c, "hangup")
      /\ wire' = Taken(p, c)
      /\ NoLongerRinging(p, q)
      /\ UNCHANGED <<pair, holds, dead, arriving, strangers, poolVars, phone, asides,
                     budget, historyVars>>

Ignored(p, q) ==
  LET c == idle[p][q]
  IN  /\ c # 0 /\ Comes(p, c, "decline")
      /\ wire' = Taken(p, c)
      /\ UNCHANGED <<pair, holds, dead, arriving, strangers, poolVars, phone, ringing,
                     asides, budget, historyVars>>

\* Phone::start: the pool's connection to q goes to the call, which dials
\* when there is none.
Start(p, q, first) ==
  LET c == idle[p][q]
  IN  /\ lent' = [lent EXCEPT ![p] = [to |-> q, conn |-> c]]
      /\ idle' = [idle EXCEPT ![p][q] = 0]
      /\ phone' = [phone EXCEPT ![p] =
           [NoCall EXCEPT !.state = IF c = 0 THEN "dial" ELSE "talk",
                          !.peer = q, !.conn = c, !.first = first]]
      /\ UNCHANGED waiting

\* /call
PlaceCall(p, q) ==
  /\ {p, q} \in Contacts /\ phone[p].state = "none" /\ Strikes("call")
  /\ Start(p, q, <<>>)
  /\ crossed' = IF ringing[p].peer = q THEN crossed \cup {{p, q}} ELSE crossed
  /\ UNCHANGED <<netVars, ringing, asides, said, shown>>

\* /answer
Answer(p) ==
  LET q == ringing[p].peer
  IN  /\ q # Nobody /\ phone[p].state = "none"
      /\ ringing' = [ringing EXCEPT ![p] = NoRing]
      /\ IF Route(p, q) = 0 THEN UNCHANGED <<poolVars, phone>>
                            ELSE Start(p, q, ringing[p].said)
      /\ UNCHANGED <<netVars, asides, budget, historyVars>>

\* /decline
Decline(p) ==
  LET q == ringing[p].peer
  IN  /\ q # Nobody
      /\ ringing' = [ringing EXCEPT ![p] = NoRing]
      /\ Sends(p, q, CallDecline, wire)
      /\ UNCHANGED <<pair, holds, dead, arriving, strangers, idle, lent, phone, asides,
                     budget, said, shown>>

\* Aside::Opened: the call's own dial has landed, and what waited goes on it,
\* if the call, or another to the same person, is still on.
Opened(p) ==
  LET it == Head(asides[p])
  IN  /\ asides[p] # <<>>
      /\ asides' = [asides EXCEPT ![p] = Tail(@)]
      /\ IF lent[p].to # it.peer THEN UNCHANGED <<wire, lent, waiting>>
           ELSE /\ lent' = [lent EXCEPT ![p].conn = it.conn]
                /\ wire' = Written(wire, p, it.conn, waiting[p][it.peer])
                /\ waiting' = [waiting EXCEPT ![p][it.peer] = <<>>]
      /\ UNCHANGED <<pair, holds, dead, arriving, strangers, idle, phone, ringing, budget,
                     historyVars>>

\* Mutant: who was lost with the call may still be answered.
CallEndedUnheard(p) ==
  LET ended == phone[p]
  IN  /\ ended.state = "over"
      /\ phone' = [phone EXCEPT ![p] = NoCall]
      /\ lent' = [lent EXCEPT ![p] = NotLent]
      /\ IF ended.conn # 0 /\ ended.alive THEN Keep(p, ended.conn, wire)
           ELSE /\ holds' = holds \ {<<p, ended.conn>>}
                /\ wire' = IF ended.conn = 0 THEN wire ELSE Unheard(wire, p, ended.conn)
                /\ UNCHANGED <<idle, waiting>>
      /\ UNCHANGED <<pair, dead, arriving, strangers, ringing, asides, budget, historyVars>>

\* Event::CallEnded: the connection comes back to the pool, or is closed and
\* its loss heard.
CallEnded(p) ==
  LET ended == phone[p]
  IN  /\ ended.state = "over"
      /\ phone' = [phone EXCEPT ![p] = NoCall]
      /\ lent' = [lent EXCEPT ![p] = NotLent]
      /\ IF ended.conn # 0 /\ ended.alive
           THEN Keep(p, ended.conn, wire) /\ UNCHANGED ringing
           ELSE /\ holds' = holds \ {<<p, ended.conn>>}
                /\ wire' = IF ended.conn = 0 THEN wire ELSE Unheard(wire, p, ended.conn)
                /\ IF ended.conn = 0 THEN UNCHANGED ringing
                                     ELSE NoLongerRinging(p, ended.peer)
                /\ UNCHANGED <<idle, waiting>>
      /\ UNCHANGED <<pair, dead, arriving, strangers, asides, budget, historyVars>>

-----------------------------------------------------------------------------
(***************************************************************************)
(* The task of a call.                                                     *)
(***************************************************************************)

Over(p, alive) ==
  phone' = [phone EXCEPT ![p].state = "over", ![p].alive = alive]

Says(p, q) == Strikes("say") /\ said' = [said EXCEPT ![p][q] = @ + 1]

\* dial_retrying: dial after dial, until one lands or the time is up.
Dials(p) == phone[p].state = "dial"

\* dial_out: typed while dialling, a line is held; /cancel and a dial that
\* fails, or meets a far side with no room for it, end the call.
HoldLine(p) ==
  /\ Dials(p) /\ Len(phone[p].held) < RINGING_LINES
  /\ LET q == phone[p].peer
     IN  /\ Says(p, q)
         /\ phone' = [phone EXCEPT ![p].held = Append(@, Text(said[p][q] + 1))]
  /\ UNCHANGED <<netVars, poolVars, ringing, asides, shown, crossed>>

GiveUpDialling(p) ==
  /\ Dials(p) /\ Over(p, FALSE)
  /\ UNCHANGED <<netVars, poolVars, ringing, asides, budget, historyVars>>

\* said_ahead: what was held goes first, and the first of it is what rings.
SaidAhead(p, c) ==
  [phone[p] EXCEPT !.state = "talk", !.conn = c, !.held = <<>>,
                   !.spoke = phone[p].held # <<>>]

\* The dial lands.
DialLands(p) ==
  LET q == phone[p].peer  c == Len(pair) + 1
  IN  /\ Dials(p)
      /\ Lands(p, q, phone[p].held)
      /\ arriving' = [arriving EXCEPT ![q] = @ \cup {c}]
      /\ phone' = [phone EXCEPT ![p] = SaidAhead(p, c)]
      /\ asides' = [asides EXCEPT ![p] = Append(@, [peer |-> q, conn |-> c])]
      /\ UNCHANGED <<dead, strangers, poolVars, ringing, budget, said, shown>>

Talks(p) == phone[p].state = "talk"

\* A line is typed and goes out; nothing tells whether anybody has answered.
Say(p) ==
  LET q == phone[p].peer
  IN  /\ Talks(p) /\ phone[p].first = <<>> /\ Says(p, q)
      /\ wire' = Written(wire, p, phone[p].conn, <<Text(said[p][q] + 1)>>)
      /\ phone' = [phone EXCEPT ![p].spoke = TRUE]
      /\ UNCHANGED <<pair, holds, dead, arriving, strangers, poolVars, ringing, asides,
                     shown, crossed>>

\* Mutant: the lines of the call are read before those it began with.
HearAnyhow(p) ==
  LET q == phone[p].peer  c == phone[p].conn
  IN  /\ Talks(p) /\ Comes(p, c, "text")
      /\ wire' = Taken(p, c)
      /\ shown' = [shown EXCEPT ![p] = Append(@, <<q, Head(wire[c][q]).n>>)]
      /\ UNCHANGED <<pair, holds, dead, arriving, strangers, poolVars, phone, ringing, asides,
                     budget, said, crossed>>

\* What was said before the answer, and then what comes.
HearFirst(p) ==
  /\ Talks(p) /\ phone[p].first # <<>>
  /\ phone' = [phone EXCEPT ![p].first = Tail(@)]
  /\ shown' = [shown EXCEPT ![p] = Append(@, <<phone[p].peer, Head(phone[p].first).n>>)]
  /\ UNCHANGED <<netVars, poolVars, ringing, asides, budget, said, crossed>>

Hear(p) ==
  LET q == phone[p].peer  c == phone[p].conn
  IN  /\ Talks(p) /\ phone[p].first = <<>> /\ Comes(p, c, "text")
      /\ wire' = Taken(p, c)
      /\ shown' = [shown EXCEPT ![p] = Append(@, <<q, Head(wire[c][q]).n>>)]
      /\ UNCHANGED <<pair, holds, dead, arriving, strangers, poolVars, phone, ringing, asides,
                     budget, said, crossed>>

\* /bye: the other side is told, since the connection goes on.
Bye(p) ==
  /\ Talks(p) /\ phone[p].first = <<>>
  /\ wire' = Written(wire, p, phone[p].conn, <<HangUp>>)
  /\ Over(p, TRUE)
  /\ UNCHANGED <<pair, holds, dead, arriving, strangers, poolVars, ringing, asides, budget,
                 historyVars>>

\* The other side hung up, or never picked up.
ToldItIsOver(p) ==
  LET c == phone[p].conn
  IN  /\ Talks(p) /\ phone[p].first = <<>>
      /\ Comes(p, c, "hangup") \/ Comes(p, c, "decline")
      /\ wire' = Taken(p, c)
      /\ Over(p, TRUE)
      /\ UNCHANGED <<pair, holds, dead, arriving, strangers, poolVars, ringing, asides,
                     budget, historyVars>>

\* The connection ends under the call.
HungUpOn(p) ==
  /\ Talks(p) /\ phone[p].first = <<>> /\ Ends(p, phone[p].conn)
  /\ Over(p, FALSE)
  /\ UNCHANGED <<netVars, poolVars, ringing, asides, budget, historyVars>>

-----------------------------------------------------------------------------
(***************************************************************************)
(* What befalls them.                                                      *)
(***************************************************************************)

\* A circuit dies, with any part of what was on its way.
Break(c) ==
  /\ c \notin dead /\ Strikes("trouble")
  /\ dead' = dead \cup {c}
  /\ wire' \in {[wire EXCEPT ![c] = w] :
                 w \in {f \in [People -> UNION {Prefixes(wire[c][p]) : p \in People}] :
                          \A p \in People : f[p] \in Prefixes(wire[c][p])}}
  /\ UNCHANGED <<pair, holds, arriving, strangers, poolVars, phone, ringing, asides,
                 historyVars>>

\* p quits, or is killed: nothing of it survives but the lines it was shown.
Quit(p) ==
  /\ Strikes("trouble")
  /\ LET mine == {c \in Conns : <<p, c>> \in holds}
     IN  /\ holds' = holds \ ({p} \X mine)
         /\ wire' = [c \in Conns |-> IF c \in mine THEN [wire[c] EXCEPT ![Far(p, c)] = <<>>]
                                                   ELSE wire[c]]
  /\ arriving' = [arriving EXCEPT ![p] = {}]
  /\ strangers' = [strangers EXCEPT ![p] = 0]
  /\ idle' = [idle EXCEPT ![p] = [q \in People |-> 0]]
  /\ lent' = [lent EXCEPT ![p] = NotLent]
  /\ waiting' = [waiting EXCEPT ![p] = Silent]
  /\ phone' = [phone EXCEPT ![p] = NoCall]
  /\ ringing' = [ringing EXCEPT ![p] = NoRing]
  /\ asides' = [asides EXCEPT ![p] = <<>>]
  /\ UNCHANGED <<pair, dead, historyVars>>

-----------------------------------------------------------------------------

Types(p) ==
  \/ Answer(p) \/ Decline(p) \/ HoldLine(p) \/ Say(p) \/ Bye(p)
  \/ \E q \in People : PlaceCall(p, q)

Loops(p) ==
  \/ Opened(p) \/ CallEnded(p)
  \/ \E c \in Conns : Arrives(p, c)
  \/ \E q \in People : Lost(p, q) \/ SpokenTo(p, q) \/ Stopped(p, q) \/ Ignored(p, q)

Calls(p) ==
  \/ DialLands(p) \/ GiveUpDialling(p)
  \/ HearFirst(p) \/ Hear(p) \/ ToldItIsOver(p) \/ HungUpOn(p)

Next ==
  \/ \E p \in People : \/ Types(p) \/ Loops(p) \/ Calls(p)
                       \/ Stranger(p) \/ Refused(p) \/ Quit(p)
                       \/ \E q \in People : Reach(p, q)
  \/ \E c \in Conns : Break(c)

Spec == Init /\ [][Next]_vars

-----------------------------------------------------------------------------
(***************************************************************************)
(* What makes it correct.                                                  *)
(***************************************************************************)

Quiet ==
  /\ \A c \in Conns : wire[c] = Silent
  /\ \A p \in People :
       /\ arriving[p] = {} /\ asides[p] = <<>>
       /\ phone[p].state \in {"none", "talk"} /\ phone[p].first = <<>>
  /\ \A h \in holds : Up(h[1], h[2])

Reached(p, q) ==
  \/ phone[q].state = "talk" /\ phone[q].peer = p /\ phone[q].conn = phone[p].conn
  \/ ringing[q].peer = p /\ idle[q][p] = phone[p].conn

Plain(p, q) == {p, q} \notin crossed

\* Nobody goes on talking to nobody.  When nothing is on its way, somebody
\* who has said something in a call is in it with the other one, or rings at
\* their phone: whoever declines, is taken, or has left tells them so.  Two
\* whose calls crossed may not be: each may decline on the connection the
\* other does not talk over.
\* (main.rs, the frame that opens a call; chat.rs run)
NobodyTalksToNobody ==
  Quiet => \A p \in People : LET q == phone[p].peer IN
    Talks(p) /\ phone[p].spoke /\ Plain(p, q) => Reached(p, q)

\* Whoever rings can be answered: there is a connection to them, in the pool
\* or with the call.  (main.rs Heard::Lost, CallEnded)
RingingIsConnected ==
  \A p \in People : ringing[p].peer # Nobody =>
    \/ idle[p][ringing[p].peer] # 0
    \/ phone[p].peer = ringing[p].peer /\ phone[p].conn # 0

\* Lines are shown in the order they were said and none twice, those said
\* before the answer first; unless their calls crossed, when a ring may
\* keep its lines, or a second connection overtake the first.  (chat.rs run, `first`)
ShownInOrder ==
  \A p, q \in People : Plain(p, q) =>
    \A i, j \in DOMAIN shown[p] :
      i < j /\ shown[p][i][1] = q /\ shown[p][j][1] = q => shown[p][i][2] < shown[p][j][2]
=============================================================================
