-------------------------------- MODULE Room --------------------------------
(***************************************************************************)
(* Rooms (room.rs, and the idle loop of main.rs that carries out what room *)
(* frames and commands come to): somebody hosts, asks contacts in, keeps   *)
(* the roster and passes lines on; members who are contacts of each other  *)
(* prove their keys to one another and talk directly as well.              *)
(*                                                                         *)
(* A key stands for what it is made to prove, so a signature is always     *)
(* good; a tag stands for the address it is made from.                     *)
(***************************************************************************)
EXTENDS Links, Seen

CONSTANTS
  MAX_MEMBERS,   \* how many a room holds (16)
  Budget,        \* how often each kind of event may happen
  NoInvite

Kinds == {"create", "invite", "leave", "say", "expire", "fault"}

ASSUME RoomAssumption ==
  /\ MAX_MEMBERS \in Nat \ {0}
  /\ Budget \in [Kinds -> Nat]

\* None is not an invitation.
ASSUME InviteAssumption == NoInvite \notin [from : People, id : People \X Nat]

VARIABLES
  room,          \* Rooms::room of each person, NoRoom outside one
  invite,        \* Rooms::invite, NoInvite when none waits
  made,          \* Room values made so far, which makes keys and ids fresh
  budget,        \* what remains of Budget
  \* history, for the properties
  shown,         \* lines each person was shown since entering the room
  twice,         \* lines somebody was shown again without leaving it
  due            \* <<line, key>>: listed by the host when the line was said

history == <<shown, twice, due>>
vars == <<linkVars, room, invite, made, budget, history>>

\* Outside a room: nothing a Room value can be.
NoRoom == [room |-> "none"]

Restricted(f, some) == [x \in some |-> f[x]]
With(f, x, y) == [z \in DOMAIN f \cup {x} |-> IF z = x THEN y ELSE f[z]]
Empty == [x \in {} |-> x]

Afford(kind) == budget[kind] > 0
Spend(kind) == [budget EXCEPT ![kind] = @ - 1]
Strikes(kind) == Afford(kind) /\ budget' = Spend(kind)

-----------------------------------------------------------------------------
(***************************************************************************)
(* The Room value.                                                         *)
(***************************************************************************)

\* Room::new.  The host of a room is itself where the code has None.
NewRoom(id, host, key) ==
  [id |-> id, host |-> host, key |-> key, said |-> 0,
   roster |-> {}, bound |-> Empty, claimed |-> Empty, greeted |-> {},
   last |-> Empty, invited |-> {}, dropped |-> {}]

In(p, id) == room[p] # NoRoom /\ room[p].id = id
Hosts(p) == room[p] # NoRoom /\ room[p].host = p

Entry(key, who) == [key |-> key, of |-> who]
KeysOf(roster) == {e.key : e \in roster}

\* Room::targets: everybody proved to be in the room.
Targets(r) == {r.bound[k] : k \in DOMAIN r.bound}

Invite(r) == [t |-> "invite", id |-> r.id]
Joining(r) == [t |-> "join", id |-> r.id, key |-> r.key]
Declining(id) == [t |-> "decline", id |-> id]
Leaving(id) == [t |-> "leave", id |-> id]
Roster(r) == [t |-> "roster", id |-> r.id, members |-> r.roster]
Hello(r) == [t |-> "hello", id |-> r.id, key |-> r.key]
Line(id, key, seq) == [t |-> "line", id |-> id, key |-> key, seq |-> seq]

\* Room::settle_claims: who the roster lists under the key they claimed is
\* bound to it; who it lists under another is not, and must claim again.
SettleClaims(r) ==
  LET answered == {q \in DOMAIN r.claimed : \E e \in r.roster : e.of = q}
      proved == {q \in answered : Entry(r.claimed[q], q) \in r.roster}
      keys == {r.claimed[q] : q \in proved}
  IN  [r EXCEPT !.claimed = Restricted(@, DOMAIN @ \ answered),
                !.bound = [k \in DOMAIN @ \cup keys |->
                             IF k \in keys
                               THEN CHOOSE q \in proved : r.claimed[q] = k
                               ELSE @[k]]]

\* Rooms::lost at the host: gone from the room, and to be told when they speak.
Without(r, q) ==
  LET keys == {k \in DOMAIN r.bound : r.bound[k] = q}
  IN  [r EXCEPT !.bound = Restricted(@, DOMAIN @ \ keys),
                !.roster = {e \in @ : e.key \notin keys},
                !.dropped = IF keys = {} THEN @ ELSE @ \cup {q}]

-----------------------------------------------------------------------------
(***************************************************************************)
(* What is typed.                                                          *)
(***************************************************************************)

\* What follows a change of p's room to r: frames sent, `unread` left.
Becomes(p, r, out, unread) ==
  /\ room' = [room EXCEPT ![p] = r]
  /\ Send(p, out, unread)

\* /room new
Create(p) ==
  /\ room[p] = NoRoom /\ Strikes("create")
  /\ LET fresh == <<p, made[p]>>
         r == NewRoom(fresh, p, fresh)
     IN  room' = [room EXCEPT ![p] = [r EXCEPT !.roster = {Entry(fresh, p)}]]
  /\ made' = [made EXCEPT ![p] = @ + 1]
  /\ shown' = [shown EXCEPT ![p] = {}]
  /\ UNCHANGED <<linkVars, invite, twice, due>>

\* Mutant: places promised and not yet taken are not counted.
InviteToAll(p, q) ==
  /\ Hosts(p) /\ q \in ContactsOf(p) /\ Strikes("invite")
  /\ LET r == room[p]
     IN  /\ Cardinality(r.roster) < MAX_MEMBERS
         /\ q \notin Targets(r)
         /\ Becomes(p, [r EXCEPT !.invited = @ \cup {q}], ToEach({q}, Invite(r)), wire)
  /\ UNCHANGED <<open, live, invite, made, history>>

\* /room invite: an invitation that stands holds a place.
InviteTo(p, q) ==
  /\ Hosts(p) /\ q \in ContactsOf(p) /\ Strikes("invite")
  /\ LET r == room[p]
     IN  /\ Cardinality(r.roster) + Cardinality(r.invited) < MAX_MEMBERS
         /\ q \notin Targets(r)
         /\ Becomes(p, [r EXCEPT !.invited = @ \cup {q}], ToEach({q}, Invite(r)), wire)
  /\ UNCHANGED <<open, live, invite, made, history>>

\* /room join
Join(p) ==
  /\ room[p] = NoRoom /\ invite[p] # NoInvite
  /\ LET r == NewRoom(invite[p].id, invite[p].from, <<p, made[p]>>)
     IN  Becomes(p, r, ToEach({r.host}, Joining(r)), wire)
  /\ invite' = [invite EXCEPT ![p] = NoInvite]
  /\ made' = [made EXCEPT ![p] = @ + 1]
  /\ shown' = [shown EXCEPT ![p] = {}]
  /\ UNCHANGED <<open, live, budget, twice, due>>

\* /room decline
Decline(p) ==
  /\ invite[p] # NoInvite
  /\ Send(p, ToEach({invite[p].from}, Declining(invite[p].id)), wire)
  /\ invite' = [invite EXCEPT ![p] = NoInvite]
  /\ UNCHANGED <<open, live, room, made, budget, history>>

\* /room leave, and what /quit does first: the host tells everybody, a member the host.
Leave(p) ==
  /\ room[p] # NoRoom /\ Strikes("leave")
  /\ LET r == room[p]
         told == IF Hosts(p) THEN Targets(r) ELSE {r.host}
     IN  Becomes(p, NoRoom, ToEach(told, Leaving(r.id)), wire)
  /\ UNCHANGED <<open, live, invite, made, history>>

\* Once in, a line is owed to all the others the host lists now.
Owed(r, line) ==
  IF /\ r.key \in KeysOf(r.roster) /\ In(r.host, r.id)
     /\ r.key \in KeysOf(room[r.host].roster)
    THEN {<<line, k>> : k \in KeysOf(room[r.host].roster) \ {r.key}}
    ELSE {}

\* Rooms::post: a line, or a file announced, to everybody proved to be in.
Say(p) ==
  /\ room[p] # NoRoom /\ Strikes("say")
  /\ LET r == [room[p] EXCEPT !.said = @ + 1]
     IN  /\ Becomes(p, r, ToEach(Targets(r), Line(r.id, r.key, r.said)), wire)
         /\ due' = due \cup Owed(r, <<r.key, r.said>>)
  /\ UNCHANGED <<open, live, invite, made, shown, twice>>

-----------------------------------------------------------------------------
(***************************************************************************)
(* What arrives: Rooms::receive.                                           *)
(***************************************************************************)

\* The frame from q at the head of p's inbox.
Frame(p, q, kind) ==
  /\ q \in ContactsOf(p) /\ <<p, q>> \in open
  /\ wire[<<q, p>>] # <<>> /\ Head(wire[<<q, p>>]).t = kind

Heard(q, p) == Head(wire[<<q, p>>])

\* A frame that changes nothing here.
Ignored(p, q) == Becomes(p, room[p], Nothing, Unread(q, p))

\* Mutant: the invitation that is replaced is dropped without a word.
RefusalOfNewest(p, q, f) ==
  IF room[p] # NoRoom THEN ToEach({q}, Declining(f.id)) ELSE Nothing

\* Turned away in a room; otherwise the invitation it replaces is turned down.
Refusal(p, q, f) ==
  LET old == invite[p]
  IN  IF room[p] # NoRoom THEN ToEach({q}, Declining(f.id))
      ELSE IF old # NoInvite /\ old.id # f.id
        THEN ToEach({old.from}, Declining(old.id))
        ELSE Nothing

\* Rooms::invited: one invitation waits at a time, outside a room.
HearInvite(p, q) ==
  /\ Frame(p, q, "invite")
  /\ LET f == Heard(q, p)
     IN  /\ Becomes(p, room[p], Refusal(p, q, f), Unread(q, p))
         /\ invite' = IF room[p] # NoRoom THEN invite
                      ELSE [invite EXCEPT ![p] = [from |-> q, id |-> f.id]]
  /\ UNCHANGED <<open, live, made, budget, history>>

\* Rooms::joined: into the roster once per invitation, and everybody is told;
\* without one, sent away.
HearJoin(p, q) ==
  /\ Frame(p, q, "join")
  /\ LET f == Heard(q, p)
         r == room[p]
         asked == [r EXCEPT !.invited = @ \ {q}]
         in == [asked EXCEPT !.roster = @ \cup {Entry(f.key, q)},
                             !.bound = With(@, f.key, q)]
     IN  IF ~ In(p, f.id) \/ ~ Hosts(p) THEN Ignored(p, q)
         ELSE IF q \in Targets(r) THEN Ignored(p, q)
         ELSE IF \/ q \notin r.invited \/ f.key \in KeysOf(r.roster)
                 \/ Cardinality(r.roster) >= MAX_MEMBERS
           THEN Becomes(p, asked, ToEach({q}, Leaving(f.id)), Unread(q, p))
           ELSE Becomes(p, in, ToEach(Targets(in), Roster(in)), Unread(q, p))
  /\ UNCHANGED <<open, live, invite, made, budget, history>>

\* RoomDecline: a place is free again.
HearDecline(p, q) ==
  /\ Frame(p, q, "decline")
  /\ IF In(p, Heard(q, p).id) /\ Hosts(p)
       THEN Becomes(p, [room[p] EXCEPT !.invited = @ \ {q}], Nothing, Unread(q, p))
       ELSE Ignored(p, q)
  /\ UNCHANGED <<open, live, invite, made, budget, history>>

\* Mutant: a member who goes is not taken off the list the others are sent.
LosesKept(p, q, unread) ==
  LET r == room[p]
  IN  IF r = NoRoom THEN Becomes(p, r, Nothing, unread)
      ELSE IF r.host = q THEN Becomes(p, NoRoom, Nothing, unread)
      ELSE IF r.host = p /\ q \in Targets(r)
        THEN Becomes(p, [Without(r, q) EXCEPT !.roster = r.roster],
                     ToEach(Targets(Without(r, q)), Roster(r)), unread)
        ELSE Becomes(p, r, Nothing, unread)

\* Rooms::lost: without its host a room is over; the host tells the others who
\* is gone; a member keeps the names it proved.
Loses(p, q, unread) ==
  LET r == room[p]
      rest == Without(r, q)
  IN  IF r = NoRoom THEN Becomes(p, r, Nothing, unread)
      ELSE IF r.host = q THEN Becomes(p, NoRoom, Nothing, unread)
      ELSE IF r.host = p /\ q \in Targets(r)
        THEN Becomes(p, rest, ToEach(Targets(rest), Roster(rest)), unread)
        ELSE Becomes(p, r, Nothing, unread)

\* Rooms::left: to a host, leaving and losing the connection are the same.
HearLeave(p, q) ==
  /\ Frame(p, q, "leave")
  /\ IF In(p, Heard(q, p).id) THEN Loses(p, q, Unread(q, p)) ELSE Ignored(p, q)
  /\ UNCHANGED <<open, live, invite, made, budget, history>>

\* What the host's roster makes of a member's room: who went is forgotten, the
\* host is known by it, contacts in it are told our key once.
Listed(p, r, members) ==
  LET gone == KeysOf(r.roster) \ KeysOf(members)
      kept == [r EXCEPT !.roster = members,
                        !.bound = Restricted(@, DOMAIN @ \ gone),
                        !.last = Restricted(@, DOMAIN @ \ gone)]
      hosts == {e \in members : e.of = r.host}
      named == IF hosts = {} THEN kept
               ELSE [kept EXCEPT !.bound =
                       With(@, (CHOOSE e \in hosts : TRUE).key, r.host)]
  IN  SettleClaims([named EXCEPT !.greeted =
                      @ \cup {q \in ContactsOf(p) \ {r.host} :
                                \E e \in members : e.of = q}])

\* Rooms::roster: from the host only; not listed any more is out.
HearRoster(p, q) ==
  /\ Frame(p, q, "roster")
  /\ LET f == Heard(q, p)
         r == room[p]
         now == Listed(p, r, f.members)
     IN  IF ~ In(p, f.id) THEN Ignored(p, q)
         ELSE IF r.host # q THEN Ignored(p, q)
         ELSE IF r.key \in KeysOf(r.roster) /\ r.key \notin KeysOf(f.members)
           THEN Becomes(p, NoRoom, Nothing, Unread(q, p))
           ELSE Becomes(p, now, ToEach(now.greeted \ r.greeted, Hello(r)), Unread(q, p))
  /\ UNCHANGED <<open, live, invite, made, budget, history>>

\* A contact's word on their own key, kept until the roster agrees.
HearHello(p, q) ==
  /\ Frame(p, q, "hello")
  /\ LET f == Heard(q, p)
     IN  IF In(p, f.id)
           THEN Becomes(p, SettleClaims([room[p] EXCEPT !.claimed = With(@, q, f.key)]),
                        Nothing, Unread(q, p))
           ELSE Ignored(p, q)
  /\ UNCHANGED <<open, live, invite, made, budget, history>>

SeenFrom(r, key) == IF key \in DOMAIN r.last THEN r.last[key] ELSE StartingAt(1)

\* Mutant: what was heard is not marked.
HeardUnmarked(r, f) == r

\* A line taken: its number marked under its key.
HeardOnce(r, f) ==
  [r EXCEPT !.last = With(@, f.key, Accept(SeenFrom(r, f.key), f.seq))]

\* Mutant: a line is shown and goes no further.
PassOnNothing(r, q, f) == Nothing

\* Passed on to everyone but whom it came from and who wrote it.
PassOn(r, q, f) ==
  LET author == IF f.key \in DOMAIN r.bound THEN {r.bound[f.key]} ELSE {}
  IN  ToEach(Targets(r) \ (author \cup {q}), f)

\* Rooms::heard, of somebody proved to be in the room, on somebody listed, not
\* heard before: shown, and passed on.
HearLine(p, q) ==
  /\ Frame(p, q, "line")
  /\ LET f == Heard(q, p) IN
       /\ In(p, f.id) /\ f.key # room[p].key
       /\ q \in Targets(room[p]) /\ f.key \in KeysOf(room[p].roster)
       /\ f.key \in DOMAIN room[p].last => ~ Has(room[p].last[f.key], f.seq)
       /\ Becomes(p, HeardOnce(room[p], f), PassOn(room[p], q, f), Unread(q, p))
       /\ shown' = [shown EXCEPT ![p] = @ \cup {<<f.key, f.seq>>}]
       /\ twice' = IF <<f.key, f.seq>> \in shown[p]
                     THEN twice \cup {<<f.key, f.seq>>} ELSE twice
  /\ UNCHANGED <<open, live, invite, made, budget, due>>

\* Somebody the host dropped, still talking: told once, by a roster.
HearDropped(p, q) ==
  /\ Frame(p, q, "line")
  /\ LET f == Heard(q, p) IN
       /\ In(p, f.id) /\ f.key # room[p].key
       /\ q \notin Targets(room[p]) /\ Hosts(p) /\ q \in room[p].dropped
       /\ Becomes(p, [room[p] EXCEPT !.dropped = @ \ {q}],
                  ToEach({q}, Roster(room[p])), Unread(q, p))
  /\ UNCHANGED <<open, live, invite, made, budget, history>>

\* Any other line is dropped without a word.
IgnoreLine(p, q) ==
  /\ Frame(p, q, "line")
  /\ LET f == Heard(q, p) IN
       \/ ~ In(p, f.id)
       \/ /\ In(p, f.id)
          /\ \/ f.key = room[p].key
             \/ q \notin Targets(room[p]) /\ ~ (Hosts(p) /\ q \in room[p].dropped)
             \/ q \in Targets(room[p]) /\ f.key \notin KeysOf(room[p].roster)
             \/ /\ q \in Targets(room[p]) /\ f.key \in DOMAIN room[p].last
                /\ Has(room[p].last[f.key], f.seq)
  /\ Ignored(p, q)
  /\ UNCHANGED <<open, live, invite, made, budget, history>>

-----------------------------------------------------------------------------
(***************************************************************************)
(* Time, connections, crashes.                                             *)
(***************************************************************************)

\* INVITE_TTL is over at the host: the place is free again.
Expire(p, q) ==
  /\ Hosts(p) /\ q \in room[p].invited /\ Strikes("expire")
  /\ room' = [room EXCEPT ![p].invited = @ \ {q}]
  /\ UNCHANGED <<linkVars, invite, made, history>>

\* ... and at whoever was invited, whose clock started with the frame: after
\* the host's.
Forget(p) ==
  /\ invite[p] # NoInvite
  /\ LET h == invite[p].from IN
       /\ In(h, invite[p].id) => p \notin room[h].invited
       /\ Strikes("expire")
  /\ invite' = [invite EXCEPT ![p] = NoInvite]
  /\ UNCHANGED <<linkVars, room, made, history>>

Connects(p, q) ==
  /\ Connect(p, q)
  /\ UNCHANGED <<room, invite, made, budget, history>>

Breaks(p, q) ==
  /\ Break(p, q) /\ Strikes("fault")
  /\ UNCHANGED <<room, invite, made, history>>

\* Heard::Lost
Notice(p, q) ==
  /\ Ends(p, q)
  /\ open' = open \ {<<p, q>>}
  /\ Loses(p, q, wire)
  /\ UNCHANGED <<live, invite, made, budget, history>>

\* /presence off, /forget, or their answer to one: the connection is let go,
\* whatever else was said over it, and no Lost is heard.
LetsGo(p, q) ==
  /\ <<p, q>> \in open /\ Strikes("fault")
  /\ LetGo(p, q)
  /\ UNCHANGED <<room, invite, made, history>>

Crash(p) ==
  /\ Strikes("fault")
  /\ Killed(p)
  /\ room' = [room EXCEPT ![p] = NoRoom]
  /\ invite' = [invite EXCEPT ![p] = NoInvite]
  /\ UNCHANGED <<made, history>>

-----------------------------------------------------------------------------
Init ==
  /\ LinksInit
  /\ room = [p \in People |-> NoRoom]
  /\ invite = [p \in People |-> NoInvite]
  /\ made = [p \in People |-> 0]
  /\ budget = Budget
  /\ shown = [p \in People |-> {}] /\ twice = {} /\ due = {}

\* /room and its words, and a line typed in a room.
Types(p) ==
  \/ Create(p) \/ Join(p) \/ Decline(p) \/ Leave(p) \/ Say(p)
  \/ \E q \in People : InviteTo(p, q)

Next ==
  \/ \E p \in People : Types(p) \/ Forget(p) \/ Crash(p)
  \/ \E p, q \in People :
       \/ Expire(p, q)
       \/ HearInvite(p, q) \/ HearJoin(p, q) \/ HearDecline(p, q) \/ HearLeave(p, q)
       \/ HearRoster(p, q) \/ HearHello(p, q)
       \/ HearLine(p, q) \/ HearDropped(p, q) \/ IgnoreLine(p, q)
       \/ Connects(p, q) \/ Breaks(p, q) \/ Notice(p, q) \/ LetsGo(p, q)

Spec == Init /\ [][Next]_vars

-----------------------------------------------------------------------------
\* No fault has come between.
Unbroken == budget["fault"] = Budget["fault"]

\* A line is shown once to whoever stays in the room, whichever ways it came:
\* from its author, through the host, through other members, before or after
\* the roster changed.  (Who leaves and comes back starts with nothing heard:
\* what the host still passes on then is shown to them again.)
ShownOnce == twice = {}

\* Once everything has arrived, a line that left its author has been shown to
\* everybody the host listed then and who is still in the room, as long as
\* nobody says more lines than the window remembers: one that comes through
\* the host can be overtaken by those that come from its author.
HeardAtRest ==
  Quiet /\ Unbroken /\ Budget["say"] <= WINDOW => \A d \in due, p \in People :
             room[p] # NoRoom /\ room[p].key = d[2] => d[1] \in shown[p]

\* "So you see which of your contacts are in the room, by name": once
\* everything has arrived, members who are contacts and list each other know
\* each other's key.
RecognisedAtRest ==
  Quiet => \A p, q \in People :
             /\ q \in ContactsOf(p) /\ room[p] # NoRoom /\ room[q] # NoRoom
             /\ room[q].key \in KeysOf(room[p].roster)
             /\ room[p].key \in KeysOf(room[q].roster)
             => room[q].key \in DOMAIN room[p].bound

\* Whoever finds their own key on the host's list has the list the host has,
\* once everything has arrived: joins, leavings and comings back in any order.
OneList ==
  Quiet /\ Unbroken =>
    \A p \in People :
      room[p] # NoRoom /\ room[p].key \in KeysOf(room[p].roster) =>
        LET h == room[p].host
        IN  In(h, room[p].id) /\ room[h].roster = room[p].roster

\* Somebody listed who has been in no other room is in this one, under that
\* key, and knows it, once everything has arrived.
NewcomersAreIn ==
  Quiet /\ Unbroken =>
    \A p \in People : Hosts(p) =>
      \A e \in room[p].roster : made[e.of] = 1 =>
        /\ In(e.of, room[p].id) /\ room[e.of].key = e.key
        /\ e.key \in KeysOf(room[e.of].roster)

\* The host's list is who is in the room, and all of them know it.
ListedAreIn == OneList /\ NewcomersAreIn

\* "A room holds at most" MAX_MEMBERS, promised places included: nobody who
\* was asked in and answers in time is turned away for want of a place.
PlacesHeld ==
  \A p \in People : Hosts(p) =>
    Cardinality(room[p].roster) + Cardinality(room[p].invited) <= MAX_MEMBERS

\* What p can have had to say to somebody who is not connected yet, an
\* invitation or one greeting for each room p is in, fits in the pool.
PoolSuffices(p) == Budget["invite"] + made[p] <= WAITING

\* A place is held only for somebody who can still answer: unless a fault
\* came between, or the pool had no room for the invitation, one that is
\* refused, replaced or met by somebody in a room comes back to its host.
InvitesAnswered ==
  Quiet /\ Unbroken =>
    \A p \in People : Hosts(p) /\ PoolSuffices(p) =>
      \A q \in room[p].invited :
        invite[q] # NoInvite /\ invite[q].id = room[p].id
=============================================================================
