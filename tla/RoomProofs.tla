----------------------------- MODULE RoomProofs -----------------------------
(***************************************************************************)
(* For any number of people, rooms, lines, faults and expired invitations, *)
(* and whatever order frames arrive in: the places a host has promised and *)
(* those taken never exceed what a room holds, a line is shown once to     *)
(* whoever stays in the room, a place is held only for somebody who can    *)
(* still answer, and members have the list of their host.                  *)
(***************************************************************************)
EXTENDS Room, SeenLemmas, FiniteSetTheorems, SequenceTheorems, TLAPS

\* A Room value has its fields, whatever they hold.
Fields == {"id", "host", "key", "said", "roster", "bound", "claimed",
           "greeted", "last", "invited", "dropped"}

Shaped(r) == DOMAIN r = Fields /\ r = [f \in Fields |-> r[f]]

\* Places taken and promised fit the room.
Fits(roster, invited) ==
  /\ IsFiniteSet(roster) /\ IsFiniteSet(invited)
  /\ Cardinality(roster) + Cardinality(invited) <= MAX_MEMBERS

\* What p may be in: a room that is somebody else's, or one of its own that fits.
Fitting(p, r) ==
  \/ r = NoRoom
  \/ Shaped(r) /\ (r.host = p => Fits(r.roster, r.invited))

\* The inductive invariant of the theorem on places.
RoomsFit ==
  /\ room = [p \in People |-> room[p]]
  /\ \A p \in People : Fitting(p, room[p])

-----------------------------------------------------------------------------
(***************************************************************************)
(* Counting.                                                               *)
(***************************************************************************)

\* Losing members or promises leaves a room that fits.
LEMMA FewerFit ==
  ASSUME NEW roster, NEW invited, Fits(roster, invited),
         NEW stay \in SUBSET roster, NEW still \in SUBSET invited
  PROVE  Fits(stay, still)
<1>1. /\ IsFiniteSet(stay) /\ Cardinality(stay) <= Cardinality(roster)
      /\ IsFiniteSet(still) /\ Cardinality(still) <= Cardinality(invited)
  BY FS_Subset DEF Fits
<1>2. /\ Cardinality(roster) \in Nat /\ Cardinality(invited) \in Nat
      /\ Cardinality(stay) \in Nat /\ Cardinality(still) \in Nat
  BY <1>1, FS_CardinalityType DEF Fits
<1> QED  BY <1>1, <1>2, RoomAssumption DEF Fits

\* Whoever was asked may take the place promised.
LEMMA TakenFit ==
  ASSUME NEW roster, NEW invited, Fits(roster, invited), NEW q \in invited, NEW e
  PROVE  Fits(roster \cup {e}, invited \ {q})
<1>1. /\ IsFiniteSet(roster \cup {e})
      /\ Cardinality(roster \cup {e}) <= Cardinality(roster) + 1
  <2>1. IsFiniteSet(roster) /\ Cardinality(roster) \in Nat
    BY FS_CardinalityType DEF Fits
  <2>2. /\ IsFiniteSet(roster \cup {e})
        /\ \/ Cardinality(roster \cup {e}) = Cardinality(roster)
           \/ Cardinality(roster \cup {e}) = Cardinality(roster) + 1
    BY <2>1, FS_AddElement, Zenon
  <2> QED  BY <2>1, <2>2
<1>2. /\ IsFiniteSet(invited \ {q})
      /\ Cardinality(invited \ {q}) = Cardinality(invited) - 1
  BY FS_RemoveElement DEF Fits
<1>3. /\ Cardinality(roster) \in Nat /\ Cardinality(invited) \in Nat
      /\ Cardinality(roster \cup {e}) \in Nat
  BY <1>1, FS_CardinalityType DEF Fits
<1> QED  BY <1>1, <1>2, <1>3, RoomAssumption DEF Fits

\* A place that is free may be promised.
LEMMA PromisedFit ==
  ASSUME NEW roster, NEW invited, Fits(roster, invited), NEW q,
         Cardinality(roster) + Cardinality(invited) < MAX_MEMBERS
  PROVE  Fits(roster, invited \cup {q})
<1>1. /\ Cardinality(roster) \in Nat /\ Cardinality(invited) \in Nat
  BY FS_CardinalityType DEF Fits
<1>2. /\ IsFiniteSet(invited \cup {q})
      /\ Cardinality(invited \cup {q}) <= Cardinality(invited) + 1
  <2>1. /\ IsFiniteSet(invited \cup {q})
        /\ \/ Cardinality(invited \cup {q}) = Cardinality(invited)
           \/ Cardinality(invited \cup {q}) = Cardinality(invited) + 1
    BY FS_AddElement, Zenon DEF Fits
  <2> QED  BY <1>1, <2>1
<1>3. Cardinality(invited \cup {q}) \in Nat
  BY <1>2, FS_CardinalityType
<1> QED  BY <1>1, <1>2, <1>3, RoomAssumption DEF Fits

\* A room just made fits: its host, or nobody yet.
LEMMA NewFit ==
  ASSUME NEW e
  PROVE  Fits({e}, {}) /\ Fits({}, {})
<1>1. /\ IsFiniteSet({}) /\ Cardinality({}) = 0
      /\ IsFiniteSet({e}) /\ Cardinality({e}) = 1
  BY FS_EmptySet, FS_Singleton
<1> QED  BY <1>1, RoomAssumption DEF Fits

-----------------------------------------------------------------------------
(***************************************************************************)
(* What the helpers do to a Room value.                                    *)
(***************************************************************************)

\* Claims settled: nobody joins or leaves by it.
LEMMA SettleShape ==
  ASSUME NEW r, Shaped(r)
  PROVE  LET s == SettleClaims(r)
         IN  /\ Shaped(s) /\ s.host = r.host
             /\ s.roster = r.roster /\ s.invited = r.invited
<1>1. \E claimed, bound :
        SettleClaims(r) = [r EXCEPT !.claimed = claimed, !.bound = bound]
  BY Zenon DEF SettleClaims
<1> QED  BY <1>1 DEF Shaped, Fields

\* A member gone: no place is taken by it.
LEMMA WithoutShape ==
  ASSUME NEW r, NEW q, Shaped(r)
  PROVE  LET s == Without(r, q)
         IN  /\ Shaped(s) /\ s.host = r.host
             /\ s.roster \subseteq r.roster /\ s.invited = r.invited
<1>1. \E bound, dropped : \E roster \in SUBSET r.roster :
        Without(r, q) = [r EXCEPT !.bound = bound, !.roster = roster, !.dropped = dropped]
  <2> DEFINE keys == {k \in DOMAIN r.bound : r.bound[k] = q}
             rest == {e \in r.roster : e.key \notin keys}
             drop == IF keys = {} THEN r.dropped ELSE r.dropped \cup {q}
  <2>1. Without(r, q) = [r EXCEPT !.bound = Restricted(r.bound, DOMAIN r.bound \ keys),
                                  !.roster = rest, !.dropped = drop]
    BY DEF Without
  <2>2. rest \in SUBSET r.roster
    OBVIOUS
  <2> HIDE DEF keys, rest, drop
  <2> QED  BY <2>1, <2>2, Zenon
<1> QED  BY <1>1 DEF Shaped, Fields

\* A line heard: the places are as before.
LEMMA HeardShape ==
  ASSUME NEW r, NEW f, Shaped(r)
  PROVE  LET s == HeardOnce(r, f)
         IN  /\ Shaped(s) /\ s.host = r.host
             /\ s.roster = r.roster /\ s.invited = r.invited
  BY DEF HeardOnce, Shaped, Fields

\* A roster heard: the host stays the same.
LEMMA ListedShape ==
  ASSUME NEW p, NEW r, NEW members, Shaped(r)
  PROVE  Shaped(Listed(p, r, members)) /\ Listed(p, r, members).host = r.host
<1> DEFINE gone == KeysOf(r.roster) \ KeysOf(members)
           kept == [r EXCEPT !.roster = members,
                             !.bound = Restricted(@, DOMAIN @ \ gone),
                             !.last = Restricted(@, DOMAIN @ \ gone)]
           hosts == {e \in members : e.of = r.host}
           named == IF hosts = {} THEN kept
                    ELSE [kept EXCEPT !.bound =
                            With(@, (CHOOSE e \in hosts : TRUE).key, r.host)]
           told == [named EXCEPT !.greeted =
                      @ \cup {q \in ContactsOf(p) \ {r.host} :
                                \E e \in members : e.of = q}]
<1>1. Shaped(kept) /\ kept.host = r.host
  BY DEF Shaped, Fields
<1>2. Shaped(named) /\ named.host = r.host
  <2> HIDE DEF kept, hosts
  <2> QED  BY <1>1 DEF Shaped, Fields
<1>3. Shaped(told) /\ told.host = r.host
  <2> HIDE DEF named
  <2> QED  BY <1>2 DEF Shaped, Fields
<1>4. Listed(p, r, members) = SettleClaims(told)
  BY DEF Listed
<1> HIDE DEF told
<1> QED  BY <1>3, <1>4, SettleShape
-----------------------------------------------------------------------------
(***************************************************************************)
(* One step.                                                               *)
(***************************************************************************)

\* One person's room becomes one that fits.
LEMMA OneFits ==
  ASSUME RoomsFit, NEW p \in People, NEW r, Fitting(p, r),
         room' = [room EXCEPT ![p] = r]
  PROVE  RoomsFit'
<1>1. room' = [x \in People |-> IF x = p THEN r ELSE room[x]]
  BY Zenon DEF RoomsFit
<1>2. room' = [x \in People |-> room'[x]]
  BY <1>1
<1>3. \A x \in People : room'[x] = IF x = p THEN r ELSE room[x]
  BY <1>1
<1>4. \A x \in People : Fitting(x, room'[x])
  BY <1>3 DEF RoomsFit
<1>5. \A x \in People : Fitting(x, room'[x]) <=> Fitting(x, room[x])'
  BY DEF Fitting, Shaped, Fits
<1> QED  BY <1>2, <1>4, <1>5 DEF RoomsFit

\* Nobody's room changes.
LEMMA NoneChanges ==
  ASSUME RoomsFit, room' = room
  PROVE  RoomsFit'
  BY DEF RoomsFit, Fitting, Shaped, Fits

\* A room of p's own in which nobody joins and nobody is promised a place.
LEMMA NoMore ==
  ASSUME NEW p, NEW r, NEW s, r # NoRoom, Fitting(p, r),
         Shaped(s), s.host = r.host,
         s.roster \subseteq r.roster, s.invited \subseteq r.invited
  PROVE  Fitting(p, s)
<1>1. CASE s.host = p
  <2>1. Fits(r.roster, r.invited)
    BY <1>1 DEF Fitting
  <2> QED  BY <2>1, FewerFit DEF Fitting
<1>2. CASE s.host # p
  BY <1>2 DEF Fitting
<1> QED  BY <1>1, <1>2

LEMMA LosesFits ==
  ASSUME RoomsFit, NEW p \in People, NEW q \in People, NEW STATE unread,
         Loses(p, q, unread)
  PROVE  RoomsFit'
<1> DEFINE r == room[p]
           rest == Without(r, q)
<1>1. Fitting(p, r)
  BY DEF RoomsFit
<1>2. Fitting(p, NoRoom)
  BY DEF Fitting
<1>3. r # NoRoom => Fitting(p, rest)
  <2> HAVE r # NoRoom
  <2>1. Shaped(r)
    BY <1>1 DEF Fitting
  <2>2. /\ Shaped(rest) /\ rest.host = r.host
        /\ rest.roster \subseteq r.roster /\ rest.invited = r.invited
    BY <2>1, WithoutShape
  <2> HIDE DEF r, rest
  <2> QED  BY <1>1, <2>2, NoMore
<1>4. \/ room' = [room EXCEPT ![p] = r]
      \/ room' = [room EXCEPT ![p] = NoRoom]
      \/ r # NoRoom /\ room' = [room EXCEPT ![p] = rest]
  BY Zenon DEF Loses, Becomes
<1> HIDE DEF r, rest
<1> QED  BY <1>1, <1>2, <1>3, <1>4, OneFits

\* What p types keeps the places.
LEMMA TypedFits ==
  ASSUME RoomsFit, NEW p \in People,
         Create(p) \/ Join(p) \/ Decline(p) \/ Leave(p) \/ Say(p)
  PROVE  RoomsFit'
<1>0. Fitting(p, room[p]) /\ Fitting(p, NoRoom)
  BY DEF RoomsFit, Fitting
<1>1. CASE Create(p)
  <2> DEFINE fresh == <<p, made[p]>>
             new == [NewRoom(fresh, p, fresh) EXCEPT !.roster = {Entry(fresh, p)}]
  <2>1. room' = [room EXCEPT ![p] = new]
    BY <1>1, Zenon DEF Create
  <2>2. Shaped(new) /\ new.roster = {Entry(fresh, p)} /\ new.invited = {}
    BY DEF NewRoom, Shaped, Fields
  <2> HIDE DEF fresh, new
  <2>3. Fitting(p, new)
    BY <2>2, NewFit DEF Fitting
  <2> QED  BY <2>1, <2>3, OneFits
<1>2. CASE Join(p)
  <2> DEFINE new == NewRoom(invite[p].id, invite[p].from, <<p, made[p]>>)
  <2>1. room' = [room EXCEPT ![p] = new]
    BY <1>2, Zenon DEF Join, Becomes
  <2>2. Shaped(new) /\ new.roster = {} /\ new.invited = {}
    BY DEF NewRoom, Shaped, Fields
  <2> HIDE DEF new
  <2>3. Fitting(p, new)
    BY <2>2, NewFit DEF Fitting
  <2> QED  BY <2>1, <2>3, OneFits
<1>3. CASE Decline(p)
  BY <1>3, NoneChanges DEF Decline
<1>4. CASE Leave(p)
  <2>1. room' = [room EXCEPT ![p] = NoRoom]
    BY <1>4, Zenon DEF Leave, Becomes
  <2> QED  BY <1>0, <2>1, OneFits
<1>5. CASE Say(p)
  <2> DEFINE r == room[p]
             said == [r EXCEPT !.said = @ + 1]
  <2>1. r # NoRoom /\ room' = [room EXCEPT ![p] = said]
    BY <1>5, Zenon DEF Say, Becomes
  <2>2. /\ Shaped(said) /\ said.host = r.host
        /\ said.roster = r.roster /\ said.invited = r.invited
    <3>1. Shaped(r)
      BY <1>0, <2>1 DEF Fitting
    <3> HIDE DEF r
    <3> QED  BY <3>1 DEF Shaped, Fields
  <2>3. Fitting(p, r)
    BY <1>0
  <2> HIDE DEF r, said
  <2>4. Fitting(p, said)
    BY <2>1, <2>2, <2>3, NoMore
  <2> QED  BY <2>1, <2>4, OneFits
<1> QED  BY <1>1, <1>2, <1>3, <1>4, <1>5

\* A place promised was free.
LEMMA InviteFits ==
  ASSUME RoomsFit, NEW p \in People, NEW q \in People, InviteTo(p, q)
  PROVE  RoomsFit'
<1> DEFINE r == room[p]
           asked == [r EXCEPT !.invited = @ \cup {q}]
<1>1. /\ r # NoRoom /\ r.host = p
      /\ Cardinality(r.roster) + Cardinality(r.invited) < MAX_MEMBERS
      /\ room' = [room EXCEPT ![p] = asked]
  BY Zenon DEF InviteTo, Hosts, Becomes
<1>2. Shaped(r) /\ Fits(r.roster, r.invited)
  BY <1>1 DEF RoomsFit, Fitting
<1> HIDE DEF r
<1>3. /\ Shaped(asked) /\ asked.roster = r.roster
      /\ asked.invited = r.invited \cup {q}
  BY <1>2 DEF Shaped, Fields
<1>4. Fits(r.roster, r.invited \cup {q})
  BY <1>1, <1>2, PromisedFit
<1>5. Fitting(p, asked)
  BY <1>3, <1>4 DEF Fitting
<1> HIDE DEF asked
<1> QED  BY <1>1, <1>5, OneFits

\* Somebody who joins takes the place promised to them.
LEMMA JoinFits ==
  ASSUME RoomsFit, NEW p \in People, NEW q \in People, HearJoin(p, q)
  PROVE  RoomsFit'
<1> DEFINE f == Heard(q, p)
           r == room[p]
           asked == [r EXCEPT !.invited = @ \ {q}]
           in == [asked EXCEPT !.roster = @ \cup {Entry(f.key, q)},
                               !.bound = With(@, f.key, q)]
<1>1. \/ room' = [room EXCEPT ![p] = r]
      \/ r # NoRoom /\ room' = [room EXCEPT ![p] = asked]
      \/ /\ r # NoRoom /\ r.host = p /\ q \in r.invited
         /\ room' = [room EXCEPT ![p] = in]
  BY Zenon DEF HearJoin, Ignored, Becomes, In, Hosts
<1>2. Fitting(p, r)
  BY DEF RoomsFit
<1> HIDE DEF f, r
<1>3. CASE room' = [room EXCEPT ![p] = r]
  BY <1>2, <1>3, OneFits
<1>4. CASE r # NoRoom /\ room' = [room EXCEPT ![p] = asked]
  <2>1. Shaped(r)
    BY <1>2, <1>4 DEF Fitting
  <2>2. /\ Shaped(asked) /\ asked.host = r.host
        /\ asked.roster = r.roster /\ asked.invited \subseteq r.invited
    BY <2>1 DEF Shaped, Fields
  <2> HIDE DEF asked
  <2>3. Fitting(p, asked)
    BY <1>2, <1>4, <2>2, NoMore
  <2> QED  BY <1>4, <2>3, OneFits
<1>5. CASE /\ r # NoRoom /\ r.host = p /\ q \in r.invited
           /\ room' = [room EXCEPT ![p] = in]
  <2>1. Shaped(r) /\ Fits(r.roster, r.invited)
    BY <1>2, <1>5 DEF Fitting
  <2>2. Shaped(asked) /\ asked.roster = r.roster /\ asked.invited = r.invited \ {q}
    BY <2>1 DEF Shaped, Fields
  <2>3. /\ Shaped(in) /\ in.roster = r.roster \cup {Entry(f.key, q)}
        /\ in.invited = r.invited \ {q}
    <3> HIDE DEF asked
    <3> QED  BY <2>2 DEF Shaped, Fields
  <2>4. Fits(r.roster \cup {Entry(f.key, q)}, r.invited \ {q})
    BY <1>5, <2>1, TakenFit
  <2>5. Fitting(p, in)
    BY <2>3, <2>4 DEF Fitting
  <2> HIDE DEF in
  <2> QED  BY <1>5, <2>5, OneFits
<1> QED  BY <1>1, <1>3, <1>4, <1>5

\* A refusal and an expiry give a place back.
LEMMA GivenBackFits ==
  ASSUME RoomsFit, NEW p \in People, NEW q \in People,
         HearDecline(p, q) \/ Expire(p, q)
  PROVE  RoomsFit'
<1> DEFINE r == room[p]
           asked == [r EXCEPT !.invited = @ \ {q}]
<1>1. \/ room' = [room EXCEPT ![p] = r]
      \/ r # NoRoom /\ room' = [room EXCEPT ![p] = asked]
  BY Zenon DEF HearDecline, Expire, Ignored, Becomes, In, Hosts
<1>2. Fitting(p, r)
  BY DEF RoomsFit
<1> HIDE DEF r
<1>3. r # NoRoom => Fitting(p, asked)
  <2> HAVE r # NoRoom
  <2>1. Shaped(r)
    BY <1>2 DEF Fitting
  <2>2. /\ Shaped(asked) /\ asked.host = r.host
        /\ asked.roster = r.roster /\ asked.invited \subseteq r.invited
    BY <2>1 DEF Shaped, Fields
  <2> HIDE DEF asked
  <2> QED  BY <1>2, <2>2, NoMore
<1> HIDE DEF asked
<1> QED  BY <1>1, <1>2, <1>3, OneFits

\* A roster is only ever heard in somebody else's room.
LEMMA RosterFits ==
  ASSUME RoomsFit, NEW p \in People, NEW q \in People, HearRoster(p, q)
  PROVE  RoomsFit'
<1> DEFINE f == Heard(q, p)
           r == room[p]
           now == Listed(p, r, f.members)
<1>1. \/ room' = [room EXCEPT ![p] = r]
      \/ room' = [room EXCEPT ![p] = NoRoom]
      \/ r # NoRoom /\ r.host = q /\ room' = [room EXCEPT ![p] = now]
  BY Zenon DEF HearRoster, Ignored, Becomes, In
<1>2. Fitting(p, r) /\ Fitting(p, NoRoom)
  BY DEF RoomsFit, Fitting
<1>3. q # p
  <2>1. {p, q} \in Contacts
    BY DEF HearRoster, Frame, ContactsOf, Ways
  <2> QED  BY <2>1, LinksAssumption
<1>4. r # NoRoom /\ r.host = q => Fitting(p, now)
  <2> HAVE r # NoRoom /\ r.host = q
  <2>1. Shaped(r)
    BY <1>2 DEF Fitting
  <2>2. Shaped(now) /\ now.host = r.host
    BY <2>1, ListedShape
  <2> HIDE DEF r, now
  <2> QED  BY <1>3, <2>2 DEF Fitting
<1> HIDE DEF f, r, now
<1> QED  BY <1>1, <1>2, <1>4, OneFits

\* A claim heard moves nobody in or out.
LEMMA HelloFits ==
  ASSUME RoomsFit, NEW p \in People, NEW q \in People, HearHello(p, q)
  PROVE  RoomsFit'
<1> DEFINE f == Heard(q, p)
           r == room[p]
           said == [r EXCEPT !.claimed = With(@, q, f.key)]
           now == SettleClaims(said)
<1>1. \/ room' = [room EXCEPT ![p] = r]
      \/ r # NoRoom /\ room' = [room EXCEPT ![p] = now]
  BY Zenon DEF HearHello, Ignored, Becomes, In
<1>2. Fitting(p, r)
  BY DEF RoomsFit
<1> HIDE DEF f, r
<1>3. r # NoRoom => Fitting(p, now)
  <2> HAVE r # NoRoom
  <2>1. Shaped(r)
    BY <1>2 DEF Fitting
  <2>2. /\ Shaped(said) /\ said.host = r.host
        /\ said.roster = r.roster /\ said.invited = r.invited
    BY <2>1 DEF Shaped, Fields
  <2> HIDE DEF said
  <2>3. /\ Shaped(now) /\ now.host = r.host
        /\ now.roster = r.roster /\ now.invited = r.invited
    BY <2>2, SettleShape
  <2> HIDE DEF now
  <2> QED  BY <1>2, <2>3, NoMore
<1> HIDE DEF now
<1> QED  BY <1>1, <1>2, <1>3, OneFits

\* Lines leave the places alone.
LEMMA LinesFit ==
  ASSUME RoomsFit, NEW p \in People, NEW q \in People,
         HearLine(p, q) \/ HearDropped(p, q) \/ IgnoreLine(p, q)
  PROVE  RoomsFit'
<1> DEFINE f == Heard(q, p)
           r == room[p]
           heard == HeardOnce(r, f)
           told == [r EXCEPT !.dropped = @ \ {q}]
<1>1. \/ room' = [room EXCEPT ![p] = r]
      \/ r # NoRoom /\ room' = [room EXCEPT ![p] = heard]
      \/ r # NoRoom /\ room' = [room EXCEPT ![p] = told]
  BY Zenon DEF HearLine, HearDropped, IgnoreLine, Ignored, Becomes, In
<1>2. Fitting(p, r)
  BY DEF RoomsFit
<1> HIDE DEF f, r
<1>3. r # NoRoom => Shaped(r)
  BY <1>2 DEF Fitting
<1>4. r # NoRoom => Fitting(p, heard)
  <2> HAVE r # NoRoom
  <2>1. /\ Shaped(heard) /\ heard.host = r.host
        /\ heard.roster = r.roster /\ heard.invited = r.invited
    BY <1>3, HeardShape
  <2> HIDE DEF heard
  <2> QED  BY <1>2, <2>1, NoMore
<1>5. r # NoRoom => Fitting(p, told)
  <2> HAVE r # NoRoom
  <2>1. /\ Shaped(told) /\ told.host = r.host
        /\ told.roster = r.roster /\ told.invited = r.invited
    BY <1>3 DEF Shaped, Fields
  <2> HIDE DEF told
  <2> QED  BY <1>2, <2>1, NoMore
<1> HIDE DEF heard, told
<1> QED  BY <1>1, <1>2, <1>4, <1>5, OneFits

\* Invitations heard, departures, and what happens to connections.
LEMMA OthersFit ==
  ASSUME RoomsFit, NEW p \in People, NEW q \in People,
         \/ HearInvite(p, q) \/ HearLeave(p, q) \/ Forget(p) \/ Crash(p)
         \/ Connects(p, q) \/ Breaks(p, q) \/ Notice(p, q) \/ LetsGo(p, q)
  PROVE  RoomsFit'
<1>0. Fitting(p, room[p]) /\ Fitting(p, NoRoom)
  BY DEF RoomsFit, Fitting
<1>1. CASE HearInvite(p, q)
  <2>1. room' = [room EXCEPT ![p] = room[p]]
    BY <1>1, Zenon DEF HearInvite, Becomes
  <2> QED  BY <1>0, <2>1, OneFits
<1>2. CASE HearLeave(p, q)
  <2>1. CASE Loses(p, q, Unread(q, p))
    BY <2>1, LosesFits
  <2>2. CASE Ignored(p, q)
    <3>1. room' = [room EXCEPT ![p] = room[p]]
      BY <2>2, Zenon DEF Ignored, Becomes
    <3> QED  BY <1>0, <3>1, OneFits
  <2> QED  BY <1>2, <2>1, <2>2, Zenon DEF HearLeave
<1>3. CASE Crash(p)
  BY <1>0, <1>3, OneFits DEF Crash
<1>4. CASE Notice(p, q)
  <2>1. Loses(p, q, wire)
    BY <1>4, Zenon DEF Notice
  <2> QED  BY <2>1, LosesFits
<1>5. CASE Forget(p) \/ Connects(p, q) \/ Breaks(p, q) \/ LetsGo(p, q)
  BY <1>5, NoneChanges DEF Forget, Connects, Breaks, LetsGo
<1> QED  BY <1>1, <1>2, <1>3, <1>4, <1>5

-----------------------------------------------------------------------------
(***************************************************************************)
(* The theorem on places.                                                  *)
(***************************************************************************)

LEMMA RoomsFitFirst == Init => RoomsFit
  BY DEF Init, RoomsFit, Fitting

LEMMA RoomsFitKept == RoomsFit /\ [Next]_vars => RoomsFit'
<1> SUFFICES ASSUME RoomsFit, [Next]_vars PROVE RoomsFit'
  OBVIOUS
<1>1. CASE UNCHANGED vars
  BY <1>1, NoneChanges DEF vars
<1>2. ASSUME NEW p \in People,
             \/ Create(p) \/ Join(p) \/ Decline(p) \/ Leave(p) \/ Say(p)
             \/ Forget(p) \/ Crash(p)
      PROVE  RoomsFit'
  <2>1. CASE Forget(p) \/ Crash(p)
    BY <2>1, OthersFit
  <2> QED  BY <1>2, <2>1, TypedFits
<1>3. ASSUME NEW p \in People, NEW q \in People,
             \/ InviteTo(p, q) \/ Expire(p, q)
             \/ HearInvite(p, q) \/ HearJoin(p, q) \/ HearDecline(p, q)
             \/ HearLeave(p, q) \/ HearRoster(p, q) \/ HearHello(p, q)
             \/ HearLine(p, q) \/ HearDropped(p, q) \/ IgnoreLine(p, q)
             \/ Connects(p, q) \/ Breaks(p, q) \/ Notice(p, q) \/ LetsGo(p, q)
      PROVE  RoomsFit'
  <2>1. CASE InviteTo(p, q)
    BY <2>1, InviteFits
  <2>2. CASE HearJoin(p, q)
    BY <2>2, JoinFits
  <2>3. CASE HearDecline(p, q) \/ Expire(p, q)
    BY <2>3, GivenBackFits
  <2>4. CASE HearRoster(p, q)
    BY <2>4, RosterFits
  <2>5. CASE HearHello(p, q)
    BY <2>5, HelloFits
  <2>6. CASE HearLine(p, q) \/ HearDropped(p, q) \/ IgnoreLine(p, q)
    BY <2>6, LinesFit
  <2>7. CASE \/ HearInvite(p, q) \/ HearLeave(p, q)
             \/ Connects(p, q) \/ Breaks(p, q) \/ Notice(p, q) \/ LetsGo(p, q)
    BY <2>7, OthersFit
  <2> QED  BY <1>3, <2>1, <2>2, <2>3, <2>4, <2>5, <2>6, <2>7
<1> QED  BY <1>1, <1>2, <1>3, Zenon DEF Next, Types

LEMMA RoomsFitSuffices == RoomsFit => PlacesHeld
  BY DEF RoomsFit, Fitting, Fits, PlacesHeld, Hosts

\* A host never has more members and promised places than a room holds
\* (room.rs, `invite` and `joined`), so nobody asked in is turned away for want
\* of a place.
THEOREM PlacesAlwaysHeld == Spec => []PlacesHeld
<1>1. Spec => []RoomsFit
  BY RoomsFitFirst, RoomsFitKept, PTL DEF Spec
<1> QED  BY <1>1, RoomsFitSuffices, PTL

-----------------------------------------------------------------------------
(***************************************************************************)
(* What is on its way, and what a roster on its way may still do.          *)
(*                                                                         *)
(* A line could be shown twice to somebody in the room only if its author's*)
(* key went from their list, with the marks of what was heard under it, and*)
(* came back.  It does not: streams arrive in order, a host's list only gains*)
(* keys that ask to join, and those are new.                               *)
(***************************************************************************)

\* What was made by x so far, and by anybody: rooms and keys.
Made(md, x) == {<<x, n>> : n \in 0 .. md[x] - 1}
AnyMade(md) == UNION {Made(md, x) : x \in People}

\* The frames on their way along each way, the first to arrive first.
Stream == [w \in Ways |-> wire[w] \o waiting[w]]
Streams(st) == \E S : st \in [Ways -> Seq(S)]

\* What a frame on its way may be about.
FrameGood(md, w, m) ==
  /\ m.t = "invite" => m.id \in Made(md, w[1])
  /\ m.t = "join" => m.id \in AnyMade(md) /\ m.key \in Made(md, w[1])
  /\ m.t = "roster" => m.id \in Made(md, w[1]) /\ KeysOf(m.members) \subseteq AnyMade(md)
  /\ m.t = "line" => m.seq \in Nat \ {0}

FramesGood(st, md) ==
  \A w \in Ways : \A i \in 1 .. Len(st[w]) : FrameGood(md, w, st[w][i])

RoomGood(md, p, r) ==
  r # NoRoom => /\ r.host \in ContactsOf(p) \cup {p}
                /\ r.id \in Made(md, r.host)
                /\ KeysOf(r.roster) \subseteq AnyMade(md)
                /\ r.said \in Nat

RoomsGood(rm, md) == \A p \in People : RoomGood(md, p, rm[p])

InvitesGood(inv, md) ==
  \A p \in People : inv[p] # NoInvite =>
    inv[p].from \in ContactsOf(p) /\ inv[p].id \in Made(md, inv[p].from)

\* A roster on its way that names a key, or does not; a key that asks to join.
Names(m, id, k) == m.t = "roster" /\ m.id = id /\ k \in KeysOf(m.members)
Omits(m, id, k) == m.t = "roster" /\ m.id = id /\ k \notin KeysOf(m.members)
Asks(m, id, k) == m.t = "join" /\ m.id = id /\ m.key = k

Asked(st, h, id, k) ==
  \E w \in Ways : w[2] = h /\ \E i \in 1 .. Len(st[w]) : Asks(st[w][i], id, k)

\* a is in the room of h, and has k on its list.
Sits(rm, a, h, id) == rm[a] # NoRoom /\ rm[a].id = id /\ rm[a].host = h
Lists(rm, a, h, id, k) == Sits(rm, a, h, id) /\ k \in KeysOf(rm[a].roster)

WasShown(sh, a, k) == \E n : <<k, n>> \in sh[a]

\* After the j first frames along w, k is not listed any more.
Over(st, rm, w, id, k, j) ==
  /\ \A l \in 1 .. Len(st[w]) : l > j => ~ Names(st[w][l], id, k)
  /\ ~ Lists(rm, w[1], w[1], id, k)

\* A key that goes from the rosters on their way does not come back,
GoneOnWay(st, rm) ==
  \A w \in Ways : \A id, k : \A i, j \in 1 .. Len(st[w]) :
    i < j /\ Names(st[w][i], id, k) /\ Omits(st[w][j], id, k)
      => Over(st, rm, w, id, k, j)

\* nor one that goes from a member's list,
GoneFromList(st, rm) ==
  \A w \in Ways : \A id, k : \A j \in 1 .. Len(st[w]) :
    Lists(rm, w[2], w[1], id, k) /\ Omits(st[w][j], id, k)
      => Over(st, rm, w, id, k, j)

\* nor one somebody was heard under.
HeardAndGone(st, rm, sh) ==
  \A a \in People, h \in People : \A id, k :
    Sits(rm, a, h, id) /\ ~ Lists(rm, a, h, id, k) /\ WasShown(sh, a, k) =>
      /\ ~ Asked(st, h, id, k)
      /\ <<h, a>> \in Ways => Over(st, rm, <<h, a>>, id, k, 0)

\* k is known to nobody in the room yet.
Fresh(st, rm, sh, h, id, k) ==
  \A a \in People :
    /\ <<h, a>> \in Ways => Over(st, rm, <<h, a>>, id, k, 0)
    /\ Sits(rm, a, h, id) => ~ Lists(rm, a, h, id, k) /\ ~ WasShown(sh, a, k)

\* Who asks to join does so once, and under a new key.
AsksFresh(st, rm, sh) ==
  \A h \in People : \A id, k : Asked(st, h, id, k) => Fresh(st, rm, sh, h, id, k)

AsksOnce(st) ==
  \A w \in Ways : \A id, k : \A i, j \in 1 .. Len(st[w]) :
    Asks(st[w][i], id, k) /\ Asks(st[w][j], id, k) => i = j

Steady(st, rm, sh) ==
  /\ GoneOnWay(st, rm) /\ GoneFromList(st, rm) /\ HeardAndGone(st, rm, sh)
  /\ AsksFresh(st, rm, sh) /\ AsksOnce(st)

-----------------------------------------------------------------------------
(***************************************************************************)
(* Frames lost.                                                            *)
(***************************************************************************)

\* st2 is st with frames lost.
ThinnedBy(st, st2, w, f) ==
  /\ f \in [1 .. Len(st2[w]) -> 1 .. Len(st[w])]
  /\ \A i, j \in 1 .. Len(st2[w]) : i < j => f[i] < f[j]
  /\ \A i \in 1 .. Len(st2[w]) : st2[w][i] = st[w][f[i]]

Thinned(st, st2) == \A w \in Ways : \E f : ThinnedBy(st, st2, w, f)

\* A stream has a length.
LEMMA LenNat ==
  ASSUME NEW st, Streams(st), NEW w \in Ways
  PROVE  Len(st[w]) \in Nat
BY DEF Streams

\* What is over stays over when frames are lost,
LEMMA ThinnedOver ==
  ASSUME NEW st, NEW st2, NEW rm, NEW w \in Ways, NEW f, NEW id, NEW k,
         Streams(st), Streams(st2), ThinnedBy(st, st2, w, f),
         NEW j \in 1 .. Len(st2[w]), Over(st, rm, w, id, k, f[j])
  PROVE  Over(st2, rm, w, id, k, j)
BY LenNat DEF Over, ThinnedBy

\* from the first frame on as well;
LEMMA ThinnedOverAll ==
  ASSUME NEW st, NEW st2, NEW rm, NEW w \in Ways, NEW id, NEW k,
         Streams(st), Streams(st2), Thinned(st, st2), Over(st, rm, w, id, k, 0)
  PROVE  Over(st2, rm, w, id, k, 0)
<1>1. PICK f : ThinnedBy(st, st2, w, f)
  BY DEF Thinned
<1>2. \A l \in 1 .. Len(st[w]) : ~ Names(st[w][l], id, k)
  BY LenNat DEF Over
<1>3. \A l \in 1 .. Len(st2[w]) : f[l] \in 1 .. Len(st[w]) /\ st2[w][l] = st[w][f[l]]
  BY <1>1 DEF ThinnedBy
<1> QED  BY <1>2, <1>3 DEF Over

\* nobody asks who did not before;
LEMMA ThinnedAsked ==
  ASSUME NEW st, NEW st2, NEW h, NEW id, NEW k, Thinned(st, st2), Asked(st2, h, id, k)
  PROVE  Asked(st, h, id, k)
<1>0. PICK w \in Ways : w[2] = h /\ \E i \in 1 .. Len(st2[w]) : Asks(st2[w][i], id, k)
  BY DEF Asked
<1>1. PICK i \in 1 .. Len(st2[w]) : Asks(st2[w][i], id, k)
  BY <1>0
<1>2. PICK f : ThinnedBy(st, st2, w, f)
  BY DEF Thinned
<1>3. f[i] \in 1 .. Len(st[w]) /\ Asks(st[w][f[i]], id, k)
  BY <1>1, <1>2 DEF ThinnedBy
<1> QED  BY <1>0, <1>3 DEF Asked

\* so the whole of it is kept.
LEMMA ThinnedSteady ==
  ASSUME NEW st, NEW st2, NEW rm, NEW sh, Streams(st), Streams(st2),
         Thinned(st, st2), Steady(st, rm, sh)
  PROVE  Steady(st2, rm, sh)
<1>1. GoneOnWay(st2, rm)
  <2> SUFFICES ASSUME NEW w \in Ways, NEW id, NEW k,
                      NEW i \in 1 .. Len(st2[w]), NEW j \in 1 .. Len(st2[w]), i < j,
                      Names(st2[w][i], id, k), Omits(st2[w][j], id, k)
               PROVE  Over(st2, rm, w, id, k, j)
    BY DEF GoneOnWay
  <2>1. PICK f : ThinnedBy(st, st2, w, f)
    BY DEF Thinned
  <2>2. /\ f[i] \in 1 .. Len(st[w]) /\ f[j] \in 1 .. Len(st[w]) /\ f[i] < f[j]
        /\ Names(st[w][f[i]], id, k) /\ Omits(st[w][f[j]], id, k)
    BY <2>1 DEF ThinnedBy
  <2>3. Over(st, rm, w, id, k, f[j])
    BY <2>2 DEF Steady, GoneOnWay
  <2> QED  BY <2>1, <2>3, ThinnedOver
<1>2. GoneFromList(st2, rm)
  <2> SUFFICES ASSUME NEW w \in Ways, NEW id, NEW k, NEW j \in 1 .. Len(st2[w]),
                      Lists(rm, w[2], w[1], id, k), Omits(st2[w][j], id, k)
               PROVE  Over(st2, rm, w, id, k, j)
    BY DEF GoneFromList
  <2>1. PICK f : ThinnedBy(st, st2, w, f)
    BY DEF Thinned
  <2>2. f[j] \in 1 .. Len(st[w]) /\ Omits(st[w][f[j]], id, k)
    BY <2>1 DEF ThinnedBy
  <2>3. Over(st, rm, w, id, k, f[j])
    BY <2>2 DEF Steady, GoneFromList
  <2> QED  BY <2>1, <2>3, ThinnedOver
<1>3. HeardAndGone(st2, rm, sh)
  BY ThinnedOverAll, ThinnedAsked DEF Steady, HeardAndGone
<1>4. AsksFresh(st2, rm, sh)
  BY ThinnedOverAll, ThinnedAsked DEF Steady, AsksFresh, Fresh
<1>5. AsksOnce(st2)
  <2> SUFFICES ASSUME NEW w \in Ways, NEW id, NEW k,
                      NEW i \in 1 .. Len(st2[w]), NEW j \in 1 .. Len(st2[w]),
                      Asks(st2[w][i], id, k), Asks(st2[w][j], id, k)
               PROVE  i = j
    BY DEF AsksOnce
  <2>1. PICK f : ThinnedBy(st, st2, w, f)
    BY DEF Thinned
  <2>2. /\ f[i] \in 1 .. Len(st[w]) /\ Asks(st[w][f[i]], id, k)
        /\ f[j] \in 1 .. Len(st[w]) /\ Asks(st[w][f[j]], id, k)
    BY <2>1 DEF ThinnedBy
  <2>3. f[i] = f[j]
    BY <2>2 DEF Steady, AsksOnce
  <2>4. i < j \/ j < i => f[i] < f[j] \/ f[j] < f[i]
    BY <2>1 DEF ThinnedBy
  <2> QED  BY <2>2, <2>3, <2>4, LenNat
<1> QED  BY <1>1, <1>2, <1>3, <1>4, <1>5 DEF Steady

-----------------------------------------------------------------------------
(***************************************************************************)
(* Frames sent.                                                            *)
(***************************************************************************)

\* st2 is st with m sent by p along some ways.
GrownBy(st, st2, p, m) ==
  \A w \in Ways : st2[w] = st[w] \/ (w[1] = p /\ st2[w] = Append(st[w], m))

\* A roster sent is the host's own list.
Truly(rm, p, m) ==
  m.t = "roster" => Sits(rm, p, p, m.id) /\ m.members = rm[p].roster

\* A stream grown by one frame is a stream.
LEMMA GrownStreams ==
  ASSUME NEW st, NEW st2, NEW p, NEW m, Streams(st), st2 = [w \in Ways |-> st2[w]],
         GrownBy(st, st2, p, m)
  PROVE  Streams(st2)
<1>1. PICK S : st \in [Ways -> Seq(S)]
  BY DEF Streams
<1>2. \A w \in Ways : st[w] \in Seq(S \cup {m})
  BY <1>1
<1>3. \A w \in Ways : Append(st[w], m) \in Seq(S \cup {m})
  BY <1>2
<1>4. \A w \in Ways : st2[w] \in Seq(S \cup {m})
  BY <1>2, <1>3 DEF GrownBy
<1>5. st2 \in [Ways -> Seq(S \cup {m})]
  BY <1>4
<1> QED  BY <1>5 DEF Streams

\* Where the frames of a stream that grew come from.
LEMMA GrownAt ==
  ASSUME NEW st, NEW st2, NEW p, NEW m, Streams(st), GrownBy(st, st2, p, m),
         NEW w \in Ways
  PROVE  /\ Len(st[w]) \in Nat /\ Len(st2[w]) \in Nat
         /\ Len(st[w]) <= Len(st2[w])
         /\ \A i \in 1 .. Len(st[w]) : st2[w][i] = st[w][i]
         /\ \A i \in 1 .. Len(st2[w]) :
              \/ i \in 1 .. Len(st[w])
              \/ /\ w[1] = p /\ i = Len(st[w]) + 1 /\ Len(st2[w]) = i
                 /\ st2[w][i] = m
<1>1. PICK S : st \in [Ways -> Seq(S)]
  BY DEF Streams
<1>2. st[w] \in Seq(S)
  BY <1>1
<1>3. CASE st2[w] = st[w]
  BY <1>2, <1>3
<1>4. CASE w[1] = p /\ st2[w] = Append(st[w], m)
  BY <1>2, <1>4
<1> QED  BY <1>3, <1>4 DEF GrownBy

\* What is over stays over when the host sends its own list.
LEMMA GrownOver ==
  ASSUME NEW st, NEW st2, NEW p, NEW m, NEW rm, Streams(st),
         GrownBy(st, st2, p, m), Truly(rm, p, m),
         NEW w \in Ways, NEW id, NEW k, NEW j \in Nat, Over(st, rm, w, id, k, j)
  PROVE  Over(st2, rm, w, id, k, j)
<1>1. \A i \in 1 .. Len(st[w]) : i > j => ~ Names(st2[w][i], id, k)
  BY GrownAt DEF Over
<1>2. w[1] = p => ~ Names(m, id, k)
  BY DEF Over, Truly, Names, Lists
<1>3. \A i \in 1 .. Len(st2[w]) : i > j => ~ Names(st2[w][i], id, k)
  BY <1>1, <1>2, GrownAt
<1> QED  BY <1>3 DEF Over

\* After a roster that omits k, nothing names k.
LEMMA GrownOmits ==
  ASSUME NEW st, NEW st2, NEW p, NEW m, NEW rm, Streams(st),
         GrownBy(st, st2, p, m), Truly(rm, p, m),
         NEW w \in Ways, NEW id, NEW k, NEW j \in 1 .. Len(st2[w]),
         j \notin 1 .. Len(st[w]), Omits(st2[w][j], id, k)
  PROVE  Over(st2, rm, w, id, k, j)
<1>1. w[1] = p /\ st2[w][j] = m /\ Len(st2[w]) = j /\ j \in Nat
  BY GrownAt
<1>2. ~ Lists(rm, w[1], w[1], id, k)
  BY <1>1 DEF Truly, Omits, Lists, Sits
<1> QED  BY <1>1, <1>2 DEF Over

\* Nobody asks but who asked before or does now.
LEMMA GrownAsked ==
  ASSUME NEW st, NEW st2, NEW p, NEW m, NEW h, NEW id, NEW k, Streams(st),
         GrownBy(st, st2, p, m), Asked(st2, h, id, k)
  PROVE  Asked(st, h, id, k) \/ Asks(m, id, k)
<1>1. PICK w \in Ways : w[2] = h /\ \E i \in 1 .. Len(st2[w]) : Asks(st2[w][i], id, k)
  BY DEF Asked
<1>2. PICK i \in 1 .. Len(st2[w]) : Asks(st2[w][i], id, k)
  BY <1>1
<1>3. i \in 1 .. Len(st[w]) => st2[w][i] = st[w][i]
  BY GrownAt
<1>4. i \notin 1 .. Len(st[w]) => st2[w][i] = m
  BY GrownAt
<1> QED  BY <1>1, <1>2, <1>3, <1>4 DEF Asked

\* What is sent keeps it all, a key that asks to join being new.
LEMMA GrownSteady ==
  ASSUME NEW st, NEW st2, NEW p, NEW m, NEW rm, NEW sh, Streams(st),
         GrownBy(st, st2, p, m), Truly(rm, p, m), Steady(st, rm, sh),
         m.t = "join" => /\ \A w \in Ways : ~ Asked(st, w[2], m.id, m.key)
                         /\ \A h \in People : Fresh(st, rm, sh, h, m.id, m.key)
                         /\ \A a, h \in People :
                              Sits(rm, a, h, m.id) => ~ WasShown(sh, a, m.key)
  PROVE  Steady(st2, rm, sh)
<1>1. GoneOnWay(st2, rm)
  <2> SUFFICES ASSUME NEW w \in Ways, NEW id, NEW k,
                      NEW i \in 1 .. Len(st2[w]), NEW j \in 1 .. Len(st2[w]), i < j,
                      Names(st2[w][i], id, k), Omits(st2[w][j], id, k)
               PROVE  Over(st2, rm, w, id, k, j)
    BY DEF GoneOnWay
  <2>1. CASE j \notin 1 .. Len(st[w])
    BY <2>1, GrownOmits
  <2>2. CASE j \in 1 .. Len(st[w])
    <3>1. i \in 1 .. Len(st[w]) /\ st2[w][i] = st[w][i] /\ st2[w][j] = st[w][j]
      BY <2>2, GrownAt
    <3>2. Over(st, rm, w, id, k, j)
      BY <2>2, <3>1 DEF Steady, GoneOnWay
    <3> QED  BY <3>2, GrownOver
  <2> QED  BY <2>1, <2>2
<1>2. GoneFromList(st2, rm)
  <2> SUFFICES ASSUME NEW w \in Ways, NEW id, NEW k, NEW j \in 1 .. Len(st2[w]),
                      Lists(rm, w[2], w[1], id, k), Omits(st2[w][j], id, k)
               PROVE  Over(st2, rm, w, id, k, j)
    BY DEF GoneFromList
  <2>1. CASE j \notin 1 .. Len(st[w])
    BY <2>1, GrownOmits
  <2>2. CASE j \in 1 .. Len(st[w])
    <3>1. st2[w][j] = st[w][j]
      BY <2>2, GrownAt
    <3>2. Over(st, rm, w, id, k, j)
      BY <2>2, <3>1 DEF Steady, GoneFromList
    <3> QED  BY <3>2, GrownOver
  <2> QED  BY <2>1, <2>2
<1>3. \A h \in People : \A id, k : Fresh(st, rm, sh, h, id, k) => Fresh(st2, rm, sh, h, id, k)
  BY GrownOver DEF Fresh
<1>4. HeardAndGone(st2, rm, sh)
  <2> SUFFICES ASSUME NEW a \in People, NEW h \in People, NEW id, NEW k,
                      Sits(rm, a, h, id), ~ Lists(rm, a, h, id, k), WasShown(sh, a, k)
               PROVE  /\ ~ Asked(st2, h, id, k)
                      /\ <<h, a>> \in Ways => Over(st2, rm, <<h, a>>, id, k, 0)
    BY DEF HeardAndGone
  <2>1. /\ ~ Asked(st, h, id, k)
        /\ <<h, a>> \in Ways => Over(st, rm, <<h, a>>, id, k, 0)
    BY DEF Steady, HeardAndGone
  <2>2. ~ Asks(m, id, k)
    BY DEF Asks
  <2> QED  BY <2>1, <2>2, GrownOver, GrownAsked
<1>5. AsksFresh(st2, rm, sh)
  <2> SUFFICES ASSUME NEW h \in People, NEW id, NEW k, Asked(st2, h, id, k)
               PROVE  Fresh(st, rm, sh, h, id, k)
    BY <1>3 DEF AsksFresh
  <2>1. Asked(st, h, id, k) \/ Asks(m, id, k)
    BY GrownAsked
  <2> QED  BY <2>1 DEF Steady, AsksFresh, Asks
<1>6. AsksOnce(st2)
  <2> SUFFICES ASSUME NEW w \in Ways, NEW id, NEW k,
                      NEW i \in 1 .. Len(st2[w]), NEW j \in 1 .. Len(st2[w]),
                      Asks(st2[w][i], id, k), Asks(st2[w][j], id, k), i < j
               PROVE  FALSE
    <3>1. \A w \in Ways : \A i, j \in 1 .. Len(st2[w]) : i < j \/ j < i \/ i = j
      BY GrownAt
    <3> QED  BY <3>1 DEF AsksOnce
  <2>1. i \in 1 .. Len(st[w]) /\ st2[w][i] = st[w][i]
    BY GrownAt
  <2>2. Asked(st, w[2], id, k)
    BY <2>1 DEF Asked
  <2>3. ~ Asks(m, id, k)
    BY <2>2 DEF Asks
  <2>4. j \in 1 .. Len(st[w]) /\ st2[w][j] = st[w][j]
    BY <2>3, GrownAt
  <2>5. i = j
    BY <2>1, <2>4 DEF Steady, AsksOnce
  <2> QED  BY <2>1, <2>5
<1> QED  BY <1>1, <1>2, <1>4, <1>5, <1>6 DEF Steady

\* Rooms left, or kept with the list they had.
Alike(r, s) == s = NoRoom \/ /\ r # NoRoom
                             /\ s.id = r.id /\ s.host = r.host
                             /\ KeysOf(s.roster) = KeysOf(r.roster)

\* Leaving a room, or what is not the list, disturbs nothing.
LEMMA AlikeSteady ==
  ASSUME NEW st, NEW rm, NEW rm2, NEW sh, Steady(st, rm, sh),
         \A p \in People : Alike(rm[p], rm2[p])
  PROVE  Steady(st, rm2, sh)
<1>1. \A a \in People : \A h, id : Sits(rm2, a, h, id) => Sits(rm, a, h, id)
  BY DEF Alike, Sits
<1>2. \A a \in People : \A h, id, k : Lists(rm2, a, h, id, k) => Lists(rm, a, h, id, k)
  BY DEF Alike, Sits, Lists
<1>3. \A a \in People : \A h, id, k :
        Sits(rm2, a, h, id) /\ ~ Lists(rm2, a, h, id, k) => ~ Lists(rm, a, h, id, k)
  BY DEF Alike, Sits, Lists
<1>4. \A w \in Ways : w[1] \in People /\ w[2] \in People
  BY DEF Ways
<1>5. \A w \in Ways : \A id, k, j : Over(st, rm, w, id, k, j) => Over(st, rm2, w, id, k, j)
  BY <1>2, <1>4 DEF Over
<1>6. GoneOnWay(st, rm2)
  BY <1>5 DEF Steady, GoneOnWay
<1>7. GoneFromList(st, rm2)
  BY <1>2, <1>4, <1>5 DEF Steady, GoneFromList
<1>8. HeardAndGone(st, rm2, sh)
  BY <1>1, <1>3, <1>5 DEF Steady, HeardAndGone
<1>9. AsksFresh(st, rm2, sh)
  BY <1>1, <1>2, <1>5 DEF Steady, AsksFresh, Fresh
<1> QED  BY <1>6, <1>7, <1>8, <1>9 DEF Steady

-----------------------------------------------------------------------------
(***************************************************************************)
(* Rooms change: the host's list, a member's, what was shown, a room made.  *)
(***************************************************************************)

\* A way has two different ends, and one leads back.
LEMMA WayEnds ==
  ASSUME NEW w \in Ways
  PROVE  /\ w[1] \in People /\ w[2] \in People /\ w[1] # w[2]
         /\ w = <<w[1], w[2]>> /\ Back(w) \in Ways
<1>1. w \in People \X People /\ {w[1], w[2]} \in Contacts
  BY DEF Ways
<1>2. PICK p, q \in {w[1], w[2]} : p # q /\ {w[1], w[2]} = {p, q}
  BY <1>1, LinksAssumption
<1>3. {w[2], w[1]} = {w[1], w[2]}
  OBVIOUS
<1>4. Back(w) \in Ways
  BY <1>1, <1>3 DEF Back, Ways
<1> QED  BY <1>1, <1>2, <1>4

\* The host's list loses keys, or gains one that is new.
LEMMA HostSteady ==
  ASSUME NEW st, NEW rm, NEW rm2, NEW sh, NEW h \in People, NEW id0, NEW new,
         Steady(st, rm, sh),
         \A a \in People \ {h} : rm2[a] = rm[a],
         Sits(rm, h, h, id0), Sits(rm2, h, h, id0),
         KeysOf(rm2[h].roster) \subseteq KeysOf(rm[h].roster) \cup new,
         \A k \in new : Fresh(st, rm, sh, h, id0, k) /\ ~ Asked(st, h, id0, k)
  PROVE  Steady(st, rm2, sh)
<1>1. \A a \in People : \A g, id : Sits(rm2, a, g, id) <=> Sits(rm, a, g, id)
  BY DEF Sits
<1>2. \A a \in People : \A g, id, k :
        /\ a # h => (Lists(rm2, a, g, id, k) <=> Lists(rm, a, g, id, k))
        /\ Lists(rm2, a, g, id, k) => \/ Lists(rm, a, g, id, k)
                                      \/ a = h /\ g = h /\ id = id0 /\ k \in new
  BY DEF Sits, Lists
<1>3. \A w \in Ways : \A id, k, j :
        Over(st, rm, w, id, k, j) => \/ Over(st, rm2, w, id, k, j)
                                     \/ w[1] = h /\ id = id0 /\ k \in new
  BY <1>2, WayEnds DEF Over
<1>4. GoneOnWay(st, rm2)
  <2> SUFFICES ASSUME NEW w \in Ways, NEW id, NEW k,
                      NEW i \in 1 .. Len(st[w]), NEW j \in 1 .. Len(st[w]), i < j,
                      Names(st[w][i], id, k), Omits(st[w][j], id, k)
               PROVE  Over(st, rm2, w, id, k, j)
    BY DEF GoneOnWay
  <2>1. Over(st, rm, w, id, k, j)
    BY DEF Steady, GoneOnWay
  <2>2. ~ Over(st, rm, w, id, k, 0)
    BY DEF Over
  <2>3. ~ (w[1] = h /\ id = id0 /\ k \in new)
    BY <2>2, WayEnds DEF Fresh
  <2> QED  BY <2>1, <2>3, <1>3
<1>5. GoneFromList(st, rm2)
  <2> SUFFICES ASSUME NEW w \in Ways, NEW id, NEW k, NEW j \in 1 .. Len(st[w]),
                      Lists(rm2, w[2], w[1], id, k), Omits(st[w][j], id, k)
               PROVE  Over(st, rm2, w, id, k, j)
    BY DEF GoneFromList
  <2>1. Lists(rm, w[2], w[1], id, k)
    BY <1>2, WayEnds
  <2>2. Over(st, rm, w, id, k, j)
    BY <2>1 DEF Steady, GoneFromList
  <2>3. ~ (w[1] = h /\ id = id0 /\ k \in new)
    BY <2>1, WayEnds DEF Fresh, Lists
  <2> QED  BY <2>2, <2>3, <1>3
<1>6. HeardAndGone(st, rm2, sh)
  <2> SUFFICES ASSUME NEW a \in People, NEW g \in People, NEW id, NEW k,
                      Sits(rm2, a, g, id), ~ Lists(rm2, a, g, id, k), WasShown(sh, a, k)
               PROVE  /\ ~ Asked(st, g, id, k)
                      /\ <<g, a>> \in Ways => Over(st, rm2, <<g, a>>, id, k, 0)
    BY DEF HeardAndGone
  <2>1. Sits(rm, a, g, id)
    BY <1>1
  <2>2. ~ (g = h /\ id = id0 /\ k \in new)
    BY <2>1 DEF Fresh
  <2>3. CASE Lists(rm, a, g, id, k)
    <3>1. a = h /\ g = h
      BY <1>2, <2>3 DEF Lists, Sits
    <3>2. ~ Asked(st, g, id, k)
      BY <2>1, <2>3 DEF Steady, AsksFresh, Fresh
    <3> QED  BY <3>1, <3>2, WayEnds
  <2>4. CASE ~ Lists(rm, a, g, id, k)
    <3>1. /\ ~ Asked(st, g, id, k)
          /\ <<g, a>> \in Ways => Over(st, rm, <<g, a>>, id, k, 0)
      BY <2>1, <2>4 DEF Steady, HeardAndGone
    <3> QED  BY <3>1, <2>2, <1>3
  <2> QED  BY <2>3, <2>4
<1>7. AsksFresh(st, rm2, sh)
  <2> SUFFICES ASSUME NEW g \in People, NEW id, NEW k, Asked(st, g, id, k),
                      NEW a \in People
               PROVE  /\ <<g, a>> \in Ways => Over(st, rm2, <<g, a>>, id, k, 0)
                      /\ Sits(rm2, a, g, id) =>
                           ~ Lists(rm2, a, g, id, k) /\ ~ WasShown(sh, a, k)
    BY DEF AsksFresh, Fresh
  <2>1. Fresh(st, rm, sh, g, id, k)
    BY DEF Steady, AsksFresh
  <2>2. ~ (g = h /\ id = id0 /\ k \in new)
    OBVIOUS
  <2> QED  BY <2>1, <2>2, <1>1, <1>2, <1>3 DEF Fresh
<1> QED  BY <1>4, <1>5, <1>6, <1>7 DEF Steady

\* The first frame along w0 is taken.
Taken(st, st2, w0) ==
  /\ st[w0] # <<>> /\ st2 = [st EXCEPT ![w0] = Tail(@)]

\* A frame taken is lost to the stream; the others move up.
LEMMA TakenAt ==
  ASSUME NEW st, NEW st2, NEW w0 \in Ways, Streams(st), Taken(st, st2, w0)
  PROVE  /\ Streams(st2) /\ Thinned(st, st2)
         /\ Len(st[w0]) \in Nat \ {0} /\ Len(st2[w0]) = Len(st[w0]) - 1
         /\ \A i \in 1 .. Len(st2[w0]) : st2[w0][i] = st[w0][i + 1]
         /\ \A w \in Ways \ {w0} : st2[w] = st[w]
         /\ Head(st[w0]) = st[w0][1]
<1>1. PICK S : st \in [Ways -> Seq(S)]
  BY DEF Streams
<1>2. st[w0] \in Seq(S) /\ st[w0] # <<>>
  BY <1>1 DEF Taken
<1>3. Tail(st[w0]) \in Seq(S) /\ Len(Tail(st[w0])) = Len(st[w0]) - 1
      /\ \A i \in 1 .. Len(Tail(st[w0])) : Tail(st[w0])[i] = st[w0][i + 1]
      /\ Len(st[w0]) \in Nat \ {0} /\ Head(st[w0]) = st[w0][1]
  BY <1>2
<1>4. st2 \in [Ways -> Seq(S)] /\ st2[w0] = Tail(st[w0])
      /\ \A w \in Ways \ {w0} : st2[w] = st[w]
  BY <1>1, <1>3 DEF Taken
<1>5. ASSUME NEW w \in Ways PROVE \E f : ThinnedBy(st, st2, w, f)
  <2>1. CASE w = w0
    <3> DEFINE f == [i \in 1 .. Len(st2[w]) |-> i + 1]
    <3>1. ThinnedBy(st, st2, w, f)
      BY <2>1, <1>3, <1>4 DEF ThinnedBy
    <3> QED  BY <3>1
  <2>2. CASE w # w0
    <3> DEFINE f == [i \in 1 .. Len(st2[w]) |-> i]
    <3>1. ThinnedBy(st, st2, w, f)
      BY <2>2, <1>4, <1>1, LenProperties DEF ThinnedBy
    <3> QED  BY <3>1
  <2> QED  BY <2>1, <2>2
<1> QED  BY <1>3, <1>4, <1>5 DEF Streams, Thinned

\* A member takes the host's list.
LEMMA RosterSteady ==
  ASSUME NEW st, NEW st2, NEW rm, NEW rm2, NEW sh, Streams(st), Steady(st, rm, sh),
         NEW w0 \in Ways, Taken(st, st2, w0), NEW id0,
         \A a \in People \ {w0[2]} : rm2[a] = rm[a],
         Sits(rm, w0[2], w0[1], id0), Sits(rm2, w0[2], w0[1], id0),
         st[w0][1].t = "roster", st[w0][1].id = id0,
         KeysOf(rm2[w0[2]].roster) = KeysOf(st[w0][1].members)
  PROVE  Steady(st2, rm2, sh)
<1> DEFINE h == w0[1]
           b == w0[2]
<1>1. Steady(st2, rm, sh)
  BY TakenAt, ThinnedSteady
<1>2. h \in People /\ b \in People /\ h # b /\ w0 = <<h, b>>
  BY WayEnds
<1>3. \A a \in People : \A g, id : Sits(rm2, a, g, id) <=> Sits(rm, a, g, id)
  BY DEF Sits
<1>4. \A a \in People : \A g, id, k :
        a # b => (Lists(rm2, a, g, id, k) <=> Lists(rm, a, g, id, k))
  BY DEF Sits, Lists
<1>5. \A g, id, k : Lists(rm2, b, g, id, k) <=>
                      g = h /\ id = id0 /\ Names(st[w0][1], id0, k)
  BY DEF Sits, Lists, Names
<1>6. \A a \in People : \A id, k : Lists(rm2, a, a, id, k) <=> Lists(rm, a, a, id, k)
  BY <1>2, <1>4 DEF Sits, Lists
<1>7. \A w \in Ways : \A id, k, j : Over(st2, rm2, w, id, k, j) <=> Over(st2, rm, w, id, k, j)
  BY <1>6, WayEnds DEF Over
<1>8. ASSUME NEW id, NEW k, NEW j \in 1 .. Len(st[w0]), Over(st, rm, w0, id, k, j)
      PROVE  Over(st2, rm2, w0, id, k, j - 1)
  <2>1. \A l \in 1 .. Len(st2[w0]) : l > j - 1 =>
          /\ l + 1 \in 1 .. Len(st[w0]) /\ l + 1 > j
          /\ st2[w0][l] = st[w0][l + 1]
    BY TakenAt
  <2>2. \A l \in 1 .. Len(st2[w0]) : l > j - 1 => ~ Names(st2[w0][l], id, k)
    BY <2>1, <1>8 DEF Over
  <2> QED  BY <2>2, <1>6, <1>8, WayEnds DEF Over
<1>9. GoneOnWay(st2, rm2)
  BY <1>1, <1>7 DEF Steady, GoneOnWay
<1>10. GoneFromList(st2, rm2)
  <2> SUFFICES ASSUME NEW w \in Ways, NEW id, NEW k, NEW j \in 1 .. Len(st2[w]),
                      Lists(rm2, w[2], w[1], id, k), Omits(st2[w][j], id, k)
               PROVE  Over(st2, rm2, w, id, k, j)
    BY DEF GoneFromList
  <2>1. CASE w[2] # b
    <3>1. Lists(rm, w[2], w[1], id, k)
      BY <2>1, <1>4, WayEnds
    <3> QED  BY <3>1, <1>1, <1>7 DEF Steady, GoneFromList
  <2>2. CASE w[2] = b
    <3>1. w = w0 /\ id = id0 /\ Names(st[w0][1], id, k)
      BY <2>2, <1>5, WayEnds
    <3>2. j + 1 \in 1 .. Len(st[w0]) /\ Omits(st[w0][j + 1], id, k)
          /\ 1 \in 1 .. Len(st[w0]) /\ 1 < j + 1
      BY <3>1, TakenAt
    <3>3. Over(st, rm, w0, id, k, j + 1)
      BY <3>1, <3>2 DEF Steady, GoneOnWay
    <3>4. j + 1 - 1 = j
      OBVIOUS
    <3> QED  BY <3>1, <3>2, <3>3, <3>4, <1>8
  <2> QED  BY <2>1, <2>2
<1>11. HeardAndGone(st2, rm2, sh)
  <2> SUFFICES ASSUME NEW a \in People, NEW g \in People, NEW id, NEW k,
                      Sits(rm2, a, g, id), ~ Lists(rm2, a, g, id, k), WasShown(sh, a, k)
               PROVE  /\ ~ Asked(st2, g, id, k)
                      /\ <<g, a>> \in Ways => Over(st2, rm2, <<g, a>>, id, k, 0)
    BY DEF HeardAndGone
  <2>1. Sits(rm, a, g, id)
    BY <1>3
  <2>2. CASE Lists(rm, a, g, id, k)
    <3>1. a = b /\ g = h /\ id = id0
      BY <2>1, <2>2, <1>4 DEF Sits
    <3>2. ~ Asked(st2, g, id, k)
      BY <1>1, <2>1, <2>2 DEF Steady, AsksFresh, Fresh
    <3>3. 1 \in 1 .. Len(st[w0]) /\ Omits(st[w0][1], id, k)
      BY <3>1, <1>5, TakenAt DEF Omits, Names
    <3>4. Over(st, rm, w0, id, k, 1)
      BY <3>1, <3>3, <2>2 DEF Steady, GoneFromList
    <3> QED  BY <3>1, <3>2, <3>3, <3>4, <1>2, <1>8
  <2>3. CASE ~ Lists(rm, a, g, id, k)
    BY <2>1, <2>3, <1>1, <1>7 DEF Steady, HeardAndGone
  <2> QED  BY <2>2, <2>3
<1>12. AsksFresh(st2, rm2, sh)
  <2> SUFFICES ASSUME NEW g \in People, NEW id, NEW k, Asked(st2, g, id, k)
               PROVE  Fresh(st2, rm2, sh, g, id, k)
    BY DEF AsksFresh
  <2>1. Fresh(st2, rm, sh, g, id, k)
    BY <1>1 DEF Steady, AsksFresh
  <2>2. Asked(st, g, id, k)
    BY TakenAt, ThinnedAsked
  <2>3. Over(st, rm, <<g, b>>, id, k, 0) \/ <<g, b>> \notin Ways
    BY <1>2, <2>2 DEF Steady, AsksFresh, Fresh
  <2>4. ~ Lists(rm2, b, g, id, k)
    BY <2>3, <1>2, <1>5, TakenAt DEF Over
  <2> QED  BY <2>1, <2>4, <1>3, <1>4, <1>7 DEF Fresh
<1> QED  BY <1>1, <1>9, <1>10, <1>11, <1>12 DEF Steady

\* A line is shown under a key that is listed.
LEMMA ShownSteady ==
  ASSUME NEW st, NEW rm, NEW sh, NEW sh2, Steady(st, rm, sh),
         \A a \in People : \A k : WasShown(sh2, a, k) =>
            \/ WasShown(sh, a, k)
            \/ \A h, id : Sits(rm, a, h, id) => Lists(rm, a, h, id, k)
  PROVE  Steady(st, rm, sh2)
<1>1. HeardAndGone(st, rm, sh2)
  BY DEF Steady, HeardAndGone
<1>2. AsksFresh(st, rm, sh2)
  BY DEF Steady, AsksFresh, Fresh
<1> QED  BY <1>1, <1>2 DEF Steady

\* Somebody enters a room: one of their own that nobody heard of, or another's
\* with nothing heard yet.
LEMMA EnterSteady ==
  ASSUME NEW st, NEW rm, NEW rm2, NEW sh, NEW sh2, Steady(st, rm, sh), NEW p \in People,
         \A a \in People \ {p} : rm2[a] = rm[a] /\ \A k : WasShown(sh2, a, k) <=> WasShown(sh, a, k),
         \A k : ~ WasShown(sh2, p, k),
         rm[p] = NoRoom, rm2[p] # NoRoom,
         \/ rm2[p].host # p /\ KeysOf(rm2[p].roster) = {}
         \/ /\ rm2[p].host = p
            /\ \A w \in Ways : \A i \in 1 .. Len(st[w]) :
                 st[w][i].t \in {"roster", "join"} => st[w][i].id # rm2[p].id
            /\ \A a, h \in People : ~ Sits(rm, a, h, rm2[p].id)
  PROVE  Steady(st, rm2, sh2)
<1> DEFINE id0 == rm2[p].id
           own == rm2[p].host = p
<1>1. \A a \in People : \A h, id : Sits(rm2, a, h, id) =>
        \/ Sits(rm, a, h, id) /\ a # p
        \/ a = p /\ id = id0 /\ h = rm2[p].host
  BY DEF Sits
<1>2. \A a \in People : \A h, id, k : Lists(rm2, a, h, id, k) =>
        \/ Lists(rm, a, h, id, k) /\ a # p
        \/ a = p /\ id = id0 /\ own /\ h = p
  BY DEF Sits, Lists
<1>3. \A w \in Ways : \A id, k, j : Over(st, rm, w, id, k, j) =>
        Over(st, rm2, w, id, k, j) \/ (own /\ id = id0)
  BY <1>2, WayEnds DEF Over
<1>4. own => /\ \A w \in Ways : \A i \in 1 .. Len(st[w]) : \A k :
                  /\ ~ Names(st[w][i], id0, k) /\ ~ Omits(st[w][i], id0, k)
                  /\ ~ Asks(st[w][i], id0, k)
             /\ \A a, h \in People : ~ Sits(rm, a, h, id0)
  BY DEF Names, Omits, Asks
<1>5. GoneOnWay(st, rm2)
  BY <1>3, <1>4 DEF Steady, GoneOnWay
<1>6. GoneFromList(st, rm2)
  <2> SUFFICES ASSUME NEW w \in Ways, NEW id, NEW k, NEW j \in 1 .. Len(st[w]),
                      Lists(rm2, w[2], w[1], id, k), Omits(st[w][j], id, k)
               PROVE  Over(st, rm2, w, id, k, j)
    BY DEF GoneFromList
  <2>1. ~ (own /\ id = id0)
    BY <1>4
  <2>2. Lists(rm, w[2], w[1], id, k)
    BY <1>2, <2>1, WayEnds
  <2> QED  BY <1>3, <2>1, <2>2 DEF Steady, GoneFromList
<1>7. HeardAndGone(st, rm2, sh2)
  <2> SUFFICES ASSUME NEW a \in People, NEW h \in People, NEW id, NEW k,
                      Sits(rm2, a, h, id), ~ Lists(rm2, a, h, id, k), WasShown(sh2, a, k)
               PROVE  /\ ~ Asked(st, h, id, k)
                      /\ <<h, a>> \in Ways => Over(st, rm2, <<h, a>>, id, k, 0)
    BY DEF HeardAndGone
  <2>1. a # p /\ Sits(rm, a, h, id) /\ WasShown(sh, a, k)
    BY <1>1
  <2>2. ~ Lists(rm, a, h, id, k)
    BY <2>1 DEF Lists, Sits
  <2>3. ~ (own /\ id = id0)
    BY <1>4, <2>1
  <2> QED  BY <1>3, <2>1, <2>2, <2>3 DEF Steady, HeardAndGone
<1>8. AsksFresh(st, rm2, sh2)
  <2> SUFFICES ASSUME NEW h \in People, NEW id, NEW k, Asked(st, h, id, k)
               PROVE  Fresh(st, rm2, sh2, h, id, k)
    BY DEF AsksFresh
  <2>1. Fresh(st, rm, sh, h, id, k)
    BY DEF Steady, AsksFresh
  <2>2. ~ (own /\ id = id0)
    BY <1>4 DEF Asked
  <2> QED  BY <1>1, <1>2, <1>3, <2>1, <2>2 DEF Fresh
<1> QED  BY <1>5, <1>6, <1>7, <1>8 DEF Steady

-----------------------------------------------------------------------------
(***************************************************************************)
(* The streams behind the connections.                                     *)
(***************************************************************************)

WireGood == \E S : wire \in [Ways -> Seq(S)] /\ waiting \in [Ways -> Seq(S)]

\* While frames are carried both ends are open and nothing waits, so that what
\* is written now comes after what waited.
LiveGood ==
  \A w \in Ways : {w[1], w[2]} \in live =>
    w \in open /\ Back(w) \in open /\ waiting[w] = <<>> /\ waiting[Back(w)] = <<>>

\* The streams of the next state.
LEMMA StreamPrime == Stream' = [w \in Ways |-> wire'[w] \o waiting'[w]]
BY DEF Stream

\* They are streams of something.
LEMMA StreamGood == WireGood => Streams(Stream)
<1> SUFFICES ASSUME WireGood PROVE Streams(Stream)
  OBVIOUS
<1>1. PICK S : wire \in [Ways -> Seq(S)] /\ waiting \in [Ways -> Seq(S)]
  BY DEF WireGood
<1>2. \A w \in Ways : wire[w] \o waiting[w] \in Seq(S)
  BY <1>1
<1>3. Stream \in [Ways -> Seq(S)]
  BY <1>2 DEF Stream
<1> QED  BY <1>3 DEF Streams

\* A frame after what waits, or where nothing waits after what is on its way.
LEMMA OneMore ==
  ASSUME NEW T, NEW m \in T, NEW u \in Seq(T), NEW v \in Seq(T), NEW o,
         o = <<>> \/ o = <<m>>
  PROVE  /\ o \in Seq(T) /\ u \o v \in Seq(T) /\ u \o o \in Seq(T) /\ v \o o \in Seq(T)
         /\ o = <<>> => u \o o = u /\ v \o o = v
         /\ o = <<m>> => u \o (v \o o) = Append(u \o v, m)
         /\ o = <<m>> /\ v = <<>> => (u \o o) \o v = Append(u \o v, m)
<1>1. o \in Seq(T)
  <2>1. <<>> \in Seq(T) /\ <<m>> \in Seq(T)
    OBVIOUS
  <2> QED  BY <2>1
<1>2. u \o v \in Seq(T) /\ u \o o \in Seq(T) /\ v \o o \in Seq(T)
  BY <1>1, ConcatProperties
<1>3. \A s \in Seq(T) : s \o <<>> = s /\ s \o <<m>> = Append(s, m)
  OBVIOUS
<1>4. o = <<m>> => u \o (v \o o) = Append(u \o v, m)
  <2>1. u \o Append(v, m) = Append(u \o v, m)
    OBVIOUS
  <2> QED  BY <1>3, <2>1
<1>5. o = <<m>> /\ v = <<>> => (u \o o) \o v = Append(u \o v, m)
  BY <1>2, <1>3
<1> QED  BY <1>1, <1>2, <1>3, <1>4, <1>5

\* The first frame taken from what is on its way, before what waits.
LEMMA OneLess ==
  ASSUME NEW T, NEW u \in Seq(T), NEW v \in Seq(T), u # <<>>
  PROVE  /\ Tail(u) \in Seq(T) /\ Tail(u) \o v = Tail(u \o v)
         /\ u \o v # <<>> /\ (u \o v)[1] = Head(u)
<1>1. Len(u) \in Nat \ {0} /\ Len(v) \in Nat
  OBVIOUS
<1>2. /\ Tail(u) \in Seq(T) /\ Len(Tail(u)) = Len(u) - 1
      /\ \A i \in 1 .. Len(u) - 1 : Tail(u)[i] = u[i + 1]
      /\ Head(u) = u[1]
  BY <1>1
<1>3. /\ u \o v \in Seq(T) /\ Len(u \o v) = Len(u) + Len(v)
      /\ \A i \in 1 .. Len(u) + Len(v) :
           (u \o v)[i] = IF i <= Len(u) THEN u[i] ELSE v[i - Len(u)]
  BY <1>1, ConcatProperties
<1>4. u \o v # <<>> /\ (u \o v)[1] = Head(u)
  BY <1>1, <1>2, <1>3
<1>5. /\ Tail(u \o v) \in Seq(T) /\ Len(Tail(u \o v)) = Len(u) + Len(v) - 1
      /\ \A i \in 1 .. Len(u) + Len(v) - 1 : Tail(u \o v)[i] = (u \o v)[i + 1]
  BY <1>1, <1>3, <1>4
<1>6. /\ Tail(u) \o v \in Seq(T) /\ Len(Tail(u) \o v) = Len(u) - 1 + Len(v)
      /\ \A i \in 1 .. Len(u) + Len(v) - 1 :
           (Tail(u) \o v)[i] = IF i <= Len(u) - 1 THEN Tail(u)[i] ELSE v[i - (Len(u) - 1)]
  BY <1>1, <1>2, ConcatProperties
<1>7. \A i \in 1 .. Len(u) + Len(v) - 1 : Tail(u \o v)[i] = (Tail(u) \o v)[i]
  <2> TAKE i \in 1 .. Len(u) + Len(v) - 1
  <2>1. Tail(u \o v)[i] = IF i + 1 <= Len(u) THEN u[i + 1] ELSE v[i + 1 - Len(u)]
    BY <1>1, <1>3, <1>5
  <2>2. i + 1 - Len(u) = i - (Len(u) - 1) /\ (i + 1 <= Len(u) <=> i <= Len(u) - 1)
    BY <1>1
  <2> QED  BY <1>1, <1>2, <1>6, <2>1, <2>2
<1>8. Tail(u) \o v = Tail(u \o v)
  BY <1>1, <1>5, <1>6, <1>7, SeqEqual
<1> QED  BY <1>2, <1>4, <1>8

\* What is sent, `unread` being left of what arrived.
AtMost(out, m) == \A q \in People : out[q] = <<>> \/ out[q] = <<m>>
Left(unread) == [w \in Ways |-> unread[w] \o waiting[w]]

\* Pool::send: one frame more along some ways, at the end of each.
LEMMA SendGrows ==
  ASSUME NEW p \in People, NEW STATE out, NEW STATE m, NEW STATE unread, AtMost(out, m),
         NEW S, unread \in [Ways -> Seq(S)], waiting \in [Ways -> Seq(S)],
         LiveGood, Send(p, out, unread)
  PROVE  /\ WireGood'
         /\ GrownBy(Left(unread), Stream', p, m)
         /\ \A w \in Ways : {w[1], w[2]} \in live => waiting'[w] = <<>>
<1>1. PICK swallowed :
        /\ wire' = [w \in Ways |->
             IF w[1] = p /\ w \in open /\ {p, w[2]} \in live
               THEN unread[w] \o out[w[2]] ELSE unread[w]]
        /\ waiting' = [w \in Ways |->
             IF /\ w[1] = p
                /\ ~ (w[1] = p /\ w \in open /\ {p, w[2]} \in live)
                /\ w[2] \notin swallowed
               THEN Held(waiting[w], out[w[2]]) ELSE waiting[w]]
  BY ZenonT(30) DEF Send
<1> DEFINE T == S \cup {m}
<1>2. ASSUME NEW w \in Ways
      PROVE  /\ wire'[w] \in Seq(T) /\ waiting'[w] \in Seq(T)
             /\ LET u == unread[w] \o waiting[w]
                    v == wire'[w] \o waiting'[w]
                IN  v = u \/ (w[1] = p /\ v = Append(u, m))
             /\ {w[1], w[2]} \in live => waiting'[w] = <<>>
  <2>1. /\ unread[w] \in Seq(T) /\ waiting[w] \in Seq(T)
        /\ out[w[2]] = <<>> \/ out[w[2]] = <<m>>
    BY WayEnds DEF AtMost
  <2> DEFINE u == unread[w]
             v == waiting[w]
             o == out[w[2]]
  <2>3. /\ u \o v \in Seq(T) /\ u \o o \in Seq(T) /\ v \o o \in Seq(T)
        /\ o = <<>> => u \o o = u /\ v \o o = v
        /\ o = <<m>> => (u \o (v \o o) = Append(u \o v, m))
        /\ o = <<m>> /\ v = <<>> => ((u \o o) \o v = Append(u \o v, m))
    <3>1. m \in T /\ u \in Seq(T) /\ v \in Seq(T) /\ (o = <<>> \/ o = <<m>>)
      BY <2>1
    <3> HIDE DEF T, u, v, o
    <3>2. u \o v \in Seq(T) /\ u \o o \in Seq(T) /\ v \o o \in Seq(T)
      BY <3>1, OneMore, Zenon
    <3>3. o = <<>> => u \o o = u /\ v \o o = v
      BY <3>1, OneMore
    <3>4. o = <<m>> => u \o (v \o o) = Append(u \o v, m)
      BY <3>1, OneMore
    <3>5. o = <<m>> /\ v = <<>> => (u \o o) \o v = Append(u \o v, m)
      BY <3>1, OneMore
    <3> QED  BY <3>2, <3>3, <3>4, <3>5
  <2>4. {w[1], w[2]} \in live => waiting[w] = <<>> /\ w \in open
    BY DEF LiveGood
  <2>5. CASE w[1] = p /\ w \in open /\ {p, w[2]} \in live
    <3>1. wire'[w] = u \o o /\ waiting'[w] = v /\ v = <<>>
      BY <1>1, <2>4, <2>5
    <3> QED  BY <2>1, <2>3, <2>5, <3>1
  <2>6. CASE ~ (w[1] = p /\ w \in open /\ {p, w[2]} \in live)
    <3>1. /\ wire'[w] = u
          /\ waiting'[w] = v \/ (w[1] = p /\ waiting'[w] = Held(v, o))
      BY <1>1, <2>6
    <3>2. Held(v, o) = v \/ Held(v, o) = v \o o
      BY DEF Held
    <3>3. \/ waiting'[w] = v
          \/ w[1] = p /\ waiting'[w] = v \o o
      BY <3>1, <3>2
    <3>4. {w[1], w[2]} \in live => v = <<>> /\ w[1] # p /\ waiting'[w] = v
      BY <2>4, <2>6, <3>1
    <3> QED  BY <2>1, <2>3, <3>1, <3>3, <3>4
  <2> QED  BY <2>5, <2>6
<1>3. wire' \in [Ways -> Seq(T)] /\ waiting' \in [Ways -> Seq(T)]
  <2>1. \A w \in Ways : wire'[w] \in Seq(T) /\ waiting'[w] \in Seq(T)
    BY <1>2
  <2> HIDE DEF T
  <2> QED  BY <1>1, <2>1
<1>4. WireGood'
  BY <1>3 DEF WireGood
<1>5. GrownBy(Left(unread), Stream', p, m)
  BY <1>2, StreamPrime DEF GrownBy, Left
<1> QED  BY <1>2, <1>4, <1>5

\* A frame said, nothing being taken.
LEMMA SpokenGrows ==
  ASSUME NEW p \in People, NEW STATE out, NEW STATE m, AtMost(out, m),
         WireGood, LiveGood, Send(p, out, wire), live' = live, open' = open
  PROVE  /\ WireGood' /\ LiveGood' /\ GrownBy(Stream, Stream', p, m)
<1>1. PICK S : wire \in [Ways -> Seq(S)] /\ waiting \in [Ways -> Seq(S)]
  BY DEF WireGood
<1>2. /\ WireGood' /\ GrownBy(Left(wire), Stream', p, m)
      /\ \A w \in Ways : {w[1], w[2]} \in live => waiting'[w] = <<>>
  BY <1>1, SendGrows
<1>3. Left(wire) = Stream
  BY DEF Left, Stream
<1>4. LiveGood'
  <2>1. \A w \in Ways : {Back(w)[1], Back(w)[2]} = {w[1], w[2]} /\ Back(w) \in Ways
    BY WayEnds DEF Back
  <2> QED  BY <1>2, <2>1 DEF LiveGood
<1> QED  BY <1>2, <1>3, <1>4

\* A frame said in answer to one taken.
LEMMA AnsweredGrows ==
  ASSUME NEW p \in People, NEW q \in People, <<q, p>> \in Ways, wire[<<q, p>>] # <<>>,
         NEW STATE out, NEW STATE m, AtMost(out, m),
         WireGood, LiveGood, Send(p, out, Unread(q, p)), live' = live, open' = open
  PROVE  /\ WireGood' /\ LiveGood'
         /\ Taken(Stream, Left(Unread(q, p)), <<q, p>>)
         /\ Stream[<<q, p>>][1] = Heard(q, p)
         /\ GrownBy(Left(Unread(q, p)), Stream', p, m)
<1>1. PICK S : wire \in [Ways -> Seq(S)] /\ waiting \in [Ways -> Seq(S)]
  BY DEF WireGood
<1> DEFINE w0 == <<q, p>>
<1>2. /\ wire[w0] \in Seq(S) /\ waiting[w0] \in Seq(S) /\ wire[w0] # <<>>
  BY <1>1
<1>3. /\ Tail(wire[w0]) \in Seq(S)
      /\ Tail(wire[w0]) \o waiting[w0] = Tail(wire[w0] \o waiting[w0])
      /\ wire[w0] \o waiting[w0] # <<>>
      /\ (wire[w0] \o waiting[w0])[1] = Head(wire[w0])
  BY ZenonT(30), <1>2, OneLess
<1>4. Unread(q, p) \in [Ways -> Seq(S)]
  BY <1>1, <1>3 DEF Unread
<1>5. /\ WireGood' /\ GrownBy(Left(Unread(q, p)), Stream', p, m)
      /\ \A w \in Ways : {w[1], w[2]} \in live => waiting'[w] = <<>>
  BY <1>1, <1>4, SendGrows
<1>6. LiveGood'
  <2>1. \A w \in Ways : {Back(w)[1], Back(w)[2]} = {w[1], w[2]} /\ Back(w) \in Ways
    BY WayEnds DEF Back
  <2> QED  BY <1>5, <2>1 DEF LiveGood
<1>7. Left(Unread(q, p)) = [Stream EXCEPT ![w0] = Tail(@)]
  <2>1. \A w \in Ways : Unread(q, p)[w] = IF w = w0 THEN Tail(wire[w]) ELSE wire[w]
    BY <1>1 DEF Unread
  <2> QED  BY <1>3, <2>1 DEF Left, Stream
<1>8. Stream[w0] = wire[w0] \o waiting[w0]
  BY DEF Stream
<1> QED  BY <1>3, <1>5, <1>6, <1>7, <1>8 DEF Taken, Heard

\* What is left of b, in its order.
Within(a, b) ==
  \E f : /\ f \in [1 .. Len(a) -> 1 .. Len(b)]
         /\ \A i, j \in 1 .. Len(a) : i < j => f[i] < f[j]
         /\ \A i \in 1 .. Len(a) : a[i] = b[f[i]]

\* Frames lost: the end of what is on its way, all that waits, or both.
LEMMA CutThins ==
  ASSUME NEW T, NEW s \in Seq(T), NEW v \in Seq(T), NEW t \in Prefixes(s), NEW x \in {v, <<>>}
  PROVE  /\ t \in Seq(T)
         /\ Within(t \o x, s \o v)
<1>1. PICK l \in 0 .. Len(s) : t = SubSeq(s, 1, l)
  BY DEF Prefixes
<1>2. Len(s) \in Nat /\ Len(v) \in Nat /\ l \in Nat /\ l <= Len(s)
  BY LenProperties
<1>3. t \in Seq(T) /\ Len(t) = l /\ \A i \in 1 .. l : t[i] = s[i]
  <2>1. \A i \in 1 .. l : s[i] \in T
    BY <1>2, ElementOfSeq
  <2> QED  BY <1>1, <1>2, <2>1, SubSeqProperties
<1>4. x \in Seq(T) /\ (x = v \/ x = <<>>)
  <2>1. <<>> \in Seq(T) /\ v \in Seq(T)
    OBVIOUS
  <2>2. x = v \/ x = <<>>
    OBVIOUS
  <2> QED  BY <2>1, <2>2
<1>5. Len(x) \in Nat /\ (x = v => Len(x) = Len(v)) /\ (x = <<>> => Len(x) = 0)
  BY <1>2, <1>4
<1>6. /\ Len(t \o x) = l + Len(x)
      /\ \A i \in 1 .. l + Len(x) : (t \o x)[i] = IF i <= l THEN t[i] ELSE x[i - l]
  BY ZenonT(30), <1>3, <1>4, ConcatProperties
<1>7. /\ Len(s \o v) = Len(s) + Len(v)
      /\ \A i \in 1 .. Len(s) + Len(v) :
           (s \o v)[i] = IF i <= Len(s) THEN s[i] ELSE v[i - Len(s)]
  BY ConcatProperties
<1> DEFINE f == [i \in 1 .. l + Len(x) |-> IF i <= l THEN i ELSE i - l + Len(s)]
<1>8. \A i \in 1 .. l + Len(x) :
        /\ f[i] \in 1 .. Len(s) + Len(v)
        /\ (t \o x)[i] = (s \o v)[f[i]]
  <2> TAKE i \in 1 .. l + Len(x)
  <2>1. CASE i <= l
    BY <2>1, <1>2, <1>3, <1>5, <1>6, <1>7
  <2>2. CASE i > l
    <3>1. x = v /\ f[i] = i - l + Len(s) /\ i - l \in 1 .. Len(v)
      BY <2>2, <1>2, <1>4, <1>5
    <3>2. f[i] \in 1 .. Len(s) + Len(v) /\ ~ (f[i] <= Len(s)) /\ f[i] - Len(s) = i - l
      BY <3>1, <1>2
    <3>3. (s \o v)[f[i]] = v[i - l]
      BY <3>2, <1>7
    <3>4. (t \o x)[i] = x[i - l]
      BY <2>2, <1>2, <1>6
    <3> QED  BY <3>1, <3>2, <3>3, <3>4
  <2>3. i <= l \/ i > l
    BY <1>2, <1>5
  <2> QED  BY <2>1, <2>2, <2>3
<1>9. \A i, j \in 1 .. l + Len(x) : i < j => f[i] < f[j]
  BY <1>2, <1>5
<1>10. f \in [1 .. Len(t \o x) -> 1 .. Len(s \o v)]
  BY <1>6, <1>7, <1>8
<1>11. /\ \A i, j \in 1 .. Len(t \o x) : i < j => f[i] < f[j]
       /\ \A i \in 1 .. Len(t \o x) : (t \o x)[i] = (s \o v)[f[i]]
  BY <1>6, <1>8, <1>9
<1> HIDE DEF f
<1> QED  BY <1>3, <1>10, <1>11 DEF Within

\* A step by which frames are only lost.
Loss ==
  /\ wire' = [w \in Ways |-> wire'[w]] /\ waiting' = [w \in Ways |-> waiting'[w]]
  /\ \A w \in Ways : \E t \in Prefixes(wire[w]) :
       \/ wire'[w] = t /\ waiting'[w] \in {waiting[w], <<>>}
       \/ t = <<>> /\ wire'[w] = waiting[w] /\ waiting'[w] = <<>>

\* Frames lost leave the others in their order.
LEMMA LossThins ==
  ASSUME WireGood, Loss
  PROVE  WireGood' /\ Thinned(Stream, Stream')
<1>1. PICK S : wire \in [Ways -> Seq(S)] /\ waiting \in [Ways -> Seq(S)]
  BY DEF WireGood
<1>2. ASSUME NEW w \in Ways
      PROVE  /\ wire'[w] \in Seq(S) /\ waiting'[w] \in Seq(S)
             /\ \E f : ThinnedBy(Stream, Stream', w, f)
  <2>1. wire[w] \in Seq(S) /\ waiting[w] \in Seq(S) /\ <<>> \in Seq(S)
    BY <1>1
  <2>2. PICK t \in Prefixes(wire[w]) :
          \/ wire'[w] = t /\ waiting'[w] \in {waiting[w], <<>>}
          \/ t = <<>> /\ wire'[w] = waiting[w] /\ waiting'[w] = <<>>
    BY DEF Loss
  <2>3. t \in Seq(S)
    <3>1. waiting[w] \in {waiting[w], <<>>}
      OBVIOUS
    <3> QED  BY <2>1, <3>1, CutThins
  <2>4. PICK x \in {waiting[w], <<>>} : wire'[w] \o waiting'[w] = t \o x
    <3>1. waiting[w] \o <<>> = <<>> \o waiting[w]
      BY <2>1, ConcatEmptySeq
    <3>2. CASE t = <<>> /\ wire'[w] = waiting[w] /\ waiting'[w] = <<>>
      <4>1. wire'[w] \o waiting'[w] = t \o waiting[w]
        BY <3>1, <3>2
      <4> QED  BY <4>1
    <3>3. CASE wire'[w] = t /\ waiting'[w] \in {waiting[w], <<>>}
      <4>1. wire'[w] \o waiting'[w] = t \o waiting'[w]
        BY <3>3
      <4> QED  BY <4>1, <3>3
    <3> QED  BY <2>2, <3>2, <3>3
  <2>5. Stream[w] = wire[w] \o waiting[w] /\ Stream'[w] = t \o x
    BY <2>4, StreamPrime DEF Stream
  <2>6. Within(t \o x, wire[w] \o waiting[w])
    BY <2>1, CutThins, Zenon
  <2>7. \E f : ThinnedBy(Stream, Stream', w, f)
    BY <2>5, <2>6 DEF ThinnedBy, Within
  <2>8. wire'[w] \in Seq(S) /\ waiting'[w] \in Seq(S)
    BY <2>1, <2>2, <2>3
  <2> QED  BY <2>7, <2>8
<1>3. wire' \in [Ways -> Seq(S)] /\ waiting' \in [Ways -> Seq(S)]
  BY SMTT(30), <1>2 DEF Loss
<1> QED  BY <1>2, <1>3 DEF WireGood, Thinned

\* All of it, and none of it, is a part of what is on its way.
LEMMA WholeIsPrefix ==
  ASSUME NEW S, NEW s \in Seq(S)
  PROVE  s \in Prefixes(s) /\ <<>> \in Prefixes(s)
<1>1. Len(s) \in 0 .. Len(s) /\ 0 \in 0 .. Len(s)
  BY LenProperties
<1>2. SubSeq(s, 1, Len(s)) = s /\ SubSeq(s, 1, 0) = <<>>
  OBVIOUS
<1> QED  BY <1>1, <1>2 DEF Prefixes

-----------------------------------------------------------------------------
(***************************************************************************)
(* Connections made and lost.                                              *)
(***************************************************************************)

\* The two ways between p and q.
LEMMA PairOf ==
  ASSUME NEW p, NEW q, NEW w \in Ways
  PROVE  /\ {w[1], w[2]} = {p, q} <=> w = <<p, q>> \/ w = <<q, p>>
         /\ {Back(w)[1], Back(w)[2]} = {w[1], w[2]}
         /\ Back(w) = <<p, q>> <=> w = <<q, p>>
<1>1. w = <<w[1], w[2]>> /\ w[1] # w[2]
  BY WayEnds
<1>2. Back(w) = <<w[2], w[1]>>
  BY DEF Back
<1>3. {w[1], w[2]} = {p, q} <=> (w[1] = p /\ w[2] = q) \/ (w[1] = q /\ w[2] = p)
  BY <1>1
<1>4. \A a, b : w = <<a, b>> <=> w[1] = a /\ w[2] = b
  BY <1>1
<1> QED  BY <1>1, <1>2, <1>3, <1>4

\* What happens to connections only loses frames.
LEMMA ConnectLoses ==
  ASSUME WireGood, LiveGood, NEW p \in People, NEW q \in People, Connect(p, q)
  PROVE  Loss /\ LiveGood'
<1>1. PICK S : wire \in [Ways -> Seq(S)] /\ waiting \in [Ways -> Seq(S)]
  BY DEF WireGood
<1> DEFINE w0 == <<p, q>>
           w1 == <<q, p>>
<1>2. /\ w0 \in Ways /\ w1 \in Ways /\ Back(w0) = w1
      /\ open' = open \cup {w0, w1} /\ live' = live \cup {{p, q}}
      /\ wire' = [wire EXCEPT ![w0] = waiting[w0], ![w1] = waiting[w1]]
      /\ waiting' = [waiting EXCEPT ![w0] = <<>>, ![w1] = <<>>]
  BY WayEnds DEF Connect, Back
<1>3. \A w \in Ways : /\ wire'[w] = IF w \in {w0, w1} THEN waiting[w] ELSE wire[w]
                      /\ waiting'[w] = IF w \in {w0, w1} THEN <<>> ELSE waiting[w]
  BY <1>1, <1>2
<1>4. \A w \in Ways : wire[w] \in Prefixes(wire[w]) /\ <<>> \in Prefixes(wire[w])
  BY <1>1, WholeIsPrefix
<1>5. wire' = [w \in Ways |-> wire'[w]] /\ waiting' = [w \in Ways |-> waiting'[w]]
  BY <1>1, <1>2
<1>6. Loss
  BY <1>3, <1>4, <1>5 DEF Loss
<1>7. LiveGood'
  <2> SUFFICES ASSUME NEW w \in Ways, {w[1], w[2]} \in live'
               PROVE  /\ w \in open' /\ Back(w) \in open'
                      /\ waiting'[w] = <<>> /\ waiting'[Back(w)] = <<>>
    BY DEF LiveGood
  <2>1. Back(w) \in Ways
    BY WayEnds
  <2>2. CASE {w[1], w[2]} = {p, q}
    <3>1. w \in {w0, w1} /\ Back(w) \in {w0, w1}
      BY ZenonT(30), <2>2, PairOf
    <3> QED  BY <1>2, <1>3, <2>1, <3>1
  <2>3. CASE {w[1], w[2]} # {p, q}
    <3>1. w \in open /\ Back(w) \in open /\ waiting[w] = <<>> /\ waiting[Back(w)] = <<>>
      BY <1>2, <2>3 DEF LiveGood
    <3> QED  BY <1>2, <1>3, <2>1, <3>1
  <2> QED  BY <2>2, <2>3
<1> QED  BY <1>6, <1>7

\* A circuit that dies,
LEMMA BreakLoses ==
  ASSUME WireGood, LiveGood, NEW p \in People, NEW q \in People, Break(p, q)
  PROVE  Loss /\ LiveGood'
<1>1. PICK S : wire \in [Ways -> Seq(S)] /\ waiting \in [Ways -> Seq(S)]
  BY DEF WireGood
<1> DEFINE w0 == <<p, q>>
           w1 == <<q, p>>
<1>2. PICK there \in Prefixes(wire[w0]), back \in Prefixes(wire[w1]) :
        wire' = [wire EXCEPT ![w0] = there, ![w1] = back]
  BY DEF Break
<1>3. waiting' = waiting /\ open' = open /\ live' = live \ {{p, q}}
  BY DEF Break
<1>4. \A w \in Ways : wire'[w] = IF w = w1 THEN back ELSE IF w = w0 THEN there ELSE wire[w]
  BY <1>1, <1>2
<1>5. \A w \in Ways : wire'[w] \in Prefixes(wire[w])
  BY <1>1, <1>4, WholeIsPrefix
<1>6. wire' = [w \in Ways |-> wire'[w]] /\ waiting' = [w \in Ways |-> waiting'[w]]
  BY <1>1, <1>2, <1>3
<1>7. Loss
  BY <1>3, <1>5, <1>6 DEF Loss
<1>8. LiveGood'
  BY <1>3 DEF LiveGood
<1> QED  BY <1>7, <1>8

\* a connection let go,
LEMMA LetGoLoses ==
  ASSUME WireGood, LiveGood, NEW p \in People, NEW q \in People, LetGo(p, q)
  PROVE  Loss /\ LiveGood'
<1>1. PICK S : wire \in [Ways -> Seq(S)] /\ waiting \in [Ways -> Seq(S)]
  BY DEF WireGood
<1> DEFINE w0 == <<p, q>>
           w1 == <<q, p>>
<1>2. /\ open' = open \ {w0} /\ live' = live \ {{p, q}}
      /\ wire' = [wire EXCEPT ![w1] = <<>>] /\ waiting' = [waiting EXCEPT ![w0] = <<>>]
  BY DEF LetGo
<1>3. \A w \in Ways : /\ wire'[w] = IF w = w1 THEN <<>> ELSE wire[w]
                      /\ waiting'[w] = IF w = w0 THEN <<>> ELSE waiting[w]
  BY <1>1, <1>2
<1>4. \A w \in Ways : wire'[w] \in Prefixes(wire[w])
  BY <1>1, <1>3, WholeIsPrefix
<1>5. wire' = [w \in Ways |-> wire'[w]] /\ waiting' = [w \in Ways |-> waiting'[w]]
  BY <1>1, <1>2
<1>6. Loss
  BY <1>3, <1>4, <1>5 DEF Loss
<1>7. LiveGood'
  <2> SUFFICES ASSUME NEW w \in Ways, {w[1], w[2]} \in live'
               PROVE  /\ w \in open' /\ Back(w) \in open'
                      /\ waiting'[w] = <<>> /\ waiting'[Back(w)] = <<>>
    BY DEF LiveGood
  <2>1. Back(w) \in Ways
    BY WayEnds
  <2>2. w # w0 /\ Back(w) # w0
    BY <1>2, PairOf
  <2>3. w \in open /\ Back(w) \in open /\ waiting[w] = <<>> /\ waiting[Back(w)] = <<>>
    BY <1>2 DEF LiveGood
  <2> QED  BY <1>2, <1>3, <2>1, <2>2, <2>3
<1> QED  BY <1>6, <1>7

\* a person killed.
LEMMA KilledLoses ==
  ASSUME WireGood, LiveGood, NEW p \in People, Killed(p)
  PROVE  Loss /\ LiveGood'
<1>1. PICK S : wire \in [Ways -> Seq(S)] /\ waiting \in [Ways -> Seq(S)]
  BY DEF WireGood
<1>2. /\ open' = {w \in open : w[1] # p} /\ live' = {c \in live : p \notin c}
      /\ waiting' = [w \in Ways |-> IF w[1] = p THEN <<>> ELSE waiting[w]]
  BY DEF Killed
<1>3. PICK some \in [ContactsOf(p) -> UNION {Prefixes(wire[w]) : w \in Ways}] :
        /\ \A q \in ContactsOf(p) : some[q] \in Prefixes(wire[<<p, q>>])
        /\ wire' = [w \in Ways |-> CASE w[1] = p -> some[w[2]]
                                     [] w[2] = p -> <<>>
                                     [] OTHER -> wire[w]]
  BY DEF Killed
<1>4. ASSUME NEW w \in Ways PROVE wire'[w] \in Prefixes(wire[w])
  <2>1. w = <<w[1], w[2]>> /\ w[1] \in People /\ w[2] \in People /\ w[1] # w[2]
    BY WayEnds
  <2>2. wire'[w] = IF w[1] = p THEN some[w[2]] ELSE IF w[2] = p THEN <<>> ELSE wire[w]
    BY <1>3, <2>1
  <2>3. CASE w[1] = p
    <3>1. w[2] \in ContactsOf(p) /\ w = <<p, w[2]>>
      BY <2>1, <2>3 DEF ContactsOf
    <3> QED  BY <1>3, <2>2, <2>3, <3>1
  <2>4. CASE w[1] # p
    BY <1>1, <2>2, <2>4, WholeIsPrefix
  <2> QED  BY <2>3, <2>4
<1>5. wire' = [w \in Ways |-> wire'[w]] /\ waiting' = [w \in Ways |-> waiting'[w]]
  BY <1>2, <1>3
<1>6. \A w \in Ways : waiting'[w] \in {waiting[w], <<>>}
  BY <1>2
<1>7. Loss
  BY <1>4, <1>5, <1>6 DEF Loss
<1>8. LiveGood'
  <2> SUFFICES ASSUME NEW w \in Ways, {w[1], w[2]} \in live'
               PROVE  /\ w \in open' /\ Back(w) \in open'
                      /\ waiting'[w] = <<>> /\ waiting'[Back(w)] = <<>>
    BY DEF LiveGood
  <2>1. Back(w) \in Ways /\ Back(w)[1] = w[2]
    BY WayEnds DEF Back
  <2>2. w[1] # p /\ w[2] # p
    BY <1>2
  <2>3. w \in open /\ Back(w) \in open /\ waiting[w] = <<>> /\ waiting[Back(w)] = <<>>
    BY <1>2 DEF LiveGood
  <2> QED  BY <1>2, <2>1, <2>2, <2>3
<1> QED  BY <1>7, <1>8

\* A frame said on noticing that a connection has ended.
LEMMA NoticedGrows ==
  ASSUME NEW p \in People, NEW q \in People, NEW STATE out, NEW STATE m, AtMost(out, m),
         WireGood, LiveGood, Send(p, out, wire), live' = live,
         open' = open \ {<<p, q>>}, {p, q} \notin live
  PROVE  /\ WireGood' /\ LiveGood' /\ GrownBy(Stream, Stream', p, m)
<1>1. PICK S : wire \in [Ways -> Seq(S)] /\ waiting \in [Ways -> Seq(S)]
  BY DEF WireGood
<1>2. /\ WireGood' /\ GrownBy(Left(wire), Stream', p, m)
      /\ \A w \in Ways : {w[1], w[2]} \in live => waiting'[w] = <<>>
  BY <1>1, SendGrows
<1>3. Left(wire) = Stream
  BY DEF Left, Stream
<1>4. LiveGood'
  <2> SUFFICES ASSUME NEW w \in Ways, {w[1], w[2]} \in live'
               PROVE  /\ w \in open' /\ Back(w) \in open'
                      /\ waiting'[w] = <<>> /\ waiting'[Back(w)] = <<>>
    BY DEF LiveGood
  <2>1. Back(w) \in Ways /\ {Back(w)[1], Back(w)[2]} = {w[1], w[2]}
    BY WayEnds, PairOf
  <2>2. w # <<p, q>> /\ Back(w) # <<p, q>>
    BY PairOf
  <2> QED  BY <1>2, <2>1, <2>2 DEF LiveGood
<1> QED  BY <1>2, <1>3, <1>4

-----------------------------------------------------------------------------
(***************************************************************************)
(* The inductive invariant.                                                *)
(***************************************************************************)

\* What was heard under a key that is listed is marked under it.
Window(s) == Settled(s) /\ Cardinality(s.above) <= WINDOW

HeardGood(r, lines) ==
  r # NoRoom =>
    /\ \A k \in DOMAIN r.last : Window(r.last[k])
    /\ \A k, n : <<k, n>> \in lines /\ k \in KeysOf(r.roster) =>
         n \in Nat /\ k \in DOMAIN r.last /\ Has(r.last[k], n)

AllHeardGood(rm, sh) == \A p \in People : HeardGood(rm[p], sh[p])

Plain ==
  /\ made \in [People -> Nat]
  /\ invite = [p \in People |-> invite[p]]
  /\ shown = [p \in People |-> shown[p]]
  /\ \A p \in People : \A k : WasShown(shown, p, k) => k \in AnyMade(made)

\* The inductive invariant of the theorem on lines.
HeardInv ==
  /\ RoomsFit /\ Plain /\ WireGood /\ LiveGood
  /\ FramesGood(Stream, made) /\ RoomsGood(room, made) /\ InvitesGood(invite, made)
  /\ AllHeardGood(room, shown)
  /\ Steady(Stream, room, shown)
  /\ ShownOnce

\* What is said of every frame holds of those that are left,
LEMMA ThinnedFrames ==
  ASSUME NEW st, NEW st2, NEW md, Thinned(st, st2), FramesGood(st, md)
  PROVE  FramesGood(st2, md)
<1> SUFFICES ASSUME NEW w \in Ways, NEW i \in 1 .. Len(st2[w])
             PROVE  FrameGood(md, w, st2[w][i])
  BY DEF FramesGood
<1>1. PICK f : ThinnedBy(st, st2, w, f)
  BY DEF Thinned
<1>2. f[i] \in 1 .. Len(st[w]) /\ st2[w][i] = st[w][f[i]]
  BY <1>1 DEF ThinnedBy
<1> QED  BY <1>2 DEF FramesGood

\* and of one more it holds of.
LEMMA GrownFrames ==
  ASSUME NEW st, NEW st2, NEW md, NEW p, NEW m, Streams(st), FramesGood(st, md),
         GrownBy(st, st2, p, m), \A w \in Ways : w[1] = p => FrameGood(md, w, m)
  PROVE  FramesGood(st2, md)
<1> SUFFICES ASSUME NEW w \in Ways, NEW i \in 1 .. Len(st2[w])
             PROVE  FrameGood(md, w, st2[w][i])
  BY DEF FramesGood
<1>1. \/ i \in 1 .. Len(st[w]) /\ st2[w][i] = st[w][i]
      \/ w[1] = p /\ st2[w][i] = m
  BY GrownAt
<1> QED  BY <1>1 DEF FramesGood

\* What was made stays made.
LEMMA StaysMade ==
  ASSUME NEW md \in [People -> Nat], NEW md2 \in [People -> Nat],
         \A x \in People : md[x] <= md2[x]
  PROVE  /\ \A x \in People : Made(md, x) \subseteq Made(md2, x)
         /\ AnyMade(md) \subseteq AnyMade(md2)
         /\ \A st : FramesGood(st, md) => FramesGood(st, md2)
         /\ \A p \in People : \A r : RoomGood(md, p, r) => RoomGood(md2, p, r)
         /\ \A inv : InvitesGood(inv, md) => InvitesGood(inv, md2)
<1>1. \A x \in People : Made(md, x) \subseteq Made(md2, x)
  BY DEF Made
<1>2. AnyMade(md) \subseteq AnyMade(md2)
  BY <1>1 DEF AnyMade
<1>3. \A w \in Ways : \A m : FrameGood(md, w, m) => FrameGood(md2, w, m)
  BY <1>1, <1>2, WayEnds DEF FrameGood
<1>4. \A st : FramesGood(st, md) => FramesGood(st, md2)
  BY <1>3 DEF FramesGood
<1>5. \A p \in People : ContactsOf(p) \cup {p} \subseteq People
  BY DEF ContactsOf
<1>6. \A p \in People : \A r : RoomGood(md, p, r) => RoomGood(md2, p, r)
  BY <1>1, <1>2, <1>5 DEF RoomGood
<1>7. \A inv : InvitesGood(inv, md) => InvitesGood(inv, md2)
  BY <1>1, <1>5 DEF InvitesGood
<1> QED  BY <1>1, <1>2, <1>4, <1>6, <1>7

\* How the parts of the invariant read in the next state.
LEMMA InvPrime ==
  /\ FramesGood(Stream, made)' <=> FramesGood(Stream', made')
  /\ RoomsGood(room, made)' <=> RoomsGood(room', made')
  /\ InvitesGood(invite, made)' <=> InvitesGood(invite', made')
  /\ AllHeardGood(room, shown)' <=> AllHeardGood(room', shown')
  /\ Steady(Stream, room, shown)' <=> Steady(Stream', room', shown')
OBVIOUS

\* Frames are ready to be answered: U is what is left of them.
Ready(U) ==
  /\ WireGood' /\ LiveGood'
  /\ Streams(U) /\ FramesGood(U, made) /\ Steady(U, room, shown)

\* The last part of every step: what is sent after the rooms have changed.
LEMMA Closes ==
  ASSUME HeardInv, RoomsFit', NEW p \in People, NEW STATE U, NEW STATE m, Ready(U),
         GrownBy(U, Stream', p, m), Truly(room', p, m), m.t # "join",
         \A w \in Ways : w[1] = p => FrameGood(made, w, m),
         made' = made, Plain', InvitesGood(invite', made),
         RoomsGood(room', made), AllHeardGood(room', shown'),
         Steady(U, room', shown'), twice' = twice
  PROVE  HeardInv'
<1>1. FramesGood(Stream', made)
  BY GrownFrames DEF Ready
<1>2. Steady(Stream', room', shown')
  BY GrownSteady DEF Ready
<1>3. ShownOnce'
  BY DEF HeardInv, ShownOnce
<1> QED  BY <1>1, <1>2, <1>3, InvPrime DEF HeardInv, Ready

-----------------------------------------------------------------------------
(***************************************************************************)
(* Steps that keep the lists.                                              *)
(***************************************************************************)

\* A Room value with the list, the marks and the number of lines it had, or one more.
Keeps(r, s) ==
  /\ r # NoRoom
  /\ s.id = r.id /\ s.host = r.host /\ s.roster = r.roster /\ s.last = r.last
  /\ s.said \in {r.said, r.said + 1}

\* One room changes.
LEMMA RoomAt ==
  ASSUME RoomsFit, NEW p \in People, NEW r, room' = [room EXCEPT ![p] = r]
  PROVE  \A x \in People : room'[x] = IF x = p THEN r ELSE room[x]
<1>1. room' = [x \in People |-> IF x = p THEN r ELSE room[x]]
  BY Zenon DEF RoomsFit
<1> QED  BY <1>1

LEMMA RoomNow ==
  ASSUME HeardInv, NEW p \in People, NEW r, room' = [room EXCEPT ![p] = r]
  PROVE  \A x \in People : room'[x] = IF x = p THEN r ELSE room[x]
<1>1. RoomsFit
  BY DEF HeardInv
<1> QED  BY <1>1, RoomAt

\* A step in which one room at most is left, or keeps its list and its marks.
LEMMA KeepingStep ==
  ASSUME HeardInv, RoomsFit', NEW p \in People, NEW STATE U, NEW STATE m, NEW STATE r, Ready(U),
         GrownBy(U, Stream', p, m), Truly(room', p, m), m.t # "join",
         \A w \in Ways : w[1] = p => FrameGood(made, w, m),
         made' = made, shown' = shown, twice' = twice,
         invite' = [x \in People |-> invite'[x]], InvitesGood(invite', made),
         r = NoRoom \/ Keeps(room[p], r), room' = [room EXCEPT ![p] = r]
  PROVE  HeardInv'
<1>1. \A x \in People : room'[x] = IF x = p THEN r ELSE room[x]
  BY RoomNow
<1>2. \A x \in People : room'[x] = room[x] \/ room'[x] = NoRoom \/ Keeps(room[x], room'[x])
  BY <1>1
<1>3. RoomsGood(room', made)
  <2> SUFFICES ASSUME NEW x \in People PROVE RoomGood(made, x, room'[x])
    BY DEF RoomsGood
  <2>1. RoomGood(made, x, room[x])
    BY DEF HeardInv, RoomsGood
  <2>2. CASE room'[x] = room[x] \/ room'[x] = NoRoom
    BY <2>1, <2>2 DEF RoomGood
  <2>3. CASE Keeps(room[x], room'[x])
    BY <2>1, <2>3 DEF RoomGood, Keeps
  <2> QED  BY <1>2, <2>2, <2>3
<1>4. AllHeardGood(room', shown')
  <2> SUFFICES ASSUME NEW x \in People PROVE HeardGood(room'[x], shown[x])
    BY DEF AllHeardGood
  <2>1. HeardGood(room[x], shown[x])
    BY DEF HeardInv, AllHeardGood
  <2>2. CASE room'[x] = room[x] \/ room'[x] = NoRoom
    BY <2>1, <2>2 DEF HeardGood
  <2>3. CASE Keeps(room[x], room'[x])
    BY <2>1, <2>3 DEF HeardGood, Keeps
  <2> QED  BY <1>2, <2>2, <2>3
<1>5. \A x \in People : Alike(room[x], room'[x])
  BY <1>2 DEF Alike, Keeps
<1>6. Steady(U, room', shown)
  BY <1>5, AlikeSteady DEF Ready
<1>7. Plain'
  BY DEF HeardInv, Plain
<1> QED  BY <1>3, <1>4, <1>6, <1>7, Closes

\* What is left to answer after something said,
LEMMA AfterSaying ==
  ASSUME HeardInv, NEW p \in People, NEW STATE out, NEW STATE m, AtMost(out, m),
         Send(p, out, wire), live' = live, open' = open
  PROVE  Ready(Stream) /\ GrownBy(Stream, Stream', p, m)
BY SpokenGrows, StreamGood DEF HeardInv, Ready

\* after a loss noticed,
LEMMA AfterNoticing ==
  ASSUME HeardInv, NEW p \in People, NEW q \in People, NEW STATE out, NEW STATE m, AtMost(out, m),
         Send(p, out, wire), live' = live, open' = open \ {<<p, q>>}, {p, q} \notin live
  PROVE  Ready(Stream) /\ GrownBy(Stream, Stream', p, m)
BY NoticedGrows, StreamGood DEF HeardInv, Ready

\* What is left once the frame heard has been taken.
Rest(q, p) == Left(Unread(q, p))

\* A frame heard came along a way.
LEMMA FrameWay ==
  ASSUME NEW p, NEW q, NEW kind, Frame(p, q, kind)
  PROVE  /\ <<q, p>> \in Ways /\ <<p, q>> \in Ways /\ p # q
         /\ wire[<<q, p>>] # <<>> /\ Heard(q, p).t = kind
<1>1. <<p, q>> \in Ways
  BY DEF Frame, ContactsOf
<1>2. Back(<<p, q>>) = <<q, p>>
  BY DEF Back
<1> QED  BY <1>1, <1>2, WayEnds DEF Frame, Heard

\* after a frame heard.
LEMMA AfterTaking ==
  ASSUME HeardInv, NEW p \in People, NEW q \in People, NEW kind, Frame(p, q, kind),
         NEW STATE out, NEW STATE m, AtMost(out, m),
         Send(p, out, Unread(q, p)), live' = live, open' = open
  PROVE  /\ Ready(Rest(q, p)) /\ GrownBy(Rest(q, p), Stream', p, m)
         /\ Taken(Stream, Rest(q, p), <<q, p>>)
         /\ Stream[<<q, p>>][1] = Heard(q, p)
         /\ FrameGood(made, <<q, p>>, Heard(q, p))
<1>1. <<q, p>> \in Ways /\ wire[<<q, p>>] # <<>>
  BY FrameWay
<1>2. /\ WireGood' /\ LiveGood'
      /\ Taken(Stream, Rest(q, p), <<q, p>>)
      /\ Stream[<<q, p>>][1] = Heard(q, p)
      /\ GrownBy(Rest(q, p), Stream', p, m)
  BY <1>1, AnsweredGrows DEF HeardInv, Rest
<1>3. Streams(Stream)
  BY StreamGood DEF HeardInv
<1>4. /\ Streams(Rest(q, p)) /\ Thinned(Stream, Rest(q, p))
      /\ Len(Stream[<<q, p>>]) \in Nat \ {0}
  BY <1>1, <1>2, <1>3, TakenAt
<1>5. FramesGood(Rest(q, p), made)
  BY <1>4, ThinnedFrames DEF HeardInv
<1>6. Steady(Rest(q, p), room, shown)
  BY <1>3, <1>4, ThinnedSteady DEF HeardInv
<1>7. 1 \in 1 .. Len(Stream[<<q, p>>])
  BY <1>4
<1>8. FrameGood(made, <<q, p>>, Heard(q, p))
  BY <1>1, <1>2, <1>7 DEF HeardInv, FramesGood
<1> QED  BY <1>2, <1>4, <1>5, <1>6, <1>8 DEF Ready

\* Frames that say nothing on rooms: the invariant asks nothing of them.
Mute(m) == m.t \in {"decline", "leave", "hello"}

\* Such a frame is as good as none.
LEMMA MuteGood ==
  ASSUME NEW m, Mute(m)
  PROVE  /\ m.t # "join" /\ \A rm, p : Truly(rm, p, m)
         /\ \A md, w : FrameGood(md, w, m)
BY DEF Mute, Truly, FrameGood

\* One frame to each of some is at most one frame to each.
LEMMA OneFrame ==
  ASSUME NEW some, NEW m
  PROVE  AtMost(ToEach(some, m), m) /\ AtMost(Nothing, m)
BY DEF AtMost, ToEach, Nothing

-----------------------------------------------------------------------------
(***************************************************************************)
(* What is typed in a room.                                                *)
(***************************************************************************)

\* What the invariant says of p's room.
LEMMA OwnRoom ==
  ASSUME HeardInv, NEW p \in People, room[p] # NoRoom
  PROVE  Shaped(room[p]) /\ RoomGood(made, p, room[p]) /\ HeardGood(room[p], shown[p])
BY DEF HeardInv, RoomsFit, Fitting, RoomsGood, AllHeardGood

\* Fields the invariant does not speak of.
LEMMA StillKeeps ==
  ASSUME NEW r, r # NoRoom, Shaped(r), NEW x
  PROVE  /\ Keeps(r, r)
         /\ Keeps(r, [r EXCEPT !.invited = x]) /\ Keeps(r, [r EXCEPT !.dropped = x])
         /\ Keeps(r, [r EXCEPT !.said = @ + 1])
<1>1. /\ \A f \in Fields : f # "invited" => [r EXCEPT !.invited = x][f] = r[f]
      /\ \A f \in Fields : f # "dropped" => [r EXCEPT !.dropped = x][f] = r[f]
      /\ \A f \in Fields : f # "said" => [r EXCEPT !.said = @ + 1][f] = r[f]
      /\ [r EXCEPT !.said = @ + 1].said = r.said + 1
  BY DEF Shaped, Fields
<1> QED  BY <1>1 DEF Keeps, Fields

\* Claims settled are none of it either.
LEMMA SettleKeepsRoom ==
  ASSUME NEW r, r # NoRoom, Shaped(r), NEW x
  PROVE  Keeps(r, SettleClaims([r EXCEPT !.claimed = x]))
<1> DEFINE s == [r EXCEPT !.claimed = x]
<1>1. \E claimed, bound :
        SettleClaims(s) = [s EXCEPT !.claimed = claimed, !.bound = bound]
  BY Zenon DEF SettleClaims
<1> QED  BY <1>1 DEF Shaped, Fields, Keeps

\* Typed, without entering a room.
LEMMA TypedHeard ==
  ASSUME HeardInv, RoomsFit', NEW p \in People, Decline(p) \/ Leave(p) \/ Say(p)
  PROVE  HeardInv'
<1>1. CASE Decline(p)
  <2> DEFINE m == Declining(invite[p].id)
  <2>1. Mute(m)
    BY DEF Mute, Declining
  <2>2. Ready(Stream) /\ GrownBy(Stream, Stream', p, m)
    <3>1. AtMost(ToEach({invite[p].from}, m), m)
      BY OneFrame
    <3>2. Send(p, ToEach({invite[p].from}, m), wire) /\ live' = live /\ open' = open
      BY <1>1 DEF Decline
    <3> HIDE DEF m
    <3> QED  BY <3>1, <3>2, AfterSaying
  <2>3. /\ invite' = [invite EXCEPT ![p] = NoInvite] /\ room' = room
        /\ made' = made /\ shown' = shown /\ twice' = twice
    BY <1>1 DEF Decline, history
  <2>4. invite' = [x \in People |-> IF x = p THEN NoInvite ELSE invite[x]]
    BY <2>3, Zenon DEF HeardInv, Plain
  <2>5. InvitesGood(invite', made) /\ invite' = [x \in People |-> invite'[x]]
    BY <2>4 DEF HeardInv, InvitesGood
  <2>6. room' = [room EXCEPT ![p] = room[p]]
    BY <2>3 DEF HeardInv, RoomsFit
  <2>7. room[p] = NoRoom \/ Keeps(room[p], room[p])
    BY OwnRoom, StillKeeps
  <2> HIDE DEF m
  <2> QED  BY <2>1, <2>2, <2>3, <2>5, <2>6, <2>7, MuteGood, KeepingStep
<1>2. CASE Leave(p)
  <2> DEFINE m == Leaving(room[p].id)
             told == IF Hosts(p) THEN Targets(room[p]) ELSE {room[p].host}
  <2>1. Mute(m)
    BY DEF Mute, Leaving
  <2>2. Ready(Stream) /\ GrownBy(Stream, Stream', p, m)
    <3>1. AtMost(ToEach(told, m), m)
      BY OneFrame
    <3>2. Send(p, ToEach(told, m), wire) /\ live' = live /\ open' = open
      BY <1>2 DEF Leave, Becomes
    <3> HIDE DEF m, told
    <3> QED  BY <3>1, <3>2, AfterSaying
  <2>3. /\ invite' = invite /\ room' = [room EXCEPT ![p] = NoRoom]
        /\ made' = made /\ shown' = shown /\ twice' = twice
    BY <1>2 DEF Leave, Becomes, history
  <2>4. InvitesGood(invite', made) /\ invite' = [x \in People |-> invite'[x]]
    BY <2>3 DEF HeardInv, Plain
  <2> HIDE DEF m
  <2> QED  BY <2>1, <2>2, <2>3, <2>4, MuteGood, KeepingStep
<1>3. CASE Say(p)
  <2> DEFINE r == [room[p] EXCEPT !.said = @ + 1]
             m == Line(r.id, r.key, r.said)
  <2>1. room[p] # NoRoom /\ room' = [room EXCEPT ![p] = r]
    BY <1>3 DEF Say, Becomes
  <2>2. Shaped(room[p]) /\ room[p].said \in Nat /\ Keeps(room[p], r)
    BY <2>1, OwnRoom, StillKeeps DEF RoomGood
  <2>3. r.said = room[p].said + 1
    BY <2>2 DEF Shaped, Fields
  <2>4. m.t = "line" /\ m.seq \in Nat \ {0}
    BY <2>2, <2>3 DEF Line
  <2>5. /\ m.t # "join" /\ Truly(room', p, m)
        /\ \A w \in Ways : FrameGood(made, w, m)
    BY <2>4 DEF Truly, FrameGood
  <2>6. Ready(Stream) /\ GrownBy(Stream, Stream', p, m)
    <3>1. AtMost(ToEach(Targets(r), m), m)
      BY OneFrame
    <3>2. Send(p, ToEach(Targets(r), m), wire) /\ live' = live /\ open' = open
      BY <1>3, Zenon DEF Say, Becomes
    <3> HIDE DEF m, r
    <3> QED  BY <3>1, <3>2, AfterSaying
  <2>7. invite' = invite /\ made' = made /\ shown' = shown /\ twice' = twice
    BY <1>3 DEF Say
  <2>8. InvitesGood(invite', made) /\ invite' = [x \in People |-> invite'[x]]
    BY <2>7 DEF HeardInv, Plain
  <2> HIDE DEF m, r
  <2> QED  BY <2>1, <2>2, <2>5, <2>6, <2>7, <2>8, KeepingStep
<1> QED  BY <1>1, <1>2, <1>3

\* An invitation typed names a room of the host's own.
LEMMA InviteHeard ==
  ASSUME HeardInv, RoomsFit', NEW p \in People, NEW q \in People, InviteTo(p, q)
  PROVE  HeardInv'
<1> DEFINE r == [room[p] EXCEPT !.invited = @ \cup {q}]
           m == Invite(room[p])
<1>1. /\ room[p] # NoRoom /\ room[p].host = p
      /\ room' = [room EXCEPT ![p] = r]
  BY DEF InviteTo, Hosts, Becomes
<1>2. Shaped(room[p]) /\ Keeps(room[p], r) /\ room[p].id \in Made(made, p)
  BY <1>1, OwnRoom, StillKeeps DEF RoomGood
<1>3. m.t = "invite" /\ m.id = room[p].id
  BY DEF Invite
<1>4. /\ m.t # "join" /\ Truly(room', p, m)
      /\ \A w \in Ways : w[1] = p => FrameGood(made, w, m)
  BY <1>2, <1>3 DEF Truly, FrameGood
<1>5. Ready(Stream) /\ GrownBy(Stream, Stream', p, m)
  <2>1. AtMost(ToEach({q}, m), m)
    BY OneFrame
  <2>2. Send(p, ToEach({q}, m), wire) /\ live' = live /\ open' = open
    BY Zenon DEF InviteTo, Becomes
  <2> HIDE DEF m
  <2> QED  BY <2>1, <2>2, AfterSaying
<1>6. invite' = invite /\ made' = made /\ shown' = shown /\ twice' = twice
  BY DEF InviteTo, history
<1>7. InvitesGood(invite', made) /\ invite' = [x \in People |-> invite'[x]]
  BY <1>6 DEF HeardInv, Plain
<1> HIDE DEF m, r
<1> QED  BY <1>1, <1>2, <1>4, <1>5, <1>6, <1>7, KeepingStep

-----------------------------------------------------------------------------
(***************************************************************************)
(* Frames heard that keep the lists.                                       *)
(***************************************************************************)

\* A Room value is a room.
LEMMA ShapedIsRoom ==
  ASSUME NEW r, Shaped(r)
  PROVE  r # NoRoom
<1>1. DOMAIN r = Fields
  BY DEF Shaped
<1>2. "id" \in Fields /\ "id" \notin DOMAIN NoRoom
  BY DEF Fields, NoRoom
<1> QED  BY <1>1, <1>2

\* A frame heard that leaves the room as it was to the invariant.
LEMMA AnswerStep ==
  ASSUME HeardInv, RoomsFit', NEW p \in People, NEW q \in People, NEW kind, Frame(p, q, kind),
         NEW STATE r, NEW STATE out, NEW STATE m, AtMost(out, m),
         Becomes(p, r, out, Unread(q, p)), live' = live, open' = open,
         r = NoRoom \/ Keeps(room[p], r) \/ r = room[p],
         m.t # "join", Truly(room', p, m),
         \A w \in Ways : w[1] = p => FrameGood(made, w, m),
         made' = made, shown' = shown, twice' = twice,
         invite' = [x \in People |-> invite'[x]], InvitesGood(invite', made)
  PROVE  HeardInv'
<1>1. Send(p, out, Unread(q, p)) /\ room' = [room EXCEPT ![p] = r]
  BY Zenon DEF Becomes
<1>2. Ready(Rest(q, p)) /\ GrownBy(Rest(q, p), Stream', p, m)
  BY <1>1, AfterTaking
<1>3. r = NoRoom \/ Keeps(room[p], r)
  BY OwnRoom, StillKeeps
<1> QED  BY <1>1, <1>2, <1>3, KeepingStep

\* The same where the answer, if any, is mute,
LEMMA MuteStep ==
  ASSUME HeardInv, RoomsFit', NEW p \in People, NEW q \in People, NEW kind, Frame(p, q, kind),
         NEW STATE r, NEW STATE out, NEW STATE m, AtMost(out, m), Mute(m),
         Becomes(p, r, out, Unread(q, p)), live' = live, open' = open,
         r = NoRoom \/ Keeps(room[p], r) \/ r = room[p],
         made' = made, invite' = invite, shown' = shown, twice' = twice
  PROVE  HeardInv'
<1>1. InvitesGood(invite', made) /\ invite' = [x \in People |-> invite'[x]]
  BY DEF HeardInv, Plain
<1>2. /\ m.t # "join" /\ Truly(room', p, m)
      /\ \A w \in Ways : FrameGood(made, w, m)
  BY MuteGood
<1> QED  BY <1>1, <1>2, AnswerStep

\* and where there is none.
LEMMA IgnoredStep ==
  ASSUME HeardInv, RoomsFit', NEW p \in People, NEW q \in People, NEW kind, Frame(p, q, kind),
         Ignored(p, q), live' = live, open' = open,
         made' = made, invite' = invite, shown' = shown, twice' = twice
  PROVE  HeardInv'
<1> DEFINE m == Leaving(1)
<1>1. Mute(m) /\ AtMost(Nothing, m)
  BY OneFrame DEF Mute, Leaving
<1>2. Becomes(p, room[p], Nothing, Unread(q, p))
  BY DEF Ignored
<1> HIDE DEF m
<1> QED  BY <1>1, <1>2, MuteStep

\* An invitation heard is held, or turned down.
LEMMA HeldInviteHeard ==
  ASSUME HeardInv, RoomsFit', NEW p \in People, NEW q \in People, HearInvite(p, q)
  PROVE  HeardInv'
<1> DEFINE f == Heard(q, p)
<1>1. /\ Frame(p, q, "invite")
      /\ Becomes(p, room[p], Refusal(p, q, f), Unread(q, p))
      /\ invite' = IF room[p] # NoRoom THEN invite
                   ELSE [invite EXCEPT ![p] = [from |-> q, id |-> f.id]]
      /\ open' = open /\ live' = live /\ made' = made /\ shown' = shown /\ twice' = twice
  BY DEF HearInvite, history
<1>2. PICK id : AtMost(Refusal(p, q, f), Declining(id))
  <2>1. \/ Refusal(p, q, f) = ToEach({q}, Declining(f.id))
        \/ Refusal(p, q, f) = ToEach({invite[p].from}, Declining(invite[p].id))
        \/ Refusal(p, q, f) = Nothing
    BY Zenon DEF Refusal
  <2>2. /\ AtMost(ToEach({q}, Declining(f.id)), Declining(f.id))
        /\ AtMost(ToEach({invite[p].from}, Declining(invite[p].id)), Declining(invite[p].id))
        /\ AtMost(Nothing, Declining(f.id))
    BY OneFrame, Zenon
  <2> HIDE DEF f
  <2> QED  BY <2>1, <2>2, Zenon
<1> DEFINE m == Declining(id)
<1>3. Mute(m)
  BY DEF Mute, Declining
<1>4. /\ m.t # "join" /\ Truly(room', p, m)
      /\ \A w \in Ways : FrameGood(made, w, m)
  BY <1>3, MuteGood
<1>5. q \in ContactsOf(p) /\ f.id \in Made(made, q)
  <2>1. q \in ContactsOf(p) /\ f.t = "invite"
    BY <1>1, FrameWay DEF Frame
  <2>2. FrameGood(made, <<q, p>>, f)
    <3>1. Send(p, Refusal(p, q, f), Unread(q, p))
      BY <1>1, Zenon DEF Becomes
    <3> HIDE DEF f, m
    <3>2. FrameGood(made, <<q, p>>, Heard(q, p))
      BY <1>1, <1>2, <3>1, AfterTaking DEF m
    <3> QED  BY <3>2 DEF f
  <2> QED  BY <2>1, <2>2 DEF FrameGood
<1>6. InvitesGood(invite', made) /\ invite' = [x \in People |-> invite'[x]]
  <2>1. CASE invite' = invite
    BY <2>1 DEF HeardInv, Plain
  <2>2. CASE invite' = [invite EXCEPT ![p] = [from |-> q, id |-> f.id]]
    <3>1. invite' = [x \in People |-> IF x = p THEN [from |-> q, id |-> f.id] ELSE invite[x]]
      BY <2>2, Zenon DEF HeardInv, Plain
    <3> HIDE DEF f
    <3>2. [from |-> q, id |-> f.id].from = q /\ [from |-> q, id |-> f.id].id = f.id
      OBVIOUS
    <3>3. InvitesGood(invite', made)
      BY <1>5, <3>1, <3>2 DEF HeardInv, InvitesGood
    <3> QED  BY <3>1, <3>3
  <2> QED  BY <1>1, <2>1, <2>2
<1>7. AtMost(Refusal(p, q, f), m)
  BY <1>2
<1> HIDE DEF m, f
<1> QED  BY <1>1, <1>4, <1>6, <1>7, AnswerStep

\* Refusals and claims heard, and lines that are not.
LEMMA DeclineHeard ==
  ASSUME HeardInv, RoomsFit', NEW p \in People, NEW q \in People, HearDecline(p, q)
  PROVE  HeardInv'
<1>1. /\ Frame(p, q, "decline")
      /\ open' = open /\ live' = live /\ made' = made /\ invite' = invite
      /\ shown' = shown /\ twice' = twice
  BY DEF HearDecline, history
<1>2. CASE Ignored(p, q)
  BY <1>1, <1>2, IgnoredStep
<1>3. CASE ~ Ignored(p, q)
  <2> DEFINE r == [room[p] EXCEPT !.invited = @ \ {q}]
             m == Leaving(1)
  <2>1. room[p] # NoRoom /\ Becomes(p, r, Nothing, Unread(q, p))
    BY <1>3, Zenon DEF HearDecline, Hosts
  <2>2. Keeps(room[p], r)
    BY <2>1, OwnRoom, StillKeeps
  <2>3. Mute(m) /\ AtMost(Nothing, m)
    BY OneFrame DEF Mute, Leaving
  <2> HIDE DEF r, m
  <2> QED  BY <1>1, <2>1, <2>2, <2>3, MuteStep
<1> QED  BY <1>2, <1>3

\* A claim heard.
LEMMA HelloHeard ==
  ASSUME HeardInv, RoomsFit', NEW p \in People, NEW q \in People, HearHello(p, q)
  PROVE  HeardInv'
<1>1. /\ Frame(p, q, "hello")
      /\ open' = open /\ live' = live /\ made' = made /\ invite' = invite
      /\ shown' = shown /\ twice' = twice
  BY DEF HearHello, history
<1>2. CASE Ignored(p, q)
  BY <1>1, <1>2, IgnoredStep
<1>3. CASE ~ Ignored(p, q)
  <2> DEFINE r == SettleClaims([room[p] EXCEPT !.claimed = With(@, q, Heard(q, p).key)])
             m == Leaving(1)
  <2>1. room[p] # NoRoom /\ Becomes(p, r, Nothing, Unread(q, p))
    BY <1>3, Zenon DEF HearHello, In
  <2>2. Keeps(room[p], r)
    BY <2>1, OwnRoom, SettleKeepsRoom
  <2>3. Mute(m) /\ AtMost(Nothing, m)
    BY OneFrame DEF Mute, Leaving
  <2> HIDE DEF r, m
  <2> QED  BY <1>1, <2>1, <2>2, <2>3, MuteStep
<1> QED  BY <1>2, <1>3

\* Somebody dropped is sent the list as it is.
LEMMA DroppedHeard ==
  ASSUME HeardInv, RoomsFit', NEW p \in People, NEW q \in People, HearDropped(p, q)
  PROVE  HeardInv'
<1> DEFINE r == [room[p] EXCEPT !.dropped = @ \ {q}]
           m == Roster(room[p])
<1>1. /\ Frame(p, q, "line")
      /\ open' = open /\ live' = live /\ made' = made /\ invite' = invite
      /\ shown' = shown /\ twice' = twice
  BY DEF HearDropped, history
<1>2. /\ room[p] # NoRoom /\ room[p].host = p
      /\ Becomes(p, r, ToEach({q}, m), Unread(q, p))
  BY Zenon DEF HearDropped, Hosts
<1>3. /\ Shaped(room[p]) /\ RoomGood(made, p, room[p]) /\ Keeps(room[p], r)
  BY <1>2, OwnRoom, StillKeeps
<1>4. Shaped(r) /\ r.roster = room[p].roster /\ r.id = room[p].id /\ r.host = p
  BY <1>2, <1>3 DEF Shaped, Fields
<1>5. m.t = "roster" /\ m.id = room[p].id /\ m.members = room[p].roster
  BY DEF Roster
<1>6. room'[p] = r
  <2>1. room' = [room EXCEPT ![p] = r]
    BY <1>2, Zenon DEF Becomes
  <2>2. RoomsFit
    BY DEF HeardInv
  <2> HIDE DEF r, m
  <2>3. room' = [x \in People |-> IF x = p THEN r ELSE room[x]]
    BY <2>1, <2>2, Zenon DEF RoomsFit
  <2> QED  BY <2>3
<1>7. Truly(room', p, m)
  BY <1>4, <1>5, <1>6, ShapedIsRoom DEF Truly, Sits
<1>8. \A w \in Ways : w[1] = p => FrameGood(made, w, m)
  BY <1>2, <1>3, <1>5 DEF FrameGood, RoomGood
<1>9. InvitesGood(invite', made) /\ invite' = [x \in People |-> invite'[x]]
  BY <1>1 DEF HeardInv, Plain
<1>10. AtMost(ToEach({q}, m), m)
  BY OneFrame
<1>11. m.t # "join"
  BY <1>5
<1> HIDE DEF r, m
<1> QED  BY <1>1, <1>2, <1>3, <1>7, <1>8, <1>9, <1>10, <1>11, AnswerStep

\* A line that is dropped.
LEMMA LineIgnored ==
  ASSUME HeardInv, RoomsFit', NEW p \in People, NEW q \in People, IgnoreLine(p, q)
  PROVE  HeardInv'
<1>1. /\ Frame(p, q, "line") /\ Ignored(p, q)
      /\ open' = open /\ live' = live /\ made' = made /\ invite' = invite
      /\ shown' = shown /\ twice' = twice
  BY DEF IgnoreLine, history
<1> QED  BY <1>1, IgnoredStep

-----------------------------------------------------------------------------
(***************************************************************************)
(* The host's list changes.                                                *)
(***************************************************************************)

\* The host's own list changes, and is sent out: keys go, or new ones come.
LEMMA HostStep ==
  ASSUME HeardInv, RoomsFit', NEW p \in People, NEW STATE U, NEW STATE m, NEW STATE r, NEW STATE new,
         Ready(U), GrownBy(U, Stream', p, m), m = Roster(r),
         room[p] # NoRoom, room[p].host = p, Shaped(r), room' = [room EXCEPT ![p] = r],
         r.id = room[p].id, r.host = p, r.last = room[p].last, r.said = room[p].said,
         KeysOf(r.roster) \subseteq KeysOf(room[p].roster) \cup new,
         new \subseteq AnyMade(made),
         \A k \in new : Fresh(U, room, shown, p, r.id, k) /\ ~ Asked(U, p, r.id, k),
         made' = made, shown' = shown, twice' = twice, invite' = invite
  PROVE  HeardInv'
<1>1. \A x \in People : room'[x] = IF x = p THEN r ELSE room[x]
  BY ZenonT(30), RoomNow
<1>2. RoomGood(made, p, room[p]) /\ HeardGood(room[p], shown[p])
  BY OwnRoom
<1>3. r # NoRoom
  BY ShapedIsRoom
<1>4. RoomsGood(room', made)
  <2>1. RoomGood(made, p, r)
    BY <1>2 DEF RoomGood
  <2>2. \A x \in People : RoomGood(made, x, room[x])
    BY DEF HeardInv, RoomsGood
  <2> QED  BY <1>1, <2>1, <2>2 DEF RoomsGood
<1>5. Sits(room, p, p, r.id) /\ Sits(room', p, p, r.id)
  BY <1>1, <1>3 DEF Sits
<1>6. AllHeardGood(room', shown')
  <2>1. \A k \in new : ~ WasShown(shown, p, k)
    BY <1>5 DEF Fresh
  <2>2. HeardGood(r, shown[p])
    BY <1>2, <2>1 DEF HeardGood, WasShown
  <2>3. \A x \in People : HeardGood(room[x], shown[x])
    BY DEF HeardInv, AllHeardGood
  <2> QED  BY <1>1, <2>2, <2>3 DEF AllHeardGood
<1>7. Steady(U, room', shown')
  <2>1. \A a \in People \ {p} : room'[a] = room[a]
    BY <1>1
  <2>2. KeysOf(room'[p].roster) \subseteq KeysOf(room[p].roster) \cup new
    BY <1>1
  <2>3. Steady(U, room, shown)
    BY DEF Ready
  <2>4. \A k \in new : Fresh(U, room, shown, p, r.id, k) /\ ~ Asked(U, p, r.id, k)
    OBVIOUS
  <2>5. Steady(U, room', shown)
    BY ONLY <1>5, <2>1, <2>2, <2>3, <2>4, p \in People, HostSteady
  <2> QED  BY <2>5
<1>8. m.t = "roster" /\ m.id = r.id /\ m.members = r.roster
  BY DEF Roster
<1>9. Truly(room', p, m) /\ m.t # "join"
  BY <1>1, <1>5, <1>8 DEF Truly
<1>10. \A w \in Ways : w[1] = p => FrameGood(made, w, m)
  BY <1>2, <1>8 DEF FrameGood, RoomGood
<1>11. InvitesGood(invite', made) /\ Plain'
  BY DEF HeardInv, Plain
<1> QED  BY <1>4, <1>6, <1>7, <1>9, <1>10, <1>11, Closes

\* A key that asks to join is known to nobody else.
LEMMA AskedIsNew ==
  ASSUME NEW st, NEW st2, NEW rm, NEW sh, NEW md \in [People -> Nat], NEW w0 \in Ways,
         Streams(st), Steady(st, rm, sh), FramesGood(st, md), Taken(st, st2, w0),
         NEW id, NEW k, Asks(st[w0][1], id, k)
  PROVE  /\ k \in AnyMade(md)
         /\ Fresh(st2, rm, sh, w0[2], id, k)
         /\ ~ Asked(st2, w0[2], id, k)
<1>1. /\ Streams(st2) /\ Thinned(st, st2) /\ 1 \in 1 .. Len(st[w0])
      /\ Len(st[w0]) \in Nat /\ Len(st2[w0]) = Len(st[w0]) - 1
      /\ \A i \in 1 .. Len(st2[w0]) : st2[w0][i] = st[w0][i + 1]
  BY TakenAt
<1>2. w0[1] \in People /\ w0[2] \in People /\ w0 = <<w0[1], w0[2]>>
  BY WayEnds
<1>3. \A w \in Ways : \A i \in 1 .. Len(st[w]) : Asks(st[w][i], id, k) => k \in Made(md, w[1])
  BY DEF FramesGood, FrameGood, Asks
<1>4. k \in Made(md, w0[1])
  BY <1>1, <1>3
<1>5. k \in AnyMade(md)
  BY <1>2, <1>4 DEF AnyMade
<1>6. Fresh(st2, rm, sh, w0[2], id, k)
  <2>1. Asked(st, w0[2], id, k)
    BY <1>1 DEF Asked
  <2>2. Fresh(st, rm, sh, w0[2], id, k)
    BY <1>2, <2>1 DEF Steady, AsksFresh
  <2> QED  BY <1>1, <2>2, ThinnedOverAll DEF Fresh
<1>7. ~ Asked(st2, w0[2], id, k)
  <2> SUFFICES ASSUME NEW w \in Ways, w[2] = w0[2],
                      NEW i \in 1 .. Len(st2[w]), Asks(st2[w][i], id, k)
               PROVE  FALSE
    BY DEF Asked
  <2>1. FramesGood(st2, md)
    BY <1>1, ThinnedFrames
  <2>2. k \in Made(md, w[1])
    BY <2>1 DEF FramesGood, FrameGood, Asks
  <2>3. w[1] = w0[1]
    BY <1>4, <2>2 DEF Made
  <2>4. w = w0
    BY <1>2, <2>3, WayEnds
  <2>5. i + 1 \in 1 .. Len(st[w0]) /\ Asks(st[w0][i + 1], id, k) /\ i + 1 # 1
    BY <1>1, <2>4
  <2> QED  BY <1>1, <2>5 DEF Steady, AsksOnce
<1> QED  BY <1>5, <1>6, <1>7

\* A request to join heard: the key taken into the list is new to everybody.
LEMMA JoinHeard ==
  ASSUME HeardInv, RoomsFit', NEW p \in People, NEW q \in People, HearJoin(p, q)
  PROVE  HeardInv'
<1> DEFINE f == Heard(q, p)
           r == room[p]
           asked == [r EXCEPT !.invited = @ \ {q}]
           in == [asked EXCEPT !.roster = @ \cup {Entry(f.key, q)},
                               !.bound = With(@, f.key, q)]
<1>1. /\ Frame(p, q, "join")
      /\ open' = open /\ live' = live /\ made' = made /\ invite' = invite
      /\ shown' = shown /\ twice' = twice
  BY DEF HearJoin, history
<1>2. \/ Ignored(p, q)
      \/ /\ r # NoRoom
         /\ Becomes(p, asked, ToEach({q}, Leaving(f.id)), Unread(q, p))
      \/ /\ r # NoRoom /\ r.host = p /\ r.id = f.id
         /\ Becomes(p, in, ToEach(Targets(in), Roster(in)), Unread(q, p))
  BY Zenon DEF HearJoin, In, Hosts
<1>3. CASE Ignored(p, q)
  BY <1>1, <1>3, IgnoredStep
<1>4. CASE /\ r # NoRoom
           /\ Becomes(p, asked, ToEach({q}, Leaving(f.id)), Unread(q, p))
  <2> DEFINE m == Leaving(f.id)
  <2>1. Keeps(room[p], asked)
    BY <1>4, OwnRoom, StillKeeps
  <2>2. Mute(m) /\ AtMost(ToEach({q}, m), m)
    BY OneFrame DEF Mute, Leaving
  <2>3. Becomes(p, asked, ToEach({q}, m), Unread(q, p))
    BY <1>4
  <2> HIDE DEF asked, m
  <2> QED  BY <1>1, <2>1, <2>2, <2>3, MuteStep
<1>5. CASE /\ r # NoRoom /\ r.host = p /\ r.id = f.id
           /\ Becomes(p, in, ToEach(Targets(in), Roster(in)), Unread(q, p))
  <2> DEFINE m == Roster(in)
             new == {f.key}
  <2>1. Shaped(r)
    BY <1>5, OwnRoom
  <2>2. /\ Shaped(in) /\ in.id = r.id /\ in.host = r.host /\ in.last = r.last
        /\ in.said = r.said /\ in.roster = r.roster \cup {Entry(f.key, q)}
    <3> HIDE DEF f, r
    <3>1. /\ Shaped(asked) /\ asked.id = r.id /\ asked.host = r.host /\ asked.last = r.last
          /\ asked.said = r.said /\ asked.roster = r.roster
      BY <2>1 DEF Shaped, Fields
    <3> HIDE DEF asked
    <3> QED  BY <3>1 DEF Shaped, Fields
  <2>3. KeysOf(in.roster) \subseteq KeysOf(r.roster) \cup new
    BY <2>2 DEF KeysOf, Entry
  <2>4. room' = [room EXCEPT ![p] = in] /\ Send(p, ToEach(Targets(in), m), Unread(q, p))
    BY <1>5, Zenon DEF Becomes
  <2>5. AtMost(ToEach(Targets(in), m), m)
    BY OneFrame
  <2>6. /\ Ready(Rest(q, p)) /\ GrownBy(Rest(q, p), Stream', p, m)
        /\ Taken(Stream, Rest(q, p), <<q, p>>)
        /\ Stream[<<q, p>>][1] = f
    <3> HIDE DEF in, m
    <3> QED  BY <1>1, <2>4, <2>5, AfterTaking
  <2>7. /\ f.key \in AnyMade(made)
        /\ Fresh(Rest(q, p), room, shown, p, r.id, f.key)
        /\ ~ Asked(Rest(q, p), p, r.id, f.key)
    <3>1. Asks(Stream[<<q, p>>][1], r.id, f.key)
      BY ZenonT(30), <1>1, <1>5, <2>6, FrameWay DEF Asks
    <3>2. Streams(Stream) /\ <<q, p>> \in Ways /\ <<q, p>>[2] = p
      BY <1>1, StreamGood, FrameWay DEF HeardInv
    <3>3. Steady(Stream, room, shown) /\ FramesGood(Stream, made) /\ made \in [People -> Nat]
      BY DEF HeardInv, Plain
    <3> HIDE DEF f, r
    <3> QED  BY <2>6, <3>1, <3>2, <3>3, AskedIsNew
  <2> DEFINE U == Rest(q, p)
  <2>8. /\ new \subseteq AnyMade(made)
        /\ \A k \in new : Fresh(U, room, shown, p, in.id, k) /\ ~ Asked(U, p, in.id, k)
    BY <2>2, <2>7
  <2>9. m = Roster(in) /\ in.host = p /\ Ready(U) /\ GrownBy(U, Stream', p, m)
    BY <1>5, <2>2, <2>6
  <2> HIDE DEF in, m, new, U
  <2> QED  BY <1>1, <1>5, <2>2, <2>3, <2>4, <2>8, <2>9, HostStep
<1> QED  BY <1>2, <1>3, <1>4, <1>5

\* What a member who goes leaves of the Room value.
LEMMA WithoutRest ==
  ASSUME NEW r, NEW q, Shaped(r)
  PROVE  LET s == Without(r, q)
         IN  /\ s.id = r.id /\ s.last = r.last /\ s.said = r.said
             /\ KeysOf(s.roster) \subseteq KeysOf(r.roster)
<1> DEFINE s == Without(r, q)
<1>1. /\ s.id = r.id /\ s.last = r.last /\ s.said = r.said
  <2>1. \E bound, roster, dropped :
          s = [r EXCEPT !.bound = bound, !.roster = roster, !.dropped = dropped]
    BY Zenon DEF Without
  <2> QED  BY <2>1 DEF Shaped, Fields
<1>2. s.roster \subseteq r.roster
  BY WithoutShape
<1> QED  BY <1>1, <1>2 DEF KeysOf

\* What p makes of the loss of q, whatever was on its way.
LEMMA LosesStep ==
  ASSUME HeardInv, RoomsFit', NEW p \in People, NEW q \in People,
         NEW STATE unread, NEW STATE U, Loses(p, q, unread),
         \A out, m : AtMost(out, m) /\ Send(p, out, unread)
                       => Ready(U) /\ GrownBy(U, Stream', p, m),
         made' = made, invite' = invite, shown' = shown, twice' = twice
  PROVE  HeardInv'
<1> DEFINE r == room[p]
           rest == Without(r, q)
<1>1. \/ Becomes(p, r, Nothing, unread)
      \/ Becomes(p, NoRoom, Nothing, unread)
      \/ /\ r # NoRoom /\ r.host = p
         /\ Becomes(p, rest, ToEach(Targets(rest), Roster(rest)), unread)
  BY Zenon DEF Loses
<1>2. ASSUME NEW STATE s, s = NoRoom \/ s = r, Becomes(p, s, Nothing, unread)
      PROVE  HeardInv'
  <2> DEFINE m == Leaving(1)
  <2>1. Mute(m) /\ AtMost(Nothing, m)
    BY OneFrame DEF Mute, Leaving
  <2>2. room' = [room EXCEPT ![p] = s] /\ Send(p, Nothing, unread)
    BY <1>2, Zenon DEF Becomes
  <2>3. Ready(U) /\ GrownBy(U, Stream', p, m)
    BY <2>1, <2>2, Zenon
  <2>4. /\ m.t # "join" /\ Truly(room', p, m)
        /\ \A w \in Ways : FrameGood(made, w, m)
    BY <2>1, MuteGood
  <2>5. InvitesGood(invite', made) /\ invite' = [x \in People |-> invite'[x]]
    BY DEF HeardInv, Plain
  <2>6. s = NoRoom \/ Keeps(room[p], s)
    BY <1>2, OwnRoom, StillKeeps
  <2> HIDE DEF m
  <2> QED  BY <2>2, <2>3, <2>4, <2>5, <2>6, KeepingStep
<1>3. CASE /\ r # NoRoom /\ r.host = p
           /\ Becomes(p, rest, ToEach(Targets(rest), Roster(rest)), unread)
  <2> DEFINE m == Roster(rest)
             new == {}
  <2>1. Shaped(r)
    BY <1>3, OwnRoom
  <2>2. /\ Shaped(rest) /\ rest.host = p /\ rest.id = r.id
        /\ rest.last = r.last /\ rest.said = r.said
        /\ KeysOf(rest.roster) \subseteq KeysOf(r.roster) \cup new
    <3> HIDE DEF r
    <3> QED  BY <1>3, <2>1, WithoutShape, WithoutRest
  <2>3. room' = [room EXCEPT ![p] = rest] /\ Send(p, ToEach(Targets(rest), m), unread)
    BY <1>3, Zenon DEF Becomes
  <2>4. AtMost(ToEach(Targets(rest), m), m)
    BY OneFrame
  <2>5. Ready(U) /\ GrownBy(U, Stream', p, m)
    <3> HIDE DEF rest, m
    <3> QED  BY <2>3, <2>4, Zenon
  <2>6. m = Roster(rest)
    OBVIOUS
  <2>7. /\ new \subseteq AnyMade(made)
        /\ \A k \in new : Fresh(U, room, shown, p, rest.id, k) /\ ~ Asked(U, p, rest.id, k)
    OBVIOUS
  <2> HIDE DEF rest, m, new
  <2> QED  BY <1>3, <2>2, <2>3, <2>5, <2>6, <2>7, HostStep
<1>4. CASE Becomes(p, NoRoom, Nothing, unread)
  BY <1>2, <1>4
<1>5. CASE Becomes(p, r, Nothing, unread)
  BY <1>2, <1>5
<1> QED  BY <1>1, <1>3, <1>4, <1>5

\* Somebody says they leave.
LEMMA LeaveHeard ==
  ASSUME HeardInv, RoomsFit', NEW p \in People, NEW q \in People, HearLeave(p, q)
  PROVE  HeardInv'
<1>1. /\ Frame(p, q, "leave")
      /\ open' = open /\ live' = live /\ made' = made /\ invite' = invite
      /\ shown' = shown /\ twice' = twice
  BY DEF HearLeave, history
<1>2. CASE Ignored(p, q)
  BY <1>1, <1>2, IgnoredStep
<1>3. CASE ~ Ignored(p, q)
  <2> DEFINE unread == Unread(q, p)
             U == Rest(q, p)
  <2>1. Loses(p, q, unread)
    BY <1>3, Zenon DEF HearLeave
  <2>2. \A out, m : AtMost(out, m) /\ Send(p, out, unread)
                      => Ready(U) /\ GrownBy(U, Stream', p, m)
    BY <1>1, AfterTaking
  <2> HIDE DEF unread, U
  <2> QED  BY <1>1, <2>1, <2>2, LosesStep
<1> QED  BY <1>2, <1>3

\* Somebody is lost.
LEMMA LossHeard ==
  ASSUME HeardInv, RoomsFit', NEW p \in People, NEW q \in People, Notice(p, q)
  PROVE  HeardInv'
<1>1. /\ live' = live /\ open' = open \ {<<p, q>>} /\ {p, q} \notin live
      /\ made' = made /\ invite' = invite /\ shown' = shown /\ twice' = twice
  BY DEF Notice, Ends, history
<1>2. Loses(p, q, wire)
  BY Zenon DEF Notice
<1>3. \A out, m : AtMost(out, m) /\ Send(p, out, wire)
                    => Ready(Stream) /\ GrownBy(Stream, Stream', p, m)
  BY <1>1, AfterNoticing
<1> QED  BY <1>1, <1>2, <1>3, LosesStep

-----------------------------------------------------------------------------
(***************************************************************************)
(* A member hears the list, and lines.                                     *)
(***************************************************************************)

\* A list heard: the marks of those who went are gone, and nothing else.
LEMMA ListedRest ==
  ASSUME NEW p, NEW r, NEW members, Shaped(r)
  PROVE  LET s == Listed(p, r, members)
             gone == KeysOf(r.roster) \ KeysOf(members)
         IN  /\ s.id = r.id /\ s.host = r.host /\ s.said = r.said
             /\ s.roster = members
             /\ s.last = Restricted(r.last, DOMAIN r.last \ gone)
<1> DEFINE gone == KeysOf(r.roster) \ KeysOf(members)
           rest == Restricted(r.last, DOMAIN r.last \ gone)
           kept == [r EXCEPT !.roster = members,
                             !.bound = Restricted(@, DOMAIN @ \ gone),
                             !.last = Restricted(@, DOMAIN @ \ gone)]
           hosts == {e \in members : e.of = r.host}
           named == IF hosts = {} THEN kept
                    ELSE [kept EXCEPT !.bound =
                            With(@, (CHOOSE e \in hosts : TRUE).key, r.host)]
           told == [named EXCEPT !.greeted =
                      @ \cup {q \in ContactsOf(p) \ {r.host} :
                                \E e \in members : e.of = q}]
           s == Listed(p, r, members)
<1>1. /\ Shaped(kept) /\ kept.id = r.id /\ kept.host = r.host /\ kept.said = r.said
      /\ kept.roster = members /\ kept.last = rest
  <2> HIDE DEF gone
  <2> QED  BY DEF Shaped, Fields
<1>2. /\ Shaped(named) /\ named.id = r.id /\ named.host = r.host /\ named.said = r.said
      /\ named.roster = members /\ named.last = rest
  <2> HIDE DEF kept, hosts, rest
  <2> QED  BY <1>1 DEF Shaped, Fields
<1>3. /\ Shaped(told) /\ told.id = r.id /\ told.host = r.host /\ told.said = r.said
      /\ told.roster = members /\ told.last = rest
  <2> HIDE DEF named, rest
  <2> QED  BY <1>2 DEF Shaped, Fields
<1>4. s = SettleClaims(told)
  BY DEF Listed
<1>5. \E claimed, bound : s = [told EXCEPT !.claimed = claimed, !.bound = bound]
  BY <1>4, Zenon DEF SettleClaims
<1> HIDE DEF told, rest, s
<1>6. /\ s.id = r.id /\ s.host = r.host /\ s.said = r.said
      /\ s.roster = members /\ s.last = rest
  BY <1>3, <1>5 DEF Shaped, Fields
<1> QED  BY <1>6 DEF s, rest

\* A roster heard: who went does not come back, so what was heard of whoever
\* is listed is still marked.
LEMMA RosterHeard ==
  ASSUME HeardInv, RoomsFit', NEW p \in People, NEW q \in People, HearRoster(p, q)
  PROVE  HeardInv'
<1> DEFINE f == Heard(q, p)
           r == room[p]
           now == Listed(p, r, f.members)
           m == Hello(r)
           told == now.greeted \ r.greeted
           U == Rest(q, p)
<1>1. /\ Frame(p, q, "roster")
      /\ open' = open /\ live' = live /\ made' = made /\ invite' = invite
      /\ shown' = shown /\ twice' = twice
  BY DEF HearRoster, history
<1>2. \/ Ignored(p, q)
      \/ Becomes(p, NoRoom, Nothing, Unread(q, p))
      \/ /\ r # NoRoom /\ r.id = f.id /\ r.host = q
         /\ Becomes(p, now, ToEach(told, m), Unread(q, p))
  BY Zenon DEF HearRoster, In
<1>3. Mute(m) /\ AtMost(Nothing, m) /\ AtMost(ToEach(told, m), m)
  BY OneFrame DEF Mute, Hello
<1>4. CASE Ignored(p, q)
  BY <1>1, <1>4, IgnoredStep
<1>5. CASE Becomes(p, NoRoom, Nothing, Unread(q, p))
  <2> DEFINE s == NoRoom
  <2>1. Becomes(p, s, Nothing, Unread(q, p)) /\ s = NoRoom
    BY <1>5
  <2> HIDE DEF m, s
  <2> QED  BY <1>1, <1>3, <2>1, MuteStep
<1>6. CASE /\ r # NoRoom /\ r.id = f.id /\ r.host = q
           /\ Becomes(p, now, ToEach(told, m), Unread(q, p))
  <2>1. Shaped(r) /\ RoomGood(made, p, r) /\ HeardGood(r, shown[p])
    BY <1>6, OwnRoom
  <2>2. /\ Shaped(now) /\ now.id = r.id /\ now.host = q /\ now.said = r.said
        /\ now.roster = f.members
        /\ now.last = Restricted(r.last, DOMAIN r.last \ (KeysOf(r.roster) \ KeysOf(f.members)))
    <3> DEFINE members == f.members
    <3> HIDE DEF f, r, members
    <3>1. r.host = q
      BY <1>6
    <3>2. Shaped(Listed(p, r, members)) /\ Listed(p, r, members).host = r.host
      BY <2>1, ListedShape
    <3>3. LET s == Listed(p, r, members)
              gone == KeysOf(r.roster) \ KeysOf(members)
          IN  /\ s.id = r.id /\ s.host = r.host /\ s.said = r.said
              /\ s.roster = members
              /\ s.last = Restricted(r.last, DOMAIN r.last \ gone)
      BY ONLY <2>1, ListedRest
    <3>4. now = Listed(p, r, members)
      BY DEF members
    <3> QED  BY <3>1, <3>2, <3>3, <3>4 DEF members
  <2>3. now # NoRoom
    BY <2>2, ShapedIsRoom
  <2>4. room' = [room EXCEPT ![p] = now] /\ Send(p, ToEach(told, m), Unread(q, p))
    BY <1>6, Zenon DEF Becomes
  <2>5. /\ Ready(U) /\ GrownBy(U, Stream', p, m)
        /\ Taken(Stream, U, <<q, p>>)
        /\ Stream[<<q, p>>][1] = f
        /\ FrameGood(made, <<q, p>>, f)
    <3> HIDE DEF now, m, told, r
    <3> QED  BY <1>1, <1>3, <2>4, AfterTaking
  <2>6. f.t = "roster" /\ <<q, p>> \in Ways /\ p # q
    BY <1>1, FrameWay
  <2>7. KeysOf(f.members) \subseteq AnyMade(made)
    BY <2>5, <2>6 DEF FrameGood
  <2>8. Streams(Stream) /\ Steady(Stream, room, shown)
    BY StreamGood DEF HeardInv
  <2> HIDE DEF f, r, now, m, told, U
  <2>9. \A x \in People : room'[x] = IF x = p THEN now ELSE room[x]
    <3>1. RoomsFit
      BY DEF HeardInv
    <3>2. room' = [x \in People |-> IF x = p THEN now ELSE room[x]]
      BY <2>4, <3>1, Zenon DEF RoomsFit
    <3> QED  BY <3>2
  <2>10. Sits(room, p, q, f.id) /\ Sits(room', p, q, f.id)
    BY <1>6, <2>2, <2>3, <2>9 DEF Sits, r
  <2>11. \A k : k \in KeysOf(f.members) /\ k \notin KeysOf(r.roster) => ~ WasShown(shown, p, k)
    <3> SUFFICES ASSUME NEW k, k \in KeysOf(f.members), k \notin KeysOf(r.roster),
                        WasShown(shown, p, k)
                 PROVE  FALSE
      OBVIOUS
    <3>1. ~ Lists(room, p, q, f.id, k)
      BY DEF Lists, r
    <3>2. Over(Stream, room, <<q, p>>, f.id, k, 0)
      BY <2>6, <2>8, <2>10, <3>1 DEF Steady, HeardAndGone
    <3>3. 1 \in 1 .. Len(Stream[<<q, p>>])
      BY <2>5, <2>6, <2>8, TakenAt
    <3>4. Names(Stream[<<q, p>>][1], f.id, k)
      BY <2>5, <2>6 DEF Names
    <3> QED  BY <3>2, <3>3, <3>4 DEF Over
  <2>12. HeardGood(now, shown[p])
    <3>1. DOMAIN now.last = DOMAIN r.last \ (KeysOf(r.roster) \ KeysOf(f.members))
          /\ \A k \in DOMAIN now.last : now.last[k] = r.last[k]
      BY <2>2 DEF Restricted
    <3> QED  BY <1>6, <2>1, <2>2, <2>11, <3>1 DEF HeardGood, WasShown
  <2>13. AllHeardGood(room', shown')
    <3>1. \A x \in People : HeardGood(room[x], shown[x])
      BY DEF HeardInv, AllHeardGood
    <3> QED  BY <1>1, <2>9, <2>12, <3>1 DEF AllHeardGood
  <2>14. RoomsGood(room', made)
    <3>1. RoomGood(made, p, now)
      BY <1>6, <2>1, <2>2, <2>7 DEF RoomGood
    <3>2. \A x \in People : RoomGood(made, x, room[x])
      BY DEF HeardInv, RoomsGood
    <3> QED  BY <2>9, <3>1, <3>2 DEF RoomsGood
  <2>15. Steady(U, room', shown)
    <3>1. \A a \in People \ {<<q, p>>[2]} : room'[a] = room[a]
      BY <2>9
    <3>2. KeysOf(room'[<<q, p>>[2]].roster) = KeysOf(Stream[<<q, p>>][1].members)
      BY <2>2, <2>5, <2>9
    <3>3. Sits(room, <<q, p>>[2], <<q, p>>[1], f.id) /\ Sits(room', <<q, p>>[2], <<q, p>>[1], f.id)
      BY <2>10
    <3>4. Stream[<<q, p>>][1].t = "roster" /\ Stream[<<q, p>>][1].id = f.id
      BY <2>5, <2>6
    <3> QED  BY <2>5, <2>6, <2>8, <3>1, <3>2, <3>3, <3>4, RosterSteady
  <2>16. /\ m.t # "join" /\ Truly(room', p, m)
         /\ \A w \in Ways : FrameGood(made, w, m)
    BY <1>3, MuteGood
  <2>17. InvitesGood(invite', made) /\ Plain'
    BY <1>1 DEF HeardInv, Plain
  <2>18. Steady(U, room', shown')
    BY <1>1, <2>15
  <2> QED  BY <1>1, <2>5, <2>13, <2>14, <2>16, <2>17, <2>18, Closes
<1> QED  BY <1>2, <1>4, <1>5, <1>6

\* A line taken is marked, and what was marked stays so.
LEMMA MarkedOnce ==
  ASSUME NEW r, NEW f, NEW lines, Shaped(r), HeardGood(r, lines), f.seq \in Nat \ {0},
         f.key \in DOMAIN r.last => ~ Has(r.last[f.key], f.seq)
  PROVE  LET s == HeardOnce(r, f)
         IN  /\ Shaped(s) /\ s.id = r.id /\ s.host = r.host /\ s.said = r.said
             /\ s.roster = r.roster
             /\ HeardGood(s, lines \cup {<<f.key, f.seq>>})
<1> DEFINE k0 == f.key
           n0 == f.seq
           old == SeenFrom(r, k0)
           last == With(r.last, k0, Accept(old, n0))
           s == HeardOnce(r, f)
<1>1. r # NoRoom
  BY ShapedIsRoom
<1>2. /\ Shaped(s) /\ s.id = r.id /\ s.host = r.host /\ s.said = r.said
      /\ s.roster = r.roster /\ s.last = last
  <2>1. s = [r EXCEPT !.last = last]
    BY DEF HeardOnce
  <2> HIDE DEF last, s
  <2> QED  BY <2>1 DEF Shaped, Fields
<1>3. Window(old) /\ ~ Has(old, n0)
  <2>1. CASE k0 \in DOMAIN r.last
    BY <1>1, <2>1 DEF SeenFrom, HeardGood
  <2>2. CASE k0 \notin DOMAIN r.last
    <3>1. old = [floor |-> 1, above |-> {}]
      BY <2>2 DEF SeenFrom, StartingAt
    <3>2. IsFiniteSet({}) /\ Cardinality({}) = 0
      BY FS_EmptySet
    <3>3. Settled(old)
      BY <3>1, <3>2 DEF Settled, SeenType
    <3> QED  BY <3>1, <3>2, <3>3, WindowAssumption DEF Window, Has
  <2> QED  BY <2>1, <2>2
<1>4. /\ Settled(Accept(old, n0)) /\ Cardinality(Accept(old, n0).above) <= WINDOW
      /\ Has(Accept(old, n0), n0)
      /\ \A n \in Nat : Has(old, n) => Has(Accept(old, n0), n)
  <2> HIDE DEF old, n0
  <2>1. Settled(old) /\ Cardinality(old.above) <= WINDOW /\ n0 \in Nat
    BY <1>3 DEF Window, n0
  <2> QED  BY <1>3, <2>1, AcceptKeeps
<1>5. /\ DOMAIN last = DOMAIN r.last \cup {k0}
      /\ last[k0] = Accept(old, n0)
      /\ \A k \in DOMAIN r.last : k # k0 => last[k] = r.last[k]
  BY DEF With
<1>6. k0 \in DOMAIN r.last => old = r.last[k0]
  BY DEF SeenFrom
<1> HIDE DEF k0, n0, old, last, s
<1>7. \A k \in DOMAIN last : Window(last[k])
  <2>1. \A k \in DOMAIN r.last : Window(r.last[k])
    BY <1>1 DEF HeardGood
  <2>2. Window(Accept(old, n0))
    BY <1>4 DEF Window
  <2> QED  BY <1>5, <2>1, <2>2
<1>8. ASSUME NEW k, NEW n, <<k, n>> \in lines \cup {<<k0, n0>>}, k \in KeysOf(r.roster)
      PROVE  n \in Nat /\ k \in DOMAIN last /\ Has(last[k], n)
  <2>1. CASE <<k, n>> = <<k0, n0>>
    <3>1. k = k0 /\ n = n0 /\ n \in Nat
      BY <2>1 DEF n0
    <3> QED  BY <3>1, <1>4, <1>5
  <2>2. CASE <<k, n>> \in lines
    <3>1. n \in Nat /\ k \in DOMAIN r.last /\ Has(r.last[k], n)
      BY <1>1, <1>8, <2>2 DEF HeardGood
    <3> QED  BY <3>1, <1>4, <1>5, <1>6
  <2> QED  BY <1>8, <2>1, <2>2
<1>9. HeardGood(s, lines \cup {<<k0, n0>>})
  BY <1>2, <1>7, <1>8 DEF HeardGood
<1> QED  BY <1>2, <1>9 DEF s, k0, n0

\* A line heard is shown for the first time.
LEMMA LineHeard ==
  ASSUME HeardInv, RoomsFit', NEW p \in People, NEW q \in People, HearLine(p, q)
  PROVE  HeardInv'
<1> DEFINE f == Heard(q, p)
           r == room[p]
           now == HeardOnce(r, f)
           some == Targets(r) \ ((IF f.key \in DOMAIN r.bound THEN {r.bound[f.key]} ELSE {}) \cup {q})
           U == Rest(q, p)
           line == <<f.key, f.seq>>
<1>1. /\ Frame(p, q, "line")
      /\ open' = open /\ live' = live /\ made' = made /\ invite' = invite
  BY DEF HearLine
<1>2. /\ r # NoRoom /\ f.key \in KeysOf(r.roster)
      /\ f.key \in DOMAIN r.last => ~ Has(r.last[f.key], f.seq)
      /\ Becomes(p, now, ToEach(some, f), Unread(q, p))
      /\ shown' = [shown EXCEPT ![p] = @ \cup {line}]
      /\ twice' = IF line \in shown[p] THEN twice \cup {line} ELSE twice
  BY Zenon DEF HearLine, In, PassOn
<1>3. Shaped(r) /\ RoomGood(made, p, r) /\ HeardGood(r, shown[p])
  BY <1>2, OwnRoom
<1>4. room' = [room EXCEPT ![p] = now] /\ Send(p, ToEach(some, f), Unread(q, p))
  BY <1>2, Zenon DEF Becomes
<1>5. AtMost(ToEach(some, f), f)
  BY OneFrame
<1>6. Ready(U) /\ GrownBy(U, Stream', p, f) /\ FrameGood(made, <<q, p>>, f)
  <2> HIDE DEF now, some, r, f
  <2>1. AtMost(ToEach(some, Heard(q, p)), Heard(q, p)) /\ Send(p, ToEach(some, Heard(q, p)), Unread(q, p))
    BY <1>4, <1>5 DEF f
  <2>2. /\ Ready(Rest(q, p)) /\ GrownBy(Rest(q, p), Stream', p, Heard(q, p))
        /\ FrameGood(made, <<q, p>>, Heard(q, p))
    BY <1>1, <2>1, AfterTaking
  <2> QED  BY <2>2 DEF f
<1>7. f.t = "line" /\ f.seq \in Nat \ {0}
  <2>1. f.t = "line"
    BY <1>1, FrameWay
  <2> QED  BY <1>6, <2>1 DEF FrameGood
<1> HIDE DEF f, r, now, some, U
<1>8. line \notin shown[p]
  BY <1>2, <1>3 DEF HeardGood
<1>9. twice' = twice
  BY <1>2, <1>8
<1>10. /\ Shaped(now) /\ now.id = r.id /\ now.host = r.host /\ now.said = r.said
       /\ now.roster = r.roster
       /\ HeardGood(now, shown[p] \cup {line})
  <2>1. now = HeardOnce(r, f)
    BY DEF now
  <2> HIDE DEF line
  <2>2. LET s == HeardOnce(r, f)
        IN  /\ Shaped(s) /\ s.id = r.id /\ s.host = r.host /\ s.said = r.said
            /\ s.roster = r.roster
            /\ HeardGood(s, shown[p] \cup {<<f.key, f.seq>>})
    BY <1>2, <1>3, <1>7, MarkedOnce
  <2> QED  BY <2>1, <2>2 DEF line
<1> HIDE DEF line
<1>11. \A x \in People : room'[x] = IF x = p THEN now ELSE room[x]
  <2>1. RoomsFit
    BY DEF HeardInv
  <2>2. room' = [x \in People |-> IF x = p THEN now ELSE room[x]]
    BY <1>4, <2>1, Zenon DEF RoomsFit
  <2> QED  BY <2>2
<1>12. \A x \in People : shown'[x] = IF x = p THEN shown[p] \cup {line} ELSE shown[x]
  <2>1. shown' = [x \in People |-> IF x = p THEN shown[p] \cup {line} ELSE shown[x]]
    BY <1>2, Zenon DEF HeardInv, Plain
  <2> QED  BY <2>1
<1>13. \A a \in People : \A k : WasShown(shown', a, k) =>
         WasShown(shown, a, k) \/ (a = p /\ k = f.key)
  <2> SUFFICES ASSUME NEW a \in People, NEW k, WasShown(shown', a, k), ~ WasShown(shown, a, k)
               PROVE  a = p /\ k = f.key
    OBVIOUS
  <2>1. PICK n : <<k, n>> \in shown'[a]
    BY DEF WasShown
  <2>2. <<k, n>> \notin shown[a]
    BY DEF WasShown
  <2>3. a = p /\ <<k, n>> = line
    BY <1>12, <2>1, <2>2
  <2> QED  BY <2>3 DEF line
<1>14. now # NoRoom
  BY <1>10, ShapedIsRoom
<1>15. RoomsGood(room', made)
  <2>1. RoomGood(made, p, now)
    BY <1>2, <1>3, <1>10 DEF RoomGood
  <2>2. \A x \in People : RoomGood(made, x, room[x])
    BY DEF HeardInv, RoomsGood
  <2> QED  BY <1>11, <2>1, <2>2 DEF RoomsGood
<1>16. AllHeardGood(room', shown')
  <2>1. \A x \in People : HeardGood(room[x], shown[x])
    BY DEF HeardInv, AllHeardGood
  <2> QED  BY <1>10, <1>11, <1>12, <2>1 DEF AllHeardGood
<1>17. Steady(U, room', shown')
  <2>1. \A x \in People : Alike(room[x], room'[x])
    BY <1>2, <1>10, <1>11, <1>14 DEF Alike, r
  <2>2. Steady(U, room, shown)
    BY <1>6 DEF Ready
  <2>3. Steady(U, room', shown)
    BY <2>1, <2>2, AlikeSteady
  <2>4. \A a \in People : \A k : WasShown(shown', a, k) =>
          \/ WasShown(shown, a, k)
          \/ a = p /\ k = f.key
    BY <1>13
  <2>5. \A h, id : Sits(room', p, h, id) => Lists(room', p, h, id, f.key)
    BY <1>2, <1>10, <1>11 DEF Lists
  <2>6. \A a \in People : \A k : WasShown(shown', a, k) =>
          \/ WasShown(shown, a, k)
          \/ \A h, id : Sits(room', a, h, id) => Lists(room', a, h, id, k)
    BY <2>4, <2>5
  <2> QED  BY <2>3, <2>6, ShownSteady
<1>18. /\ f.t # "join" /\ Truly(room', p, f)
       /\ \A w \in Ways : w[1] = p => FrameGood(made, w, f)
  BY <1>7 DEF Truly, FrameGood
<1>19. InvitesGood(invite', made) /\ Plain'
  <2>1. shown' = [x \in People |-> shown'[x]]
    BY <1>2, Zenon DEF HeardInv, Plain
  <2>2. \A a \in People : \A k : WasShown(shown', a, k) => k \in AnyMade(made)
    BY <1>2, <1>3, <1>13 DEF RoomGood, HeardInv, Plain
  <2> QED  BY <1>1, <2>1, <2>2 DEF HeardInv, Plain
<1> QED  BY <1>1, <1>6, <1>9, <1>15, <1>16, <1>17, <1>18, <1>19, Closes

-----------------------------------------------------------------------------
(***************************************************************************)
(* A room is entered.                                                      *)
(***************************************************************************)

\* The next name p makes is nobody's yet.
LEMMA NextIsNew ==
  ASSUME NEW md \in [People -> Nat], NEW p \in People
  PROVE  LET k == <<p, md[p]>>
             md2 == [md EXCEPT ![p] = @ + 1]
         IN  /\ k \notin AnyMade(md) /\ k \in Made(md2, p) /\ k \in AnyMade(md2)
             /\ md2 \in [People -> Nat]
             /\ \A x \in People : Made(md, x) \subseteq Made(md2, x)
             /\ AnyMade(md) \subseteq AnyMade(md2)
             /\ \A st : FramesGood(st, md) => FramesGood(st, md2)
             /\ \A x \in People : \A r : RoomGood(md, x, r) => RoomGood(md2, x, r)
             /\ \A inv : InvitesGood(inv, md) => InvitesGood(inv, md2)
<1> DEFINE k == <<p, md[p]>>
           md2 == [md EXCEPT ![p] = @ + 1]
<1>1. /\ md2 \in [People -> Nat] /\ md2[p] = md[p] + 1
      /\ \A x \in People : md[x] <= md2[x]
  OBVIOUS
<1>2. k \notin AnyMade(md)
  <2> SUFFICES ASSUME NEW x \in People, k \in Made(md, x) PROVE FALSE
    BY DEF AnyMade
  <2>1. PICK n \in 0 .. md[x] - 1 : k = <<x, n>>
    BY DEF Made
  <2> QED  BY <2>1
<1>3. k \in Made(md2, p) /\ k \in AnyMade(md2)
  <2>1. md[p] \in 0 .. md2[p] - 1
    BY <1>1
  <2>2. k \in Made(md2, p)
    BY <2>1 DEF Made
  <2> QED  BY <2>2 DEF AnyMade
<1> HIDE DEF md2, k
<1>4. /\ \A x \in People : Made(md, x) \subseteq Made(md2, x)
      /\ AnyMade(md) \subseteq AnyMade(md2)
      /\ \A st : FramesGood(st, md) => FramesGood(st, md2)
      /\ \A x \in People : \A r : RoomGood(md, x, r) => RoomGood(md2, x, r)
      /\ \A inv : InvitesGood(inv, md) => InvitesGood(inv, md2)
  BY <1>1, StaysMade
<1> QED  BY <1>1, <1>2, <1>3, <1>4 DEF k, md2

\* The variables written by whoever enters a room.
LEMMA EnteredAt ==
  ASSUME HeardInv, NEW p \in People, NEW r, room' = [room EXCEPT ![p] = r],
         shown' = [shown EXCEPT ![p] = {}]
  PROVE  /\ \A x \in People : room'[x] = IF x = p THEN r ELSE room[x]
         /\ \A x \in People : shown'[x] = IF x = p THEN {} ELSE shown[x]
         /\ shown' = [x \in People |-> shown'[x]]
<1>1. room = [x \in People |-> room[x]] /\ shown = [x \in People |-> shown[x]]
  BY DEF HeardInv, RoomsFit, Plain
<1>2. room' = [x \in People |-> IF x = p THEN r ELSE room[x]]
  BY <1>1, Zenon
<1>3. shown' = [x \in People |-> IF x = p THEN {} ELSE shown[x]]
  BY <1>1, Zenon
<1> QED  BY <1>2, <1>3

\* In a room just entered nothing was heard.
LEMMA EnteredParts ==
  ASSUME HeardInv, NEW p \in People, NEW STATE r, RoomGood(made', p, r), r.last = Empty,
         \A x \in People : room'[x] = IF x = p THEN r ELSE room[x],
         \A x \in People : shown'[x] = IF x = p THEN {} ELSE shown[x],
         AnyMade(made) \subseteq AnyMade(made'),
         \A x \in People : \A s : RoomGood(made, x, s) => RoomGood(made', x, s)
  PROVE  /\ \A x \in People : \A k : WasShown(shown', x, k) <=> x # p /\ WasShown(shown, x, k)
         /\ RoomsGood(room', made') /\ AllHeardGood(room', shown')
         /\ \A x \in People : \A k : WasShown(shown', x, k) => k \in AnyMade(made')
<1>1. \A x \in People : \A k : WasShown(shown', x, k) <=> x # p /\ WasShown(shown, x, k)
  <2> SUFFICES ASSUME NEW x \in People, NEW k
               PROVE  WasShown(shown', x, k) <=> x # p /\ WasShown(shown, x, k)
    OBVIOUS
  <2>1. x = p => shown'[x] = {}
    OBVIOUS
  <2>2. x # p => shown'[x] = shown[x]
    OBVIOUS
  <2> QED  BY <2>1, <2>2 DEF WasShown
<1>2. RoomsGood(room', made')
  <2>1. \A x \in People : RoomGood(made, x, room[x])
    BY DEF HeardInv, RoomsGood
  <2>2. \A x \in People : RoomGood(made', x, room'[x])
    BY <2>1
  <2> QED  BY <2>2 DEF RoomsGood
<1>3. AllHeardGood(room', shown')
  <2>1. \A x \in People : HeardGood(room[x], shown[x])
    BY DEF HeardInv, AllHeardGood
  <2>2. DOMAIN r.last = {}
    BY DEF Empty
  <2>3. HeardGood(r, {})
    BY <2>2 DEF HeardGood
  <2>4. \A x \in People : HeardGood(room'[x], shown'[x])
    BY <2>1, <2>3
  <2> QED  BY <2>4 DEF AllHeardGood
<1>4. \A x \in People : \A k : WasShown(shown', x, k) => k \in AnyMade(made')
  BY <1>1 DEF HeardInv, Plain
<1> QED  BY <1>1, <1>2, <1>3, <1>4

\* A room made has a name nobody used.
LEMMA CreateHeard ==
  ASSUME HeardInv, RoomsFit', NEW p \in People, Create(p)
  PROVE  HeardInv'
<1> DEFINE fresh == <<p, made[p]>>
           r == [NewRoom(fresh, p, fresh) EXCEPT !.roster = {Entry(fresh, p)}]
<1>1. /\ room[p] = NoRoom /\ room' = [room EXCEPT ![p] = r]
      /\ made' = [made EXCEPT ![p] = @ + 1] /\ shown' = [shown EXCEPT ![p] = {}]
  BY Zenon DEF Create
<1>2. /\ open' = open /\ live' = live /\ wire' = wire /\ waiting' = waiting
      /\ invite' = invite /\ twice' = twice
  BY DEF Create, linkVars
<1>3. /\ Shaped(r) /\ r.id = fresh /\ r.host = p /\ r.said = 0
      /\ r.roster = {Entry(fresh, p)} /\ r.last = Empty
  BY DEF NewRoom, Shaped, Fields
<1> HIDE DEF r
<1>4. KeysOf(r.roster) = {fresh}
  BY <1>3 DEF KeysOf, Entry
<1> HIDE DEF fresh
<1>5. made \in [People -> Nat]
  BY DEF HeardInv, Plain
<1>6. /\ fresh \notin AnyMade(made) /\ fresh \in Made(made', p) /\ fresh \in AnyMade(made')
      /\ AnyMade(made) \subseteq AnyMade(made')
      /\ \A x \in People : \A s : RoomGood(made, x, s) => RoomGood(made', x, s)
      /\ made' \in [People -> Nat]
      /\ \A st : FramesGood(st, made) => FramesGood(st, made')
      /\ \A inv : InvitesGood(inv, made) => InvitesGood(inv, made')
  BY <1>1, <1>5, NextIsNew DEF fresh
<1>7. RoomGood(made', p, r)
  BY <1>3, <1>4, <1>6 DEF RoomGood
<1>8. /\ \A x \in People : room'[x] = IF x = p THEN r ELSE room[x]
      /\ \A x \in People : shown'[x] = IF x = p THEN {} ELSE shown[x]
      /\ shown' = [x \in People |-> shown'[x]]
  BY <1>1, EnteredAt, Zenon
<1>9. /\ \A x \in People : \A k : WasShown(shown', x, k) <=> x # p /\ WasShown(shown, x, k)
      /\ RoomsGood(room', made') /\ AllHeardGood(room', shown')
      /\ \A x \in People : \A k : WasShown(shown', x, k) => k \in AnyMade(made')
  BY <1>3, <1>6, <1>7, <1>8, EnteredParts
<1>10. r # NoRoom
  BY <1>3, ShapedIsRoom
<1>11. \A x \in People : Made(made, x) \subseteq AnyMade(made)
  BY DEF AnyMade
<1>12. Steady(Stream, room', shown')
  <2>1. Steady(Stream, room, shown)
    BY DEF HeardInv
  <2>2. \A w \in Ways : \A i \in 1 .. Len(Stream[w]) :
          Stream[w][i].t \in {"roster", "join"} => Stream[w][i].id # fresh
    BY <1>6, <1>11, WayEnds DEF HeardInv, FramesGood, FrameGood
  <2>3. \A a, h \in People : ~ Sits(room, a, h, fresh)
    BY <1>6, <1>11 DEF HeardInv, RoomsGood, RoomGood, Sits
  <2>4. /\ room'[p] # NoRoom /\ room'[p].host = p /\ room'[p].id = fresh
        /\ \A a \in People \ {p} : /\ room'[a] = room[a]
                                   /\ \A k : WasShown(shown', a, k) <=> WasShown(shown, a, k)
        /\ \A k : ~ WasShown(shown', p, k)
    BY <1>3, <1>8, <1>9, <1>10
  <2>5. /\ \A w \in Ways : \A i \in 1 .. Len(Stream[w]) :
             Stream[w][i].t \in {"roster", "join"} => Stream[w][i].id # room'[p].id
        /\ \A a, h \in People : ~ Sits(room, a, h, room'[p].id)
    BY <2>2, <2>3, <2>4
  <2>6. room[p] = NoRoom
    BY <1>1
  <2> QED  BY ONLY <2>1, <2>4, <2>5, <2>6, p \in People, EnterSteady
<1>13. Stream' = Stream /\ WireGood' /\ LiveGood'
  BY <1>2 DEF HeardInv, Stream, WireGood, LiveGood
<1>14. FramesGood(Stream', made') /\ Steady(Stream', room', shown')
  BY <1>6, <1>12, <1>13 DEF HeardInv
<1>15. InvitesGood(invite', made') /\ Plain' /\ ShownOnce'
  BY <1>2, <1>6, <1>8, <1>9 DEF HeardInv, Plain, ShownOnce
<1> QED  BY <1>9, <1>13, <1>14, <1>15, InvPrime DEF HeardInv

\* Who joins asks under a key nobody saw.
LEMMA JoinedHeard ==
  ASSUME HeardInv, RoomsFit', NEW p \in People, Join(p)
  PROVE  HeardInv'
<1> DEFINE fresh == <<p, made[p]>>
           h0 == invite[p].from
           id0 == invite[p].id
           r == NewRoom(id0, h0, fresh)
           m == Joining(r)
<1>1. /\ room[p] = NoRoom /\ invite[p] # NoInvite
      /\ room' = [room EXCEPT ![p] = r] /\ Send(p, ToEach({r.host}, m), wire)
  BY Zenon DEF Join, Becomes
<1>2. /\ open' = open /\ live' = live /\ twice' = twice
      /\ invite' = [invite EXCEPT ![p] = NoInvite]
      /\ made' = [made EXCEPT ![p] = @ + 1] /\ shown' = [shown EXCEPT ![p] = {}]
  BY DEF Join
<1>3. /\ Shaped(r) /\ r.id = id0 /\ r.host = h0 /\ r.said = 0
      /\ r.roster = {} /\ r.last = Empty /\ r.key = fresh
  BY DEF NewRoom, Shaped, Fields
<1>4. m.t = "join" /\ m.id = id0 /\ m.key = fresh
  BY <1>3 DEF Joining
<1>5. AtMost(ToEach({r.host}, m), m)
  BY OneFrame
<1> HIDE DEF r, m, fresh
<1>6. Ready(Stream) /\ GrownBy(Stream, Stream', p, m)
  BY <1>1, <1>2, <1>5, AfterSaying
<1>7. made \in [People -> Nat] /\ invite = [x \in People |-> invite[x]]
  BY DEF HeardInv, Plain
<1>8. /\ fresh \notin AnyMade(made) /\ fresh \in Made(made', p)
      /\ made' \in [People -> Nat]
      /\ \A x \in People : Made(made, x) \subseteq Made(made', x)
      /\ AnyMade(made) \subseteq AnyMade(made')
      /\ \A x \in People : \A s : RoomGood(made, x, s) => RoomGood(made', x, s)
      /\ \A st : FramesGood(st, made) => FramesGood(st, made')
      /\ \A inv : InvitesGood(inv, made) => InvitesGood(inv, made')
  BY <1>2, <1>7, NextIsNew DEF fresh
<1>9. h0 \in ContactsOf(p) /\ h0 \in People /\ h0 # p /\ id0 \in Made(made, h0)
  <2>1. h0 \in ContactsOf(p) /\ id0 \in Made(made, h0)
    BY <1>1 DEF HeardInv, InvitesGood
  <2>2. <<p, h0>> \in Ways /\ h0 \in People
    BY <2>1 DEF ContactsOf
  <2>3. h0 # p
    BY <2>2, WayEnds
  <2> QED  BY <2>1, <2>2, <2>3
<1> HIDE DEF h0, id0
<1>10. KeysOf(r.roster) = {}
  BY <1>3 DEF KeysOf
<1>11. RoomGood(made', p, r)
  BY <1>3, <1>8, <1>9, <1>10 DEF RoomGood
<1>12. /\ \A x \in People : room'[x] = IF x = p THEN r ELSE room[x]
       /\ \A x \in People : shown'[x] = IF x = p THEN {} ELSE shown[x]
       /\ shown' = [x \in People |-> shown'[x]]
  BY <1>1, <1>2, EnteredAt, Zenon
<1>13. /\ \A x \in People : \A k : WasShown(shown', x, k) <=> x # p /\ WasShown(shown, x, k)
       /\ RoomsGood(room', made') /\ AllHeardGood(room', shown')
       /\ \A x \in People : \A k : WasShown(shown', x, k) => k \in AnyMade(made')
  BY <1>3, <1>8, <1>11, <1>12, EnteredParts
<1>14. r # NoRoom
  BY <1>3, ShapedIsRoom
<1>15. Steady(Stream, room', shown')
  <2>1. Steady(Stream, room, shown)
    BY DEF HeardInv
  <2>2. /\ room'[p] # NoRoom /\ room'[p].host # p /\ KeysOf(room'[p].roster) = {}
        /\ \A a \in People \ {p} : /\ room'[a] = room[a]
                                   /\ \A k : WasShown(shown', a, k) <=> WasShown(shown, a, k)
        /\ \A k : ~ WasShown(shown', p, k)
    BY <1>3, <1>9, <1>10, <1>12, <1>14, <1>13
  <2> QED  BY <1>1, <2>1, <2>2, EnterSteady
<1>16. \A w \in Ways : ~ Asked(Stream, w[2], id0, fresh)
  <2>1. \A w \in Ways : \A i \in 1 .. Len(Stream[w]) : ~ Asks(Stream[w][i], id0, fresh)
    BY <1>8, WayEnds DEF HeardInv, FramesGood, FrameGood, Asks, AnyMade
  <2> QED  BY <2>1 DEF Asked
<1>17. /\ \A a, h \in People : ~ Lists(room', a, h, id0, fresh)
       /\ \A a \in People : ~ WasShown(shown', a, fresh)
  <2>1. \A a \in People : room[a] # NoRoom => KeysOf(room[a].roster) \subseteq AnyMade(made)
    BY DEF HeardInv, RoomsGood, RoomGood
  <2>2. \A a, h \in People : ~ Lists(room', a, h, id0, fresh)
    BY <1>8, <1>10, <1>12, <2>1 DEF Lists, Sits
  <2>3. \A a \in People : ~ WasShown(shown', a, fresh)
    BY <1>8, <1>13 DEF HeardInv, Plain
  <2> QED  BY <2>2, <2>3
<1>18. \A h \in People : Fresh(Stream, room', shown', h, id0, fresh)
  <2>1. \A w \in Ways : \A i \in 1 .. Len(Stream[w]) : ~ Names(Stream[w][i], id0, fresh)
    BY <1>8 DEF HeardInv, FramesGood, FrameGood, Names
  <2>2. \A w \in Ways : Over(Stream, room', w, id0, fresh, 0)
    BY <1>17, <2>1, WayEnds DEF Over
  <2> QED  BY <1>17, <2>2 DEF Fresh
<1>19. Steady(Stream', room', shown')
  <2>1. Streams(Stream) /\ Truly(room', p, m)
    BY <1>4, <1>6 DEF Ready, Truly
  <2>2. m.t = "join" => /\ \A w \in Ways : ~ Asked(Stream, w[2], m.id, m.key)
                        /\ \A h \in People : Fresh(Stream, room', shown', h, m.id, m.key)
                        /\ \A a, h \in People :
                             Sits(room', a, h, m.id) => ~ WasShown(shown', a, m.key)
    BY <1>4, <1>16, <1>17, <1>18
  <2> QED  BY <1>6, <1>15, <2>1, <2>2, GrownSteady
<1>20. FramesGood(Stream', made')
  <2>1. \A w \in Ways : w[1] = p => FrameGood(made', w, m)
    <3>1. id0 \in AnyMade(made')
      BY <1>8, <1>9 DEF AnyMade
    <3> QED  BY <1>4, <1>8, <3>1 DEF FrameGood
  <2>2. Streams(Stream) /\ FramesGood(Stream, made')
    BY <1>6, <1>8 DEF Ready
  <2> QED  BY <1>6, <2>1, <2>2, GrownFrames
<1>21. invite' = [x \in People |-> IF x = p THEN NoInvite ELSE invite[x]]
  BY <1>2, <1>7, Zenon
<1>22. InvitesGood(invite', made') /\ invite' = [x \in People |-> invite'[x]]
  <2>1. InvitesGood(invite, made')
    BY <1>8 DEF HeardInv
  <2> QED  BY <1>21, <2>1 DEF InvitesGood
<1>23. Plain' /\ ShownOnce'
  BY <1>2, <1>8, <1>12, <1>22, <1>13 DEF HeardInv, Plain, ShownOnce
<1>24. WireGood' /\ LiveGood'
  BY <1>6 DEF Ready
<1> QED  BY <1>19, <1>20, <1>22, <1>23, <1>24, <1>13, InvPrime DEF HeardInv

-----------------------------------------------------------------------------
(***************************************************************************)
(* Time, connections, crashes.                                             *)
(***************************************************************************)

\* A step in which nothing is sent.
LEMMA StillReady ==
  ASSUME HeardInv, UNCHANGED linkVars
  PROVE  /\ Stream' = Stream /\ Ready(Stream)
         /\ \A p, m : GrownBy(Stream, Stream', p, m)
<1>1. Stream' = Stream /\ WireGood' /\ LiveGood'
  BY DEF HeardInv, linkVars, Stream, WireGood, LiveGood
<1>2. \A p, m : GrownBy(Stream, Stream', p, m)
  BY <1>1 DEF GrownBy
<1>3. Streams(Stream)
  BY StreamGood DEF HeardInv
<1> QED  BY <1>1, <1>2, <1>3 DEF HeardInv, Ready

\* A promise that ran out at the host,
LEMMA ExpiredHeard ==
  ASSUME HeardInv, RoomsFit', NEW p \in People, NEW q \in People, Expire(p, q)
  PROVE  HeardInv'
<1> DEFINE r == [room[p] EXCEPT !.invited = @ \ {q}]
           m == Leaving(1)
<1>1. room[p] # NoRoom /\ room' = [room EXCEPT ![p] = r]
  BY Zenon DEF Expire, Hosts
<1>2. Keeps(room[p], r)
  BY <1>1, OwnRoom, StillKeeps
<1>3. /\ UNCHANGED linkVars /\ invite' = invite /\ made' = made
      /\ shown' = shown /\ twice' = twice
  BY DEF Expire, history
<1>4. Ready(Stream) /\ GrownBy(Stream, Stream', p, m)
  BY <1>3, StillReady
<1>5. Mute(m)
  BY DEF Mute, Leaving
<1>6. /\ m.t # "join" /\ Truly(room', p, m)
      /\ \A w \in Ways : FrameGood(made, w, m)
  BY <1>5, MuteGood
<1>7. InvitesGood(invite', made) /\ invite' = [x \in People |-> invite'[x]]
  BY <1>3 DEF HeardInv, Plain
<1> HIDE DEF r, m
<1> QED  BY <1>1, <1>2, <1>3, <1>4, <1>6, <1>7, KeepingStep

\* an invitation that ran out at whom it asked.
LEMMA ForgotHeard ==
  ASSUME HeardInv, RoomsFit', NEW p \in People, Forget(p)
  PROVE  HeardInv'
<1> DEFINE m == Leaving(1)
<1>1. /\ UNCHANGED linkVars /\ room' = room /\ made' = made
      /\ shown' = shown /\ twice' = twice
      /\ invite' = [invite EXCEPT ![p] = NoInvite]
  BY DEF Forget, history
<1>2. Ready(Stream) /\ GrownBy(Stream, Stream', p, m)
  BY <1>1, StillReady
<1>3. Mute(m)
  BY DEF Mute, Leaving
<1>4. /\ m.t # "join" /\ Truly(room', p, m)
      /\ \A w \in Ways : FrameGood(made, w, m)
  BY <1>3, MuteGood
<1>5. invite' = [x \in People |-> IF x = p THEN NoInvite ELSE invite[x]]
  BY <1>1, Zenon DEF HeardInv, Plain
<1>6. InvitesGood(invite', made) /\ invite' = [x \in People |-> invite'[x]]
  BY <1>5 DEF HeardInv, InvitesGood
<1>7. room' = [room EXCEPT ![p] = room[p]]
  BY <1>1 DEF HeardInv, RoomsFit
<1>8. room[p] = NoRoom \/ Keeps(room[p], room[p])
  BY OwnRoom, StillKeeps
<1> HIDE DEF m
<1> QED  BY <1>1, <1>2, <1>4, <1>6, <1>7, <1>8, KeepingStep

\* A step in which frames are lost, and rooms and invitations at most left.
LEMMA LossStep ==
  ASSUME HeardInv, RoomsFit', Loss, LiveGood',
         \A x \in People : room'[x] = room[x] \/ room'[x] = NoRoom,
         invite' = [x \in People |-> invite'[x]],
         \A x \in People : invite'[x] = invite[x] \/ invite'[x] = NoInvite,
         made' = made, shown' = shown, twice' = twice
  PROVE  HeardInv'
<1>1. WireGood' /\ Thinned(Stream, Stream')
  BY LossThins DEF HeardInv
<1>2. Streams(Stream) /\ Streams(Stream')
  <2>1. WireGood' => Streams(Stream)'
    BY StreamGood, PTL
  <2> QED  BY <1>1, <2>1, StreamGood DEF HeardInv
<1>3. FramesGood(Stream', made)
  BY <1>1, ThinnedFrames DEF HeardInv
<1>4. Steady(Stream', room', shown)
  <2>1. Steady(Stream', room, shown)
    BY <1>1, <1>2, ThinnedSteady DEF HeardInv
  <2>2. \A x \in People : Alike(room[x], room'[x])
    BY DEF Alike
  <2> QED  BY <2>1, <2>2, AlikeSteady
<1>5. RoomsGood(room', made)
  BY DEF HeardInv, RoomsGood, RoomGood
<1>6. InvitesGood(invite', made)
  BY DEF HeardInv, InvitesGood
<1>7. AllHeardGood(room', shown)
  BY DEF HeardInv, AllHeardGood, HeardGood
<1>8. Plain' /\ ShownOnce'
  BY DEF HeardInv, Plain, ShownOnce
<1>9. /\ FramesGood(Stream', made') /\ Steady(Stream', room', shown') /\ RoomsGood(room', made')
      /\ InvitesGood(invite', made') /\ AllHeardGood(room', shown')
  BY <1>3, <1>4, <1>5, <1>6, <1>7
<1> QED  BY <1>1, <1>8, <1>9, InvPrime DEF HeardInv

\* What happens to connections.
LEMMA FaultHeard ==
  ASSUME HeardInv, RoomsFit', NEW p \in People, NEW q \in People,
         Connects(p, q) \/ Breaks(p, q) \/ LetsGo(p, q)
  PROVE  HeardInv'
<1>1. /\ room' = room /\ invite' = invite /\ made' = made
      /\ shown' = shown /\ twice' = twice
  BY DEF Connects, Breaks, LetsGo, history
<1>2. Loss /\ LiveGood'
  <2>1. Connect(p, q) \/ Break(p, q) \/ LetGo(p, q)
    BY DEF Connects, Breaks, LetsGo
  <2> QED  BY <2>1, ConnectLoses, BreakLoses, LetGoLoses DEF HeardInv
<1>3. invite' = [x \in People |-> invite'[x]]
  BY <1>1 DEF HeardInv, Plain
<1> QED  BY <1>1, <1>2, <1>3, LossStep

\* A crash: the room is gone, and frames with it.
LEMMA CrashHeard ==
  ASSUME HeardInv, RoomsFit', NEW p \in People, Crash(p)
  PROVE  HeardInv'
<1>1. /\ made' = made /\ shown' = shown /\ twice' = twice
      /\ room' = [room EXCEPT ![p] = NoRoom] /\ invite' = [invite EXCEPT ![p] = NoInvite]
  BY DEF Crash, history
<1>2. Loss /\ LiveGood'
  BY KilledLoses DEF Crash, HeardInv
<1>3. room' = [x \in People |-> IF x = p THEN NoRoom ELSE room[x]]
  BY <1>1, Zenon DEF HeardInv, RoomsFit
<1>4. invite' = [x \in People |-> IF x = p THEN NoInvite ELSE invite[x]]
  BY <1>1, Zenon DEF HeardInv, Plain
<1>5. /\ \A x \in People : room'[x] = room[x] \/ room'[x] = NoRoom
      /\ invite' = [x \in People |-> invite'[x]]
      /\ \A x \in People : invite'[x] = invite[x] \/ invite'[x] = NoInvite
  BY <1>3, <1>4
<1> QED  BY <1>1, <1>2, <1>5, LossStep

-----------------------------------------------------------------------------
(***************************************************************************)
(* The theorem on lines.                                                   *)
(***************************************************************************)

\* Nothing was said yet.
LEMMA HeardFirst == Init => HeardInv
<1> SUFFICES ASSUME Init PROVE HeardInv
  OBVIOUS
<1>1. RoomsFit
  BY RoomsFitFirst
<1>2. /\ \A x \in People : room[x] = NoRoom /\ invite[x] = NoInvite /\ shown[x] = {}
      /\ made = [x \in People |-> 0] /\ twice = {}
  BY DEF Init
<1>3. Plain
  BY DEF Init, Plain, WasShown
<1>4. /\ wire = [w \in Ways |-> <<>>] /\ waiting = wire
  BY DEF Init, LinksInit
<1>5. WireGood
  <2>1. wire \in [Ways -> Seq({})] /\ waiting \in [Ways -> Seq({})]
    BY <1>4
  <2> QED  BY <2>1 DEF WireGood
<1>6. LiveGood
  <2> SUFFICES ASSUME NEW w \in Ways, {w[1], w[2]} \in live
               PROVE  w \in open /\ Back(w) \in open /\ waiting[w] = <<>> /\ waiting[Back(w)] = <<>>
    BY DEF LiveGood
  <2>1. Back(w) \in Ways /\ {Back(w)[1], Back(w)[2]} = {w[1], w[2]}
    BY WayEnds, PairOf
  <2> QED  BY <1>4, <2>1 DEF Init, LinksInit
<1>7. \A w \in Ways : Stream[w] = <<>> /\ Len(Stream[w]) = 0
  BY <1>4 DEF Stream
<1>8. \A w \in Ways : \A i \in 1 .. Len(Stream[w]) : FALSE
  BY <1>7
<1>9. FramesGood(Stream, made)
  BY <1>8 DEF FramesGood
<1>10. Steady(Stream, room, shown)
  <2>1. \A h, id, k : ~ Asked(Stream, h, id, k)
    BY <1>8 DEF Asked
  <2>2. \A a \in People : \A h, id : ~ Sits(room, a, h, id)
    BY <1>2 DEF Sits
  <2> QED  BY <1>8, <2>1, <2>2 DEF Steady, GoneOnWay, GoneFromList, HeardAndGone, AsksFresh, AsksOnce
<1>11. RoomsGood(room, made) /\ InvitesGood(invite, made) /\ AllHeardGood(room, shown)
  BY <1>2 DEF RoomsGood, RoomGood, InvitesGood, AllHeardGood, HeardGood
<1> QED  BY <1>1, <1>2, <1>3, <1>5, <1>6, <1>9, <1>10, <1>11 DEF HeardInv, ShownOnce

\* No step breaks it.
LEMMA HeardKept == HeardInv /\ [Next]_vars => HeardInv'
<1> SUFFICES ASSUME HeardInv, [Next]_vars PROVE HeardInv'
  OBVIOUS
<1>0. RoomsFit'
  BY RoomsFitKept DEF HeardInv
<1>1. CASE UNCHANGED vars
  <2>1. /\ UNCHANGED linkVars /\ room' = room /\ invite' = invite /\ made' = made
        /\ shown' = shown /\ twice' = twice
    BY <1>1 DEF vars, history
  <2>2. Stream' = Stream /\ WireGood' /\ LiveGood'
    BY <2>1, StillReady DEF Ready
  <2>3. Plain' /\ ShownOnce'
    BY <2>1 DEF HeardInv, Plain, ShownOnce
  <2>4. /\ FramesGood(Stream', made') /\ Steady(Stream', room', shown') /\ RoomsGood(room', made')
        /\ InvitesGood(invite', made') /\ AllHeardGood(room', shown')
    BY <2>1, <2>2 DEF HeardInv
  <2> QED  BY <1>0, <2>2, <2>3, <2>4, InvPrime DEF HeardInv
<1>2. ASSUME NEW p \in People,
             \/ Create(p) \/ Join(p) \/ Decline(p) \/ Leave(p) \/ Say(p)
             \/ Forget(p) \/ Crash(p)
      PROVE  HeardInv'
  <2>1. CASE Create(p)
    BY <1>0, <2>1, CreateHeard
  <2>2. CASE Join(p)
    BY <1>0, <2>2, JoinedHeard
  <2>3. CASE Decline(p) \/ Leave(p) \/ Say(p)
    BY <1>0, <2>3, TypedHeard
  <2>4. CASE Forget(p)
    BY <1>0, <2>4, ForgotHeard
  <2>5. CASE Crash(p)
    BY <1>0, <2>5, CrashHeard
  <2> QED  BY <1>2, <2>1, <2>2, <2>3, <2>4, <2>5
<1>3. ASSUME NEW p \in People, NEW q \in People,
             \/ InviteTo(p, q) \/ Expire(p, q)
             \/ HearInvite(p, q) \/ HearJoin(p, q) \/ HearDecline(p, q)
             \/ HearLeave(p, q) \/ HearRoster(p, q) \/ HearHello(p, q)
             \/ HearLine(p, q) \/ HearDropped(p, q) \/ IgnoreLine(p, q)
             \/ Connects(p, q) \/ Breaks(p, q) \/ Notice(p, q) \/ LetsGo(p, q)
      PROVE  HeardInv'
  <2>1. CASE InviteTo(p, q) \/ HearInvite(p, q)
    BY <1>0, <2>1, InviteHeard, HeldInviteHeard
  <2>2. CASE HearJoin(p, q)
    BY <1>0, <2>2, JoinHeard
  <2>3. CASE HearDecline(p, q) \/ Expire(p, q)
    BY <1>0, <2>3, DeclineHeard, ExpiredHeard
  <2>4. CASE HearLeave(p, q) \/ Notice(p, q)
    BY <1>0, <2>4, LeaveHeard, LossHeard
  <2>5. CASE HearRoster(p, q)
    BY <1>0, <2>5, RosterHeard
  <2>6. CASE HearHello(p, q)
    BY <1>0, <2>6, HelloHeard
  <2>7. CASE HearLine(p, q)
    BY <1>0, <2>7, LineHeard
  <2>8. CASE HearDropped(p, q) \/ IgnoreLine(p, q)
    BY <1>0, <2>8, DroppedHeard, LineIgnored
  <2>9. CASE Connects(p, q) \/ Breaks(p, q) \/ LetsGo(p, q)
    BY <1>0, <2>9, FaultHeard
  <2> QED  BY <1>3, <2>1, <2>2, <2>3, <2>4, <2>5, <2>6, <2>7, <2>8, <2>9
<1> QED  BY <1>1, <1>2, <1>3, Zenon DEF Next, Types

\* A line is shown once to whoever stays in the room (room.rs, `heard`), by
\* whatever ways and in whatever order its copies come, through any changes of
\* the roster, losses and crashes.
THEOREM LinesShownOnce == Spec => []ShownOnce
<1>1. Spec => []HeardInv
  BY HeardFirst, HeardKept, PTL DEF Spec
<1>2. HeardInv => ShownOnce
  BY DEF HeardInv
<1> QED  BY <1>1, <1>2, PTL

-----------------------------------------------------------------------------
(***************************************************************************)
(* Rooms while no fault comes between: connections held carry frames, and  *)
(* what is sent to somebody not connected yet waits for the connection.    *)
(***************************************************************************)

\* As long as no fault comes between: a connection held carries frames, and
\* nothing is on its way where there is none.
Whole ==
  \A w \in Ways : /\ w \in open => {w[1], w[2]} \in live
                  /\ w \notin open => wire[w] = <<>>

\* m is on its way along w.
On(st, w, m) == \E i \in 1 .. Len(st[w]) : st[w][i] = m

\* p has sent m to some, over connections and into what waits for one.
SentTo(st, st2, p, some, m) ==
  \A w \in Ways :
    st2[w] = IF /\ w[1] = p /\ w[2] \in some
                /\ w \in open \/ Len(st[w]) < WAITING
               THEN Append(st[w], m) ELSE st[w]

\* What is left without a connection is what waits for one.
LEMMA SendWhole ==
  ASSUME WireGood, LiveGood, Whole, NEW p \in People, NEW STATE some, NEW STATE m,
         NEW STATE unread, NEW S, unread \in [Ways -> Seq(S)], waiting \in [Ways -> Seq(S)],
         \A w \in Ways : w \notin open => unread[w] = <<>>,
         Send(p, ToEach(some, m), unread), open' = open, live' = live
  PROVE  Whole' /\ SentTo(Left(unread), Stream', p, some, m)
<1> DEFINE out == ToEach(some, m)
<1>1. PICK swallowed \in SUBSET {q \in ContactsOf(p) :
                             /\ out[q] # <<>> /\ <<p, q>> \in open
                             /\ {p, q} \notin live} :
        /\ wire' = [w \in Ways |->
             IF w[1] = p /\ w \in open /\ {p, w[2]} \in live
               THEN unread[w] \o out[w[2]] ELSE unread[w]]
        /\ waiting' = [w \in Ways |->
             IF /\ w[1] = p
                /\ ~ (w[1] = p /\ w \in open /\ {p, w[2]} \in live)
                /\ w[2] \notin swallowed
               THEN Held(waiting[w], out[w[2]]) ELSE waiting[w]]
  BY ZenonT(30) DEF Send
<1>2. swallowed = {}
  <2>1. \A q \in ContactsOf(p) : <<p, q>> \in open => {p, q} \in live
    BY DEF Whole, ContactsOf
  <2> QED  BY <2>1
<1>3. ASSUME NEW w \in Ways
      PROVE  /\ out[w[2]] = IF w[2] \in some THEN <<m>> ELSE <<>>
             /\ unread[w] \in Seq(S \cup {m}) /\ waiting[w] \in Seq(S \cup {m})
             /\ w \in open => waiting[w] = <<>>
  <2>1. out[w[2]] = IF w[2] \in some THEN <<m>> ELSE <<>>
    BY WayEnds DEF ToEach
  <2>2. unread[w] \in Seq(S \cup {m}) /\ waiting[w] \in Seq(S \cup {m})
    OBVIOUS
  <2>3. w \in open => waiting[w] = <<>>
    BY DEF Whole, LiveGood
  <2> QED  BY <2>1, <2>2, <2>3
<1> DEFINE T == S \cup {m}
<1>4. ASSUME NEW w \in Ways, w \in open
      PROVE  /\ {w[1], w[2]} \in live
             /\ Stream'[w] = IF w[1] = p /\ w[2] \in some
                               THEN Append(Left(unread)[w], m) ELSE Left(unread)[w]
  <2>1. {w[1], w[2]} \in live
    BY <1>4 DEF Whole
  <2>2. waiting'[w] = <<>> /\ waiting[w] = <<>>
    BY <1>1, <1>3, <1>4, <2>1
  <2>3. wire'[w] = IF w[1] = p THEN unread[w] \o out[w[2]] ELSE unread[w]
    BY <1>1, <1>4, <2>1
  <2>4. wire'[w] = IF w[1] = p /\ w[2] \in some THEN Append(unread[w], m) ELSE unread[w]
    <3>1. unread[w] \in Seq(T) /\ <<>> \in Seq(T) /\ m \in T
      BY <1>3
    <3> HIDE DEF T
    <3>2. /\ unread[w] \o <<>> = unread[w]
          /\ unread[w] \o <<m>> = Append(unread[w], m)
      BY <3>1, OneMore, ConcatEmptySeq
    <3> QED  BY <1>3, <2>3, <3>2
  <2>5. Stream'[w] = wire'[w] \o <<>> /\ Left(unread)[w] = unread[w] \o <<>>
    BY <2>2, StreamPrime DEF Left
  <2>6. wire'[w] \in Seq(T) /\ unread[w] \in Seq(T)
    BY <1>3, <2>4
  <2>7. Stream'[w] = wire'[w] /\ Left(unread)[w] = unread[w]
    BY <2>5, <2>6, ConcatEmptySeq
  <2> QED  BY <2>1, <2>4, <2>7
<1>5. ASSUME NEW w \in Ways, w \notin open
      PROVE  /\ wire'[w] = <<>>
             /\ Stream'[w] = IF w[1] = p /\ w[2] \in some /\ Len(Left(unread)[w]) < WAITING
                               THEN Append(Left(unread)[w], m) ELSE Left(unread)[w]
  <2>1. wire'[w] = <<>> /\ unread[w] = <<>>
    BY <1>1, <1>5
  <2>2. waiting'[w] = IF w[1] = p THEN Held(waiting[w], out[w[2]]) ELSE waiting[w]
    BY <1>1, <1>2, <1>5
  <2>3. /\ waiting[w] \in Seq(T) /\ <<m>> \in Seq(T)
        /\ Len(waiting[w]) \in Nat /\ WAITING \in Nat /\ Len(<<m>>) = 1 /\ Len(<<>>) = 0
        /\ waiting[w] \o <<>> = waiting[w] /\ waiting[w] \o <<m>> = Append(waiting[w], m)
    <3>1. waiting[w] \in Seq(T) /\ m \in T
      BY <1>3
    <3> HIDE DEF T
    <3>2. /\ waiting[w] \o <<>> = waiting[w]
          /\ waiting[w] \o <<m>> = Append(waiting[w], m)
      BY <3>1, OneMore, ConcatEmptySeq
    <3> QED  BY <3>1, <3>2, LinksAssumption
  <2>4. /\ Held(waiting[w], <<>>) = waiting[w]
        /\ Held(waiting[w], <<m>>) = IF Len(waiting[w]) < WAITING
                                       THEN Append(waiting[w], m) ELSE waiting[w]
    <3>1. PICK n \in Nat : n = Len(waiting[w])
      BY <2>3
    <3>2. /\ Held(waiting[w], <<>>) = IF n + 0 <= WAITING
                                       THEN waiting[w] \o <<>> ELSE waiting[w]
          /\ Held(waiting[w], <<m>>) = IF n + 1 <= WAITING
                                         THEN waiting[w] \o <<m>> ELSE waiting[w]
      BY <2>3, <3>1, Zenon DEF Held
    <3>3. n + 1 <= WAITING <=> n < WAITING
      BY <2>3, <3>1
    <3> QED  BY <2>3, <3>1, <3>2, <3>3, Zenon
  <2>5. waiting'[w] = IF w[1] = p /\ w[2] \in some /\ Len(waiting[w]) < WAITING
                        THEN Append(waiting[w], m) ELSE waiting[w]
    BY <1>3, <2>2, <2>4
  <2>6. waiting'[w] \in Seq(T)
    BY <2>3, <2>5
  <2>7. Stream'[w] = <<>> \o waiting'[w] /\ Left(unread)[w] = <<>> \o waiting[w]
    BY <2>1, StreamPrime DEF Left
  <2>8. Stream'[w] = waiting'[w] /\ Left(unread)[w] = waiting[w]
    BY <2>3, <2>6, <2>7, ConcatEmptySeq
  <2> QED  BY <2>1, <2>5, <2>8
<1>6. Whole'
  BY <1>4, <1>5 DEF Whole
<1>7. SentTo(Left(unread), Stream', p, some, m)
  BY <1>4, <1>5 DEF SentTo
<1> QED  BY <1>6, <1>7

\* A frame said,
LEMMA SaidWhole ==
  ASSUME HeardInv, Whole, NEW p \in People, NEW STATE some, NEW STATE m,
         Send(p, ToEach(some, m), wire), open' = open, live' = live
  PROVE  Whole' /\ SentTo(Stream, Stream', p, some, m)
<1>1. PICK S : wire \in [Ways -> Seq(S)] /\ waiting \in [Ways -> Seq(S)]
  BY DEF HeardInv, WireGood
<1>2. Left(wire) = Stream
  BY DEF Left, Stream
<1>3. WireGood /\ LiveGood
  BY DEF HeardInv
<1>4. \A w \in Ways : w \notin open => wire[w] = <<>>
  BY DEF Whole
<1>5. Whole' /\ SentTo(Left(wire), Stream', p, some, m)
  BY <1>1, <1>3, <1>4, SendWhole
<1> QED  BY <1>2, <1>5

\* and one said in answer to one heard.
LEMMA AnsweredWhole ==
  ASSUME HeardInv, Whole, NEW p \in People, NEW q \in People, NEW kind, Frame(p, q, kind),
         NEW STATE some, NEW STATE m,
         Send(p, ToEach(some, m), Unread(q, p)), open' = open, live' = live
  PROVE  /\ Whole' /\ SentTo(Rest(q, p), Stream', p, some, m)
         /\ <<q, p>> \in open
<1>1. PICK S : wire \in [Ways -> Seq(S)] /\ waiting \in [Ways -> Seq(S)]
  BY DEF HeardInv, WireGood
<1>2. <<q, p>> \in Ways /\ wire[<<q, p>>] # <<>> /\ <<q, p>> \in open
  BY FrameWay DEF Whole
<1>3. WireGood /\ LiveGood
  BY DEF HeardInv
<1>4. \A w \in Ways : Unread(q, p)[w] = IF w = <<q, p>> THEN Tail(wire[w]) ELSE wire[w]
  BY <1>1 DEF Unread
<1>5. Unread(q, p) \in [Ways -> Seq(S)]
  <2>1. Tail(wire[<<q, p>>]) \in Seq(S)
    BY <1>1, <1>2, OneLess
  <2> QED  BY <1>1, <2>1 DEF Unread
<1>6. \A w \in Ways : w \notin open => Unread(q, p)[w] = <<>>
  BY <1>2, <1>4 DEF Whole
<1>7. Whole' /\ SentTo(Left(Unread(q, p)), Stream', p, some, m)
  BY <1>1, <1>3, <1>5, <1>6, SendWhole
<1> QED  BY <1>2, <1>7 DEF Rest

-----------------------------------------------------------------------------
(***************************************************************************)
(* Invitations answered.                                                   *)
(***************************************************************************)

InviteFrame(id) == [t |-> "invite", id |-> id]
JoinFrame(id, k) == [t |-> "join", id |-> id, key |-> k]

\* Everybody p deals with is connected to p.
Reached(op, p, r) ==
  /\ r.host = p \/ <<p, r.host>> \in op
  /\ \A x \in Targets(r) \cup DOMAIN r.claimed : <<p, x>> \in op

Openly(op, rm, inv) ==
  \A p \in People : /\ inv[p] # NoInvite => <<p, inv[p].from>> \in op
                    /\ rm[p] # NoRoom => Reached(op, p, rm[p])

\* A host knows its members by the roster alone, and asks in nobody who is in.
TidyRoom(r) == r.claimed = Empty /\ r.invited \cap Targets(r) = {}

Tidy(rm) == \A p \in People : rm[p] # NoRoom /\ rm[p].host = p => TidyRoom(rm[p])

\* The invitation of h to q waits, or it or an answer is on its way.
Pending(st, inv, h, id, q) ==
  \/ inv[q] # NoInvite /\ inv[q].from = h /\ inv[q].id = id
  \/ On(st, <<h, q>>, InviteFrame(id))
  \/ On(st, <<q, h>>, Declining(id))
  \/ \E k : On(st, <<q, h>>, JoinFrame(id, k))

Enough(md, p) == Budget["invite"] + md[p] <= WAITING

Awaited(st, rm, inv, md) ==
  \A h \in People : rm[h] # NoRoom /\ rm[h].host = h /\ Enough(md, h) =>
    \A q \in rm[h].invited : <<h, q>> \in Ways /\ Pending(st, inv, h, rm[h].id, q)

\* A room somebody in it has not been greeted from.
Ungreeted(r, q) == IF r # NoRoom /\ q \notin r.greeted THEN 1 ELSE 0

\* What waits for a connection: invitations, and a greeting for each room.
FewWait(st, rm, md, bg, op) ==
  \A w \in Ways : w \notin op =>
    Len(st[w]) + Ungreeted(rm[w[1]], w[2]) <= Budget["invite"] - bg["invite"] + md[w[1]]

\* Keys are told by members, never to their host.
ToldByMembers(st, md) ==
  \A w \in Ways : \A i \in 1 .. Len(st[w]) : st[w][i].t = "hello" =>
    \E x \in People \ {w[2]} : st[w][i].id \in Made(md, x)

Counted(bg) == bg \in [Kinds -> Nat] /\ bg["fault"] <= Budget["fault"]

Calm(st, op, rm, inv, md, bg) ==
  /\ Openly(op, rm, inv) /\ Tidy(rm) /\ ToldByMembers(st, md)
  /\ Awaited(st, rm, inv, md) /\ FewWait(st, rm, md, bg, op)

\* The inductive invariant of the theorem on invitations.
AnswerInv ==
  /\ HeardInv /\ Counted(budget) /\ open \subseteq Ways
  /\ Unbroken => Whole /\ Calm(Stream, open, room, invite, made, budget)

\* Frames sent are on their way, and those that were still are.
LEMMA SentOn ==
  ASSUME NEW st, NEW st2, NEW p, NEW some, NEW m, Streams(st), SentTo(st, st2, p, some, m),
         NEW w \in Ways
  PROVE  /\ \A x : On(st, w, x) => On(st2, w, x)
         /\ \A x : On(st2, w, x) => On(st, w, x) \/ (x = m /\ w[1] = p /\ w[2] \in some)
         /\ w[1] = p /\ w[2] \in some /\ (w \in open \/ Len(st[w]) < WAITING) => On(st2, w, m)
         /\ w[1] # p \/ w[2] \notin some => st2[w] = st[w]
         /\ st2[w] \in {st[w], Append(st[w], m)}
<1>1. PICK S : st \in [Ways -> Seq(S)]
  BY DEF Streams
<1>2. PICK n \in Nat : n = Len(st[w])
  BY <1>1
<1>3. st2[w] = st[w] \/ (w[1] = p /\ w[2] \in some /\ st2[w] = Append(st[w], m))
  BY DEF SentTo
<1>4. CASE st2[w] = st[w]
  <2>1. ~ (w[1] = p /\ w[2] \in some /\ (w \in open \/ Len(st[w]) < WAITING)) \/ FALSE
    <3>1. SUFFICES ASSUME st[w] = Append(st[w], m) PROVE FALSE
      BY <1>4 DEF SentTo
    <3>2. Len(Append(st[w], m)) = n + 1
      BY <1>1, <1>2
    <3> QED  BY <1>2, <3>1, <3>2
  <2> QED  BY <1>4, <2>1 DEF On
<1>5. CASE w[1] = p /\ w[2] \in some /\ st2[w] = Append(st[w], m)
  <2>1. /\ Len(st2[w]) = n + 1 /\ st2[w][n + 1] = m
        /\ \A i \in 1 .. n : st2[w][i] = st[w][i]
    <3>1. st[w] \in Seq(S \cup {m}) /\ m \in S \cup {m}
      BY <1>1
    <3> QED  BY <1>2, <1>5, <3>1, AppendProperties
  <2>2. On(st2, w, m)
    <3>1. n + 1 \in 1 .. n + 1
      BY <1>2
    <3> QED  BY <2>1, <3>1 DEF On
  <2>3. \A x : On(st, w, x) => On(st2, w, x)
    <3>1. \A i \in 1 .. n : i \in 1 .. n + 1
      BY <1>2
    <3> QED  BY <1>2, <2>1, <3>1 DEF On
  <2>4. \A x : On(st2, w, x) => On(st, w, x) \/ x = m
    <3>1. \A i \in 1 .. n + 1 : i \in 1 .. n \/ i = n + 1
      BY <1>2
    <3> QED  BY <1>2, <2>1, <3>1 DEF On
  <2> QED  BY <1>5, <2>2, <2>3, <2>4
<1> QED  BY <1>3, <1>4, <1>5

\* A frame taken is the only one that is not on its way any more.
LEMMA TakenOn ==
  ASSUME NEW st, NEW st2, NEW w0 \in Ways, Streams(st), Taken(st, st2, w0), NEW w \in Ways
  PROVE  /\ \A x : On(st, w, x) /\ (w # w0 \/ x # st[w0][1]) => On(st2, w, x)
         /\ \A x : On(st2, w, x) => On(st, w, x)
         /\ Len(st2[w]) \in Nat /\ Len(st[w]) \in Nat /\ Len(st2[w]) <= Len(st[w])
         /\ w # w0 => st2[w] = st[w]
<1>1. /\ Streams(st2)
      /\ Len(st[w0]) \in Nat \ {0} /\ Len(st2[w0]) = Len(st[w0]) - 1
      /\ \A i \in 1 .. Len(st2[w0]) : st2[w0][i] = st[w0][i + 1]
      /\ \A x \in Ways \ {w0} : st2[x] = st[x]
  BY TakenAt
<1>2. CASE w # w0
  <2>1. Len(st[w]) \in Nat /\ st2[w] = st[w]
    BY <1>1, <1>2, LenNat
  <2> QED  BY <1>2, <2>1 DEF On
<1>3. CASE w = w0
  <2>1. PICK n \in Nat \ {0} : n = Len(st[w])
    BY <1>1, <1>3
  <2>2. Len(st2[w]) = n - 1 /\ \A i \in 1 .. n - 1 : st2[w][i] = st[w][i + 1]
    BY <1>1, <1>3, <2>1
  <2>3. \A x : On(st, w, x) /\ x # st[w0][1] => On(st2, w, x)
    <3> SUFFICES ASSUME NEW x, NEW i \in 1 .. n, st[w][i] = x, x # st[w][1]
                 PROVE  On(st2, w, x)
      BY <1>3, <2>1 DEF On
    <3>1. i - 1 \in 1 .. n - 1 /\ (i - 1) + 1 = i
      BY <2>1
    <3>2. st2[w][i - 1] = x
      BY <2>2, <3>1
    <3> QED  BY <2>2, <3>1, <3>2 DEF On
  <2>4. \A x : On(st2, w, x) => On(st, w, x)
    <3> SUFFICES ASSUME NEW x, NEW i \in 1 .. n - 1, st2[w][i] = x
                 PROVE  On(st, w, x)
      BY <2>2 DEF On
    <3>1. i + 1 \in 1 .. n
      BY <2>1
    <3> QED  BY <2>1, <2>2, <3>1 DEF On
  <2>5. Len(st2[w]) \in Nat /\ Len(st[w]) \in Nat /\ Len(st2[w]) <= Len(st[w])
    BY <2>1, <2>2
  <2> QED  BY <1>3, <2>3, <2>4, <2>5
<1> QED  BY <1>2, <1>3

\* Frames that ask for nothing and answer nothing.
Beside(m) == m.t \notin {"invite", "decline", "join"}

\* Invitations stay answered while frames of that kind are not taken.
LEMMA PendingStays ==
  ASSUME NEW st, NEW st2, NEW inv, NEW h, NEW id, NEW q, <<h, q>> \in Ways,
         \A w \in Ways : \A x : On(st, w, x) /\ ~ Beside(x) => On(st2, w, x),
         Pending(st, inv, h, id, q)
  PROVE  Pending(st2, inv, h, id, q)
<1>1. <<q, h>> \in Ways
  <2>1. Back(<<h, q>>) = <<q, h>>
    BY DEF Back
  <2> QED  BY <2>1, WayEnds
<1>2. /\ ~ Beside(InviteFrame(id)) /\ ~ Beside(Declining(id))
      /\ \A k : ~ Beside(JoinFrame(id, k))
  BY DEF Beside, InviteFrame, Declining, JoinFrame
<1> QED  BY <1>1, <1>2 DEF Pending

-----------------------------------------------------------------------------
(***************************************************************************)
(* Whom a room knows.                                                      *)
(***************************************************************************)

\* Settling binds nobody who claimed nothing.
LEMMA SettleWho ==
  ASSUME NEW r, Shaped(r)
  PROVE  LET s == SettleClaims(r)
         IN  /\ s.id = r.id /\ s.host = r.host /\ s.key = r.key
             /\ s.greeted = r.greeted /\ s.invited = r.invited /\ s.roster = r.roster
             /\ Targets(s) \subseteq Targets(r) \cup DOMAIN r.claimed
             /\ DOMAIN s.claimed \subseteq DOMAIN r.claimed
<1> DEFINE answered == {q \in DOMAIN r.claimed : \E e \in r.roster : e.of = q}
           proved == {q \in answered : Entry(r.claimed[q], q) \in r.roster}
           keys == {r.claimed[q] : q \in proved}
           claimed == Restricted(r.claimed, DOMAIN r.claimed \ answered)
           bound == [k \in DOMAIN r.bound \cup keys |->
                       IF k \in keys THEN CHOOSE q \in proved : r.claimed[q] = k
                       ELSE r.bound[k]]
           s == SettleClaims(r)
<1>1. s = [r EXCEPT !.claimed = claimed, !.bound = bound]
  <2>1. s = [r EXCEPT !.claimed = Restricted(@, DOMAIN @ \ answered),
                      !.bound = [k \in DOMAIN @ \cup keys |->
                             IF k \in keys THEN CHOOSE q \in proved : r.claimed[q] = k
                             ELSE @[k]]]
    BY Zenon DEF SettleClaims
  <2> HIDE DEF answered, proved, keys
  <2> QED  BY <2>1 DEF Shaped, Fields
<1>2. DOMAIN claimed \subseteq DOMAIN r.claimed
  BY DEF Restricted
<1>3. ASSUME NEW k \in DOMAIN bound
      PROVE  bound[k] \in Targets(r) \cup DOMAIN r.claimed
  <2>1. CASE k \in keys
    <3>1. \E q \in proved : r.claimed[q] = k
      BY <2>1
    <3>2. (CHOOSE q \in proved : r.claimed[q] = k) \in proved
      BY <3>1
    <3>3. bound[k] \in proved
      BY <2>1, <3>2
    <3> QED  BY <3>3
  <2>2. CASE k \notin keys
    BY <2>2 DEF Targets
  <2> QED  BY <2>1, <2>2
<1> HIDE DEF claimed, bound, s
<1>4. /\ s.id = r.id /\ s.host = r.host /\ s.key = r.key
      /\ s.greeted = r.greeted /\ s.invited = r.invited /\ s.roster = r.roster
      /\ s.claimed = claimed /\ s.bound = bound
  BY <1>1 DEF Shaped, Fields
<1>5. Targets(s) \subseteq Targets(r) \cup DOMAIN r.claimed
  BY <1>3, <1>4 DEF Targets
<1> QED  BY <1>2, <1>4, <1>5 DEF s

\* A host that loses a member knows nobody else.
LEMMA WithoutWho ==
  ASSUME NEW r, NEW q, Shaped(r)
  PROVE  LET s == Without(r, q)
         IN  /\ s.id = r.id /\ s.host = r.host /\ s.key = r.key
             /\ s.greeted = r.greeted /\ s.invited = r.invited /\ s.claimed = r.claimed
             /\ Targets(s) = Targets(r) \ {q}
             /\ s.bound = Restricted(r.bound, {k \in DOMAIN r.bound : r.bound[k] # q})
             /\ s.roster = {e \in r.roster : e.key \in DOMAIN r.bound => r.bound[e.key] # q}
<1> DEFINE keys == {k \in DOMAIN r.bound : r.bound[k] = q}
           bound == Restricted(r.bound, DOMAIN r.bound \ keys)
           roster == {e \in r.roster : e.key \notin keys}
           s == Without(r, q)
<1>1. s = [r EXCEPT !.bound = Restricted(@, DOMAIN @ \ keys),
                    !.roster = {e \in @ : e.key \notin keys},
                    !.dropped = IF keys = {} THEN @ ELSE @ \cup {q}]
  BY Zenon DEF Without
<1>2. DOMAIN r.bound \ keys = {k \in DOMAIN r.bound : r.bound[k] # q}
  OBVIOUS
<1>3. roster = {e \in r.roster : e.key \in DOMAIN r.bound => r.bound[e.key] # q}
  OBVIOUS
<1>4. {bound[k] : k \in DOMAIN bound} = Targets(r) \ {q}
  BY DEF Targets, Restricted
<1> HIDE DEF keys, s
<1>5. /\ s.id = r.id /\ s.host = r.host /\ s.key = r.key
      /\ s.greeted = r.greeted /\ s.invited = r.invited /\ s.claimed = r.claimed
      /\ s.bound = bound /\ s.roster = roster
  BY <1>1 DEF Shaped, Fields
<1> HIDE DEF bound, roster
<1>6. Targets(s) = Targets(r) \ {q}
  BY <1>4, <1>5 DEF Targets
<1> QED  BY <1>2, <1>3, <1>5, <1>6 DEF s, bound

\* A member knows its host by the roster, and those who claimed.
LEMMA ListedWho ==
  ASSUME NEW p, NEW r, NEW members, Shaped(r)
  PROVE  LET s == Listed(p, r, members)
         IN  /\ s.id = r.id /\ s.host = r.host /\ s.key = r.key /\ s.roster = members
             /\ s.greeted = r.greeted \cup {q \in ContactsOf(p) \ {r.host} :
                                              \E e \in members : e.of = q}
             /\ Targets(s) \subseteq Targets(r) \cup {r.host} \cup DOMAIN r.claimed
             /\ DOMAIN s.claimed \subseteq DOMAIN r.claimed
<1> DEFINE gone == KeysOf(r.roster) \ KeysOf(members)
           bound == Restricted(r.bound, DOMAIN r.bound \ gone)
           last == Restricted(r.last, DOMAIN r.last \ gone)
           hosts == {e \in members : e.of = r.host}
           kept == [r EXCEPT !.roster = members, !.bound = bound, !.last = last]
           bound2 == IF hosts = {} THEN bound
                     ELSE With(bound, (CHOOSE e \in hosts : TRUE).key, r.host)
           named == [kept EXCEPT !.bound = bound2]
           new == {q \in ContactsOf(p) \ {r.host} : \E e \in members : e.of = q}
           t == [named EXCEPT !.greeted = r.greeted \cup new]
<1>1. Listed(p, r, members) = SettleClaims(t)
  <2> DEFINE kept0 == [r EXCEPT !.roster = members,
                                !.bound = Restricted(@, DOMAIN @ \ gone),
                                !.last = Restricted(@, DOMAIN @ \ gone)]
             named0 == IF hosts = {} THEN kept0
                       ELSE [kept0 EXCEPT !.bound =
                               With(@, (CHOOSE e \in hosts : TRUE).key, r.host)]
  <2>1. Listed(p, r, members) = SettleClaims([named0 EXCEPT !.greeted = @ \cup new])
    BY Zenon DEF Listed
  <2>2. kept0 = kept
    <3> HIDE DEF gone
    <3> QED  BY DEF Shaped, Fields
  <2>3. Shaped(kept) /\ kept.bound = bound
    <3> HIDE DEF gone, bound, last
    <3> QED  BY DEF Shaped, Fields
  <2>4. named0 = named /\ Shaped(named)
    <3> HIDE DEF kept0, kept, hosts
    <3>1. CASE hosts = {}
      BY <2>2, <2>3, <3>1 DEF Shaped, Fields
    <3>2. CASE hosts # {}
      BY <2>2, <2>3, <3>2 DEF Shaped, Fields
    <3> QED  BY <3>1, <3>2
  <2>5. named.greeted = r.greeted
    <3> HIDE DEF gone, bound, last, bound2
    <3> QED  BY DEF Shaped, Fields
  <2> HIDE DEF named0, named, new
  <2>6. [named0 EXCEPT !.greeted = @ \cup new] = t
    BY <2>4, <2>5 DEF Shaped, Fields
  <2> QED  BY <2>1, <2>6
<1>2. /\ Shaped(t) /\ t.id = r.id /\ t.host = r.host /\ t.key = r.key /\ t.roster = members
      /\ t.greeted = r.greeted \cup new /\ t.bound = bound2 /\ t.claimed = r.claimed
  <2> HIDE DEF bound, last, bound2, new
  <2> QED  BY DEF Shaped, Fields
<1>3. Targets(t) \subseteq Targets(r) \cup {r.host}
  <2>1. \A k \in DOMAIN bound : bound[k] \in Targets(r)
    BY DEF Restricted, Targets
  <2>2. \A k \in DOMAIN bound2 : bound2[k] \in Targets(r) \cup {r.host}
    <3> HIDE DEF bound, hosts
    <3> QED  BY <2>1 DEF With
  <2> HIDE DEF t, bound2
  <2> QED  BY <1>2, <2>2 DEF Targets
<1> DEFINE s == SettleClaims(t)
<1> HIDE DEF t, new
<1>4. /\ s.id = t.id /\ s.host = t.host /\ s.key = t.key
      /\ s.greeted = t.greeted /\ s.roster = t.roster
      /\ Targets(s) \subseteq Targets(t) \cup DOMAIN t.claimed
      /\ DOMAIN s.claimed \subseteq DOMAIN t.claimed
  BY <1>2, SettleWho
<1> QED  BY <1>1, <1>2, <1>3, <1>4 DEF s, new

-----------------------------------------------------------------------------
(***************************************************************************)
(* Steps under which invitations stay answered.                            *)
(***************************************************************************)

\* The parts after a step, in terms of what the step leaves.
LEMMA CalmPrime ==
  Calm(Stream, open, room, invite, made, budget)'
    <=> Calm(Stream', open', room', invite', made', budget')
BY DEF Calm, Openly, Reached, Tidy, TidyRoom, ToldByMembers, Awaited, Pending, On,
       FewWait, Enough, Ungreeted, Targets, AnyMade, Made, Declining, InviteFrame, JoinFrame

\* Frames sent to those connected: to nobody who is not.
LEMMA OthersWait ==
  ASSUME NEW st, NEW U, NEW st2, NEW p, NEW some, NEW m, NEW w \in Ways, w \notin open,
         U = st \/ \E w0 \in Ways : w0 \in open /\ Taken(st, U, w0),
         Streams(st), SentTo(U, st2, p, some, m),
         \A x \in some : <<p, x>> \in Ways => <<p, x>> \in open
  PROVE  st2[w] = st[w]
<1>1. U[w] = st[w]
  BY TakenOn
<1>2. w = <<w[1], w[2]>>
  BY WayEnds
<1>3. w[1] # p \/ w[2] \notin some
  BY <1>2
<1> QED  BY <1>1, <1>3 DEF SentTo

\* What is left of the streams is a part of them.
LEMMA LeftOn ==
  ASSUME NEW st, NEW U, Streams(st),
         U = st \/ \E w0 \in Ways : w0 \in open /\ Taken(st, U, w0)
  PROVE  /\ Streams(U)
         /\ \A w \in Ways : /\ \A x : On(U, w, x) => On(st, w, x)
                            /\ Len(U[w]) \in Nat /\ Len(st[w]) \in Nat
                            /\ Len(U[w]) <= Len(st[w])
<1>1. CASE U = st
  BY <1>1, LenNat
<1>2. CASE U # st
  <2>1. PICK w0 \in Ways : Taken(st, U, w0)
    BY <1>2
  <2> QED  BY <2>1, TakenOn, TakenAt
<1> QED  BY <1>1, <1>2

\* On its way, in terms of frames.
LEMMA ToldOn ==
  ASSUME NEW st, NEW md
  PROVE  ToldByMembers(st, md) <=>
           \A w \in Ways : \A x : On(st, w, x) /\ x.t = "hello" =>
             \E y \in People \ {w[2]} : x.id \in Made(md, y)
BY DEF ToldByMembers, On

\* A step of p that greets nobody and leaves the invitations answered.
LEMMA CalmStep ==
  ASSUME HeardInv, Counted(budget), Calm(Stream, open, room, invite, made, budget),
         NEW p \in People, NEW STATE U, NEW STATE some, NEW STATE m, NEW STATE r,
         U = Stream \/ \E w0 \in Ways : w0 \in open /\ Taken(Stream, U, w0),
         SentTo(U, Stream', p, some, m),
         \A x \in some : <<p, x>> \in Ways => <<p, x>> \in open,
         m.t # "hello",
         room' = [room EXCEPT ![p] = r],
         r = NoRoom \/ /\ room[p] # NoRoom /\ r.greeted = room[p].greeted
                       /\ Reached(open, p, r) /\ (r.host = p => TidyRoom(r)),
         \A x \in People : invite'[x] # NoInvite =>
           invite'[x] = invite[x] \/ <<x, invite'[x].from>> \in open,
         made' = made, open' = open, budget'["invite"] = budget["invite"],
         Awaited(Stream', room', invite', made)
  PROVE  Calm(Stream, open, room, invite, made, budget)'
<1>1. \A x \in People : room'[x] = IF x = p THEN r ELSE room[x]
  BY ZenonT(30), RoomNow
<1>2. Streams(Stream)
  BY StreamGood DEF HeardInv
<1>3. Openly(open, room', invite')
  BY <1>1 DEF Calm, Openly
<1>4. Tidy(room')
  BY <1>1 DEF Calm, Tidy
<1>5. ToldByMembers(Stream', made)
  <2>1. Streams(U) /\ \A w \in Ways : \A x : On(U, w, x) => On(Stream, w, x)
    BY <1>2, LeftOn
  <2>2. \A w \in Ways : \A x : On(Stream', w, x) /\ x # m => On(U, w, x)
    BY <2>1, SentOn
  <2>3. \A w \in Ways : \A x : On(Stream', w, x) /\ x.t = "hello" => On(Stream, w, x)
    BY <2>1, <2>2
  <2> QED  BY <2>3, ToldOn DEF Calm
<1>6. FewWait(Stream', room', made, budget', open)
  <2> SUFFICES ASSUME NEW w \in Ways, w \notin open
               PROVE  Len(Stream'[w]) + Ungreeted(room'[w[1]], w[2])
                        <= Budget["invite"] - budget'["invite"] + made[w[1]]
    BY DEF FewWait
  <2>1. Stream'[w] = Stream[w]
    BY <1>2, OthersWait
  <2>2. Len(Stream[w]) + Ungreeted(room[w[1]], w[2])
          <= Budget["invite"] - budget["invite"] + made[w[1]]
    BY DEF Calm, FewWait
  <2>3. /\ Ungreeted(room[w[1]], w[2]) \in {0, 1}
        /\ Ungreeted(room'[w[1]], w[2]) = Ungreeted(room[w[1]], w[2])
             \/ Ungreeted(room'[w[1]], w[2]) = 0
    BY <1>1, WayEnds DEF Ungreeted
  <2>4. Len(Stream[w]) \in Nat /\ made[w[1]] \in Nat
    BY <1>2, LenNat, WayEnds DEF HeardInv, Plain
  <2>5. PICK n \in Nat, u \in {0, 1} : n = Len(Stream[w]) /\ u = Ungreeted(room[w[1]], w[2])
    BY <2>3, <2>4
  <2>6. CASE Ungreeted(room'[w[1]], w[2]) = u
    BY <2>1, <2>2, <2>5, <2>6
  <2>7. CASE Ungreeted(room'[w[1]], w[2]) = 0
    <3>1. n + u <= Budget["invite"] - budget["invite"] + made[w[1]]
      BY <2>2, <2>5
    <3>2. u = 0 \/ u = 1
      BY <2>5
    <3>3. Len(Stream'[w]) = n
      BY <2>1, <2>5
    <3>4. Budget["invite"] - budget["invite"] + made[w[1]] \in Int
      BY SMTT(30), <2>4, RoomAssumption DEF Counted, Kinds
    <3> QED  BY <2>7, <3>1, <3>2, <3>3, <3>4
  <2> QED  BY <2>3, <2>5, <2>6, <2>7
<1>7. Calm(Stream', open', room', invite', made', budget')
  BY <1>3, <1>4, <1>5, <1>6 DEF Calm
<1> QED  BY <1>7, CalmPrime

\* Invitations stay answered when no frame about one is taken.
LEMMA AwaitedBeside ==
  ASSUME HeardInv, Calm(Stream, open, room, invite, made, budget),
         NEW p \in People, NEW st2, NEW r,
         \A w \in Ways : \A x : On(Stream, w, x) /\ ~ Beside(x) => On(st2, w, x),
         room' = [room EXCEPT ![p] = r],
         \/ r = NoRoom \/ r.host # p
         \/ /\ room[p] # NoRoom /\ room[p].host = p
            /\ r.id = room[p].id /\ r.invited \subseteq room[p].invited
  PROVE  Awaited(st2, room', invite, made)
<1>1. \A x \in People : room'[x] = IF x = p THEN r ELSE room[x]
  BY ZenonT(30), RoomNow
<1> SUFFICES ASSUME NEW h \in People, room'[h] # NoRoom, room'[h].host = h, Enough(made, h),
                    NEW q \in room'[h].invited
             PROVE  <<h, q>> \in Ways /\ Pending(st2, invite, h, room'[h].id, q)
  BY DEF Awaited
<1>2. /\ room[h] # NoRoom /\ room[h].host = h /\ room'[h].id = room[h].id
      /\ q \in room[h].invited
  BY <1>1
<1>3. <<h, q>> \in Ways /\ Pending(Stream, invite, h, room[h].id, q)
  BY <1>2 DEF Calm, Awaited
<1> QED  BY <1>2, <1>3, PendingStays

\* A frame taken beside the invitations, or none, and one sent.
LEMMA StillOn ==
  ASSUME NEW st, NEW U, NEW st2, NEW p, NEW some, NEW m, Streams(st),
         U = st \/ \E w0 \in Ways : w0 \in open /\ Taken(st, U, w0) /\ Beside(st[w0][1]),
         SentTo(U, st2, p, some, m)
  PROVE  \A w \in Ways : \A x : On(st, w, x) /\ ~ Beside(x) => On(st2, w, x)
<1>1. Streams(U)
  BY LeftOn
<1>2. \A w \in Ways : \A x : On(st, w, x) /\ ~ Beside(x) => On(U, w, x)
  BY TakenOn
<1> QED  BY <1>1, <1>2, SentOn

\* A room that follows p's: nobody new in it, nobody new asked in or greeted.
Follows(p, r) ==
  r = NoRoom \/ /\ room[p] # NoRoom /\ r.greeted = room[p].greeted
                /\ Reached(open, p, r)
                /\ r.host = p => /\ TidyRoom(r) /\ room[p].host = p
                                 /\ r.id = room[p].id /\ r.invited \subseteq room[p].invited

\* So does a room with the same people,
LEMMA SameFollows ==
  ASSUME HeardInv, Calm(Stream, open, room, invite, made, budget), NEW p \in People,
         room[p] # NoRoom, NEW r, r.id = room[p].id, r.host = room[p].host,
         r.greeted = room[p].greeted, r.claimed = room[p].claimed,
         Targets(r) \subseteq Targets(room[p]), r.invited \subseteq room[p].invited
  PROVE  Follows(p, r)
<1>1. Reached(open, p, room[p]) /\ (room[p].host = p => TidyRoom(room[p]))
  BY DEF Calm, Openly, Tidy
<1> QED  BY <1>1 DEF Follows, Reached, TidyRoom

\* and the room itself.
LEMMA OwnFollows ==
  ASSUME HeardInv, Calm(Stream, open, room, invite, made, budget), NEW p \in People
  PROVE  Follows(p, room[p])
<1>1. CASE room[p] = NoRoom
  BY <1>1 DEF Follows
<1>2. CASE room[p] # NoRoom
  BY <1>2, SameFollows
<1> QED  BY <1>1, <1>2

\* Nothing sent is a frame sent to nobody.
LEMMA NothingSent == ASSUME NEW m PROVE Nothing = ToEach({}, m)
BY DEF Nothing, ToEach

\* A frame heard that is not about an invitation.
LEMMA CalmAnswer ==
  ASSUME HeardInv, Counted(budget), Whole, Calm(Stream, open, room, invite, made, budget),
         NEW p \in People, NEW q \in People, NEW kind, Frame(p, q, kind),
         kind \notin {"invite", "decline", "join"},
         NEW STATE r, NEW STATE some, NEW STATE m,
         Becomes(p, r, ToEach(some, m), Unread(q, p)), Follows(p, r),
         \A x \in some : <<p, x>> \in Ways => <<p, x>> \in open, m.t # "hello",
         open' = open, live' = live, made' = made, invite' = invite, budget' = budget
  PROVE  Whole' /\ Calm(Stream, open, room, invite, made, budget)'
<1>1. Send(p, ToEach(some, m), Unread(q, p)) /\ room' = [room EXCEPT ![p] = r]
  BY Zenon DEF Becomes
<1>2. AtMost(ToEach(some, m), m)
  BY OneFrame
<1>3. /\ Taken(Stream, Rest(q, p), <<q, p>>) /\ Stream[<<q, p>>][1] = Heard(q, p)
      /\ <<q, p>> \in Ways /\ Heard(q, p).t = kind
  BY <1>1, <1>2, AfterTaking, FrameWay
<1>4. Whole' /\ SentTo(Rest(q, p), Stream', p, some, m) /\ <<q, p>> \in open
  BY <1>1, AnsweredWhole
<1>5. Streams(Stream)
  BY StreamGood DEF HeardInv
<1>6. Awaited(Stream', room', invite, made)
  <2>1. Beside(Stream[<<q, p>>][1])
    BY <1>3 DEF Beside
  <2>2. \A w \in Ways : \A x : On(Stream, w, x) /\ ~ Beside(x) => On(Stream', w, x)
    BY <1>3, <1>4, <1>5, <2>1, StillOn
  <2>3. \/ r = NoRoom \/ r.host # p
        \/ /\ room[p] # NoRoom /\ room[p].host = p
           /\ r.id = room[p].id /\ r.invited \subseteq room[p].invited
    BY DEF Follows
  <2> QED  BY <1>1, <2>2, <2>3, AwaitedBeside
<1>7. r = NoRoom \/ /\ room[p] # NoRoom /\ r.greeted = room[p].greeted
                    /\ Reached(open, p, r) /\ (r.host = p => TidyRoom(r))
  BY DEF Follows
<1>8. \A x \in People : invite'[x] # NoInvite =>
        invite'[x] = invite[x] \/ <<x, invite'[x].from>> \in open
  OBVIOUS
<1>9. Rest(q, p) = Stream \/ \E w0 \in Ways : w0 \in open /\ Taken(Stream, Rest(q, p), w0)
  BY <1>3, <1>4
<1>10. Awaited(Stream', room', invite', made)
  BY <1>6
<1> QED  BY <1>1, <1>4, <1>7, <1>8, <1>9, <1>10, CalmStep

\* Something typed in a room.
LEMMA CalmSaying ==
  ASSUME HeardInv, Counted(budget), Whole, Calm(Stream, open, room, invite, made, budget),
         NEW p \in People,
         NEW STATE r, NEW STATE some, NEW STATE m,
         Becomes(p, r, ToEach(some, m), wire), Follows(p, r),
         \A x \in some : <<p, x>> \in Ways => <<p, x>> \in open, m.t # "hello",
         open' = open, live' = live, made' = made, invite' = invite,
         budget'["invite"] = budget["invite"]
  PROVE  Whole' /\ Calm(Stream, open, room, invite, made, budget)'
<1>1. Send(p, ToEach(some, m), wire) /\ room' = [room EXCEPT ![p] = r]
  BY Zenon DEF Becomes
<1>2. Whole' /\ SentTo(Stream, Stream', p, some, m)
  BY <1>1, SaidWhole
<1>3. Streams(Stream)
  BY StreamGood DEF HeardInv
<1>4. Awaited(Stream', room', invite, made)
  <2>1. \A w \in Ways : \A x : On(Stream, w, x) /\ ~ Beside(x) => On(Stream', w, x)
    BY <1>2, <1>3, SentOn
  <2>2. \/ r = NoRoom \/ r.host # p
        \/ /\ room[p] # NoRoom /\ room[p].host = p
           /\ r.id = room[p].id /\ r.invited \subseteq room[p].invited
    BY DEF Follows
  <2> QED  BY <1>1, <2>1, <2>2, AwaitedBeside
<1>5. r = NoRoom \/ /\ room[p] # NoRoom /\ r.greeted = room[p].greeted
                    /\ Reached(open, p, r) /\ (r.host = p => TidyRoom(r))
  BY DEF Follows
<1>6. \A x \in People : invite'[x] # NoInvite =>
        invite'[x] = invite[x] \/ <<x, invite'[x].from>> \in open
  OBVIOUS
<1>7. Awaited(Stream', room', invite', made)
  BY <1>4
<1>8. Stream = Stream \/ \E w0 \in Ways : w0 \in open /\ Taken(Stream, Stream, w0)
  OBVIOUS
<1> QED  BY <1>1, <1>2, <1>5, <1>6, <1>7, <1>8, CalmStep

\* Lines and departures typed.
LEMMA TypedCalm ==
  ASSUME HeardInv, Counted(budget), Whole, Calm(Stream, open, room, invite, made, budget),
         NEW p \in People, Leave(p) \/ Say(p)
  PROVE  Whole' /\ Calm(Stream, open, room, invite, made, budget)'
<1>1. room[p] # NoRoom /\ Shaped(room[p]) /\ Reached(open, p, room[p])
  BY OwnRoom DEF Leave, Say, Calm, Openly
<1>2. budget'["invite"] = budget["invite"]
  BY DEF Leave, Say, Strikes, Spend, Counted, Kinds
<1>3. open' = open /\ live' = live /\ made' = made /\ invite' = invite
  BY DEF Leave, Say
<1>4. CASE Leave(p)
  <2> DEFINE told == IF Hosts(p) THEN Targets(room[p]) ELSE {room[p].host}
             m == Leaving(room[p].id)
  <2>1. Becomes(p, NoRoom, ToEach(told, m), wire)
    BY <1>4, Zenon DEF Leave
  <2>2. \A x \in told : <<p, x>> \in Ways => <<p, x>> \in open
    BY <1>1 DEF Hosts, Reached
  <2>3. m.t # "hello" /\ Follows(p, NoRoom)
    BY DEF Leaving, Follows
  <2> HIDE DEF told, m
  <2> QED  BY <1>2, <1>3, <2>1, <2>2, <2>3, CalmSaying
<1>5. CASE Say(p)
  <2> DEFINE r == [room[p] EXCEPT !.said = @ + 1]
             m == Line(r.id, r.key, r.said)
  <2>1. Becomes(p, r, ToEach(Targets(r), m), wire)
    BY <1>5, Zenon DEF Say
  <2>2. /\ r.id = room[p].id /\ r.host = room[p].host /\ r.greeted = room[p].greeted
        /\ r.claimed = room[p].claimed /\ r.bound = room[p].bound /\ r.invited = room[p].invited
    BY <1>1 DEF Shaped, Fields
  <2>3. m.t # "hello"
    BY DEF Line
  <2> HIDE DEF r, m
  <2>4. Targets(r) = Targets(room[p])
    BY <2>2 DEF Targets
  <2>5. Follows(p, r)
    BY <1>1, <2>2, <2>4, SameFollows
  <2>6. \A x \in Targets(r) : <<p, x>> \in Ways => <<p, x>> \in open
    BY <1>1, <2>4 DEF Reached
  <2> QED  BY <1>2, <1>3, <2>1, <2>3, <2>5, <2>6, CalmSaying
<1> QED  BY <1>4, <1>5

\* A frame heard that changes nothing.
LEMMA IgnoredCalm ==
  ASSUME HeardInv, Counted(budget), Whole, Calm(Stream, open, room, invite, made, budget),
         NEW p \in People, NEW q \in People, NEW kind, Frame(p, q, kind),
         kind \notin {"invite", "decline", "join"}, Ignored(p, q),
         open' = open, live' = live, made' = made, invite' = invite, budget' = budget
  PROVE  Whole' /\ Calm(Stream, open, room, invite, made, budget)'
<1> DEFINE m == Leaving(1)
<1>1. Becomes(p, room[p], ToEach({}, m), Unread(q, p))
  BY NothingSent, Zenon DEF Ignored
<1>2. m.t # "hello" /\ Follows(p, room[p])
  BY OwnFollows DEF Leaving
<1>3. \A x \in {} : <<p, x>> \in Ways => <<p, x>> \in open
  OBVIOUS
<1> HIDE DEF m
<1> QED  BY <1>1, <1>2, <1>3, CalmAnswer

-----------------------------------------------------------------------------
(***************************************************************************)
(* What is heard beside invitations.                                       *)
(***************************************************************************)

\* A departure heard,
LEMMA LeaveCalm ==
  ASSUME HeardInv, Counted(budget), Whole, Calm(Stream, open, room, invite, made, budget),
         NEW p \in People, NEW q \in People, HearLeave(p, q)
  PROVE  Whole' /\ Calm(Stream, open, room, invite, made, budget)'
<1>1. /\ Frame(p, q, "leave") /\ open' = open /\ live' = live /\ made' = made
      /\ invite' = invite /\ budget' = budget
  BY DEF HearLeave
<1>2. CASE Ignored(p, q)
  BY <1>1, <1>2, IgnoredCalm
<1>3. CASE ~ Ignored(p, q)
  <2> DEFINE r == room[p]
             rest == Without(r, q)
             m == Roster(rest)
  <2>1. r # NoRoom /\ Loses(p, q, Unread(q, p))
    BY <1>3 DEF HearLeave, In
  <2>2. Shaped(r)
    BY <2>1, OwnRoom
  <2>3. \A x \in {} : <<p, x>> \in Ways => <<p, x>> \in open
    OBVIOUS
  <2>4. CASE Becomes(p, NoRoom, Nothing, Unread(q, p))
    <3> DEFINE l == Leaving(1)
    <3>1. Becomes(p, NoRoom, ToEach({}, l), Unread(q, p))
      BY <2>4, NothingSent, Zenon
    <3>2. l.t # "hello" /\ Follows(p, NoRoom)
      BY DEF Leaving, Follows
    <3> HIDE DEF l
    <3> QED  BY <1>1, <2>3, <3>1, <3>2, CalmAnswer
  <2>5. CASE Becomes(p, rest, ToEach(Targets(rest), m), Unread(q, p))
    <3>1. /\ rest.id = r.id /\ rest.host = r.host /\ rest.greeted = r.greeted
          /\ rest.invited = r.invited /\ rest.claimed = r.claimed
          /\ Targets(rest) = Targets(r) \ {q}
      BY ZenonT(30), <2>2, WithoutWho
    <3>2. Follows(p, rest)
      BY <2>1, <3>1, SameFollows
    <3>3. \A x \in Targets(rest) : <<p, x>> \in Ways => <<p, x>> \in open
      BY <2>1, <3>1 DEF Calm, Openly, Reached
    <3>4. m.t # "hello"
      BY DEF Roster
    <3> HIDE DEF rest, m
    <3> QED  BY <1>1, <2>5, <3>2, <3>3, <3>4, CalmAnswer
  <2>6. CASE Becomes(p, r, Nothing, Unread(q, p))
    BY <1>3, <2>6 DEF Ignored
  <2>7. \/ Becomes(p, NoRoom, Nothing, Unread(q, p))
        \/ Becomes(p, rest, ToEach(Targets(rest), m), Unread(q, p))
        \/ Becomes(p, r, Nothing, Unread(q, p))
    BY <2>1, Zenon DEF Loses
  <2> QED  BY <2>4, <2>5, <2>6, <2>7
<1> QED  BY <1>2, <1>3

\* People differ in what they made.
LEMMA MadeApart ==
  ASSUME NEW md, NEW x \in People, NEW y \in People, NEW id, id \in Made(md, x), id \in Made(md, y)
  PROVE  x = y
BY DEF Made

\* a claim,
LEMMA HelloCalm ==
  ASSUME HeardInv, Counted(budget), Whole, Calm(Stream, open, room, invite, made, budget),
         NEW p \in People, NEW q \in People, HearHello(p, q)
  PROVE  Whole' /\ Calm(Stream, open, room, invite, made, budget)'
<1>1. /\ Frame(p, q, "hello") /\ open' = open /\ live' = live /\ made' = made
      /\ invite' = invite /\ budget' = budget
  BY DEF HearHello
<1>2. CASE Ignored(p, q)
  BY <1>1, <1>2, IgnoredCalm
<1>3. CASE ~ Ignored(p, q)
  <2> DEFINE s == [room[p] EXCEPT !.claimed = With(@, q, Heard(q, p).key)]
             r == SettleClaims(s)
             m == Leaving(1)
  <2>1. room[p] # NoRoom /\ room[p].id = Heard(q, p).id /\ Becomes(p, r, Nothing, Unread(q, p))
    BY <1>3, Zenon DEF HearHello, In
  <2>2. Shaped(room[p]) /\ RoomGood(made, p, room[p])
    BY <2>1, OwnRoom
  <2>3. room[p].host # p
    <3>1. <<q, p>> \in Ways /\ Heard(q, p).t = "hello" /\ wire[<<q, p>>] # <<>>
      BY <1>1, FrameWay
    <3>2. Stream[<<q, p>>][1] = Heard(q, p) /\ 1 \in 1 .. Len(Stream[<<q, p>>])
      <4>1. Send(p, Nothing, Unread(q, p))
        BY <2>1, Zenon DEF Becomes
      <4>2. AtMost(Nothing, m)
        BY OneFrame
      <4> HIDE DEF m
      <4>3. Stream[<<q, p>>][1] = Heard(q, p) /\ Taken(Stream, Rest(q, p), <<q, p>>)
        BY <1>1, <4>1, <4>2, AfterTaking
      <4>4. Len(Stream[<<q, p>>]) \in Nat \ {0}
        BY <3>1, <4>3, StreamGood, TakenAt DEF HeardInv
      <4> QED  BY <4>3, <4>4
    <3>3. PICK y \in People \ {p} : Heard(q, p).id \in Made(made, y)
      BY <3>1, <3>2 DEF Calm, ToldByMembers
    <3> QED  BY <2>1, <2>2, <3>3, MadeApart DEF RoomGood
  <2>4. /\ Shaped(s) /\ s.id = room[p].id /\ s.host = room[p].host /\ s.bound = room[p].bound
        /\ s.greeted = room[p].greeted /\ s.invited = room[p].invited
        /\ s.claimed = With(room[p].claimed, q, Heard(q, p).key)
    BY <2>2 DEF Shaped, Fields
  <2>5. DOMAIN s.claimed = DOMAIN room[p].claimed \cup {q} /\ Targets(s) = Targets(room[p])
    BY <2>4 DEF With, Targets
  <2> HIDE DEF s
  <2>6. /\ r.host = s.host /\ r.greeted = s.greeted
        /\ Targets(r) \subseteq Targets(s) \cup DOMAIN s.claimed
        /\ DOMAIN r.claimed \subseteq DOMAIN s.claimed
    BY <2>4, SettleWho
  <2>7. Reached(open, p, room[p]) /\ <<p, q>> \in open
    BY <1>1, <2>1 DEF Calm, Openly, Frame
  <2>8. Follows(p, r)
    BY <2>1, <2>3, <2>4, <2>5, <2>6, <2>7 DEF Follows, Reached
  <2>9. Becomes(p, r, ToEach({}, m), Unread(q, p))
    BY <2>1, NothingSent, Zenon
  <2>10. m.t # "hello"
    BY DEF Leaving
  <2>11. \A x \in {} : <<p, x>> \in Ways => <<p, x>> \in open
    OBVIOUS
  <2> HIDE DEF r, m
  <2> QED  BY <1>1, <2>8, <2>9, <2>10, <2>11, CalmAnswer
<1> QED  BY <1>2, <1>3

\* lines.
LEMMA LinesCalm ==
  ASSUME HeardInv, Counted(budget), Whole, Calm(Stream, open, room, invite, made, budget),
         NEW p \in People, NEW q \in People,
         HearLine(p, q) \/ HearDropped(p, q) \/ IgnoreLine(p, q)
  PROVE  Whole' /\ Calm(Stream, open, room, invite, made, budget)'
<1>1. /\ Frame(p, q, "line") /\ open' = open /\ live' = live /\ made' = made
      /\ invite' = invite /\ budget' = budget
  BY DEF HearLine, HearDropped, IgnoreLine
<1>2. CASE IgnoreLine(p, q)
  BY <1>1, <1>2, IgnoredCalm DEF IgnoreLine
<1>3. CASE HearLine(p, q)
  <2> DEFINE f == Heard(q, p)
             r == HeardOnce(room[p], f)
               author == IF f.key \in DOMAIN room[p].bound THEN {room[p].bound[f.key]} ELSE {}
             some == Targets(room[p]) \ (author \cup {q})
  <2>1. room[p] # NoRoom /\ Becomes(p, r, PassOn(room[p], q, f), Unread(q, p))
    BY <1>3, Zenon DEF HearLine, In
  <2>2. PassOn(room[p], q, f) = ToEach(some, f)
    BY Zenon DEF PassOn
  <2>3. Shaped(room[p]) /\ Reached(open, p, room[p])
    BY <2>1, OwnRoom DEF Calm, Openly
  <2>4. /\ r.id = room[p].id /\ r.host = room[p].host /\ r.greeted = room[p].greeted
        /\ r.claimed = room[p].claimed /\ r.bound = room[p].bound /\ r.invited = room[p].invited
    BY <2>3 DEF HeardOnce, Shaped, Fields
  <2>5. f.t # "hello"
    <3>1. Heard(q, p).t = "line"
      BY <1>1, FrameWay, Zenon
    <3> QED  BY <3>1
  <2>6. \A x \in some : <<p, x>> \in Ways => <<p, x>> \in open
    BY <2>3 DEF Reached
  <2>7. Becomes(p, r, ToEach(some, f), Unread(q, p))
    BY <2>1, <2>2, Zenon
  <2> HIDE DEF r, some, f
  <2>8. Targets(r) = Targets(room[p])
    BY <2>4 DEF Targets
  <2>9. Follows(p, r)
    BY <2>1, <2>4, <2>8, SameFollows
  <2> QED  BY <1>1, <2>5, <2>6, <2>7, <2>9, CalmAnswer
<1>4. CASE HearDropped(p, q)
  <2> DEFINE r == [room[p] EXCEPT !.dropped = @ \ {q}]
             m == Roster(room[p])
  <2>1. room[p] # NoRoom /\ Becomes(p, r, ToEach({q}, m), Unread(q, p))
    BY <1>4, Zenon DEF HearDropped, In
  <2>2. Shaped(room[p])
    BY <2>1, OwnRoom
  <2>3. /\ r.id = room[p].id /\ r.host = room[p].host /\ r.greeted = room[p].greeted
        /\ r.claimed = room[p].claimed /\ r.bound = room[p].bound /\ r.invited = room[p].invited
    BY <2>2 DEF Shaped, Fields
  <2>4. m.t # "hello" /\ \A x \in {q} : <<p, x>> \in Ways => <<p, x>> \in open
    BY <1>1 DEF Roster, Frame
  <2> HIDE DEF r, m
  <2>5. Targets(r) = Targets(room[p])
    BY <2>3 DEF Targets
  <2>6. Follows(p, r)
    BY <2>1, <2>3, <2>5, SameFollows
  <2> QED  BY <1>1, <2>1, <2>4, <2>6, CalmAnswer
<1> QED  BY <1>2, <1>3, <1>4

\* A roster heard: whoever is new on it is greeted, connected or not.
LEMMA RosterCalm ==
  ASSUME HeardInv, Counted(budget), Whole, Calm(Stream, open, room, invite, made, budget),
         NEW p \in People, NEW q \in People, HearRoster(p, q)
  PROVE  Whole' /\ Calm(Stream, open, room, invite, made, budget)'
<1> DEFINE r == room[p]
           now == Listed(p, r, Heard(q, p).members)
           some == now.greeted \ r.greeted
           m == Hello(r)
<1>1. /\ Frame(p, q, "roster") /\ open' = open /\ live' = live /\ made' = made
      /\ invite' = invite /\ budget' = budget
  BY DEF HearRoster
<1>2. \/ Ignored(p, q)
      \/ Becomes(p, NoRoom, Nothing, Unread(q, p))
      \/ r # NoRoom /\ r.host = q /\ Becomes(p, now, ToEach(some, m), Unread(q, p))
  BY Zenon DEF HearRoster, In
<1>3. CASE Ignored(p, q)
  BY <1>1, <1>3, IgnoredCalm
<1>4. CASE Becomes(p, NoRoom, Nothing, Unread(q, p))
  <2> DEFINE l == Leaving(1)
  <2>1. Becomes(p, NoRoom, ToEach({}, l), Unread(q, p))
    BY <1>4, NothingSent, Zenon
  <2>2. l.t # "hello" /\ Follows(p, NoRoom)
    BY DEF Leaving, Follows
  <2>3. \A x \in {} : <<p, x>> \in Ways => <<p, x>> \in open
    OBVIOUS
  <2> HIDE DEF l
  <2> QED  BY <1>1, <2>1, <2>2, <2>3, CalmAnswer
<1>5. CASE r # NoRoom /\ r.host = q /\ Becomes(p, now, ToEach(some, m), Unread(q, p))
  <2>1. /\ Send(p, ToEach(some, m), Unread(q, p)) /\ room' = [room EXCEPT ![p] = now]
        /\ Shaped(r) /\ RoomGood(made, p, r) /\ Reached(open, p, r) /\ p # q
    BY <1>1, <1>5, OwnRoom, FrameWay, Zenon DEF Becomes, Calm, Openly
  <2>2. /\ now.host = q
        /\ now.greeted = r.greeted \cup {x \in ContactsOf(p) \ {q} :
                                           \E e \in Heard(q, p).members : e.of = x}
        /\ Targets(now) \subseteq Targets(r) \cup {q} \cup DOMAIN r.claimed
        /\ DOMAIN now.claimed \subseteq DOMAIN r.claimed
    BY <1>5, <2>1, ListedWho
  <2>3. AtMost(ToEach(some, m), m)
    BY OneFrame
  <2>4. m.t = "hello" /\ m.id = r.id /\ r.id \in Made(made, q) /\ q \notin some
    BY <1>5, <2>1, <2>2 DEF Hello, RoomGood
  <2>5. Reached(open, p, now)
    BY <1>5, <2>1, <2>2 DEF Reached
  <2>6. some \cap r.greeted = {} /\ some \subseteq now.greeted /\ r.greeted \subseteq now.greeted
    BY <2>2
  <2> HIDE DEF some, m, now
  <2>7. /\ Taken(Stream, Rest(q, p), <<q, p>>) /\ Stream[<<q, p>>][1] = Heard(q, p)
        /\ <<q, p>> \in Ways /\ Heard(q, p).t = "roster"
    BY <1>1, <2>1, <2>3, AfterTaking, FrameWay
  <2>8. Whole' /\ SentTo(Rest(q, p), Stream', p, some, m) /\ <<q, p>> \in open
    BY <1>1, <2>1, AnsweredWhole
  <2>9. Streams(Stream) /\ Streams(Rest(q, p))
    BY <2>7, StreamGood, TakenAt DEF HeardInv
  <2>10. \A x \in People : room'[x] = IF x = p THEN now ELSE room[x]
    BY <2>1, RoomNow
  <2>11. Awaited(Stream', room', invite, made)
    <3>1. Beside(Stream[<<q, p>>][1])
      BY <2>7 DEF Beside
    <3>2. \A w \in Ways : \A x : On(Stream, w, x) /\ ~ Beside(x) => On(Stream', w, x)
      BY <2>7, <2>8, <2>9, <3>1, StillOn
    <3> QED  BY <2>1, <2>2, <3>2, AwaitedBeside
  <2>12. Openly(open, room', invite) /\ Tidy(room')
    BY <1>1, <2>1, <2>2, <2>5, <2>10 DEF Calm, Openly, Tidy
  <2>13. ToldByMembers(Stream', made)
    <3> SUFFICES ASSUME NEW w \in Ways, NEW x, On(Stream', w, x), x.t = "hello"
                 PROVE  \E y \in People \ {w[2]} : x.id \in Made(made, y)
      BY ToldOn
    <3>1. CASE On(Rest(q, p), w, x)
      <4>1. On(Stream, w, x)
        BY <2>7, <2>9, <3>1, TakenOn
      <4> QED  BY <4>1, ToldOn DEF Calm
    <3>2. CASE x = m /\ w[2] \in some
      BY <2>4, <3>2
    <3> QED  BY <2>8, <2>9, <3>1, <3>2, SentOn
  <2>14. FewWait(Stream', room', made, budget, open)
    <3> SUFFICES ASSUME NEW w \in Ways, w \notin open
                 PROVE  Len(Stream'[w]) + Ungreeted(room'[w[1]], w[2])
                          <= Budget["invite"] - budget["invite"] + made[w[1]]
      BY DEF FewWait
    <3>1. Rest(q, p)[w] = Stream[w]
      BY <2>7, <2>8, <2>9, TakenOn
    <3>2. Len(Stream[w]) + Ungreeted(room[w[1]], w[2])
            <= Budget["invite"] - budget["invite"] + made[w[1]]
      BY DEF Calm, FewWait
    <3>3. PICK n \in Nat : n = Len(Stream[w])
      BY <2>9, LenNat
    <3>4. PICK limit \in Int : limit = Budget["invite"] - budget["invite"] + made[w[1]]
      <4>1. made[w[1]] \in Nat
        BY WayEnds DEF HeardInv, Plain
      <4> QED  BY <4>1, RoomAssumption DEF Counted, Kinds
    <3>5. CASE w[1] = p /\ w[2] \in some
      <4>1. Ungreeted(room[w[1]], w[2]) = 1 /\ Ungreeted(room'[w[1]], w[2]) = 0
        BY <1>5, <2>6, <2>10, <3>5 DEF Ungreeted
      <4>2. Stream'[w] \in {Stream[w], Append(Stream[w], m)}
        BY <2>8, <2>9, <3>1, SentOn
      <4>3. Len(Stream'[w]) \in {n, n + 1}
        <5>1. PICK S : Stream[w] \in Seq(S)
          BY <2>9 DEF Streams
        <5>2. Len(Append(Stream[w], m)) = Len(Stream[w]) + 1
          BY <5>1
        <5> QED  BY <3>3, <4>2, <5>2
      <4>4. n + 1 <= limit
        BY <3>2, <3>3, <3>4, <4>1
      <4>5. Len(Stream'[w]) + 0 <= limit
        BY <4>3, <4>4
      <4> QED  BY <3>4, <4>1, <4>5
    <3>6. CASE ~ (w[1] = p /\ w[2] \in some)
      <4>1. Stream'[w] = Stream[w]
        BY <2>8, <3>1, <3>6 DEF SentTo
      <4>2. /\ Ungreeted(room[w[1]], w[2]) \in {0, 1}
            /\ Ungreeted(room'[w[1]], w[2]) = Ungreeted(room[w[1]], w[2])
                 \/ Ungreeted(room'[w[1]], w[2]) = 0
        BY <1>5, <2>6, <2>10, WayEnds DEF Ungreeted
      <4>3. PICK u \in {0, 1} : u = Ungreeted(room[w[1]], w[2])
        BY <4>2
      <4>4. n + u <= limit
        BY <3>2, <3>3, <3>4, <4>3
      <4>5. n + 0 <= limit
        BY <4>3, <4>4
      <4>6. Len(Stream'[w]) = n
        BY <3>3, <4>1
      <4> QED  BY <3>4, <4>2, <4>3, <4>4, <4>5, <4>6
    <3> QED  BY <3>5, <3>6
  <2>15. Calm(Stream', open', room', invite', made', budget')
    BY <1>1, <2>11, <2>12, <2>13, <2>14 DEF Calm
  <2> QED  BY <2>8, <2>15, CalmPrime
<1> QED  BY <1>2, <1>3, <1>4, <1>5

-----------------------------------------------------------------------------
(***************************************************************************)
(* Invitations heard, and answers.                                         *)
(***************************************************************************)

\* An invitation held is one, and names a room of whom it came from.
LEMMA HeldIsInvite ==
  ASSUME NEW md \in [People -> Nat], NEW q \in People, NEW id \in Made(md, q)
  PROVE  [from |-> q, id |-> id] # NoInvite
<1>1. id \in People \X Nat
  BY DEF Made
<1>2. [from |-> q, id |-> id] \in [from : People, id : People \X Nat]
  BY <1>1
<1> QED  BY <1>2, InviteAssumption

\* Both ways between contacts.
LEMMA BothWays ==
  ASSUME NEW p, NEW q, <<p, q>> \in Ways
  PROVE  <<q, p>> \in Ways
<1>1. Back(<<p, q>>) = <<q, p>>
  BY DEF Back
<1> QED  BY <1>1, WayEnds

\* An invitation that is heard is held or refused; so is the one it replaces.
LEMMA InviteHeardPending ==
  ASSUME HeardInv, Calm(Stream, open, room, invite, made, budget), NEW p \in People, NEW q \in People,
         NEW some, NEW m, NEW f, NEW st2,
         <<q, p>> \in Ways, <<p, q>> \in open, f.t = "invite", f.id \in Made(made, q),
         Taken(Stream, Rest(q, p), <<q, p>>), Stream[<<q, p>>][1] = f,
         SentTo(Rest(q, p), st2, p, some, m),
         invite' = IF room[p] # NoRoom THEN invite
                   ELSE [invite EXCEPT ![p] = [from |-> q, id |-> f.id]],
         room[p] # NoRoom => some = {q} /\ m = Declining(f.id),
         room[p] = NoRoom /\ invite[p] # NoInvite /\ invite[p].id # f.id
           => some = {invite[p].from} /\ m = Declining(invite[p].id),
         NEW h \in People, NEW x, NEW id \in Made(made, h), <<h, x>> \in Ways,
         Pending(Stream, invite, h, id, x)
  PROVE  Pending(st2, invite', h, id, x)
<1>1. Streams(Stream) /\ Streams(Rest(q, p))
  BY StreamGood, TakenAt DEF HeardInv
<1>2. x \in People /\ <<x, h>> \in Ways /\ <<p, q>> \in Ways
  BY BothWays, WayEnds
<1>3. \A w \in Ways : \A y : On(Stream, w, y) /\ y.t # "invite" => On(st2, w, y)
  <2> SUFFICES ASSUME NEW w \in Ways, NEW y, On(Stream, w, y), y.t # "invite"
               PROVE  On(st2, w, y)
    OBVIOUS
  <2>1. On(Rest(q, p), w, y)
    BY <1>1, TakenOn
  <2> QED  BY <1>1, <2>1, SentOn
<1>4. \A z \in People : invite'[z] = IF z = p /\ room[p] = NoRoom
                                       THEN [from |-> q, id |-> f.id] ELSE invite[z]
  <2>1. invite = [z \in People |-> invite[z]]
    BY DEF HeardInv, Plain
  <2>2. CASE room[p] # NoRoom
    BY <2>2
  <2>3. CASE room[p] = NoRoom
    <3>1. invite' = [z \in People |-> IF z = p THEN [from |-> q, id |-> f.id] ELSE invite[z]]
      BY <2>1, <2>3, Zenon
    <3> QED  BY <2>3, <3>1
  <2> QED  BY <2>2, <2>3
<1>5. [from |-> q, id |-> f.id] # NoInvite
  BY HeldIsInvite DEF HeardInv, Plain
<1>6. CASE invite[x] # NoInvite /\ invite[x].from = h /\ invite[x].id = id
  <2>1. CASE x = p /\ room[p] = NoRoom /\ f.id # id
    <3>1. some = {h} /\ m = Declining(id) /\ <<p, h>> \in open /\ <<p, h>> \in Ways
      BY <1>2, <1>6, <2>1 DEF Calm, Openly
    <3>2. On(st2, <<p, h>>, Declining(id))
      BY <1>1, <3>1, SentOn
    <3> QED  BY <2>1, <3>2 DEF Pending
  <2>2. CASE x = p /\ room[p] = NoRoom /\ f.id = id
    <3>1. h = q
      BY <2>2, MadeApart
    <3>2. invite'[x] = [from |-> q, id |-> f.id]
      BY <1>4, <2>2
    <3>3. invite'[x] # NoInvite /\ invite'[x].from = h /\ invite'[x].id = id
      BY <1>5, <2>2, <3>1, <3>2
    <3> QED  BY <3>3 DEF Pending
  <2>3. CASE ~ (x = p /\ room[p] = NoRoom)
    <3>1. invite'[x] = invite[x]
      BY <1>2, <1>4, <2>3
    <3> QED  BY <1>6, <3>1 DEF Pending
  <2> QED  BY <2>1, <2>2, <2>3
<1>7. CASE On(Stream, <<h, x>>, InviteFrame(id))
  <2>1. CASE <<h, x>> # <<q, p>> \/ InviteFrame(id) # f
    <3>1. On(Rest(q, p), <<h, x>>, InviteFrame(id))
      BY <1>1, <1>7, <2>1, TakenOn
    <3>2. On(st2, <<h, x>>, InviteFrame(id))
      BY <1>1, <3>1, SentOn
    <3> QED  BY <3>2 DEF Pending
  <2>2. CASE h = q /\ x = p /\ InviteFrame(id) = f
    <3>1. f.id = id
      BY <2>2 DEF InviteFrame
    <3>2. CASE room[p] # NoRoom
      <4>1. On(st2, <<p, q>>, Declining(id))
        BY <1>1, <1>2, <3>1, <3>2, SentOn
      <4> QED  BY <2>2, <4>1 DEF Pending
    <3>3. CASE room[p] = NoRoom
      <4>1. invite'[x] = [from |-> q, id |-> f.id]
        BY <1>4, <2>2, <3>3
      <4>2. invite'[x] # NoInvite /\ invite'[x].from = h /\ invite'[x].id = id
        BY <1>5, <2>2, <3>1, <4>1
      <4> QED  BY <4>2 DEF Pending
    <3> QED  BY <3>2, <3>3
  <2> QED  BY <2>1, <2>2
<1>8. CASE On(Stream, <<x, h>>, Declining(id))
  <2>1. Declining(id).t # "invite"
    BY DEF Declining
  <2> QED  BY <1>2, <1>3, <1>8, <2>1 DEF Pending
<1>9. CASE \E k : On(Stream, <<x, h>>, JoinFrame(id, k))
  <2>1. \A k : JoinFrame(id, k).t # "invite"
    BY DEF JoinFrame
  <2> QED  BY <1>2, <1>3, <1>9, <2>1 DEF Pending
<1> QED  BY <1>6, <1>7, <1>8, <1>9 DEF Pending

\* An invitation heard,
LEMMA InvitedCalm ==
  ASSUME HeardInv, Counted(budget), Whole, Calm(Stream, open, room, invite, made, budget),
         NEW p \in People, NEW q \in People, HearInvite(p, q)
  PROVE  Whole' /\ Calm(Stream, open, room, invite, made, budget)'
<1> DEFINE f == Heard(q, p)
           old == invite[p]
<1>1. /\ Frame(p, q, "invite") /\ open' = open /\ live' = live /\ made' = made
      /\ budget' = budget
      /\ Becomes(p, room[p], Refusal(p, q, f), Unread(q, p))
      /\ invite' = IF room[p] # NoRoom THEN invite
                   ELSE [invite EXCEPT ![p] = [from |-> q, id |-> f.id]]
  BY DEF HearInvite
<1>2. PICK some, m :
        /\ Refusal(p, q, f) = ToEach(some, m) /\ m.t # "hello"
        /\ room[p] # NoRoom => some = {q} /\ m = Declining(f.id)
        /\ room[p] = NoRoom /\ old # NoInvite /\ old.id # f.id
             => some = {old.from} /\ m = Declining(old.id)
        /\ room[p] = NoRoom /\ (old = NoInvite \/ old.id = f.id) => some = {}
  <2>1. \A id : Declining(id).t # "hello"
    BY DEF Declining
  <2>2. CASE room[p] # NoRoom
    <3>1. Refusal(p, q, f) = ToEach({q}, Declining(f.id))
      BY <2>2, Zenon DEF Refusal
    <3> QED  BY <2>1, <2>2, <3>1
  <2>3. CASE room[p] = NoRoom /\ old # NoInvite /\ old.id # f.id
    <3>1. Refusal(p, q, f) = ToEach({old.from}, Declining(old.id))
      BY <2>3, Zenon DEF Refusal
    <3> QED  BY <2>1, <2>3, <3>1
  <2>4. CASE room[p] = NoRoom /\ (old = NoInvite \/ old.id = f.id)
    <3>1. Refusal(p, q, f) = Nothing
      BY <2>4, Zenon DEF Refusal
    <3>2. Nothing = ToEach({}, Declining(1))
      BY NothingSent
    <3> QED  BY <2>1, <2>4, <3>1, <3>2
  <2> QED  BY <2>2, <2>3, <2>4
<1>3. Send(p, ToEach(some, m), Unread(q, p)) /\ room' = [room EXCEPT ![p] = room[p]]
  BY <1>1, <1>2, Zenon DEF Becomes
<1>4. AtMost(ToEach(some, m), m)
  BY OneFrame
<1>5. /\ Taken(Stream, Rest(q, p), <<q, p>>) /\ Stream[<<q, p>>][1] = Heard(q, p)
      /\ FrameGood(made, <<q, p>>, Heard(q, p))
  BY <1>1, <1>3, <1>4, AfterTaking
<1>6. <<q, p>> \in Ways /\ <<p, q>> \in open /\ Heard(q, p).t = "invite"
  BY <1>1, FrameWay DEF Frame
<1>7. f.id \in Made(made, q)
  BY <1>5, <1>6 DEF FrameGood
<1>8. Whole' /\ SentTo(Rest(q, p), Stream', p, some, m) /\ <<q, p>> \in open
  BY <1>1, <1>3, AnsweredWhole
<1>9. \A x \in People : room'[x] = room[x]
  BY <1>3, RoomNow
<1>10. Awaited(Stream', room', invite', made)
  <2> SUFFICES ASSUME NEW h \in People, room[h] # NoRoom, room[h].host = h, Enough(made, h),
                      NEW x \in room[h].invited
               PROVE  <<h, x>> \in Ways /\ Pending(Stream', invite', h, room[h].id, x)
    BY <1>9 DEF Awaited
  <2>1. <<h, x>> \in Ways /\ Pending(Stream, invite, h, room[h].id, x)
    BY DEF Calm, Awaited
  <2>2. room[h].id \in Made(made, h)
    BY OwnRoom DEF RoomGood
  <2>3. /\ f.t = "invite" /\ Stream[<<q, p>>][1] = f
        /\ (room[p] = NoRoom /\ invite[p] # NoInvite /\ invite[p].id # f.id
             => some = {invite[p].from} /\ m = Declining(invite[p].id))
    BY <1>2, <1>5, <1>6
  <2> HIDE DEF f
  <2> QED  BY <1>1, <1>2, <1>5, <1>6, <1>7, <1>8, <2>1, <2>2, <2>3, InviteHeardPending
<1>11. \A x \in some : <<p, x>> \in Ways => <<p, x>> \in open
  BY <1>2, <1>6 DEF Calm, Openly
<1>12. \A x \in People : invite'[x] # NoInvite =>
         invite'[x] = invite[x] \/ <<x, invite'[x].from>> \in open
  <2>1. invite = [z \in People |-> invite[z]]
    BY DEF HeardInv, Plain
  <2>2. CASE room[p] # NoRoom
    BY <1>1, <2>2
  <2>3. CASE room[p] = NoRoom
    <3>1. invite' = [z \in People |-> IF z = p THEN [from |-> q, id |-> f.id] ELSE invite[z]]
      BY <1>1, <2>1, <2>3, Zenon
    <3>2. [from |-> q, id |-> f.id].from = q
      OBVIOUS
    <3> HIDE DEF f
    <3>3. \A x \in People : x # p => invite'[x] = invite[x]
      BY <3>1
    <3>4. invite'[p].from = q
      BY <3>1, <3>2
    <3> QED  BY <1>6, <3>3, <3>4
  <2> QED  BY <2>2, <2>3
<1>13. room[p] = NoRoom \/ /\ room[p] # NoRoom /\ room[p].greeted = room[p].greeted
                           /\ Reached(open, p, room[p]) /\ (room[p].host = p => TidyRoom(room[p]))
  BY DEF Calm, Openly, Tidy
<1>14. Rest(q, p) = Stream \/ \E w0 \in Ways : w0 \in open /\ Taken(Stream, Rest(q, p), w0)
  BY <1>5, <1>6, <1>8
<1>15. m.t # "hello" /\ budget'["invite"] = budget["invite"]
  BY <1>1, <1>2
<1>16. made' = made /\ open' = open
  BY <1>1
<1>17. Calm(Stream, open, room, invite, made, budget)'
  BY <1>3, <1>8, <1>10, <1>11, <1>12, <1>13, <1>14, <1>15, <1>16, CalmStep
<1> QED  BY <1>8, <1>17

\* The host stops waiting for q when what it takes off the way from q is the
\* answer; the others' answers are still on theirs.
LEMMA AnswerTakenPending ==
  ASSUME HeardInv, Calm(Stream, open, room, invite, made, budget), NEW p \in People, NEW q \in People,
         NEW some, NEW m, NEW st2, NEW r, <<q, p>> \in Ways,
         Taken(Stream, Rest(q, p), <<q, p>>), SentTo(Rest(q, p), st2, p, some, m),
         Stream[<<q, p>>][1].t \in {"join", "decline"},
         room' = [room EXCEPT ![p] = r],
         r # NoRoom /\ r.host = p =>
           /\ room[p] # NoRoom /\ room[p].host = p /\ r.id = room[p].id
           /\ r.invited \subseteq room[p].invited
           /\ Stream[<<q, p>>][1].id = r.id => q \notin r.invited
  PROVE  Awaited(st2, room', invite, made)
<1>1. \A x \in People : room'[x] = IF x = p THEN r ELSE room[x]
  BY ZenonT(30), RoomNow
<1>2. Streams(Stream) /\ Streams(Rest(q, p))
  BY StreamGood, TakenAt DEF HeardInv
<1>3. \A w \in Ways : \A x : On(Stream, w, x) /\ (w # <<q, p>> \/ x # Stream[<<q, p>>][1])
                                => On(st2, w, x)
  <2> SUFFICES ASSUME NEW w \in Ways, NEW x, On(Stream, w, x),
                      w # <<q, p>> \/ x # Stream[<<q, p>>][1]
               PROVE  On(st2, w, x)
    OBVIOUS
  <2>1. On(Rest(q, p), w, x)
    BY <1>2, TakenOn
  <2> QED  BY <1>2, <2>1, SentOn
<1> SUFFICES ASSUME NEW h \in People, room'[h] # NoRoom, room'[h].host = h, Enough(made, h),
                    NEW x \in room'[h].invited
             PROVE  <<h, x>> \in Ways /\ Pending(st2, invite, h, room'[h].id, x)
  BY DEF Awaited
<1>4. /\ room[h] # NoRoom /\ room[h].host = h /\ room'[h].id = room[h].id
      /\ x \in room[h].invited
  BY <1>1
<1> DEFINE id == room[h].id
<1>5. <<h, x>> \in Ways /\ Pending(Stream, invite, h, id, x)
  BY <1>4 DEF Calm, Awaited
<1>6. <<x, h>> \in Ways
  BY <1>5, BothWays
<1>7. h = p /\ x = q => Stream[<<q, p>>][1].id # id
  BY <1>1, <1>4
<1>8. /\ InviteFrame(id).t = "invite" /\ Declining(id).id = id
      /\ \A k : JoinFrame(id, k).id = id
  BY DEF InviteFrame, Declining, JoinFrame
<1> HIDE DEF id
<1>9. /\ On(Stream, <<h, x>>, InviteFrame(id)) => On(st2, <<h, x>>, InviteFrame(id))
      /\ On(Stream, <<x, h>>, Declining(id)) => On(st2, <<x, h>>, Declining(id))
      /\ \A k : On(Stream, <<x, h>>, JoinFrame(id, k)) => On(st2, <<x, h>>, JoinFrame(id, k))
  <2>1. InviteFrame(id) # Stream[<<q, p>>][1]
    BY <1>8
  <2>2. /\ <<x, h>> # <<q, p>> \/ Declining(id) # Stream[<<q, p>>][1]
        /\ \A k : <<x, h>> # <<q, p>> \/ JoinFrame(id, k) # Stream[<<q, p>>][1]
    BY <1>7, <1>8
  <2> QED  BY <1>3, <1>5, <1>6, <2>1, <2>2
<1>10. Pending(st2, invite, h, id, x)
  BY <1>5, <1>9 DEF Pending
<1> QED  BY <1>4, <1>5, <1>10 DEF id

\* An answer heard by a host,
LEMMA AnswerCalm ==
  ASSUME HeardInv, Counted(budget), Whole, Calm(Stream, open, room, invite, made, budget),
         NEW p \in People, NEW q \in People, NEW kind \in {"join", "decline"}, Frame(p, q, kind),
         NEW STATE r, NEW STATE some, NEW STATE m,
         Becomes(p, r, ToEach(some, m), Unread(q, p)), Follows(p, r),
         r # NoRoom /\ r.host = p /\ Heard(q, p).id = r.id => q \notin r.invited,
         \A x \in some : <<p, x>> \in Ways => <<p, x>> \in open, m.t # "hello",
         open' = open, live' = live, made' = made, invite' = invite, budget' = budget
  PROVE  Whole' /\ Calm(Stream, open, room, invite, made, budget)'
<1>1. Send(p, ToEach(some, m), Unread(q, p)) /\ room' = [room EXCEPT ![p] = r]
  BY Zenon DEF Becomes
<1>2. AtMost(ToEach(some, m), m)
  BY OneFrame
<1>3. /\ Taken(Stream, Rest(q, p), <<q, p>>) /\ Stream[<<q, p>>][1] = Heard(q, p)
      /\ <<q, p>> \in Ways /\ Heard(q, p).t = kind
  BY <1>1, <1>2, AfterTaking, FrameWay
<1>4. Whole' /\ SentTo(Rest(q, p), Stream', p, some, m) /\ <<q, p>> \in open
  BY <1>1, AnsweredWhole
<1>5. r # NoRoom /\ r.host = p =>
           /\ room[p] # NoRoom /\ room[p].host = p /\ r.id = room[p].id
           /\ r.invited \subseteq room[p].invited
           /\ Stream[<<q, p>>][1].id = r.id => q \notin r.invited
  BY <1>3 DEF Follows
<1>6. Stream[<<q, p>>][1].t \in {"join", "decline"}
  BY <1>3
<1>7. Awaited(Stream', room', invite, made)
  BY <1>1, <1>3, <1>4, <1>5, <1>6, AnswerTakenPending
<1>8. r = NoRoom \/ /\ room[p] # NoRoom /\ r.greeted = room[p].greeted
                    /\ Reached(open, p, r) /\ (r.host = p => TidyRoom(r))
  BY DEF Follows
<1>9. \A x \in People : invite'[x] # NoInvite =>
        invite'[x] = invite[x] \/ <<x, invite'[x].from>> \in open
  OBVIOUS
<1>10. Rest(q, p) = Stream \/ \E w0 \in Ways : w0 \in open /\ Taken(Stream, Rest(q, p), w0)
  BY <1>3, <1>4
<1>11. Awaited(Stream', room', invite', made)
  BY <1>7
<1> QED  BY <1>1, <1>4, <1>8, <1>9, <1>10, <1>11, CalmStep

\* or by somebody else.
LEMMA NotItsAnswer ==
  ASSUME HeardInv, Counted(budget), Whole, Calm(Stream, open, room, invite, made, budget),
         NEW p \in People, NEW q \in People, NEW kind \in {"join", "decline"}, Frame(p, q, kind),
         Ignored(p, q),
         room[p] # NoRoom /\ room[p].host = p /\ Heard(q, p).id = room[p].id
           => q \notin room[p].invited,
         open' = open, live' = live, made' = made, invite' = invite, budget' = budget
  PROVE  Whole' /\ Calm(Stream, open, room, invite, made, budget)'
<1> DEFINE m == Leaving(1)
<1>1. Becomes(p, room[p], ToEach({}, m), Unread(q, p))
  BY NothingSent, Zenon DEF Ignored
<1>2. m.t # "hello" /\ Follows(p, room[p])
  BY OwnFollows DEF Leaving
<1>3. \A x \in {} : <<p, x>> \in Ways => <<p, x>> \in open
  OBVIOUS
<1> HIDE DEF m
<1> QED  BY <1>1, <1>2, <1>3, AnswerCalm

\* A refusal,
LEMMA RefusedCalm ==
  ASSUME HeardInv, Counted(budget), Whole, Calm(Stream, open, room, invite, made, budget),
         NEW p \in People, NEW q \in People, HearDecline(p, q)
  PROVE  Whole' /\ Calm(Stream, open, room, invite, made, budget)'
<1>1. /\ Frame(p, q, "decline") /\ open' = open /\ live' = live /\ made' = made
      /\ invite' = invite /\ budget' = budget /\ "decline" \in {"join", "decline"}
  BY DEF HearDecline
<1>2. CASE In(p, Heard(q, p).id) /\ Hosts(p)
  <2> DEFINE r == [room[p] EXCEPT !.invited = @ \ {q}]
             m == Leaving(1)
  <2>1. room[p] # NoRoom /\ Becomes(p, r, Nothing, Unread(q, p))
    BY <1>2, Zenon DEF HearDecline, Hosts
  <2>2. Becomes(p, r, ToEach({}, m), Unread(q, p))
    BY <2>1, NothingSent, Zenon
  <2>3. Shaped(room[p])
    BY <2>1, OwnRoom
  <2>4. /\ r.id = room[p].id /\ r.host = room[p].host /\ r.greeted = room[p].greeted
        /\ r.claimed = room[p].claimed /\ r.bound = room[p].bound
        /\ r.invited = room[p].invited \ {q}
    BY <2>3 DEF Shaped, Fields
  <2>5. m.t # "hello" /\ \A x \in {} : <<p, x>> \in Ways => <<p, x>> \in open
    BY DEF Leaving
  <2> HIDE DEF r, m
  <2>6. Targets(r) = Targets(room[p])
    BY <2>4 DEF Targets
  <2>7. Follows(p, r)
    BY <2>1, <2>4, <2>6, SameFollows
  <2>8. q \notin r.invited
    BY <2>4
  <2> QED  BY <1>1, <2>2, <2>5, <2>7, <2>8, AnswerCalm
<1>3. CASE ~ (In(p, Heard(q, p).id) /\ Hosts(p))
  <2>1. Ignored(p, q)
    BY <1>3 DEF HearDecline
  <2>2. ~ (room[p] # NoRoom /\ room[p].host = p /\ Heard(q, p).id = room[p].id)
    BY <1>3 DEF In, Hosts
  <2> QED  BY <1>1, <2>1, <2>2, NotItsAnswer
<1> QED  BY <1>2, <1>3

\* or somebody who joins.
LEMMA JoinedCalm ==
  ASSUME HeardInv, Counted(budget), Whole, Calm(Stream, open, room, invite, made, budget),
         NEW p \in People, NEW q \in People, HearJoin(p, q)
  PROVE  Whole' /\ Calm(Stream, open, room, invite, made, budget)'
<1> DEFINE f == Heard(q, p)
           r == room[p]
           asked == [r EXCEPT !.invited = @ \ {q}]
           in == [asked EXCEPT !.roster = @ \cup {Entry(f.key, q)},
                               !.bound = With(@, f.key, q)]
<1>1. /\ Frame(p, q, "join") /\ open' = open /\ live' = live /\ made' = made
      /\ invite' = invite /\ budget' = budget /\ "join" \in {"join", "decline"}
  BY DEF HearJoin
<1>2. \/ /\ Ignored(p, q)
         /\ r # NoRoom /\ r.host = p /\ f.id = r.id => q \in Targets(r)
      \/ /\ r # NoRoom /\ r.host = p
         /\ \/ Becomes(p, asked, ToEach({q}, Leaving(f.id)), Unread(q, p))
            \/ Becomes(p, in, ToEach(Targets(in), Roster(in)), Unread(q, p))
  BY Zenon DEF HearJoin, In, Hosts
<1>3. <<p, q>> \in open
  BY <1>1 DEF Frame
<1>4. CASE /\ Ignored(p, q)
           /\ r # NoRoom /\ r.host = p /\ f.id = r.id => q \in Targets(r)
  <2>1. r # NoRoom /\ r.host = p /\ f.id = r.id => q \notin r.invited
    BY <1>4 DEF Calm, Tidy, TidyRoom
  <2> QED  BY <1>1, <1>4, <2>1, NotItsAnswer
<1>5. ASSUME r # NoRoom, r.host = p
      PROVE  /\ Shaped(r) /\ Reached(open, p, r) /\ TidyRoom(r)
             /\ asked.id = r.id /\ asked.host = p /\ asked.greeted = r.greeted
             /\ asked.claimed = r.claimed /\ asked.bound = r.bound
             /\ asked.invited = r.invited \ {q}
  <2>1. Shaped(r) /\ Reached(open, p, r) /\ TidyRoom(r)
    BY <1>5, OwnRoom DEF Calm, Openly, Tidy
  <2> QED  BY <1>5, <2>1 DEF Shaped, Fields
<1>6. CASE r # NoRoom /\ r.host = p /\ Becomes(p, asked, ToEach({q}, Leaving(f.id)), Unread(q, p))
  <2>1. Targets(asked) = Targets(r)
    BY <1>5, <1>6 DEF Targets
  <2> DEFINE m == Leaving(f.id)
  <2>2. m.t # "hello" /\ \A x \in {q} : <<p, x>> \in Ways => <<p, x>> \in open
    BY <1>3 DEF Leaving
  <2>3. Becomes(p, asked, ToEach({q}, m), Unread(q, p))
    BY <1>6
  <2> HIDE DEF asked, m
  <2>4. Follows(p, asked) /\ q \notin asked.invited
    BY <1>5, <1>6, <2>1, SameFollows
  <2> QED  BY <1>1, <2>2, <2>3, <2>4, AnswerCalm
<1>7. CASE r # NoRoom /\ r.host = p /\ Becomes(p, in, ToEach(Targets(in), Roster(in)), Unread(q, p))
  <2> DEFINE m == Roster(in)
             bound == With(r.bound, f.key, q)
  <2>1. /\ in.id = r.id /\ in.host = p /\ in.greeted = r.greeted
        /\ in.claimed = r.claimed /\ in.bound = bound /\ in.invited = r.invited \ {q}
    <3>1. Shaped(r)
      BY <1>5, <1>7
    <3> QED  BY <1>7, <3>1 DEF Shaped, Fields
  <2>2. {bound[k] : k \in DOMAIN bound} \subseteq Targets(r) \cup {q}
    BY DEF With, Targets
  <2>3. m.t # "hello"
    BY DEF Roster
  <2>4. Becomes(p, in, ToEach(Targets(in), m), Unread(q, p))
    BY <1>7
  <2> HIDE DEF in, m, bound
  <2>5. Targets(in) \subseteq Targets(r) \cup {q}
    BY <2>1, <2>2 DEF Targets
  <2>6. Follows(p, in) /\ q \notin in.invited
    BY <1>3, <1>5, <1>7, <2>1, <2>5 DEF Follows, Reached, TidyRoom
  <2>7. \A x \in Targets(in) : <<p, x>> \in Ways => <<p, x>> \in open
    BY <1>3, <1>5, <1>7, <2>5 DEF Reached
  <2> QED  BY <1>1, <2>3, <2>4, <2>6, <2>7, AnswerCalm
<1> QED  BY <1>2, <1>4, <1>6, <1>7

-----------------------------------------------------------------------------
(***************************************************************************)
(* Invitations made, taken up, turned down and forgotten.                  *)
(***************************************************************************)

\* An invitation given up with an answer that is sent to whom it came from,
\* or that its host does not wait for any more.
LEMMA GivenUpPending ==
  ASSUME HeardInv, NEW st2, NEW p \in People,
         \A w \in Ways : \A y : On(Stream, w, y) => On(st2, w, y),
         invite' = [invite EXCEPT ![p] = NoInvite],
         NEW h \in People, NEW x, NEW id, <<h, x>> \in Ways,
         x = p /\ invite[p] # NoInvite /\ invite[p].from = h /\ invite[p].id = id =>
           \/ On(st2, <<x, h>>, Declining(id))
           \/ \E k : On(st2, <<x, h>>, JoinFrame(id, k)),
         Pending(Stream, invite, h, id, x)
  PROVE  Pending(st2, invite', h, id, x)
<1>1. x \in People /\ <<x, h>> \in Ways
  BY BothWays, WayEnds
<1>2. x # p => invite'[x] = invite[x]
  <2>1. invite' = [z \in People |-> IF z = p THEN NoInvite ELSE invite[z]]
    BY Zenon DEF HeardInv, Plain
  <2> QED  BY <1>1, <2>1
<1>3. CASE invite[x] # NoInvite /\ invite[x].from = h /\ invite[x].id = id
  BY <1>2, <1>3 DEF Pending
<1>4. CASE ~ (invite[x] # NoInvite /\ invite[x].from = h /\ invite[x].id = id)
  BY <1>1, <1>4 DEF Pending
<1> QED  BY <1>3, <1>4

\* One turned down,
LEMMA DeclinedCalm ==
  ASSUME HeardInv, Counted(budget), Whole, Calm(Stream, open, room, invite, made, budget),
         NEW p \in People, Decline(p)
  PROVE  Whole' /\ Calm(Stream, open, room, invite, made, budget)'
<1> DEFINE m == Declining(invite[p].id)
           some == {invite[p].from}
<1>1. /\ invite[p] # NoInvite /\ Send(p, ToEach(some, m), wire)
      /\ invite' = [invite EXCEPT ![p] = NoInvite]
      /\ open' = open /\ live' = live /\ room' = room /\ made' = made /\ budget' = budget
  BY DEF Decline
<1>2. room' = [room EXCEPT ![p] = room[p]]
  BY <1>1 DEF HeardInv, RoomsFit
<1>3. m.t # "hello"
  BY DEF Declining
<1>4. Whole' /\ SentTo(Stream, Stream', p, some, m)
  <2> HIDE DEF m
  <2> QED  BY <1>1, SaidWhole
<1>5. Streams(Stream)
  BY StreamGood DEF HeardInv
<1>6. \A x \in some : <<p, x>> \in open
  BY <1>1 DEF Calm, Openly
<1>7. Awaited(Stream', room', invite', made)
  <2> SUFFICES ASSUME NEW h \in People, room[h] # NoRoom, room[h].host = h, Enough(made, h),
                      NEW x \in room[h].invited
               PROVE  <<h, x>> \in Ways /\ Pending(Stream', invite', h, room[h].id, x)
    BY <1>1 DEF Awaited
  <2>1. <<h, x>> \in Ways /\ Pending(Stream, invite, h, room[h].id, x)
    BY DEF Calm, Awaited
  <2>2. \A w \in Ways : \A y : On(Stream, w, y) => On(Stream', w, y)
    BY <1>4, <1>5, SentOn
  <2>3. ASSUME x = p, invite[p].from = h, invite[p].id = room[h].id
        PROVE  On(Stream', <<x, h>>, Declining(room[h].id))
    <3>1. <<p, h>> \in Ways /\ h \in some /\ <<p, h>> \in open /\ m = Declining(room[h].id)
      BY <1>6, <2>1, <2>3, BothWays
    <3> HIDE DEF m, some
    <3> QED  BY <1>4, <1>5, <2>3, <3>1, SentOn
  <2> QED  BY <1>1, <2>1, <2>2, <2>3, GivenUpPending
<1>8. \A x \in People : invite'[x] # NoInvite =>
        invite'[x] = invite[x] \/ <<x, invite'[x].from>> \in open
  <2>1. invite' = [z \in People |-> IF z = p THEN NoInvite ELSE invite[z]]
    BY <1>1, Zenon DEF HeardInv, Plain
  <2> QED  BY <2>1
<1>9. room[p] = NoRoom \/ /\ room[p] # NoRoom /\ room[p].greeted = room[p].greeted
                          /\ Reached(open, p, room[p]) /\ (room[p].host = p => TidyRoom(room[p]))
  BY DEF Calm, Openly, Tidy
<1>10. Stream = Stream \/ \E w0 \in Ways : w0 \in open /\ Taken(Stream, Stream, w0)
  OBVIOUS
<1>11. \A x \in some : <<p, x>> \in Ways => <<p, x>> \in open
  BY <1>6
<1>12. budget'["invite"] = budget["invite"]
  BY <1>1
<1> HIDE DEF m, some
<1>13. Calm(Stream, open, room, invite, made, budget)'
  BY <1>1, <1>2, <1>3, <1>4, <1>7, <1>8, <1>9, <1>10, <1>11, <1>12, CalmStep
<1> QED  BY <1>4, <1>13

\* or forgotten, on either side.
LEMMA TimeCalm ==
  ASSUME HeardInv, Counted(budget), Whole, Calm(Stream, open, room, invite, made, budget),
         NEW p \in People, NEW q \in People, Forget(p) \/ Expire(p, q)
  PROVE  Whole' /\ Calm(Stream, open, room, invite, made, budget)'
<1> DEFINE m == Leaving(1)
           none == {}
<1>1. /\ UNCHANGED linkVars /\ made' = made /\ budget'["invite"] = budget["invite"]
  BY DEF Forget, Expire, Strikes, Spend, Counted, Kinds
<1>2. Whole' /\ Stream' = Stream /\ open' = open
  BY <1>1 DEF linkVars, Whole, Stream
<1>3. SentTo(Stream, Stream', p, none, m)
  <2> HIDE DEF m
  <2> QED  BY <1>2 DEF SentTo
<1>4. m.t # "hello"
  BY DEF Leaving
<1>5. \A x \in none : <<p, x>> \in Ways => <<p, x>> \in open
  OBVIOUS
<1>6. Stream = Stream \/ \E w0 \in Ways : w0 \in open /\ Taken(Stream, Stream, w0)
  OBVIOUS
<1> HIDE DEF m, none
<1>7. CASE Forget(p)
  <2>1. /\ room' = [room EXCEPT ![p] = room[p]] /\ room' = room /\ invite[p] # NoInvite
        /\ invite' = [invite EXCEPT ![p] = NoInvite]
        /\ In(invite[p].from, invite[p].id) => p \notin room[invite[p].from].invited
    BY <1>7 DEF Forget, HeardInv, RoomsFit
  <2>2. Awaited(Stream', room', invite', made)
    <3> SUFFICES ASSUME NEW h \in People, room[h] # NoRoom, room[h].host = h, Enough(made, h),
                        NEW x \in room[h].invited
                 PROVE  <<h, x>> \in Ways /\ Pending(Stream, invite', h, room[h].id, x)
      BY <1>2, <2>1 DEF Awaited
    <3>1. <<h, x>> \in Ways /\ Pending(Stream, invite, h, room[h].id, x)
      BY DEF Calm, Awaited
    <3>2. ~ (x = p /\ invite[p] # NoInvite /\ invite[p].from = h /\ invite[p].id = room[h].id)
      BY <2>1 DEF In
    <3> QED  BY <2>1, <3>1, <3>2, GivenUpPending
  <2>3. \A x \in People : invite'[x] # NoInvite =>
          invite'[x] = invite[x] \/ <<x, invite'[x].from>> \in open
    <3>1. invite' = [z \in People |-> IF z = p THEN NoInvite ELSE invite[z]]
      BY <2>1, Zenon DEF HeardInv, Plain
    <3> QED  BY <3>1
  <2>4. room[p] = NoRoom \/ /\ room[p] # NoRoom /\ room[p].greeted = room[p].greeted
                            /\ Reached(open, p, room[p]) /\ (room[p].host = p => TidyRoom(room[p]))
    BY DEF Calm, Openly, Tidy
  <2>5. Calm(Stream, open, room, invite, made, budget)'
    BY <1>1, <1>2, <1>3, <1>4, <1>5, <1>6, <2>1, <2>2, <2>3, <2>4, CalmStep
  <2> QED  BY <1>2, <2>5
<1>8. CASE Expire(p, q)
  <2> DEFINE r == [room[p] EXCEPT !.invited = @ \ {q}]
  <2>1. room[p] # NoRoom /\ room' = [room EXCEPT ![p] = r] /\ invite' = invite
    BY <1>8, Zenon DEF Expire, Hosts
  <2>2. Shaped(room[p])
    BY <2>1, OwnRoom
  <2>3. /\ r.id = room[p].id /\ r.host = room[p].host /\ r.greeted = room[p].greeted
        /\ r.claimed = room[p].claimed /\ r.bound = room[p].bound
        /\ r.invited \subseteq room[p].invited
    BY <2>2 DEF Shaped, Fields
  <2> HIDE DEF r
  <2>4. Targets(r) = Targets(room[p])
    BY <2>3 DEF Targets
  <2>5. Follows(p, r)
    BY <2>1, <2>3, <2>4, SameFollows
  <2>6. Awaited(Stream', room', invite', made)
    <3>1. \A w \in Ways : \A x : On(Stream, w, x) /\ ~ Beside(x) => On(Stream', w, x)
      BY <1>2
    <3>2. \/ r = NoRoom \/ r.host # p
          \/ /\ room[p] # NoRoom /\ room[p].host = p
             /\ r.id = room[p].id /\ r.invited \subseteq room[p].invited
      BY <2>5 DEF Follows
    <3>3. Awaited(Stream', room', invite, made)
      BY <2>1, <3>1, <3>2, AwaitedBeside
    <3> QED  BY <2>1, <3>3
  <2>7. r = NoRoom \/ /\ room[p] # NoRoom /\ r.greeted = room[p].greeted
                      /\ Reached(open, p, r) /\ (r.host = p => TidyRoom(r))
    BY <2>5 DEF Follows
  <2>8. \A x \in People : invite'[x] # NoInvite =>
          invite'[x] = invite[x] \/ <<x, invite'[x].from>> \in open
    BY <2>1
  <2>9. Calm(Stream, open, room, invite, made, budget)'
    BY <1>1, <1>2, <1>3, <1>4, <1>5, <1>6, <2>1, <2>6, <2>7, <2>8, CalmStep
  <2> QED  BY <1>2, <2>9
<1> QED  BY <1>7, <1>8

\* Invitations that were answered or on their way are so still.
StillPending(st, inv, st2, inv2) ==
  \A h \in People : \A x, id :
    <<h, x>> \in Ways /\ Pending(st, inv, h, id, x) => Pending(st2, inv2, h, id, x)

\* p enters r, a room in which nobody is known yet.
Enters(p, r) ==
  /\ room[p] = NoRoom /\ room' = [room EXCEPT ![p] = r]
  /\ made' = [made EXCEPT ![p] = @ + 1]
  /\ r.greeted = {} /\ r.invited = {} /\ r.bound = Empty /\ r.claimed = Empty
  /\ r.host = p \/ <<p, r.host>> \in open

\* Somebody in no room enters one in which nobody is asked in or greeted yet.
LEMMA EnterCalm ==
  ASSUME HeardInv, Counted(budget), Calm(Stream, open, room, invite, made, budget),
         NEW p \in People, NEW STATE some, NEW STATE m, NEW STATE r,
         SentTo(Stream, Stream', p, some, m),
         \A x \in some : <<p, x>> \in Ways => <<p, x>> \in open, m.t # "hello",
         Enters(p, r),
         \A x \in People : invite'[x] # NoInvite => invite'[x] = invite[x],
         StillPending(Stream, invite, Stream', invite'),
         open' = open, budget'["invite"] = budget["invite"]
  PROVE  Calm(Stream, open, room, invite, made, budget)'
<1>0. /\ room[p] = NoRoom /\ room' = [room EXCEPT ![p] = r]
      /\ made' = [made EXCEPT ![p] = @ + 1]
      /\ r.greeted = {} /\ r.invited = {} /\ r.bound = Empty /\ r.claimed = Empty
      /\ r.host = p \/ <<p, r.host>> \in open
  BY DEF Enters
<1>1. \A x \in People : room'[x] = IF x = p THEN r ELSE room[x]
  <2>1. room = [x \in People |-> room[x]]
    BY DEF HeardInv, RoomsFit
  <2>2. room' = [x \in People |-> IF x = p THEN r ELSE room[x]]
    BY <1>0, <2>1, Zenon
  <2> QED  BY <2>2
<1>2. Streams(Stream) /\ made \in [People -> Nat]
  BY StreamGood DEF HeardInv, Plain
<1>3. \A x \in People : made'[x] = IF x = p THEN made[x] + 1 ELSE made[x]
  BY <1>0, <1>2
<1>4. /\ made' \in [People -> Nat] /\ \A x \in People : Made(made, x) \subseteq Made(made', x)
      /\ \A x \in People : Enough(made', x) => Enough(made, x)
  <2>1. made' \in [People -> Nat] /\ \A x \in People : made[x] <= made'[x]
    BY <1>0, <1>2, <1>3
  <2>2. \A x \in People : Made(made, x) \subseteq Made(made', x)
    BY <1>2, <2>1 DEF Made
  <2>3. \A x \in People : Enough(made', x) => Enough(made, x)
    BY <1>2, <2>1, RoomAssumption, LinksAssumption DEF Enough, Kinds
  <2> QED  BY <2>1, <2>2, <2>3
<1>5. Targets(r) = {} /\ DOMAIN r.claimed = {}
  BY <1>0 DEF Targets, Empty
<1>6. Openly(open, room', invite') /\ Tidy(room')
  <2>1. Reached(open, p, r) /\ TidyRoom(r)
    BY <1>0, <1>5 DEF Reached, TidyRoom
  <2>2. Openly(open, room, invite) /\ Tidy(room)
    BY DEF Calm
  <2>3. Openly(open, room', invite')
    BY <1>0, <1>1, <2>1, <2>2 DEF Openly
  <2> QED  BY <1>1, <2>1, <2>2, <2>3 DEF Tidy
<1>7. ToldByMembers(Stream', made')
  <2> SUFFICES ASSUME NEW w \in Ways, NEW x, On(Stream', w, x), x.t = "hello"
               PROVE  \E y \in People \ {w[2]} : x.id \in Made(made', y)
    BY ToldOn
  <2>1. On(Stream, w, x)
    BY <1>2, SentOn
  <2>2. \E y \in People \ {w[2]} : x.id \in Made(made, y)
    BY <2>1, ToldOn DEF Calm
  <2> QED  BY <1>4, <2>2
<1>8. Awaited(Stream', room', invite', made')
  <2> SUFFICES ASSUME NEW h \in People, room'[h] # NoRoom, room'[h].host = h, Enough(made', h),
                      NEW x \in room'[h].invited
               PROVE  <<h, x>> \in Ways /\ Pending(Stream', invite', h, room'[h].id, x)
    BY DEF Awaited
  <2>1. h # p /\ room'[h] = room[h] /\ Enough(made, h)
    BY <1>0, <1>1, <1>4
  <2>2. <<h, x>> \in Ways /\ Pending(Stream, invite, h, room[h].id, x)
    BY <2>1 DEF Calm, Awaited
  <2> QED  BY <2>1, <2>2 DEF StillPending
<1>9. FewWait(Stream', room', made', budget', open)
  <2> SUFFICES ASSUME NEW w \in Ways, w \notin open
               PROVE  Len(Stream'[w]) + Ungreeted(room'[w[1]], w[2])
                        <= Budget["invite"] - budget["invite"] + made'[w[1]]
    BY DEF FewWait
  <2>1. Stream'[w] = Stream[w]
    <3>1. w = <<w[1], w[2]>>
      BY WayEnds
    <3> QED  BY <3>1 DEF SentTo
  <2>2. Len(Stream[w]) + Ungreeted(room[w[1]], w[2])
          <= Budget["invite"] - budget["invite"] + made[w[1]]
    BY DEF Calm, FewWait
  <2>3. PICK n \in Nat : n = Len(Stream[w])
    BY <1>2, LenNat
  <2>4. PICK d \in Int : d = Budget["invite"] - budget["invite"]
    BY RoomAssumption DEF Counted, Kinds
  <2>5. w[1] \in People /\ made[w[1]] \in Nat
    BY <1>2, WayEnds
  <2>6. CASE w[1] = p
    <3>1. Ungreeted(room[p], w[2]) = 0 /\ Ungreeted(room'[p], w[2]) \in {0, 1}
      BY <1>0, <1>1 DEF Ungreeted
    <3>2. made'[p] = made[p] + 1
      BY <1>3
    <3>3. n <= d + made[p]
      BY <2>2, <2>3, <2>4, <2>6, <3>1
    <3>4. n + 0 <= d + made'[p] /\ n + 1 <= d + made'[p]
      BY <2>5, <2>6, <3>2, <3>3
    <3>5. Len(Stream'[w]) = n
      BY <2>1, <2>3
    <3> QED  BY <2>4, <2>6, <3>1, <3>4, <3>5
  <2>7. CASE w[1] # p
    <3>1. room'[w[1]] = room[w[1]] /\ made'[w[1]] = made[w[1]]
      BY <1>1, <1>3, <2>5, <2>7
    <3> QED  BY <2>1, <2>2, <3>1
  <2> QED  BY <2>6, <2>7
<1>10. Calm(Stream', open', room', invite', made', budget')
  BY <1>6, <1>7, <1>8, <1>9 DEF Calm
<1> QED  BY <1>10, CalmPrime

\* A room made,
LEMMA CreateCalm ==
  ASSUME HeardInv, Counted(budget), Whole, Calm(Stream, open, room, invite, made, budget),
         NEW p \in People, Create(p)
  PROVE  Whole' /\ Calm(Stream, open, room, invite, made, budget)'
<1> DEFINE fresh == <<p, made[p]>>
           r0 == NewRoom(fresh, p, fresh)
           r == [r0 EXCEPT !.roster = {Entry(fresh, p)}]
           m == Leaving(1)
           none == {}
<1>1. /\ room[p] = NoRoom /\ room' = [room EXCEPT ![p] = r]
      /\ made' = [made EXCEPT ![p] = @ + 1] /\ UNCHANGED linkVars /\ invite' = invite
      /\ budget'["invite"] = budget["invite"]
  <2>1. room' = [room EXCEPT ![p] = r]
    BY Zenon DEF Create
  <2> QED  BY <2>1 DEF Create, Strikes, Spend, Counted, Kinds
<1>2. /\ r.greeted = {} /\ r.invited = {} /\ r.bound = Empty /\ r.claimed = Empty /\ r.host = p
  BY DEF NewRoom
<1>3. Whole' /\ Stream' = Stream /\ open' = open
  BY <1>1 DEF linkVars, Whole, Stream
<1>4. m.t # "hello" /\ \A x \in none : <<p, x>> \in Ways => <<p, x>> \in open
  BY DEF Leaving
<1> HIDE DEF r, m
<1>5. SentTo(Stream, Stream', p, none, m)
  BY <1>3 DEF SentTo
<1>6. StillPending(Stream, invite, Stream', invite')
  BY <1>1, <1>3 DEF StillPending
<1>7. \A x \in People : invite'[x] # NoInvite => invite'[x] = invite[x]
  BY <1>1
<1> HIDE DEF none
<1>8. Enters(p, r) /\ budget'["invite"] = budget["invite"]
  BY <1>1, <1>2, Zenon DEF Enters
<1>9. Calm(Stream, open, room, invite, made, budget)'
  BY <1>3, <1>4, <1>5, <1>6, <1>7, <1>8, EnterCalm
<1> QED  BY <1>3, <1>9

\* or entered.
LEMMA JoinCalm ==
  ASSUME HeardInv, Counted(budget), Whole, Calm(Stream, open, room, invite, made, budget),
         NEW p \in People, Join(p)
  PROVE  Whole' /\ Calm(Stream, open, room, invite, made, budget)'
<1> DEFINE old == invite[p]
           r == NewRoom(old.id, old.from, <<p, made[p]>>)
           m == Joining(r)
           some == {old.from}
<1>1. /\ room[p] = NoRoom /\ old # NoInvite
      /\ Becomes(p, r, ToEach({r.host}, m), wire)
      /\ invite' = [invite EXCEPT ![p] = NoInvite]
      /\ made' = [made EXCEPT ![p] = @ + 1] /\ open' = open /\ live' = live
      /\ budget'["invite"] = budget["invite"]
  BY DEF Join
<1>2. /\ r.greeted = {} /\ r.invited = {} /\ r.bound = Empty /\ r.claimed = Empty
      /\ r.host = old.from /\ r.id = old.id /\ r.key = <<p, made[p]>>
  BY DEF NewRoom
<1>3. Send(p, ToEach(some, m), wire) /\ room' = [room EXCEPT ![p] = r]
  BY <1>1, <1>2, Zenon DEF Becomes
<1>4. m = JoinFrame(old.id, r.key) /\ m.t # "hello"
  BY <1>2 DEF Joining, JoinFrame
<1>5. <<p, old.from>> \in open /\ \A x \in some : <<p, x>> \in Ways => <<p, x>> \in open
  BY <1>1 DEF Calm, Openly
<1>6. r.host = p \/ <<p, r.host>> \in open
  BY <1>2, <1>5
<1>7. old.from \in some
  OBVIOUS
<1> HIDE DEF m, r, some
<1>8. Whole' /\ SentTo(Stream, Stream', p, some, m)
  BY <1>1, <1>3, SaidWhole
<1>9. Streams(Stream)
  BY StreamGood DEF HeardInv
<1>10. StillPending(Stream, invite, Stream', invite')
  <2> SUFFICES ASSUME NEW h \in People, NEW x, NEW id, <<h, x>> \in Ways,
                      Pending(Stream, invite, h, id, x)
               PROVE  Pending(Stream', invite', h, id, x)
    BY DEF StillPending
  <2>1. \A w \in Ways : \A y : On(Stream, w, y) => On(Stream', w, y)
    BY <1>8, <1>9, SentOn
  <2>2. ASSUME x = p, old.from = h, old.id = id
        PROVE  On(Stream', <<x, h>>, JoinFrame(id, r.key))
    <3>1. <<p, h>> \in Ways /\ h \in some /\ <<p, h>> \in open /\ m = JoinFrame(id, r.key)
      BY <1>4, <1>5, <1>7, <2>2, BothWays
    <3> HIDE DEF old
    <3> QED  BY <1>8, <1>9, <2>2, <3>1, SentOn
  <2> QED  BY <1>1, <2>1, <2>2, GivenUpPending
<1>11. \A x \in People : invite'[x] # NoInvite => invite'[x] = invite[x]
  <2>1. invite' = [z \in People |-> IF z = p THEN NoInvite ELSE invite[z]]
    BY <1>1, Zenon DEF HeardInv, Plain
  <2> QED  BY <2>1
<1>12. Enters(p, r)
  BY <1>1, <1>2, <1>3, <1>6, Zenon DEF Enters
<1>13. open' = open /\ budget'["invite"] = budget["invite"]
  BY <1>1
<1>14. Calm(Stream, open, room, invite, made, budget)'
  BY <1>4, <1>5, <1>8, <1>10, <1>11, <1>12, <1>13, EnterCalm
<1> QED  BY <1>8, <1>14

\* One invitation spent, one frame waiting more.
LEMMA OneSpent ==
  ASSUME NEW n \in Nat, NEW u \in {0, 1}, NEW b \in Nat, NEW c \in Nat \ {0}, NEW k \in Nat,
         n + u <= b - c + k
  PROVE  /\ n + u <= b - (c - 1) + k /\ n + 1 + u <= b - (c - 1) + k
         /\ \A top \in Nat : b + k <= top => n < top
<1>1. u \in Nat
  OBVIOUS
<1> QED  BY <1>1

\* An invitation.
LEMMA AskedCalm ==
  ASSUME HeardInv, Counted(budget), Whole, Calm(Stream, open, room, invite, made, budget),
         NEW p \in People, NEW q \in People, InviteTo(p, q)
  PROVE  Whole' /\ Calm(Stream, open, room, invite, made, budget)'
<1> DEFINE r == [room[p] EXCEPT !.invited = @ \cup {q}]
           m == Invite(room[p])
           some == {q}
<1>1. /\ room[p] # NoRoom /\ room[p].host = p /\ q \in ContactsOf(p) /\ q \notin Targets(room[p])
      /\ Becomes(p, r, ToEach(some, m), wire)
      /\ open' = open /\ live' = live /\ invite' = invite /\ made' = made
      /\ Strikes("invite")
  BY Zenon DEF InviteTo, Hosts
<1>2. budget["invite"] \in Nat \ {0} /\ budget'["invite"] = budget["invite"] - 1
  BY <1>1 DEF Strikes, Afford, Spend, Counted, Kinds
<1>3. Shaped(room[p])
  BY <1>1, OwnRoom
<1>4. /\ r.id = room[p].id /\ r.host = p /\ r.greeted = room[p].greeted
      /\ r.claimed = room[p].claimed /\ r.bound = room[p].bound
      /\ r.invited = room[p].invited \cup {q} /\ r # NoRoom
  BY <1>1, <1>3 DEF Shaped, Fields, NoRoom
<1>5. m = InviteFrame(room[p].id) /\ m.t = "invite"
  BY DEF Invite, InviteFrame
<1>6. room' = [room EXCEPT ![p] = r] /\ Send(p, ToEach(some, m), wire)
  BY <1>1, Zenon DEF Becomes
<1> HIDE DEF r, m
<1>7. \A x \in People : room'[x] = IF x = p THEN r ELSE room[x]
  BY <1>6, RoomNow
<1>8. q \in some /\ \A x \in some : x = q
  OBVIOUS
<1> HIDE DEF some
<1>9. Whole' /\ SentTo(Stream, Stream', p, some, m)
  BY <1>1, <1>6, SaidWhole
<1>10. Streams(Stream)
  BY StreamGood DEF HeardInv
<1>11. Targets(r) = Targets(room[p])
  BY <1>4 DEF Targets
<1>12. Openly(open, room', invite')
  <2>1. Reached(open, p, room[p])
    BY <1>1 DEF Calm, Openly
  <2>2. Reached(open, p, r)
    BY <1>1, <1>4, <1>11, <2>1 DEF Reached
  <2> QED  BY <1>1, <1>7, <2>2 DEF Calm, Openly
<1>13. Tidy(room')
  <2>1. TidyRoom(room[p])
    BY <1>1 DEF Calm, Tidy
  <2>2. TidyRoom(r)
    BY <1>1, <1>4, <1>11, <2>1 DEF TidyRoom
  <2> QED  BY <1>7, <2>2 DEF Calm, Tidy
<1>14. ToldByMembers(Stream', made')
  <2>1. \A w \in Ways : \A x : On(Stream', w, x) /\ x.t = "hello" => On(Stream, w, x)
    BY <1>5, <1>9, <1>10, SentOn
  <2> QED  BY <1>1, <2>1, ToldOn DEF Calm
<1>15. FewWait(Stream', room', made', budget', open)
  <2> SUFFICES ASSUME NEW w \in Ways, w \notin open
               PROVE  Len(Stream'[w]) + Ungreeted(room'[w[1]], w[2])
                        <= Budget["invite"] - budget'["invite"] + made[w[1]]
    BY <1>1 DEF FewWait
  <2>1. Len(Stream[w]) + Ungreeted(room[w[1]], w[2])
          <= Budget["invite"] - budget["invite"] + made[w[1]]
    BY DEF Calm, FewWait
  <2>2. PICK n \in Nat, b \in Nat, c \in Nat, k \in Nat, u \in {0, 1} :
          /\ n = Len(Stream[w]) /\ b = Budget["invite"] /\ c = budget["invite"]
          /\ k = made[w[1]] /\ u = Ungreeted(room[w[1]], w[2])
    <3>1. Len(Stream[w]) \in Nat /\ made[w[1]] \in Nat
      BY <1>10, LenNat, WayEnds DEF HeardInv, Plain
    <3>2. Ungreeted(room[w[1]], w[2]) \in {0, 1}
      BY DEF Ungreeted
    <3>3. Budget["invite"] \in Nat
      BY RoomAssumption DEF Kinds
    <3> QED  BY <1>2, <3>1, <3>2, <3>3
  <2>3. Ungreeted(room'[w[1]], w[2]) = u
    BY <1>1, <1>4, <1>7, <2>2, WayEnds DEF Ungreeted
  <2>4. Len(Stream'[w]) \in {n, n + 1}
    <3>1. PICK S : Stream \in [Ways -> Seq(S)]
      BY <1>10 DEF Streams
    <3>2. Stream[w] \in Seq(S \cup {m}) /\ m \in S \cup {m}
      BY <3>1
    <3>3. Len(Append(Stream[w], m)) = Len(Stream[w]) + 1
      BY <3>2, AppendProperties
    <3> QED  BY <1>9, <1>10, <2>2, <3>3, SentOn
  <2>5. n + u <= b - c + k
    BY <2>1, <2>2
  <2>6. c \in Nat \ {0}
    BY <1>2, <2>2
  <2>7. n + u <= b - (c - 1) + k /\ n + 1 + u <= b - (c - 1) + k
    BY <2>5, <2>6, OneSpent
  <2>8. /\ Budget["invite"] - budget'["invite"] + made[w[1]] = b - (c - 1) + k
        /\ Len(Stream'[w]) = n \/ Len(Stream'[w]) = n + 1
    BY <1>2, <2>2, <2>4
  <2> QED  BY <2>3, <2>7, <2>8
<1>16. Awaited(Stream', room', invite', made')
  <2> SUFFICES ASSUME NEW h \in People, room'[h] # NoRoom, room'[h].host = h, Enough(made, h),
                      NEW x \in room'[h].invited
               PROVE  <<h, x>> \in Ways /\ Pending(Stream', invite, h, room'[h].id, x)
    BY <1>1 DEF Awaited
  <2>1. \A w \in Ways : \A y : On(Stream, w, y) => On(Stream', w, y)
    BY <1>9, <1>10, SentOn
  <2>2. /\ room[h] # NoRoom /\ room[h].host = h /\ room'[h].id = room[h].id
        /\ x \in room[h].invited \/ (h = p /\ x = q)
    BY <1>1, <1>4, <1>7
  <2>3. CASE x \in room[h].invited
    <3>1. <<h, x>> \in Ways /\ Pending(Stream, invite, h, room[h].id, x)
      BY <2>2, <2>3 DEF Calm, Awaited
    <3> QED  BY <2>1, <2>2, <3>1, PendingStays
  <2>4. CASE h = p /\ x = q
    <3>1. <<p, q>> \in Ways
      BY <1>1 DEF ContactsOf
    <3>2. <<p, q>> \in open \/ Len(Stream[<<p, q>>]) < WAITING
      <4> SUFFICES ASSUME <<p, q>> \notin open
                   PROVE  Len(Stream[<<p, q>>]) < WAITING
        OBVIOUS
      <4>1. Len(Stream[<<p, q>>]) + Ungreeted(room[p], q)
              <= Budget["invite"] - budget["invite"] + made[p]
        BY <3>1 DEF Calm, FewWait
      <4>2. /\ Ungreeted(room[p], q) \in {0, 1} /\ Len(Stream[<<p, q>>]) \in Nat
            /\ made[p] \in Nat /\ Budget["invite"] \in Nat /\ WAITING \in Nat
        BY <1>10, <3>1, LenNat, RoomAssumption, LinksAssumption
           DEF HeardInv, Plain, Ungreeted, Kinds
      <4>3. Budget["invite"] + made[p] <= WAITING
        BY <2>4 DEF Enough
      <4>4. PICK n \in Nat, b \in Nat, c \in Nat \ {0}, k \in Nat, u \in {0, 1} :
              /\ n = Len(Stream[<<p, q>>]) /\ b = Budget["invite"] /\ c = budget["invite"]
              /\ k = made[p] /\ u = Ungreeted(room[p], q)
        BY <1>2, <4>2
      <4>5. n + u <= b - c + k /\ b + k <= WAITING /\ WAITING \in Nat
        BY <4>1, <4>2, <4>3, <4>4
      <4>6. n < WAITING
        BY <4>5, OneSpent
      <4> QED  BY <4>4, <4>6
    <3>3. On(Stream', <<p, q>>, m)
      BY <1>8, <1>9, <1>10, <3>1, <3>2, SentOn
    <3> QED  BY <1>5, <2>2, <2>4, <3>1, <3>3 DEF Pending
  <2> QED  BY <2>2, <2>3, <2>4
<1>17. Calm(Stream', open', room', invite', made', budget')
  BY <1>1, <1>12, <1>13, <1>14, <1>15, <1>16 DEF Calm
<1> QED  BY <1>9, <1>17, CalmPrime

\* A connection made: what waited goes out on it.
LEMMA ConnectedCalm ==
  ASSUME HeardInv, Counted(budget), Whole, Calm(Stream, open, room, invite, made, budget),
         NEW p \in People, NEW q \in People, Connects(p, q)
  PROVE  Whole' /\ Calm(Stream, open, room, invite, made, budget)'
<1> DEFINE v == <<p, q>>
<1>1. /\ v \in Ways /\ v \notin open /\ {p, q} \notin live
      /\ open' = open \cup {v, Back(v)} /\ live' = live \cup {{p, q}}
      /\ wire' = [wire EXCEPT ![v] = waiting[v], ![Back(v)] = waiting[Back(v)]]
      /\ waiting' = [waiting EXCEPT ![v] = <<>>, ![Back(v)] = <<>>]
      /\ room' = room /\ invite' = invite /\ made' = made /\ budget' = budget
  BY DEF Connects, Connect
<1>2. Back(v) = <<q, p>> /\ <<q, p>> \in Ways /\ {q, p} = {p, q} /\ p # q
  BY <1>1, WayEnds DEF Back
<1>3. PICK S : wire \in [Ways -> Seq(S)] /\ waiting \in [Ways -> Seq(S)]
  BY DEF HeardInv, WireGood
<1>4. wire[v] = <<>> /\ wire[<<q, p>>] = <<>>
  BY <1>1, <1>2 DEF Whole
<1>5. ASSUME NEW w \in Ways
      PROVE  /\ wire'[w] = IF w \in {v, <<q, p>>} THEN waiting[w] ELSE wire[w]
             /\ waiting'[w] = IF w \in {v, <<q, p>>} THEN <<>> ELSE waiting[w]
  BY <1>1, <1>2, <1>3
<1>6. Whole'
  <2>1. \A w \in Ways : w \in {v, <<q, p>>} => {w[1], w[2]} = {p, q}
    BY <1>2
  <2> QED  BY <1>1, <1>2, <1>5, <2>1 DEF Whole
<1>7. Stream' = Stream
  <2>1. ASSUME NEW w \in Ways PROVE wire'[w] \o waiting'[w] = wire[w] \o waiting[w]
    <3>1. CASE w \in {v, <<q, p>>}
      <4>1. wire'[w] = waiting[w] /\ waiting'[w] = <<>> /\ wire[w] = <<>>
        BY <1>4, <1>5, <3>1
      <4>2. waiting[w] \in Seq(S)
        BY <1>3
      <4> QED  BY <4>1, <4>2, ConcatEmptySeq
    <3>2. CASE w \notin {v, <<q, p>>}
      BY <1>5, <3>2
    <3> QED  BY <3>1, <3>2
  <2>2. Stream' = [w \in Ways |-> wire'[w] \o waiting'[w]]
    BY DEF Stream
  <2> QED  BY <2>1, <2>2 DEF Stream
<1>8. open \subseteq open'
  BY <1>1
<1>9. Openly(open', room, invite)
  BY <1>8 DEF Calm, Openly, Reached
<1>10. FewWait(Stream, room, made, budget, open')
  BY <1>8 DEF Calm, FewWait
<1>11. Calm(Stream', open', room', invite', made', budget')
  BY <1>1, <1>7, <1>9, <1>10 DEF Calm
<1> QED  BY <1>6, <1>11, CalmPrime

\* What a step spends.
LEMMA Spending ==
  ASSUME [Next]_vars
  PROVE  budget' = budget \/ \E kind \in Kinds : Strikes(kind)
<1>1. ASSUME NEW p \in People, Types(p) \/ Forget(p) \/ Crash(p)
      PROVE  budget' = budget \/ \E kind \in Kinds : Strikes(kind)
  BY <1>1 DEF Types, Create, Join, Decline, Leave, Say, InviteTo, Forget, Crash, Kinds
<1>2. ASSUME NEW p \in People, NEW q \in People,
             \/ Expire(p, q)
             \/ HearInvite(p, q) \/ HearJoin(p, q) \/ HearDecline(p, q)
             \/ HearLeave(p, q) \/ HearRoster(p, q) \/ HearHello(p, q)
             \/ HearLine(p, q) \/ HearDropped(p, q) \/ IgnoreLine(p, q)
             \/ Connects(p, q) \/ Breaks(p, q) \/ Notice(p, q) \/ LetsGo(p, q)
      PROVE  budget' = budget \/ \E kind \in Kinds : Strikes(kind)
  BY <1>2 DEF Expire, HearInvite, HearJoin, HearDecline, HearLeave, HearRoster, HearHello,
              HearLine, HearDropped, IgnoreLine, Connects, Breaks, Notice, LetsGo, Kinds
<1>3. CASE UNCHANGED vars
  BY <1>3 DEF vars
<1> QED  BY <1>1, <1>2, <1>3, Zenon DEF Next

LEMMA CountedKept ==
  ASSUME Counted(budget), [Next]_vars
  PROVE  Counted(budget)' /\ (Unbroken' => Unbroken /\ ~ Strikes("fault"))
<1>1. Budget["fault"] \in Nat /\ budget \in [Kinds -> Nat] /\ budget["fault"] <= Budget["fault"]
  BY RoomAssumption DEF Counted, Kinds
<1>2. ASSUME NEW kind \in Kinds, Strikes(kind)
      PROVE  /\ budget' \in [Kinds -> Nat] /\ budget'["fault"] <= budget["fault"]
             /\ kind = "fault" => budget'["fault"] < budget["fault"]
  <2>1. \A k \in Kinds : budget'[k] = IF k = kind THEN budget[k] - 1 ELSE budget[k]
    BY <1>1, <1>2 DEF Strikes, Spend
  <2>2. budget[kind] \in Nat \ {0}
    BY <1>1, <1>2 DEF Strikes, Afford
  <2>3. budget' \in [Kinds -> Nat]
    BY <1>1, <1>2, <2>2 DEF Strikes, Spend
  <2>4. "fault" \in Kinds
    BY DEF Kinds
  <2> QED  BY <1>1, <2>1, <2>2, <2>3, <2>4
<1>3. "fault" \in Kinds /\ (budget' = budget \/ \E kind \in Kinds : Strikes(kind))
  BY Spending DEF Kinds
<1>4. budget' \in [Kinds -> Nat] /\ budget'["fault"] <= budget["fault"]
  BY <1>1, <1>2, <1>3
<1>5. Counted(budget)'
  <2>1. budget'["fault"] \in Nat /\ budget["fault"] \in Nat
    BY <1>1, <1>3, <1>4
  <2> QED  BY <1>1, <1>4, <2>1 DEF Counted
<1>6. ASSUME Unbroken' PROVE Unbroken /\ ~ Strikes("fault")
  <2>1. budget'["fault"] = Budget["fault"]
    BY <1>6 DEF Unbroken
  <2>2. budget["fault"] \in Nat
    BY <1>1, <1>3
  <2> QED  BY <1>1, <1>2, <1>3, <1>4, <2>1, <2>2 DEF Unbroken
<1> QED  BY <1>5, <1>6

\* Connections are between contacts.
LEMMA WaysKept ==
  ASSUME open \subseteq Ways, [Next]_vars
  PROVE  open' \subseteq Ways
<1>1. ASSUME NEW p \in People, Types(p) \/ Forget(p) \/ Crash(p)
      PROVE  open' \subseteq open
  BY <1>1 DEF Types, Create, Join, Decline, Leave, Say, InviteTo, Forget, Crash, Killed, linkVars
<1>2. ASSUME NEW p \in People, NEW q \in People,
             \/ Expire(p, q)
             \/ HearInvite(p, q) \/ HearJoin(p, q) \/ HearDecline(p, q)
             \/ HearLeave(p, q) \/ HearRoster(p, q) \/ HearHello(p, q)
             \/ HearLine(p, q) \/ HearDropped(p, q) \/ IgnoreLine(p, q)
             \/ Breaks(p, q) \/ Notice(p, q) \/ LetsGo(p, q)
      PROVE  open' \subseteq open
  BY <1>2 DEF Expire, HearInvite, HearJoin, HearDecline, HearLeave, HearRoster, HearHello,
              HearLine, HearDropped, IgnoreLine, Breaks, Break, Notice, LetsGo, LetGo, linkVars
<1>3. ASSUME NEW p \in People, NEW q \in People, Connects(p, q)
      PROVE  open' \subseteq Ways
  BY <1>3, WayEnds DEF Connects, Connect
<1>4. CASE UNCHANGED vars
  BY <1>4 DEF vars, linkVars
<1> QED  BY <1>1, <1>2, <1>3, <1>4, Zenon DEF Next

LEMMA AnswerFirst == Init => AnswerInv
<1> SUFFICES ASSUME Init PROVE AnswerInv
  OBVIOUS
<1>1. HeardInv
  BY HeardFirst
<1>2. Counted(budget)
  <2>1. Budget \in [Kinds -> Nat] /\ Budget["fault"] \in Nat /\ budget = Budget
    BY RoomAssumption DEF Init, Kinds
  <2> QED  BY <2>1 DEF Counted
<1>3. /\ wire = [w \in Ways |-> <<>>] /\ waiting = wire
      /\ open = {w \in Ways : {w[1], w[2]} \in live}
  BY DEF Init, LinksInit
<1>4. Whole
  BY <1>3 DEF Whole
<1>5. /\ \A x \in People : room[x] = NoRoom /\ invite[x] = NoInvite /\ made[x] = 0
      /\ budget["invite"] = Budget["invite"] /\ Budget["invite"] \in Nat
  BY RoomAssumption DEF Init, Kinds
<1>6. \A w \in Ways : Stream[w] = <<>>
  <2>1. <<>> \o <<>> = <<>>
    BY EmptySeq, ConcatEmptySeq
  <2> QED  BY <1>3, <2>1 DEF Stream
<1>7. Openly(open, room, invite) /\ Tidy(room) /\ Awaited(Stream, room, invite, made)
  BY <1>5 DEF Openly, Tidy, Awaited
<1>8. ToldByMembers(Stream, made) /\ FewWait(Stream, room, made, budget, open)
  <2>1. \A w \in Ways : Len(Stream[w]) = 0
    BY <1>6
  <2>2. \A w \in Ways : w[1] \in People
    BY WayEnds
  <2>3. \A w \in Ways : Ungreeted(room[w[1]], w[2]) = 0 /\ made[w[1]] = 0
    BY <1>5, <2>2 DEF Ungreeted
  <2>4. 1 .. 0 = {} /\ 0 + 0 <= Budget["invite"] - budget["invite"] + 0
    BY <1>5
  <2>5. ToldByMembers(Stream, made)
    BY <2>1, <2>4 DEF ToldByMembers
  <2>6. FewWait(Stream, room, made, budget, open)
    BY <2>1, <2>3, <2>4 DEF FewWait
  <2> QED  BY <2>5, <2>6
<1>9. open \subseteq Ways
  BY <1>3
<1> QED  BY <1>1, <1>2, <1>4, <1>7, <1>8, <1>9 DEF AnswerInv, Calm

LEMMA AnswerKept == AnswerInv /\ [Next]_vars => AnswerInv'
<1> SUFFICES ASSUME AnswerInv, [Next]_vars PROVE AnswerInv'
  OBVIOUS
<1>1. HeardInv' /\ Counted(budget)' /\ (open \subseteq Ways)'
  BY HeardKept, CountedKept, WaysKept DEF AnswerInv
<1> SUFFICES ASSUME Unbroken'
             PROVE  Whole' /\ Calm(Stream, open, room, invite, made, budget)'
  BY <1>1 DEF AnswerInv
<1>2. /\ HeardInv /\ Counted(budget) /\ Whole /\ Calm(Stream, open, room, invite, made, budget)
      /\ open \subseteq Ways /\ ~ Strikes("fault")
  BY CountedKept DEF AnswerInv
<1>3. CASE UNCHANGED vars
  <2>1. /\ UNCHANGED linkVars /\ room' = room /\ invite' = invite /\ made' = made
        /\ budget' = budget
    BY <1>3 DEF vars
  <2>2. Whole' /\ Stream' = Stream /\ open' = open
    BY <1>2, <2>1 DEF linkVars, Whole, Stream
  <2> QED  BY <1>2, <2>1, <2>2, CalmPrime
<1>4. ASSUME NEW p \in People, Types(p) \/ Forget(p) \/ Crash(p)
      PROVE  Whole' /\ Calm(Stream, open, room, invite, made, budget)'
  <2>1. CASE Create(p)
    BY <1>2, <2>1, CreateCalm
  <2>2. CASE Join(p)
    BY <1>2, <2>2, JoinCalm
  <2>3. CASE Decline(p)
    BY <1>2, <2>3, DeclinedCalm
  <2>4. CASE Leave(p) \/ Say(p)
    BY <1>2, <2>4, TypedCalm
  <2>5. ASSUME NEW q \in People, InviteTo(p, q)
        PROVE  Whole' /\ Calm(Stream, open, room, invite, made, budget)'
    BY <1>2, <2>5, AskedCalm
  <2>6. CASE Forget(p)
    BY <1>2, <2>6, TimeCalm
  <2>7. CASE Crash(p)
    BY <1>2, <2>7 DEF Crash
  <2> QED  BY <1>4, <2>1, <2>2, <2>3, <2>4, <2>5, <2>6, <2>7, Zenon DEF Types
<1>5. ASSUME NEW p \in People, NEW q \in People,
             \/ Expire(p, q)
             \/ HearInvite(p, q) \/ HearJoin(p, q) \/ HearDecline(p, q)
             \/ HearLeave(p, q) \/ HearRoster(p, q) \/ HearHello(p, q)
             \/ HearLine(p, q) \/ HearDropped(p, q) \/ IgnoreLine(p, q)
             \/ Connects(p, q) \/ Breaks(p, q) \/ Notice(p, q) \/ LetsGo(p, q)
      PROVE  Whole' /\ Calm(Stream, open, room, invite, made, budget)'
  <2>1. CASE Expire(p, q)
    BY <1>2, <2>1, TimeCalm
  <2>2. CASE HearInvite(p, q)
    BY <1>2, <2>2, InvitedCalm
  <2>3. CASE HearJoin(p, q) \/ HearDecline(p, q)
    BY <1>2, <2>3, JoinedCalm, RefusedCalm
  <2>4. CASE HearLeave(p, q)
    BY <1>2, <2>4, LeaveCalm
  <2>5. CASE HearRoster(p, q)
    BY <1>2, <2>5, RosterCalm
  <2>6. CASE HearHello(p, q)
    BY <1>2, <2>6, HelloCalm
  <2>7. CASE HearLine(p, q) \/ HearDropped(p, q) \/ IgnoreLine(p, q)
    BY <1>2, <2>7, LinesCalm
  <2>8. CASE Connects(p, q)
    BY <1>2, <2>8, ConnectedCalm
  <2>9. CASE Breaks(p, q) \/ LetsGo(p, q)
    BY <1>2, <2>9 DEF Breaks, LetsGo
  <2>10. CASE Notice(p, q)
    <3>1. <<p, q>> \in open /\ {p, q} \notin live
      BY <2>10 DEF Notice, Ends
    <3>2. <<p, q>> \in Ways
      BY <1>2, <3>1
    <3> QED  BY <1>2, <3>1, <3>2 DEF Whole
  <2> QED  BY <1>5, <2>1, <2>2, <2>3, <2>4, <2>5, <2>6, <2>7, <2>8, <2>9, <2>10
<1> QED  BY <1>3, <1>4, <1>5, Zenon DEF Next

LEMMA AnswerSuffices == AnswerInv => InvitesAnswered
<1> SUFFICES ASSUME AnswerInv, Quiet, Unbroken, NEW p \in People, Hosts(p), PoolSuffices(p),
                    NEW q \in room[p].invited
             PROVE  invite[q] # NoInvite /\ invite[q].id = room[p].id
  BY DEF InvitesAnswered
<1>1. room[p] # NoRoom /\ room[p].host = p /\ Enough(made, p)
  BY DEF Hosts, Enough, PoolSuffices
<1>2. <<p, q>> \in Ways /\ Pending(Stream, invite, p, room[p].id, q)
  BY <1>1 DEF AnswerInv, Calm, Awaited
<1>3. <<q, p>> \in Ways
  BY <1>2, BothWays
<1>4. ASSUME NEW w \in Ways, NEW x, On(Stream, w, x) PROVE FALSE
  <2>1. Stream[w] = <<>> \o <<>>
    BY DEF Quiet, Stream
  <2>2. Stream[w] = <<>>
    BY <2>1, EmptySeq, ConcatEmptySeq
  <2> QED  BY <1>4, <2>2 DEF On
<1> QED  BY <1>2, <1>3, <1>4 DEF Pending

\* A place in a room is held only for somebody who can still answer (room.rs,
\* `invite`, `invited`, `joined`, main.rs, `answer_room`): while no fault comes
\* between and the pool takes what waits for a connection, an invitation that
\* is refused, replaced or met by somebody in a room comes back to its host.
THEOREM InvitesGetAnswered == Spec => []InvitesAnswered
<1>1. Spec => []AnswerInv
  BY AnswerFirst, AnswerKept, PTL DEF Spec
<1> QED  BY <1>1, AnswerSuffices, PTL

-----------------------------------------------------------------------------
(***************************************************************************)
(* One list: what a host lists, and what its members make of it, along the *)
(* two ways of each pair.  d is what is on its way from h to q, u what is  *)
(* on its way back; rh and rq are their rooms, n is how many q has made.   *)
(***************************************************************************)

Carries(s, m) == \E i \in 1 .. Len(s) : s[i] = m
Naming(s, id, k) == \E i \in 1 .. Len(s) : Names(s[i], id, k)
Listing(m, id) == m.t = "roster" /\ m.id = id

\* The list a member has when s has arrived, `old` being what it has now.
EndsAs(s, id, old, now) ==
  \/ old = now /\ \A i \in 1 .. Len(s) : ~ Listing(s[i], id)
  \/ \E i \in 1 .. Len(s) : /\ Listing(s[i], id) /\ s[i].members = now
                            /\ \A j \in 1 .. Len(s) : j > i => ~ Listing(s[j], id)

\* A room hosted by h; h lists q under the key q has.
Under(r, h) == r # NoRoom /\ r.host = h

Admits(rh, rq, h, q) ==
  Under(rh, h) /\ Under(rq, h) /\ rh.id = rq.id /\ Entry(rq.key, q) \in rh.roster

\* A member told of its own key is listed, or will hear that it is not.
Credible(d, rh, rq, h, q) ==
  /\ Under(rq, h)
  /\ rq.key \in KeysOf(rq.roster) \/ Naming(d, rq.id, rq.key)
  => Admits(rh, rq, h, q) \/ Carries(d, Leaving(rq.id))

\* Somebody listed is not leaving, and will have the list the host has.
Current(d, u, rh, rq, h, q) ==
  Admits(rh, rq, h, q) =>
    ~ Carries(u, Leaving(rq.id)) /\ EndsAs(d, rq.id, rq.roster, rh.roster)

\* Who asks to join asks the host, after all that was said of leaving it.
AsksAfter(u, rq, h, q) ==
  rq # NoRoom /\ rq.host # q => \A i \in 1 .. Len(u) :
    u[i].t = "join" /\ u[i].key = rq.key =>
      /\ rq.host = h /\ u[i].id = rq.id
      /\ \A j \in 1 .. Len(u) : u[j] = Leaving(rq.id) => j < i

\* A newcomer who is listed or asks is in, or has left and says so.
Newcomer(d, u, rh, rq, n, h, q) ==
  /\ Under(rh, h) /\ n = 1
  /\ Entry(<<q, 0>>, q) \in rh.roster \/ Carries(u, JoinFrame(rh.id, <<q, 0>>))
  => /\ ~ Carries(d, Leaving(rh.id))
     /\ \/ Under(rq, h) /\ rq.id = rh.id /\ rq.key = <<q, 0>>
        \/ Carries(u, Leaving(rh.id))

\* A newcomer has left nothing before asking.
AsksFirst(u, n) ==
  n = 1 => \A i, j \in 1 .. Len(u) : u[i].t = "join" /\ u[j].t = "leave" => i < j

PairGood(d, u, rh, rq, n, h, q) ==
  /\ Credible(d, rh, rq, h, q) /\ Current(d, u, rh, rq, h, q) /\ AsksAfter(u, rq, h, q)
  /\ Newcomer(d, u, rh, rq, n, h, q) /\ AsksFirst(u, n)

-----------------------------------------------------------------------------
\* The first frame taken from a stream, and one more at its end.
LessOne(s, s2) ==
  /\ Len(s) \in Nat \ {0} /\ Len(s2) = Len(s) - 1
  /\ \A i \in 1 .. Len(s2) : s2[i] = s[i + 1]

MoreOne(s, s2, m) ==
  /\ Len(s) \in Nat /\ Len(s2) = Len(s) + 1 /\ s2[Len(s) + 1] = m
  /\ \A i \in 1 .. Len(s) : s2[i] = s[i]

LEMMA LessAt ==
  ASSUME NEW s, NEW s2, LessOne(s, s2)
  PROVE  /\ \A i \in 1 .. Len(s2) : i + 1 \in 1 .. Len(s) /\ s2[i] = s[i + 1]
         /\ \A i \in 1 .. Len(s) : \/ i = 1
                                   \/ i - 1 \in 1 .. Len(s2) /\ s2[i - 1] = s[i]
         /\ 1 \in 1 .. Len(s)
<1>1. PICK n \in Nat \ {0} : n = Len(s)
  BY DEF LessOne
<1>2. Len(s2) = n - 1 /\ \A i \in 1 .. n - 1 : s2[i] = s[i + 1]
  BY <1>1 DEF LessOne
<1>3. \A i \in 1 .. n - 1 : i + 1 \in 1 .. n
  BY <1>1
<1>4. ASSUME NEW i \in 1 .. n, i # 1 PROVE i - 1 \in 1 .. n - 1 /\ (i - 1) + 1 = i
  BY <1>1, <1>4
<1>5. 1 \in 1 .. n
  BY <1>1
<1>6. \A i \in 1 .. n : i = 1 \/ (i - 1 \in 1 .. n - 1 /\ s2[i - 1] = s[i])
  <2> TAKE i \in 1 .. n
  <2>1. CASE i # 1
    <3>1. i - 1 \in 1 .. n - 1 /\ (i - 1) + 1 = i
      BY <1>4, <2>1
    <3>2. s2[i - 1] = s[(i - 1) + 1]
      BY <1>2, <3>1
    <3> QED  BY <3>1, <3>2
  <2> QED  BY <2>1
<1> QED  BY <1>1, <1>2, <1>3, <1>5, <1>6

LEMMA LessCarries ==
  ASSUME NEW s, NEW s2, LessOne(s, s2)
  PROVE  /\ \A x : Carries(s2, x) => Carries(s, x)
         /\ \A x : Carries(s, x) /\ x # s[1] => Carries(s2, x)
         /\ \A id, k : Naming(s2, id, k) => Naming(s, id, k)
         /\ Carries(s, s[1])
         /\ \A id, k : Names(s[1], id, k) => Naming(s, id, k)
<1>1. /\ \A i \in 1 .. Len(s2) : i + 1 \in 1 .. Len(s) /\ s2[i] = s[i + 1]
      /\ \A i \in 1 .. Len(s) : \/ i = 1
                                \/ i - 1 \in 1 .. Len(s2) /\ s2[i - 1] = s[i]
      /\ 1 \in 1 .. Len(s)
  BY LessAt
<1> QED  BY <1>1 DEF Carries, Naming

LEMMA LessEnds ==
  ASSUME NEW s, NEW s2, LessOne(s, s2), NEW id, NEW old, NEW now, EndsAs(s, id, old, now)
  PROVE  /\ ~ Listing(s[1], id) => EndsAs(s2, id, old, now)
         /\ Listing(s[1], id) => EndsAs(s2, id, s[1].members, now)
<1>1. /\ \A i \in 1 .. Len(s2) : i + 1 \in 1 .. Len(s) /\ s2[i] = s[i + 1]
      /\ \A i \in 1 .. Len(s) : \/ i = 1
                                \/ i - 1 \in 1 .. Len(s2) /\ s2[i - 1] = s[i]
      /\ 1 \in 1 .. Len(s)
  BY LessAt
<1>2. Len(s) \in Nat /\ Len(s2) \in Nat
  BY DEF LessOne
<1>3. CASE old = now /\ \A i \in 1 .. Len(s) : ~ Listing(s[i], id)
  BY <1>1, <1>3 DEF EndsAs
<1>4. ASSUME NEW i \in 1 .. Len(s), Listing(s[i], id), s[i].members = now,
             \A j \in 1 .. Len(s) : j > i => ~ Listing(s[j], id)
      PROVE  /\ ~ Listing(s[1], id) => EndsAs(s2, id, old, now)
             /\ Listing(s[1], id) => EndsAs(s2, id, s[1].members, now)
  <2>1. CASE i = 1
    <3>1. \A j \in 1 .. Len(s2) : j + 1 > 1
      BY <1>2
    <3>2. \A j \in 1 .. Len(s2) : ~ Listing(s2[j], id)
      BY <1>1, <1>4, <2>1, <3>1
    <3> QED  BY <1>4, <2>1, <3>2 DEF EndsAs
  <2>2. CASE i # 1
    <3>1. i - 1 \in 1 .. Len(s2) /\ s2[i - 1] = s[i]
      BY <1>1, <2>2
    <3>2. \A j \in 1 .. Len(s2) : j > i - 1 => j + 1 > i
      BY <1>2
    <3>3. \A j \in 1 .. Len(s2) : j > i - 1 => ~ Listing(s2[j], id)
      BY <1>1, <1>4, <3>2
    <3> QED  BY <1>4, <3>1, <3>3 DEF EndsAs
  <2> QED  BY <2>1, <2>2
<1> QED  BY <1>3, <1>4 DEF EndsAs

LEMMA LessAsks ==
  ASSUME NEW s, NEW s2, LessOne(s, s2), NEW r, NEW h, NEW q, NEW n
  PROVE  /\ AsksAfter(s, r, h, q) => AsksAfter(s2, r, h, q)
         /\ AsksFirst(s, n) => AsksFirst(s2, n)
<1>1. \A i \in 1 .. Len(s2) : i + 1 \in 1 .. Len(s) /\ s2[i] = s[i + 1]
  BY LessAt
<1>2. \A i, j \in 1 .. Len(s2) : i + 1 < j + 1 => i < j
  BY DEF LessOne
<1>3. AsksAfter(s, r, h, q) => AsksAfter(s2, r, h, q)
  <2> SUFFICES ASSUME AsksAfter(s, r, h, q), r # NoRoom, r.host # q, NEW i \in 1 .. Len(s2),
                      s2[i].t = "join", s2[i].key = r.key
               PROVE  /\ r.host = h /\ s2[i].id = r.id
                      /\ \A j \in 1 .. Len(s2) : s2[j] = Leaving(r.id) => j < i
    BY DEF AsksAfter
  <2>1. i + 1 \in 1 .. Len(s) /\ s2[i] = s[i + 1]
    BY <1>1
  <2>2. /\ r.host = h /\ s[i + 1].id = r.id
        /\ \A j \in 1 .. Len(s) : s[j] = Leaving(r.id) => j < i + 1
    BY <2>1 DEF AsksAfter
  <2>3. \A j \in 1 .. Len(s2) : s2[j] = Leaving(r.id) => j + 1 < i + 1
    BY <1>1, <2>2
  <2> QED  BY <1>2, <2>1, <2>2, <2>3
<1>4. AsksFirst(s, n) => AsksFirst(s2, n)
  BY <1>1, <1>2 DEF AsksFirst
<1> QED  BY <1>3, <1>4

LEMMA MoreAt ==
  ASSUME NEW s, NEW s2, NEW m, MoreOne(s, s2, m)
  PROVE  /\ \A i \in 1 .. Len(s) : i \in 1 .. Len(s2) /\ s2[i] = s[i]
         /\ \A i \in 1 .. Len(s2) : \/ i \in 1 .. Len(s) /\ s2[i] = s[i]
                                    \/ i = Len(s) + 1 /\ s2[i] = m
         /\ Len(s) + 1 \in 1 .. Len(s2) /\ s2[Len(s) + 1] = m
         /\ \A i \in 1 .. Len(s) : i < Len(s) + 1 /\ ~ (Len(s) + 1 <= i)
         /\ \A i \in 1 .. Len(s2) : ~ (i > Len(s) + 1)
<1>1. PICK n \in Nat : n = Len(s)
  BY DEF MoreOne
<1>2. Len(s2) = n + 1 /\ s2[n + 1] = m /\ \A i \in 1 .. n : s2[i] = s[i]
  BY <1>1 DEF MoreOne
<1>3. /\ \A i \in 1 .. n : i \in 1 .. n + 1 /\ i < n + 1 /\ ~ (n + 1 <= i)
      /\ \A i \in 1 .. n + 1 : (i \in 1 .. n \/ i = n + 1) /\ ~ (i > n + 1)
      /\ n + 1 \in 1 .. n + 1
  BY <1>1
<1> QED  BY <1>1, <1>2, <1>3

LEMMA MoreCarries ==
  ASSUME NEW s, NEW s2, NEW m, MoreOne(s, s2, m)
  PROVE  /\ \A x : Carries(s, x) => Carries(s2, x)
         /\ \A x : Carries(s2, x) => Carries(s, x) \/ x = m
         /\ Carries(s2, m)
         /\ \A id, k : Naming(s2, id, k) => Naming(s, id, k) \/ Names(m, id, k)
<1>1. /\ \A i \in 1 .. Len(s) : i \in 1 .. Len(s2) /\ s2[i] = s[i]
      /\ \A i \in 1 .. Len(s2) : \/ i \in 1 .. Len(s) /\ s2[i] = s[i]
                                 \/ i = Len(s) + 1 /\ s2[i] = m
      /\ Len(s) + 1 \in 1 .. Len(s2) /\ s2[Len(s) + 1] = m
  BY MoreAt
<1>2. \A x : Carries(s, x) => Carries(s2, x)
  BY <1>1 DEF Carries
<1>3. \A x : Carries(s2, x) => Carries(s, x) \/ x = m
  BY <1>1 DEF Carries
<1>4. Carries(s2, m)
  BY <1>1 DEF Carries
<1>5. \A id, k : Naming(s2, id, k) => Naming(s, id, k) \/ Names(m, id, k)
  BY <1>1 DEF Naming
<1> QED  BY <1>2, <1>3, <1>4, <1>5

LEMMA MoreEnds ==
  ASSUME NEW s, NEW s2, NEW m, MoreOne(s, s2, m), NEW id, NEW old, NEW now
  PROVE  /\ EndsAs(s, id, old, now) /\ ~ Listing(m, id) => EndsAs(s2, id, old, now)
         /\ Listing(m, id) => EndsAs(s2, id, old, m.members)
<1>1. /\ \A i \in 1 .. Len(s) : i \in 1 .. Len(s2) /\ s2[i] = s[i]
      /\ \A i \in 1 .. Len(s2) : \/ i \in 1 .. Len(s) /\ s2[i] = s[i]
                                 \/ i = Len(s) + 1 /\ s2[i] = m
      /\ Len(s) + 1 \in 1 .. Len(s2) /\ s2[Len(s) + 1] = m
      /\ \A i \in 1 .. Len(s2) : ~ (i > Len(s) + 1)
  BY MoreAt
<1>2. Listing(m, id) => EndsAs(s2, id, old, m.members)
  BY <1>1 DEF EndsAs
<1>3. ASSUME EndsAs(s, id, old, now), ~ Listing(m, id) PROVE EndsAs(s2, id, old, now)
  <2>1. CASE old = now /\ \A i \in 1 .. Len(s) : ~ Listing(s[i], id)
    BY <1>1, <1>3, <2>1 DEF EndsAs
  <2>2. ASSUME NEW i \in 1 .. Len(s), Listing(s[i], id), s[i].members = now,
               \A j \in 1 .. Len(s) : j > i => ~ Listing(s[j], id)
        PROVE  EndsAs(s2, id, old, now)
    <3>1. i \in 1 .. Len(s2) /\ s2[i] = s[i]
      BY <1>1
    <3>2. \A j \in 1 .. Len(s2) : j > i => ~ Listing(s2[j], id)
      BY <1>1, <1>3, <2>2
    <3> QED  BY <2>2, <3>1, <3>2 DEF EndsAs
  <2> QED  BY <1>3, <2>1, <2>2 DEF EndsAs
<1> QED  BY <1>2, <1>3

LEMMA MoreAsks ==
  ASSUME NEW s, NEW s2, NEW m, MoreOne(s, s2, m), m.t # "join", NEW r, NEW h, NEW q, NEW n
  PROVE  /\ AsksAfter(s, r, h, q) /\ m # Leaving(r.id) => AsksAfter(s2, r, h, q)
         /\ AsksFirst(s, n) => AsksFirst(s2, n)
<1>1. /\ \A i \in 1 .. Len(s2) : \/ i \in 1 .. Len(s) /\ s2[i] = s[i]
                                 \/ i = Len(s) + 1 /\ s2[i] = m
      /\ \A i \in 1 .. Len(s) : i < Len(s) + 1
  BY MoreAt
<1>2. AsksAfter(s, r, h, q) /\ m # Leaving(r.id) => AsksAfter(s2, r, h, q)
  BY <1>1 DEF AsksAfter
<1>3. AsksFirst(s, n) => AsksFirst(s2, n)
  BY <1>1 DEF AsksFirst
<1> QED  BY <1>2, <1>3

-----------------------------------------------------------------------------
\* Somebody's key, and what a host makes of it.
OwnGood(md, p, r) ==
  r # NoRoom =>
    /\ r.key \in Made(md, p)
    /\ r.host = p =>
         /\ \A e \in r.roster : /\ e = Entry(e.key, e.of) /\ e.of \in People
                                /\ e.key \in Made(md, e.of)
                                /\ e.key = r.key \/ (e.key \in DOMAIN r.bound /\ r.bound[e.key] = e.of)
         /\ \A k \in DOMAIN r.bound : /\ r.bound[k] \in People /\ k \in Made(md, r.bound[k])
                                      /\ k \in KeysOf(r.roster)

\* A host that lists somebody's key lists them under it, and knows it.
LEMMA HostKnows ==
  ASSUME NEW md, NEW h \in People, NEW q \in People, h # q, NEW r, OwnGood(md, h, r), Under(r, h)
  PROVE  /\ \A k : k \in KeysOf(r.roster) /\ k \in Made(md, q) => Entry(k, q) \in r.roster
         /\ \A k : Entry(k, q) \in r.roster => q \in Targets(r) /\ k \in KeysOf(r.roster)
         /\ q \in Targets(r) => \E k : Entry(k, q) \in r.roster
<1>1. /\ r.key \in Made(md, h)
      /\ \A e \in r.roster : /\ e = Entry(e.key, e.of) /\ e.of \in People
                             /\ e.key \in Made(md, e.of)
                             /\ e.key = r.key \/ (e.key \in DOMAIN r.bound /\ r.bound[e.key] = e.of)
      /\ \A k \in DOMAIN r.bound : /\ r.bound[k] \in People /\ k \in Made(md, r.bound[k])
                                   /\ k \in KeysOf(r.roster)
  BY DEF OwnGood, Under
<1>2. \A k : k \in KeysOf(r.roster) /\ k \in Made(md, q) => Entry(k, q) \in r.roster
  <2> SUFFICES ASSUME NEW k, k \in KeysOf(r.roster), k \in Made(md, q)
               PROVE  Entry(k, q) \in r.roster
    OBVIOUS
  <2>1. PICK e \in r.roster : e.key = k
    BY DEF KeysOf
  <2>2. e.of = q
    BY <1>1, <2>1, MadeApart
  <2> QED  BY <1>1, <2>1, <2>2
<1>3. \A k : Entry(k, q) \in r.roster => q \in Targets(r) /\ k \in KeysOf(r.roster)
  <2> SUFFICES ASSUME NEW k, Entry(k, q) \in r.roster
               PROVE  q \in Targets(r) /\ k \in KeysOf(r.roster)
    OBVIOUS
  <2>1. Entry(k, q).key = k /\ Entry(k, q).of = q
    BY DEF Entry
  <2>2. k \in Made(md, q) /\ (k = r.key \/ (k \in DOMAIN r.bound /\ r.bound[k] = q))
    BY <1>1, <2>1
  <2>3. k # r.key
    BY <1>1, <2>2, MadeApart
  <2> QED  BY <2>1, <2>2, <2>3 DEF Targets, KeysOf
<1>4. q \in Targets(r) => \E k : Entry(k, q) \in r.roster
  <2> SUFFICES ASSUME q \in Targets(r) PROVE \E k : Entry(k, q) \in r.roster
    OBVIOUS
  <2>1. PICK k \in DOMAIN r.bound : r.bound[k] = q
    BY DEF Targets
  <2> QED  BY <1>1, <1>2, <2>1
<1> QED  BY <1>2, <1>3, <1>4

-----------------------------------------------------------------------------
(***************************************************************************)
(* What a host does to one of its pairs.                                   *)
(***************************************************************************)

\* A frame of another kind.
LEMMA OtherKinds ==
  /\ \A id, k : JoinFrame(id, k).t = "join" /\ JoinFrame(id, k).id = id /\ JoinFrame(id, k).key = k
  /\ \A id : Leaving(id).t = "leave" /\ Leaving(id).id = id
  /\ \A r : Roster(r).t = "roster" /\ Roster(r).id = r.id /\ Roster(r).members = r.roster
  /\ \A id, k : JoinFrame(id, k) # Leaving(id)
  /\ \A m, id : Listing(m, id) => m.t = "roster"
  /\ \A m, id, k : Names(m, id, k) => Listing(m, id)
BY DEF JoinFrame, Leaving, Roster, Listing, Names

\* Nothing about its list,
LEMMA HostStays ==
  ASSUME NEW h, NEW q, h # q, NEW d, NEW u, NEW rh, NEW rq, NEW n, NEW d2, NEW u2, NEW rh2, NEW m,
         PairGood(d, u, rh, rq, n, h, q),
         Under(rh2, h) <=> Under(rh, h),
         Under(rh, h) => rh2.id = rh.id /\ rh2.roster = rh.roster,
         d2 = d \/ (MoreOne(d, d2, m) /\ m.t # "roster" /\ (m.t = "leave" => ~ Under(rh, h))),
         u2 = u \/ /\ LessOne(u, u2)
                   /\ Under(rh, h) /\ u[1] = Leaving(rh.id) => \A k : Entry(k, q) \notin rh.roster
  PROVE  PairGood(d2, u2, rh2, rq, n, h, q)
<1>1. /\ \A x : Carries(d, x) => Carries(d2, x)
      /\ \A id, k : Naming(d2, id, k) => Naming(d, id, k)
      /\ Under(rh, h) => \A id : Carries(d2, Leaving(id)) => Carries(d, Leaving(id))
      /\ \A id, old, now : EndsAs(d, id, old, now) => EndsAs(d2, id, old, now)
  <2>1. CASE MoreOne(d, d2, m) /\ m.t # "roster" /\ (m.t = "leave" => ~ Under(rh, h))
    <3>1. \A id : ~ Listing(m, id) /\ \A k : ~ Names(m, id, k)
      BY <2>1, OtherKinds
    <3>2. Under(rh, h) => \A id : m # Leaving(id)
      BY <2>1, OtherKinds
    <3>3. \A id, old, now : EndsAs(d, id, old, now) => EndsAs(d2, id, old, now)
      BY <2>1, <3>1, MoreEnds
    <3>4. /\ \A x : Carries(d, x) => Carries(d2, x)
          /\ \A x : Carries(d2, x) => Carries(d, x) \/ x = m
          /\ \A id, k : Naming(d2, id, k) => Naming(d, id, k) \/ Names(m, id, k)
      BY <2>1, MoreCarries
    <3> QED  BY <3>1, <3>2, <3>3, <3>4
  <2> QED  BY <2>1
<1>2. /\ \A x : Carries(u2, x) => Carries(u, x)
      /\ AsksAfter(u2, rq, h, q) /\ AsksFirst(u2, n)
  BY LessCarries, LessAsks DEF PairGood
<1>3. Admits(rh2, rq, h, q) <=> Admits(rh, rq, h, q)
  BY DEF Admits
<1>4. Credible(d2, rh2, rq, h, q)
  BY <1>1, <1>3 DEF PairGood, Credible
<1>5. Current(d2, u2, rh2, rq, h, q)
  BY <1>1, <1>2, <1>3 DEF PairGood, Current, Admits
<1>6. Newcomer(d2, u2, rh2, rq, n, h, q)
  <2> SUFFICES ASSUME Under(rh, h), n = 1,
                      \/ Entry(<<q, 0>>, q) \in rh.roster
                      \/ Carries(u2, JoinFrame(rh.id, <<q, 0>>))
               PROVE  /\ ~ Carries(d2, Leaving(rh.id))
                      /\ \/ Under(rq, h) /\ rq.id = rh.id /\ rq.key = <<q, 0>>
                         \/ Carries(u2, Leaving(rh.id))
    BY DEF Newcomer
  <2>1. /\ ~ Carries(d, Leaving(rh.id))
        /\ \/ Under(rq, h) /\ rq.id = rh.id /\ rq.key = <<q, 0>>
           \/ Carries(u, Leaving(rh.id))
    BY <1>2 DEF PairGood, Newcomer
  <2>2. Carries(u, Leaving(rh.id)) => Carries(u2, Leaving(rh.id))
    <3> SUFFICES ASSUME LessOne(u, u2), u[1] = Leaving(rh.id) PROVE FALSE
      BY LessCarries
    <3>1. Carries(u2, JoinFrame(rh.id, <<q, 0>>))
      <4>1. u2 = u \/ Entry(<<q, 0>>, q) \notin rh.roster
        OBVIOUS
      <4>2. u2 # u
        <5>1. Len(u2) = Len(u) - 1 /\ Len(u) \in Nat
          BY DEF LessOne
        <5> QED  BY <5>1
      <4> QED  BY <4>1, <4>2
    <3>2. Carries(u, JoinFrame(rh.id, <<q, 0>>))
      BY <1>2, <3>1
    <3>3. PICK i \in 1 .. Len(u) : u[i] = JoinFrame(rh.id, <<q, 0>>)
      BY <3>2 DEF Carries
    <3>4. 1 \in 1 .. Len(u) /\ u[1].t = "leave" /\ u[i].t = "join"
      BY SMTT(30), <3>3, LessAt, OtherKinds
    <3>5. i < 1
      BY <3>4 DEF PairGood, AsksFirst
    <3> QED  BY <3>5
  <2> QED  BY <1>1, <2>1, <2>2
<1> QED  BY <1>2, <1>4, <1>5, <1>6 DEF PairGood

\* a list sent to everybody on it, q's place on it being what it was,
LEMMA HostRelists ==
  ASSUME NEW h, NEW q, h # q, NEW d, NEW u, NEW rh, NEW rq, NEW n, NEW d2, NEW u2, NEW rh2,
         PairGood(d, u, rh, rq, n, h, q), Under(rh, h), Under(rh2, h), rh2.id = rh.id,
         \A k : Entry(k, q) \in rh2.roster <=> Entry(k, q) \in rh.roster,
         rq # NoRoom /\ rq.key \in KeysOf(rh2.roster) => Entry(rq.key, q) \in rh2.roster,
         d2 = d \/ MoreOne(d, d2, Roster(rh2)),
         \A k : Entry(k, q) \in rh.roster => MoreOne(d, d2, Roster(rh2)) \/ rh2.roster = rh.roster,
         u2 = u \/ (LessOne(u, u2) /\ u[1].t = "line")
  PROVE  PairGood(d2, u2, rh2, rq, n, h, q)
<1> DEFINE m == Roster(rh2)
<1>0. m.t = "roster" /\ m.id = rh2.id /\ m.members = rh2.roster
  BY OtherKinds
<1> HIDE DEF m
<1>1. /\ \A x : Carries(d, x) => Carries(d2, x)
      /\ \A x : Carries(d2, x) => Carries(d, x) \/ x = m
      /\ \A id, k : Naming(d2, id, k) => Naming(d, id, k) \/ Names(m, id, k)
  BY MoreCarries DEF m
<1>2. /\ \A x : Carries(u2, x) => Carries(u, x)
      /\ \A x : Carries(u, x) /\ x.t # "line" => Carries(u2, x)
      /\ AsksAfter(u2, rq, h, q) /\ AsksFirst(u2, n)
  BY LessCarries, LessAsks DEF PairGood
<1>3. Admits(rh2, rq, h, q) <=> Admits(rh, rq, h, q)
  BY DEF Admits
<1>4. Credible(d2, rh2, rq, h, q)
  <2>1. ASSUME Under(rq, h), Names(m, rq.id, rq.key) PROVE Admits(rh2, rq, h, q)
    BY <1>0, <2>1 DEF Names, Admits, Under
  <2> QED  BY <1>1, <1>3, <2>1 DEF PairGood, Credible
<1>5. Current(d2, u2, rh2, rq, h, q)
  <2> SUFFICES ASSUME Admits(rh, rq, h, q)
               PROVE  ~ Carries(u2, Leaving(rq.id)) /\ EndsAs(d2, rq.id, rq.roster, rh2.roster)
    BY <1>3 DEF Current
  <2>1. ~ Carries(u2, Leaving(rq.id)) /\ EndsAs(d, rq.id, rq.roster, rh.roster) /\ rq.id = rh.id
    BY <1>2 DEF PairGood, Current, Admits
  <2>2. Listing(m, rq.id)
    BY <1>0, <2>1 DEF Listing
  <2>3. CASE MoreOne(d, d2, m)
    BY <1>0, <2>1, <2>2, <2>3, MoreEnds
  <2>4. CASE ~ MoreOne(d, d2, m)
    BY <2>1, <2>4 DEF Admits, m
  <2> QED  BY <2>3, <2>4
<1>6. Newcomer(d2, u2, rh2, rq, n, h, q)
  <2>1. m # Leaving(rh.id)
    BY <1>0, OtherKinds
  <2>2. Carries(u, Leaving(rh.id)) => Carries(u2, Leaving(rh.id))
    BY <1>2, OtherKinds
  <2>3. Newcomer(d, u, rh, rq, n, h, q)
    BY DEF PairGood
  <2> QED  BY <1>1, <1>2, <2>1, <2>2, <2>3 DEF Newcomer
<1> QED  BY <1>2, <1>4, <1>5, <1>6 DEF PairGood

\* q taken in,
LEMMA HostTakesIn ==
  ASSUME NEW h, NEW q, h # q, NEW d, NEW u, NEW rh, NEW rq, NEW n, NEW d2, NEW u2, NEW rh2, NEW k,
         PairGood(d, u, rh, rq, n, h, q), Under(rh, h), Under(rh2, h), rh2.id = rh.id,
         rh2.roster = rh.roster \cup {Entry(k, q)}, \A j : Entry(j, q) \notin rh.roster,
         rq # NoRoom /\ rq.key \in KeysOf(rh2.roster) => Entry(rq.key, q) \in rh2.roster,
         MoreOne(d, d2, Roster(rh2)), LessOne(u, u2), u[1] = JoinFrame(rh.id, k)
  PROVE  PairGood(d2, u2, rh2, rq, n, h, q)
<1> DEFINE m == Roster(rh2)
<1>0. m.t = "roster" /\ m.id = rh2.id /\ m.members = rh2.roster
  BY OtherKinds
<1> HIDE DEF m
<1>1. /\ \A x : Carries(d, x) => Carries(d2, x)
      /\ \A x : Carries(d2, x) => Carries(d, x) \/ x = m
      /\ \A id, l : Naming(d2, id, l) => Naming(d, id, l) \/ Names(m, id, l)
  BY MoreCarries DEF m
<1>2. /\ \A x : Carries(u2, x) => Carries(u, x)
      /\ \A x : Carries(u, x) /\ x # u[1] => Carries(u2, x)
      /\ Carries(u, JoinFrame(rh.id, k)) /\ 1 \in 1 .. Len(u)
      /\ AsksAfter(u2, rq, h, q) /\ AsksFirst(u2, n)
  BY ZenonT(30), LessCarries, LessAsks, LessAt DEF PairGood
<1>3. /\ ~ Admits(rh, rq, h, q)
      /\ \A j : Entry(j, q) \in rh2.roster => j = k
  BY DEF Admits, Entry
<1>4. Credible(d2, rh2, rq, h, q)
  <2>1. ASSUME Under(rq, h), Names(m, rq.id, rq.key) PROVE Admits(rh2, rq, h, q)
    BY <1>0, <2>1 DEF Names, Admits, Under
  <2> QED  BY <1>1, <1>3, <2>1 DEF PairGood, Credible
<1>5. Current(d2, u2, rh2, rq, h, q)
  <2> SUFFICES ASSUME Admits(rh2, rq, h, q)
               PROVE  ~ Carries(u2, Leaving(rq.id)) /\ EndsAs(d2, rq.id, rq.roster, rh2.roster)
    BY DEF Current
  <2>1. rq.id = rh.id /\ rq.key = k /\ rq # NoRoom /\ rq.host = h
    BY <1>3 DEF Admits, Under
  <2>2. Listing(m, rq.id)
    BY <1>0, <2>1 DEF Listing
  <2>3. EndsAs(d2, rq.id, rq.roster, rh2.roster)
    BY <1>0, <2>2, MoreEnds DEF m
  <2>4. u[1].t = "join" /\ u[1].key = rq.key
    BY <2>1, OtherKinds
  <2>5. \A j \in 1 .. Len(u) : u[j] = Leaving(rq.id) => j < 1
    BY <1>2, <2>1, <2>4 DEF PairGood, AsksAfter
  <2>6. ~ Carries(u, Leaving(rq.id))
    BY <2>5 DEF Carries
  <2> QED  BY <1>2, <2>3, <2>6
<1>6. Newcomer(d2, u2, rh2, rq, n, h, q)
  <2>1. m # Leaving(rh.id) /\ u[1] # Leaving(rh.id)
    BY <1>0, OtherKinds
  <2>2. Newcomer(d, u, rh, rq, n, h, q)
    BY DEF PairGood
  <2>3. \/ Entry(<<q, 0>>, q) \in rh2.roster \/ Carries(u2, JoinFrame(rh.id, <<q, 0>>))
        => Carries(u, JoinFrame(rh.id, <<q, 0>>))
    BY <1>2, <1>3
  <2> QED  BY <1>1, <1>2, <2>1, <2>2, <2>3 DEF Newcomer
<1> QED  BY <1>2, <1>4, <1>5, <1>6 DEF PairGood

\* q turned away,
LEMMA HostRefuses ==
  ASSUME NEW h, NEW q, h # q, NEW d, NEW u, NEW rh, NEW rq, NEW n, NEW d2, NEW u2, NEW rh2, NEW k,
         PairGood(d, u, rh, rq, n, h, q), Under(rh, h), Under(rh2, h), rh2.id = rh.id,
         rh2.roster = rh.roster, \A j : Entry(j, q) \notin rh.roster,
         MoreOne(d, d2, Leaving(rh.id)), LessOne(u, u2), u[1] = JoinFrame(rh.id, k),
         n = 1 => k = <<q, 0>>,
         \A i, j \in 1 .. Len(u) : Asks(u[i], rh.id, k) /\ Asks(u[j], rh.id, k) => i = j
  PROVE  PairGood(d2, u2, rh2, rq, n, h, q)
<1> DEFINE m == Leaving(rh.id)
<1>0. m.t = "leave"
  BY OtherKinds
<1> HIDE DEF m
<1>1. /\ \A x : Carries(d, x) => Carries(d2, x)
      /\ \A id, l : Naming(d2, id, l) => Naming(d, id, l) \/ Names(m, id, l)
      /\ \A id, l : ~ Names(m, id, l)
  BY <1>0, MoreCarries DEF m, Names
<1>2. AsksAfter(u2, rq, h, q) /\ AsksFirst(u2, n)
  BY LessAsks DEF PairGood
<1>3. ~ Admits(rh, rq, h, q) /\ ~ Admits(rh2, rq, h, q)
  BY DEF Admits
<1>4. Credible(d2, rh2, rq, h, q)
  BY <1>1, <1>3 DEF PairGood, Credible
<1>5. Current(d2, u2, rh2, rq, h, q)
  BY <1>3 DEF Current
<1>6. Newcomer(d2, u2, rh2, rq, n, h, q)
  <2> SUFFICES ASSUME n = 1, Carries(u2, JoinFrame(rh.id, <<q, 0>>)) PROVE FALSE
    BY DEF Newcomer
  <2>1. PICK i \in 1 .. Len(u2) : u2[i] = JoinFrame(rh.id, k)
    BY DEF Carries
  <2>2. i + 1 \in 1 .. Len(u) /\ u[i + 1] = JoinFrame(rh.id, k) /\ 1 \in 1 .. Len(u)
    BY <2>1, LessAt
  <2>3. Asks(u[i + 1], rh.id, k) /\ Asks(u[1], rh.id, k)
    BY <2>2, OtherKinds DEF Asks
  <2>4. i + 1 = 1
    BY <2>2, <2>3
  <2> QED  BY <2>4
<1> QED  BY <1>2, <1>4, <1>5, <1>6 DEF PairGood

\* q gone, who said so,
LEMMA HostLosesOne ==
  ASSUME NEW h, NEW q, h # q, NEW d, NEW u, NEW rh, NEW rq, NEW n, NEW u2, NEW rh2,
         PairGood(d, u, rh, rq, n, h, q), Under(rh, h), Under(rh2, h), rh2.id = rh.id,
         \A j : Entry(j, q) \notin rh2.roster, LessOne(u, u2), u[1] = Leaving(rh.id)
  PROVE  PairGood(d, u2, rh2, rq, n, h, q)
<1>1. AsksAfter(u2, rq, h, q) /\ AsksFirst(u2, n) /\ Carries(u, Leaving(rh.id))
      /\ \A x : Carries(u2, x) => Carries(u, x)
  BY LessAsks, LessCarries DEF PairGood
<1>2. ~ Admits(rh, rq, h, q) /\ ~ Admits(rh2, rq, h, q)
  BY <1>1 DEF PairGood, Current, Admits
<1>3. Credible(d, rh2, rq, h, q)
  BY <1>2 DEF PairGood, Credible
<1>4. Current(d, u2, rh2, rq, h, q)
  BY <1>2 DEF Current
<1>5. Newcomer(d, u2, rh2, rq, n, h, q)
  <2> SUFFICES ASSUME n = 1, Carries(u2, JoinFrame(rh.id, <<q, 0>>)) PROVE FALSE
    BY DEF Newcomer
  <2>1. Carries(u, JoinFrame(rh.id, <<q, 0>>))
    BY <1>1
  <2>2. PICK i \in 1 .. Len(u) : u[i] = JoinFrame(rh.id, <<q, 0>>)
    BY <2>1 DEF Carries
  <2>3. 1 \in 1 .. Len(u) /\ u[1].t = "leave" /\ u[i].t = "join"
    BY <2>2, LessAt, OtherKinds
  <2>4. i < 1
    BY <2>3 DEF PairGood, AsksFirst
  <2> QED  BY <2>4
<1> QED  BY <1>1, <1>3, <1>4, <1>5 DEF PairGood

\* the room closed.
LEMMA HostCloses ==
  ASSUME NEW h, NEW q, h # q, NEW d, NEW u, NEW rh, NEW rq, NEW n, NEW d2,
         PairGood(d, u, rh, rq, n, h, q), Under(rh, h),
         d2 = d \/ MoreOne(d, d2, Leaving(rh.id)),
         \A k : Entry(k, q) \in rh.roster => MoreOne(d, d2, Leaving(rh.id))
  PROVE  PairGood(d2, u, NoRoom, rq, n, h, q)
<1>1. /\ \A x : Carries(d, x) => Carries(d2, x)
      /\ \A id, l : Naming(d2, id, l) => Naming(d, id, l)
  <2>1. \A id, l : ~ Names(Leaving(rh.id), id, l)
    BY OtherKinds DEF Names
  <2> QED  BY <2>1, MoreCarries
<1>2. Admits(rh, rq, h, q) => Carries(d2, Leaving(rq.id))
  BY MoreCarries DEF Admits
<1>3. ~ Admits(NoRoom, rq, h, q) /\ ~ Under(NoRoom, h)
  BY DEF Admits, Under
<1>4. Credible(d2, NoRoom, rq, h, q)
  BY <1>1, <1>2 DEF PairGood, Credible
<1> QED  BY <1>3, <1>4 DEF PairGood, Current, Newcomer

-----------------------------------------------------------------------------
(***************************************************************************)
(* What somebody does to a pair that is not its own room.                  *)
(***************************************************************************)

\* q stays where it is, and has not left a room of another's.
SeatKept(rq, rq2, h) ==
  \/ rq = NoRoom /\ rq2 = NoRoom
  \/ /\ rq # NoRoom /\ rq2 # NoRoom
     /\ rq2.id = rq.id /\ rq2.host = rq.host /\ rq2.key = rq.key
     /\ rq.host = h => rq2.roster = rq.roster

\* Neither list nor leave of q's room from its host is taken,
LEMMA MemberStays ==
  ASSUME NEW h, NEW q, h # q, NEW d, NEW u, NEW rh, NEW rq, NEW n, NEW d2, NEW u2, NEW rq2, NEW m,
         PairGood(d, u, rh, rq, n, h, q), SeatKept(rq, rq2, h),
         d2 = d \/ /\ LessOne(d, d2)
                   /\ Under(rq, h) => ~ Listing(d[1], rq.id) /\ d[1] # Leaving(rq.id),
         u2 = u \/ /\ MoreOne(u, u2, m) /\ m.t # "join"
                   /\ m.t = "leave" => rq = NoRoom \/ rq.host = q
  PROVE  PairGood(d2, u2, rh, rq2, n, h, q)
<1>0. /\ Under(rq2, h) <=> Under(rq, h)
      /\ Under(rq, h) => rq2.id = rq.id /\ rq2.key = rq.key /\ rq2.roster = rq.roster
      /\ Admits(rh, rq2, h, q) <=> Admits(rh, rq, h, q)
  BY DEF SeatKept, Under, Admits
<1>1. /\ \A x : Carries(d2, x) => Carries(d, x)
      /\ \A id, k : Naming(d2, id, k) => Naming(d, id, k)
      /\ Under(rq, h) /\ Carries(d, Leaving(rq.id)) => Carries(d2, Leaving(rq.id))
  BY LessCarries
<1>2. Under(rq, h) => \A old, now : EndsAs(d, rq.id, old, now) => EndsAs(d2, rq.id, old, now)
  BY LessEnds
<1>3. /\ \A x : Carries(u, x) => Carries(u2, x)
      /\ \A id, k : Carries(u2, JoinFrame(id, k)) => Carries(u, JoinFrame(id, k))
      /\ Under(rq, h) => \A id : Carries(u2, Leaving(id)) => Carries(u, Leaving(id))
  <2>1. CASE u2 # u
    <3>1. \A id, k : m # JoinFrame(id, k)
      BY <2>1, OtherKinds
    <3>2. Under(rq, h) => \A id : m # Leaving(id)
      BY <2>1, OtherKinds DEF Under
    <3>3. /\ \A x : Carries(u, x) => Carries(u2, x)
          /\ \A x : Carries(u2, x) => Carries(u, x) \/ x = m
      BY <2>1, MoreCarries
    <3> QED  BY <3>1, <3>2, <3>3
  <2> QED  BY <2>1
<1>4. AsksFirst(u2, n)
  BY MoreAsks DEF PairGood
<1>5. AsksAfter(u2, rq2, h, q)
  <2>1. CASE rq = NoRoom \/ rq.host = q
    BY <2>1 DEF SeatKept, AsksAfter
  <2>2. CASE rq # NoRoom /\ rq.host # q
    <3>1. AsksAfter(u2, rq, h, q)
      <4>1. AsksAfter(u, rq, h, q)
        BY DEF PairGood
      <4>2. CASE u2 # u
        <5>1. m # Leaving(rq.id)
          BY <2>2, <4>2, OtherKinds
        <5> QED  BY <4>1, <4>2, <5>1, MoreAsks
      <4> QED  BY <4>1, <4>2
    <3>2. rq2 # NoRoom /\ rq2.id = rq.id /\ rq2.host = rq.host /\ rq2.key = rq.key
      BY <2>2 DEF SeatKept
    <3> QED  BY <2>2, <3>1, <3>2 DEF AsksAfter
  <2> QED  BY <2>1, <2>2
<1>6. Credible(d2, rh, rq2, h, q)
  BY <1>0, <1>1 DEF PairGood, Credible
<1>7. Current(d2, u2, rh, rq2, h, q)
  BY <1>0, <1>2, <1>3 DEF PairGood, Current, Admits
<1>8. Newcomer(d2, u2, rh, rq2, n, h, q)
  <2>1. Newcomer(d, u, rh, rq, n, h, q)
    BY DEF PairGood
  <2> QED  BY <1>0, <1>1, <1>3, <2>1 DEF Newcomer
<1> QED  BY <1>4, <1>5, <1>6, <1>7, <1>8 DEF PairGood

\* q out of the room it was in: it says so, was told, or was not on the list,
LEMMA MemberGone ==
  ASSUME NEW h, NEW q, h # q, NEW d, NEW u, NEW rh, NEW rq, NEW n, NEW d2, NEW u2, NEW m,
         PairGood(d, u, rh, rq, n, h, q),
         d2 = d \/ LessOne(d, d2), u2 = u \/ (MoreOne(u, u2, m) /\ m.t # "join"),
         Under(rq, h) /\ Under(rh, h) /\ rq.id = rh.id =>
           \/ Carries(u2, Leaving(rh.id)) \/ Carries(d, Leaving(rh.id))
           \/ rq.key \notin KeysOf(rh.roster) /\ ~ Carries(u, JoinFrame(rh.id, rq.key))
  PROVE  PairGood(d2, u2, rh, NoRoom, n, h, q)
<1>1. \A x : Carries(d2, x) => Carries(d, x)
  BY LessCarries
<1>2. /\ \A x : Carries(u, x) => Carries(u2, x)
      /\ \A id, k : Carries(u2, JoinFrame(id, k)) => Carries(u, JoinFrame(id, k))
  <2>1. CASE u2 # u
    <3>1. \A id, k : m # JoinFrame(id, k)
      BY <2>1, OtherKinds
    <3>3. /\ \A x : Carries(u, x) => Carries(u2, x)
          /\ \A x : Carries(u2, x) => Carries(u, x) \/ x = m
      BY <2>1, MoreCarries
    <3> QED  BY <3>1, <3>3
  <2> QED  BY <2>1
<1>3. AsksFirst(u2, n)
  BY MoreAsks DEF PairGood
<1>4. /\ AsksAfter(u2, NoRoom, h, q) /\ Credible(d2, rh, NoRoom, h, q)
      /\ Current(d2, u2, rh, NoRoom, h, q)
  BY DEF AsksAfter, Credible, Current, Admits, Under
<1>5. Newcomer(d2, u2, rh, NoRoom, n, h, q)
  <2> SUFFICES ASSUME Under(rh, h), n = 1,
                      \/ Entry(<<q, 0>>, q) \in rh.roster
                      \/ Carries(u, JoinFrame(rh.id, <<q, 0>>))
               PROVE  ~ Carries(d2, Leaving(rh.id)) /\ Carries(u2, Leaving(rh.id))
    BY <1>2 DEF Newcomer
  <2>1. /\ ~ Carries(d, Leaving(rh.id))
        /\ \/ Under(rq, h) /\ rq.id = rh.id /\ rq.key = <<q, 0>>
           \/ Carries(u, Leaving(rh.id))
    BY DEF PairGood, Newcomer
  <2>2. Entry(<<q, 0>>, q) \in rh.roster => <<q, 0>> \in KeysOf(rh.roster)
    BY DEF Entry, KeysOf
  <2> QED  BY <1>1, <1>2, <2>1, <2>2
<1> QED  BY <1>3, <1>4, <1>5 DEF PairGood

\* q takes the list,
LEMMA MemberLists ==
  ASSUME NEW h, NEW q, h # q, NEW d, NEW u, NEW rh, NEW rq, NEW n, NEW d2, NEW rq2,
         PairGood(d, u, rh, rq, n, h, q), Under(rq, h), Under(rq2, h),
         rq2.id = rq.id, rq2.key = rq.key, rq2.roster = d[1].members,
         LessOne(d, d2), Listing(d[1], rq.id)
  PROVE  PairGood(d2, u, rh, rq2, n, h, q)
<1>0. d[1] # Leaving(rq.id) /\ (rq.key \in KeysOf(rq2.roster) => Names(d[1], rq.id, rq.key))
  BY OtherKinds DEF Names, Listing
<1>1. /\ \A x : Carries(d2, x) => Carries(d, x)
      /\ \A x : Carries(d, x) /\ x # d[1] => Carries(d2, x)
      /\ \A id, k : Naming(d2, id, k) => Naming(d, id, k)
      /\ \A id, k : Names(d[1], id, k) => Naming(d, id, k)
  BY LessCarries
<1>2. Admits(rh, rq2, h, q) <=> Admits(rh, rq, h, q)
  BY DEF Admits
<1>3. Credible(d2, rh, rq2, h, q)
  BY <1>0, <1>1, <1>2 DEF PairGood, Credible
<1>4. Current(d2, u, rh, rq2, h, q)
  BY <1>2, LessEnds DEF PairGood, Current
<1>5. AsksAfter(u, rq2, h, q)
  BY DEF PairGood, AsksAfter, Under
<1>6. Newcomer(d2, u, rh, rq2, n, h, q)
  BY <1>1 DEF PairGood, Newcomer
<1> QED  BY <1>3, <1>4, <1>5, <1>6 DEF PairGood

-----------------------------------------------------------------------------
(***************************************************************************)
(* Somebody in no room enters one.                                         *)
(***************************************************************************)

\* What leaves and asks says nothing else; nobody leaves who has made nothing.
WordGood(md, w, m) ==
  /\ m.t = "leave" => m = Leaving(m.id) /\ md[w[1]] # 0 /\ md[w[2]] # 0
  /\ m.t = "join" => m = JoinFrame(m.id, m.key)

\* What is on its way from h to q and back, and the room of h, as far as q knows.
PairKnown(md, h, q, d, u, rh) ==
  /\ Len(d) \in Nat /\ Len(u) \in Nat
  /\ \A i \in 1 .. Len(d) : FrameGood(md, <<h, q>>, d[i]) /\ WordGood(md, <<h, q>>, d[i])
  /\ \A i \in 1 .. Len(u) : FrameGood(md, <<q, h>>, u[i]) /\ WordGood(md, <<q, h>>, u[i])
  /\ RoomGood(md, h, rh)

\* A key not made yet is not spoken of; who has made nothing has not left.
LEMMA Unspoken ==
  ASSUME NEW md, NEW h \in People, NEW q \in People, NEW d, NEW u, NEW rh,
         PairKnown(md, h, q, d, u, rh), NEW k, k \notin AnyMade(md)
  PROVE  /\ \A id : ~ Naming(d, id, k)
         /\ rh # NoRoom => \A x : Entry(k, x) \notin rh.roster
         /\ \A i \in 1 .. Len(u) : u[i].t = "join" => u[i].key # k
         /\ \A id : ~ Carries(u, JoinFrame(id, k))
         /\ \A x : ~ Carries(u, JoinFrame(k, x))
         /\ md[q] = 0 => /\ \A i \in 1 .. Len(u) : u[i].t # "leave"
                         /\ \A id : ~ Carries(d, Leaving(id))
<1>0. \A x \in People : Made(md, x) \subseteq AnyMade(md)
  BY DEF AnyMade
<1>1. \A id : ~ Naming(d, id, k)
  BY DEF Naming, Names, PairKnown, FrameGood
<1>2. rh # NoRoom => \A x : Entry(k, x) \notin rh.roster
  <2>1. \A x : Entry(k, x).key = k
    BY DEF Entry
  <2> QED  BY <2>1 DEF PairKnown, RoomGood, KeysOf
<1>3. \A i \in 1 .. Len(u) : u[i].t = "join" => u[i].key # k /\ u[i].id # k
  <2>1. \A i \in 1 .. Len(u) : u[i].t = "join" => u[i].id \in AnyMade(md) /\ u[i].key \in Made(md, q)
    BY DEF PairKnown, FrameGood
  <2> QED  BY <1>0, <2>1
<1>4. \A id : ~ Carries(u, JoinFrame(id, k))
  BY <1>3, OtherKinds DEF Carries
<1>5. \A x : ~ Carries(u, JoinFrame(k, x))
  BY <1>3, OtherKinds DEF Carries
<1>6. ASSUME md[q] = 0
      PROVE  /\ \A i \in 1 .. Len(u) : u[i].t # "leave"
             /\ \A id : ~ Carries(d, Leaving(id))
  <2>1. <<h, q>>[2] = q /\ <<q, h>>[1] = q
    OBVIOUS
  <2>2. \A i \in 1 .. Len(u) : u[i].t # "leave"
    BY <1>6, <2>1 DEF PairKnown, WordGood
  <2>3. \A i \in 1 .. Len(d) : d[i].t # "leave"
    BY <1>6, <2>1 DEF PairKnown, WordGood
  <2> QED  BY <2>2, <2>3, OtherKinds DEF Carries
<1> QED  BY <1>1, <1>2, <1>3, <1>4, <1>5, <1>6

\* The host makes a room,
LEMMA HostMakes ==
  ASSUME NEW md, NEW h \in People, NEW q \in People, h # q,
         NEW d, NEW u, NEW rq, NEW n, NEW rh2,
         PairKnown(md, h, q, d, u, NoRoom), PairGood(d, u, NoRoom, rq, n, h, q),
         rh2.id \notin AnyMade(md), rh2.roster = {Entry(rh2.id, h)},
         rq # NoRoom => rq.id \in AnyMade(md)
  PROVE  PairGood(d, u, rh2, rq, n, h, q)
<1>1. ~ Admits(NoRoom, rq, h, q) /\ ~ Admits(rh2, rq, h, q)
  BY DEF Admits, Under
<1>2. Credible(d, rh2, rq, h, q) /\ Current(d, u, rh2, rq, h, q)
  BY <1>1 DEF PairGood, Credible, Current
<1>3. ~ Carries(u, JoinFrame(rh2.id, <<q, 0>>))
  BY Unspoken
<1>4. Entry(<<q, 0>>, q) \notin rh2.roster
  BY DEF Entry
<1>5. Newcomer(d, u, rh2, rq, n, h, q)
  BY <1>3, <1>4 DEF Newcomer
<1> QED  BY <1>2, <1>5 DEF PairGood

\* What is so of everybody who enters a room under a key of their own.
NewHere(md, h, q, d, u, rh, rq2) ==
  /\ Credible(d, rh, rq2, h, q) /\ ~ Admits(rh, rq2, h, q)
  /\ md[q] + 1 = 1 =>
       /\ \A i \in 1 .. Len(u) : u[i].t # "leave"
       /\ Under(rh, h) => Entry(<<q, 0>>, q) \notin rh.roster
       /\ ~ Carries(d, Leaving(rh.id))
       /\ ~ Carries(u, JoinFrame(rh.id, <<q, 0>>))
       /\ rq2.key = <<q, 0>>

LEMMA EntersFresh ==
  ASSUME NEW md, NEW h \in People, NEW q \in People, h # q, md[q] \in Nat,
         NEW d, NEW u, NEW rh, NEW rq2,
         PairKnown(md, h, q, d, u, rh), rq2.key = <<q, md[q]>>, rq2.key \notin AnyMade(md),
         rq2.roster = {} \/ rq2.host # h
  PROVE  NewHere(md, h, q, d, u, rh, rq2)
<1>1. /\ \A id : ~ Naming(d, id, rq2.key)
      /\ rh # NoRoom => \A x : Entry(rq2.key, x) \notin rh.roster
      /\ \A id : ~ Carries(u, JoinFrame(id, rq2.key))
      /\ md[q] = 0 => /\ \A i \in 1 .. Len(u) : u[i].t # "leave"
                      /\ \A id : ~ Carries(d, Leaving(id))
  BY Unspoken
<1>2. ~ Admits(rh, rq2, h, q)
  BY <1>1 DEF Admits, Under
<1>3. Credible(d, rh, rq2, h, q)
  BY <1>1 DEF Credible, Under, KeysOf
<1>4. ASSUME md[q] + 1 = 1
      PROVE  /\ \A i \in 1 .. Len(u) : u[i].t # "leave"
             /\ Under(rh, h) => Entry(<<q, 0>>, q) \notin rh.roster
             /\ ~ Carries(d, Leaving(rh.id))
             /\ ~ Carries(u, JoinFrame(rh.id, <<q, 0>>))
             /\ rq2.key = <<q, 0>>
  <2>1. md[q] = 0
    BY <1>4
  <2> QED  BY <1>1, <2>1 DEF Under
<1> QED  BY <1>2, <1>3, <1>4 DEF NewHere

\* q makes a room of its own,
LEMMA MemberMakes ==
  ASSUME NEW md, NEW h \in People, NEW q \in People, h # q, md[q] \in Nat,
         NEW d, NEW u, NEW rh, NEW rq2,
         PairKnown(md, h, q, d, u, rh),
         rq2.host = q, rq2.key = <<q, md[q]>>, rq2.key \notin AnyMade(md)
  PROVE  PairGood(d, u, rh, rq2, md[q] + 1, h, q)
<1>0. NewHere(md, h, q, d, u, rh, rq2)
  BY EntersFresh
<1>1. /\ Credible(d, rh, rq2, h, q) /\ ~ Admits(rh, rq2, h, q)
      /\ md[q] + 1 = 1 =>
           /\ \A i \in 1 .. Len(u) : u[i].t # "leave"
           /\ Under(rh, h) => Entry(<<q, 0>>, q) \notin rh.roster
           /\ ~ Carries(u, JoinFrame(rh.id, <<q, 0>>))
  BY <1>0 DEF NewHere
<1>2. Current(d, u, rh, rq2, h, q) /\ AsksAfter(u, rq2, h, q)
  BY <1>1 DEF Current, AsksAfter
<1>3. Newcomer(d, u, rh, rq2, md[q] + 1, h, q) /\ AsksFirst(u, md[q] + 1)
  BY <1>1 DEF Newcomer, AsksFirst
<1> QED  BY <1>1, <1>2, <1>3 DEF PairGood

\* or joins one, and asks for it.
LEMMA MemberEnters ==
  ASSUME NEW md, NEW h \in People, NEW q \in People, h # q, md[q] \in Nat,
         NEW d, NEW u, NEW rh, NEW rq2, NEW u2,
         PairKnown(md, h, q, d, u, rh),
         rq2 # NoRoom, rq2.roster = {}, rq2.key = <<q, md[q]>>, rq2.key \notin AnyMade(md),
         u2 = u \/ (rq2.host = h /\ MoreOne(u, u2, JoinFrame(rq2.id, rq2.key)))
  PROVE  PairGood(d, u2, rh, rq2, md[q] + 1, h, q)
<1> DEFINE m == JoinFrame(rq2.id, rq2.key)
<1>0. m.t = "join" /\ m.id = rq2.id /\ m.key = rq2.key /\ \A id : m # Leaving(id)
  BY OtherKinds
<1> HIDE DEF m
<1>1. /\ Credible(d, rh, rq2, h, q) /\ ~ Admits(rh, rq2, h, q)
      /\ md[q] + 1 = 1 =>
           /\ \A i \in 1 .. Len(u) : u[i].t # "leave"
           /\ Under(rh, h) => Entry(<<q, 0>>, q) \notin rh.roster
           /\ ~ Carries(d, Leaving(rh.id))
           /\ ~ Carries(u, JoinFrame(rh.id, <<q, 0>>))
           /\ rq2.key = <<q, 0>>
  <2>1. NewHere(md, h, q, d, u, rh, rq2)
    BY EntersFresh
  <2> QED  BY <2>1 DEF NewHere
<1>2. \A i \in 1 .. Len(u) : u[i].t = "join" => u[i].key # rq2.key
  BY Unspoken
<1>3. CASE u2 = u
  <2>1. Current(d, u, rh, rq2, h, q) /\ AsksAfter(u, rq2, h, q)
    BY <1>1, <1>2 DEF Current, AsksAfter
  <2>2. Newcomer(d, u, rh, rq2, md[q] + 1, h, q) /\ AsksFirst(u, md[q] + 1)
    BY <1>1 DEF Newcomer, AsksFirst
  <2> QED  BY <1>1, <1>3, <2>1, <2>2 DEF PairGood
<1>4. CASE rq2.host = h /\ MoreOne(u, u2, m)
  <2>1. /\ \A i \in 1 .. Len(u2) :
             (i \in 1 .. Len(u) /\ u2[i] = u[i]) \/ (i = Len(u) + 1 /\ u2[i] = m)
        /\ \A i \in 1 .. Len(u) : i < Len(u) + 1
    BY <1>4, MoreAt
  <2>2. Current(d, u2, rh, rq2, h, q)
    BY <1>1 DEF Current
  <2>3. AsksAfter(u2, rq2, h, q)
    <3>1. SUFFICES ASSUME NEW i \in 1 .. Len(u2), u2[i].t = "join", u2[i].key = rq2.key
                   PROVE  /\ u2[i].id = rq2.id
                          /\ \A j \in 1 .. Len(u2) : u2[j] = Leaving(rq2.id) => j < i
      BY <1>4 DEF AsksAfter
    <3>2. i = Len(u) + 1 /\ u2[i] = m
      BY <1>2, <2>1, <3>1
    <3>3. \A j \in 1 .. Len(u2) : u2[j] = Leaving(rq2.id) => j < i
      BY <1>0, <2>1, <3>2
    <3> QED  BY <1>0, <3>2, <3>3
  <2>4. AsksFirst(u2, md[q] + 1)
    <3>1. md[q] + 1 = 1 => \A i \in 1 .. Len(u2) : u2[i].t # "leave"
      BY <1>0, <1>1, <2>1
    <3> QED  BY <3>1 DEF AsksFirst
  <2>5. Newcomer(d, u2, rh, rq2, md[q] + 1, h, q)
    <3>1. SUFFICES ASSUME Under(rh, h), md[q] + 1 = 1,
                          \/ Entry(<<q, 0>>, q) \in rh.roster
                          \/ Carries(u2, JoinFrame(rh.id, <<q, 0>>))
                   PROVE  /\ ~ Carries(d, Leaving(rh.id))
                          /\ Under(rq2, h) /\ rq2.id = rh.id /\ rq2.key = <<q, 0>>
      BY DEF Newcomer
    <3>2. m = JoinFrame(rh.id, <<q, 0>>)
      <4>1. \A x : Carries(u2, x) => Carries(u, x) \/ x = m
        BY <1>4, MoreCarries
      <4> QED  BY <1>1, <3>1, <4>1
    <3>3. rq2.id = rh.id
      BY <1>0, <3>2, OtherKinds
    <3> QED  BY <1>1, <1>4, <3>1, <3>3 DEF Under
  <2> QED  BY <1>1, <2>2, <2>3, <2>4, <2>5 DEF PairGood
<1> QED  BY <1>3, <1>4 DEF m

-----------------------------------------------------------------------------
(***************************************************************************)
(* A step of somebody, seen by all the pairs.                              *)
(***************************************************************************)

WordsGood(st, md) ==
  \A w \in Ways : \A i \in 1 .. Len(st[w]) : WordGood(md, w, st[w][i])

Listings(st, rm, md) ==
  /\ \A p \in People : OwnGood(md, p, rm[p])
  /\ WordsGood(st, md)
  /\ \A h, q \in People : <<h, q>> \in Ways =>
       PairGood(st[<<h, q>>], st[<<q, h>>], rm[h], rm[q], md[q], h, q)

\* p has taken a frame of each of `from` and sent m to each of `some`.
Passed(st, st2, p, some, m, from) ==
  \A w \in Ways :
    /\ w[1] # p /\ w[2] # p => st2[w] = st[w]
    /\ w[1] = p => /\ \/ st2[w] = st[w]
                      \/ w[2] \in some /\ MoreOne(st[w], st2[w], m)
                   /\ w[2] \in some /\ w \in open => MoreOne(st[w], st2[w], m)
    /\ w[2] = p => IF w[1] \in from THEN LessOne(st[w], st2[w]) ELSE st2[w] = st[w]

LEMMA AppendMore ==
  ASSUME NEW S, NEW s \in Seq(S), NEW m
  PROVE  MoreOne(s, Append(s, m), m)
<1>1. s \in Seq(S \cup {m})
  OBVIOUS
<1> QED  BY <1>1 DEF MoreOne

LEMMA SaidPassed ==
  ASSUME NEW st, NEW st2, NEW p, NEW some, NEW m, Streams(st), SentTo(st, st2, p, some, m)
  PROVE  Passed(st, st2, p, some, m, {})
<1> SUFFICES ASSUME NEW w \in Ways
             PROVE  /\ w[1] # p /\ w[2] # p => st2[w] = st[w]
                    /\ w[1] = p => /\ \/ st2[w] = st[w]
                                      \/ w[2] \in some /\ MoreOne(st[w], st2[w], m)
                                   /\ w[2] \in some /\ w \in open => MoreOne(st[w], st2[w], m)
                    /\ w[2] = p => st2[w] = st[w]
  BY DEF Passed
<1>1. PICK S : st \in [Ways -> Seq(S)]
  BY DEF Streams
<1>2. MoreOne(st[w], Append(st[w], m), m)
  BY <1>1, AppendMore
<1>3. w[1] # w[2]
  BY WayEnds
<1> QED  BY <1>2, <1>3 DEF SentTo

LEMMA AnsweredPassed ==
  ASSUME NEW st, NEW U, NEW st2, NEW p \in People, NEW q \in People, <<q, p>> \in Ways,
         NEW some, NEW m, Streams(st), Taken(st, U, <<q, p>>), SentTo(U, st2, p, some, m)
  PROVE  Passed(st, st2, p, some, m, {q})
<1>1. /\ Streams(U) /\ LessOne(st[<<q, p>>], U[<<q, p>>])
      /\ \A w \in Ways \ {<<q, p>>} : U[w] = st[w]
  BY TakenAt DEF LessOne
<1>2. Passed(U, st2, p, some, m, {})
  BY <1>1, SaidPassed
<1> SUFFICES ASSUME NEW w \in Ways
             PROVE  /\ w[1] # p /\ w[2] # p => st2[w] = st[w]
                    /\ w[1] = p => /\ \/ st2[w] = st[w]
                                      \/ w[2] \in some /\ MoreOne(st[w], st2[w], m)
                                   /\ w[2] \in some /\ w \in open => MoreOne(st[w], st2[w], m)
                    /\ w[2] = p => IF w[1] \in {q} THEN LessOne(st[w], st2[w]) ELSE st2[w] = st[w]
  BY DEF Passed
<1>3. w[1] # w[2] /\ w = <<w[1], w[2]>>
  BY WayEnds
<1>4. /\ w[1] # p /\ w[2] # p => st2[w] = U[w]
      /\ w[1] = p => /\ \/ st2[w] = U[w]
                        \/ w[2] \in some /\ MoreOne(U[w], st2[w], m)
                     /\ w[2] \in some /\ w \in open => MoreOne(U[w], st2[w], m)
      /\ w[2] = p => st2[w] = U[w]
  BY <1>2 DEF Passed
<1>5. w[1] = p => w # <<q, p>>
  BY <1>3
<1>6. w[2] # p => w # <<q, p>>
  BY <1>3
<1>7. w[1] # q => w # <<q, p>>
  BY <1>3
<1>8. CASE w = <<q, p>>
  <2>1. w[1] = q /\ w[2] = p
    BY <1>8
  <2>2. LessOne(st[w], st2[w])
    BY <1>1, <1>4, <1>8, <2>1
  <2> QED  BY <1>3, <2>1, <2>2
<1>9. CASE w # <<q, p>>
  <2>1. U[w] = st[w]
    BY <1>1, <1>9
  <2>2. w[2] = p => w[1] # q
    BY <1>3, <1>9
  <2> QED  BY <1>4, <2>1, <2>2
<1> QED  BY <1>8, <1>9

\* The two ways between p and x.
LEMMA PassedPair ==
  ASSUME NEW st, NEW st2, NEW p, NEW some, NEW m, NEW from, Passed(st, st2, p, some, m, from),
         NEW x, <<p, x>> \in Ways
  PROVE  LET d == <<p, x>>
             u == <<x, p>>
         IN  /\ u \in Ways /\ p # x /\ p \in People /\ x \in People
             /\ st2[d] = st[d] \/ (x \in some /\ MoreOne(st[d], st2[d], m))
             /\ x \in some /\ d \in open => MoreOne(st[d], st2[d], m)
             /\ x \in from => LessOne(st[u], st2[u])
             /\ x \notin from => st2[u] = st[u]
<1>1. <<x, p>> \in Ways /\ p # x /\ p \in People /\ x \in People
  BY BothWays, WayEnds
<1>2. /\ <<p, x>>[1] = p /\ <<p, x>>[2] = x /\ <<x, p>>[1] = x /\ <<x, p>>[2] = p
  OBVIOUS
<1> DEFINE d == <<p, x>>
           u == <<x, p>>
<1>3. d \in Ways /\ u \in Ways /\ d[1] = p /\ d[2] = x /\ u[1] = x /\ u[2] = p
  BY <1>1, <1>2
<1> HIDE DEF d, u
<1>4. /\ st2[d] = st[d] \/ (x \in some /\ MoreOne(st[d], st2[d], m))
      /\ x \in some /\ d \in open => MoreOne(st[d], st2[d], m)
      /\ x \in from => LessOne(st[u], st2[u])
      /\ x \notin from => st2[u] = st[u]
  BY <1>3 DEF Passed
<1> QED  BY <1>1, <1>4 DEF d, u

LEMMA WordsPassed ==
  ASSUME NEW st, NEW st2, NEW p, NEW some, NEW m, NEW from, Passed(st, st2, p, some, m, from),
         NEW md, NEW md2, WordsGood(st, md), \A x \in People : md[x] # 0 => md2[x] # 0,
         \A x \in some : <<p, x>> \in Ways => WordGood(md2, <<p, x>>, m)
  PROVE  WordsGood(st2, md2)
<1> SUFFICES ASSUME NEW w \in Ways, NEW i \in 1 .. Len(st2[w])
             PROVE  WordGood(md2, w, st2[w][i])
  BY DEF WordsGood
<1>0. w[1] \in People /\ w[2] \in People /\ w = <<w[1], w[2]>>
  BY WayEnds
<1>1. \A f : WordGood(md, w, f) => WordGood(md2, w, f)
  BY <1>0 DEF WordGood
<1>2. \A j \in 1 .. Len(st[w]) : WordGood(md2, w, st[w][j])
  BY <1>1 DEF WordsGood
<1>3. \/ st2[w] = st[w] \/ LessOne(st[w], st2[w])
      \/ w[1] = p /\ w[2] \in some /\ MoreOne(st[w], st2[w], m)
  BY DEF Passed
<1>4. CASE LessOne(st[w], st2[w])
  BY <1>2, <1>4, LessAt
<1>5. CASE w[1] = p /\ w[2] \in some /\ MoreOne(st[w], st2[w], m)
  <2>1. WordGood(md2, w, m)
    BY <1>0, <1>5
  <2>2. \/ i \in 1 .. Len(st[w]) /\ st2[w][i] = st[w][i]
        \/ st2[w][i] = m
    BY <1>5, MoreAt
  <2> QED  BY <1>2, <2>1, <2>2
<1> QED  BY <1>2, <1>3, <1>4, <1>5

\* The pairs of p's own room, and those of the rooms of p's contacts.
HostSide(st, rm, md, p, r) ==
  \A x : <<p, x>> \in Ways =>
    PairGood(st[<<p, x>>], st[<<x, p>>], r, rm[x], md[x], p, x)

MemberSide(st, rm, n, p, r) ==
  \A x : <<p, x>> \in Ways =>
    PairGood(st[<<x, p>>], st[<<p, x>>], rm[x], r, n, x, p)

\* p alone is in another room, r, or has made more.
GrowsAt(md, md2, rm, rm2, p, r) ==
  /\ \A x \in People : rm2[x] = IF x = p THEN r ELSE rm[x]
  /\ \A x \in People : x # p => md2[x] = md[x]
  /\ \A x \in People : Made(md, x) \subseteq Made(md2, x)

LEMMA ListingsStep ==
  ASSUME NEW st, NEW st2, NEW rm, NEW rm2, NEW md, NEW md2, NEW p \in People,
         NEW some, NEW m, NEW from, NEW r, NEW n,
         Listings(st, rm, md), Passed(st, st2, p, some, m, from), GrowsAt(md, md2, rm, rm2, p, r),
         OwnGood(md2, p, r), WordsGood(st2, md2), n = md2[p],
         HostSide(st2, rm, md, p, r), MemberSide(st2, rm, n, p, r)
  PROVE  Listings(st2, rm2, md2)
<1>0. /\ \A x \in People : rm2[x] = IF x = p THEN r ELSE rm[x]
      /\ \A x \in People : x # p => md2[x] = md[x]
      /\ \A x \in People : Made(md, x) \subseteq Made(md2, x)
  BY DEF GrowsAt
<1>1. ASSUME NEW x \in People PROVE OwnGood(md2, x, rm2[x])
  <2>1. CASE x # p
    <3>1. OwnGood(md, x, rm[x]) /\ rm2[x] = rm[x]
      BY <1>0, <2>1 DEF Listings
    <3> QED  BY <1>0, <3>1 DEF OwnGood
  <2> QED  BY <1>0, <2>1
<1>2. ASSUME NEW h \in People, NEW q \in People, <<h, q>> \in Ways
      PROVE  PairGood(st2[<<h, q>>], st2[<<q, h>>], rm2[h], rm2[q], md2[q], h, q)
  <2>1. h # q /\ <<q, h>> \in Ways
    BY <1>2, WayEnds, BothWays
  <2>2. CASE h = p
    <3>1. rm2[h] = r /\ rm2[q] = rm[q] /\ md2[q] = md[q]
      BY <1>0, <2>1, <2>2
    <3> QED  BY <1>2, <2>2, <3>1 DEF HostSide
  <2>3. CASE q = p
    <3>1. rm2[q] = r /\ rm2[h] = rm[h]
      BY <1>0, <2>1, <2>3
    <3> QED  BY <2>1, <2>3, <3>1 DEF MemberSide
  <2>4. CASE h # p /\ q # p
    <3>1. rm2[h] = rm[h] /\ rm2[q] = rm[q] /\ md2[q] = md[q]
      BY <1>0, <2>4
    <3>2. st2[<<h, q>>] = st[<<h, q>>]
      BY <1>2, <2>4 DEF Passed
    <3>3. st2[<<q, h>>] = st[<<q, h>>]
      BY <2>1, <2>4 DEF Passed
    <3>4. PairGood(st[<<h, q>>], st[<<q, h>>], rm[h], rm[q], md[q], h, q)
      BY <1>2 DEF Listings
    <3> QED  BY <3>1, <3>2, <3>3, <3>4
  <2> QED  BY <2>2, <2>3, <2>4
<1> QED  BY <1>1, <1>2 DEF Listings

\* A frame from x that p, in r, can do without.
HostAside(r, p, x, f) ==
  Under(r, p) /\ f = Leaving(r.id) => \A k : Entry(k, x) \notin r.roster

MemberAside(r, x, f) ==
  Under(r, x) => ~ Listing(f, r.id) /\ f # Leaving(r.id)

LEMMA HostSideStays ==
  ASSUME NEW st, NEW st2, NEW rm, NEW md, NEW p \in People, NEW some, NEW m, NEW from, NEW r,
         Listings(st, rm, md), Passed(st, st2, p, some, m, from),
         Under(r, p) <=> Under(rm[p], p),
         Under(rm[p], p) => r.id = rm[p].id /\ r.roster = rm[p].roster,
         m.t # "roster", m.t = "leave" => ~ Under(rm[p], p),
         \A x \in from : HostAside(rm[p], p, x, st[<<x, p>>][1])
  PROVE  HostSide(st2, rm, md, p, r)
<1> SUFFICES ASSUME NEW x, <<p, x>> \in Ways
             PROVE  PairGood(st2[<<p, x>>], st2[<<x, p>>], r, rm[x], md[x], p, x)
  BY DEF HostSide
<1>1. /\ x \in People /\ p # x
      /\ \/ st2[<<p, x>>] = st[<<p, x>>]
         \/ MoreOne(st[<<p, x>>], st2[<<p, x>>], m)
      /\ x \in from => LessOne(st[<<x, p>>], st2[<<x, p>>])
      /\ x \notin from => st2[<<x, p>>] = st[<<x, p>>]
  BY PassedPair
<1>2. PairGood(st[<<p, x>>], st[<<x, p>>], rm[p], rm[x], md[x], p, x)
  BY <1>1 DEF Listings
<1>3. x \in from => (Under(rm[p], p) /\ st[<<x, p>>][1] = Leaving(rm[p].id)
                       => \A k : Entry(k, x) \notin rm[p].roster)
  BY DEF HostAside
<1> QED  BY ZenonT(30), <1>1, <1>2, <1>3, HostStays

LEMMA MemberSideStays ==
  ASSUME NEW st, NEW st2, NEW rm, NEW md, NEW p \in People, NEW some, NEW m, NEW from, NEW r,
         Listings(st, rm, md), Passed(st, st2, p, some, m, from),
         \A x \in People : x # p => SeatKept(rm[p], r, x),
         m.t # "join", m.t = "leave" => rm[p] = NoRoom \/ rm[p].host = p,
         \A x \in from : MemberAside(rm[p], x, st[<<x, p>>][1])
  PROVE  MemberSide(st2, rm, md[p], p, r)
<1> SUFFICES ASSUME NEW x, <<p, x>> \in Ways
             PROVE  PairGood(st2[<<x, p>>], st2[<<p, x>>], rm[x], r, md[p], x, p)
  BY DEF MemberSide
<1>1. /\ x \in People /\ p # x /\ <<x, p>> \in Ways
      /\ \/ st2[<<p, x>>] = st[<<p, x>>]
         \/ MoreOne(st[<<p, x>>], st2[<<p, x>>], m)
      /\ x \in from => LessOne(st[<<x, p>>], st2[<<x, p>>])
      /\ x \notin from => st2[<<x, p>>] = st[<<x, p>>]
  BY PassedPair
<1>2. PairGood(st[<<x, p>>], st[<<p, x>>], rm[x], rm[p], md[p], x, p)
  BY <1>1 DEF Listings
<1>3. x \in from => (Under(rm[p], x) => /\ ~ Listing(st[<<x, p>>][1], rm[p].id)
                                        /\ st[<<x, p>>][1] # Leaving(rm[p].id))
  BY DEF MemberAside
<1>4. SeatKept(rm[p], r, x)
  BY <1>1
<1> QED  BY ZenonT(30), <1>1, <1>2, <1>3, <1>4, MemberStays

-----------------------------------------------------------------------------
(***************************************************************************)
(* What is typed and heard that leaves every list as it is.                *)
(***************************************************************************)

\* No fault has come between.
Together ==
  /\ HeardInv /\ Counted(budget) /\ Whole
  /\ Calm(Stream, open, room, invite, made, budget)
  /\ Listings(Stream, room, made)

\* p's room as it was, but for what it keeps beside the list.
SameList(r, s) ==
  \/ s = r
  \/ /\ r # NoRoom /\ s # NoRoom
     /\ s.id = r.id /\ s.host = r.host /\ s.key = r.key
     /\ s.roster = r.roster /\ s.bound = r.bound

LEMMA SaidStep ==
  ASSUME Together, NEW p \in People, NEW STATE r, NEW STATE some, NEW STATE m,
         Becomes(p, r, ToEach(some, m), wire), open' = open, live' = live
  PROVE  /\ Passed(Stream, Stream', p, some, m, {})
         /\ \A x \in People : room'[x] = IF x = p THEN r ELSE room[x]
<1>1. Send(p, ToEach(some, m), wire) /\ room' = [room EXCEPT ![p] = r]
  BY DEF Becomes
<1>2. SentTo(Stream, Stream', p, some, m)
  BY <1>1, SaidWhole DEF Together
<1>3. Streams(Stream)
  BY StreamGood DEF Together, HeardInv
<1>4. Passed(Stream, Stream', p, some, m, {})
  BY <1>2, <1>3, SaidPassed
<1> QED  BY <1>1, <1>4, RoomNow DEF Together

LEMMA AnsweredStep ==
  ASSUME Together, NEW p \in People, NEW q \in People, NEW kind, Frame(p, q, kind),
         NEW STATE r, NEW STATE some, NEW STATE m,
         Becomes(p, r, ToEach(some, m), Unread(q, p)), open' = open, live' = live
  PROVE  /\ Passed(Stream, Stream', p, some, m, {q})
         /\ \A x \in People : room'[x] = IF x = p THEN r ELSE room[x]
         /\ Stream[<<q, p>>][1] = Heard(q, p) /\ 1 \in 1 .. Len(Stream[<<q, p>>])
         /\ FrameGood(made, <<q, p>>, Heard(q, p))
         /\ WordGood(made, <<q, p>>, Heard(q, p))
<1>1. Send(p, ToEach(some, m), Unread(q, p)) /\ room' = [room EXCEPT ![p] = r]
  BY DEF Becomes
<1>2. SentTo(Rest(q, p), Stream', p, some, m)
  BY <1>1, AnsweredWhole DEF Together
<1>3. Streams(Stream) /\ <<q, p>> \in Ways
  BY StreamGood, FrameWay DEF Together, HeardInv
<1>4. AtMost(ToEach(some, m), m)
  BY OneFrame
<1>5. /\ Taken(Stream, Rest(q, p), <<q, p>>) /\ Stream[<<q, p>>][1] = Heard(q, p)
      /\ FrameGood(made, <<q, p>>, Heard(q, p))
  BY <1>1, <1>4, AfterTaking DEF Together
<1>6. Passed(Stream, Stream', p, some, m, {q})
  BY <1>2, <1>3, <1>5, AnsweredPassed
<1>7. 1 \in 1 .. Len(Stream[<<q, p>>])
  <2>1. Len(Stream[<<q, p>>]) \in Nat \ {0}
    BY <1>3, <1>5, TakenAt
  <2> QED  BY <2>1
<1>8. WordGood(made, <<q, p>>, Heard(q, p))
  BY <1>3, <1>5, <1>7 DEF Together, Listings, WordsGood
<1>9. \A x \in People : room'[x] = IF x = p THEN r ELSE room[x]
  BY <1>1, RoomNow DEF Together
<1> QED  BY <1>5, <1>6, <1>7, <1>8, <1>9

LEMMA RoomStep ==
  ASSUME Together, NEW p \in People, NEW STATE r, NEW STATE some, NEW STATE m, NEW STATE from,
         Passed(Stream, Stream', p, some, m, from),
         \A x \in People : room'[x] = IF x = p THEN r ELSE room[x], made' = made,
         OwnGood(made, p, r), \A x \in some : <<p, x>> \in Ways => WordGood(made, <<p, x>>, m),
         HostSide(Stream', room, made, p, r), MemberSide(Stream', room, made[p], p, r)
  PROVE  Listings(Stream', room', made')
<1>1. Listings(Stream, room, made) /\ WordsGood(Stream, made)
  BY DEF Together, Listings
<1>2. WordsGood(Stream', made)
  BY <1>1, WordsPassed
<1>3. GrowsAt(made, made, room, room', p, r)
  BY DEF GrowsAt
<1>4. Listings(Stream', room', made)
  BY <1>1, <1>2, <1>3, ListingsStep
<1> QED  BY <1>4

LEMMA PlainStep ==
  ASSUME Together, NEW p \in People, NEW STATE r, NEW STATE some, NEW STATE m, NEW STATE from,
         Passed(Stream, Stream', p, some, m, from),
         \A x \in People : room'[x] = IF x = p THEN r ELSE room[x], made' = made,
         m.t \notin {"roster", "leave", "join"}, SameList(room[p], r),
         \A x \in from : /\ HostAside(room[p], p, x, Stream[<<x, p>>][1])
                         /\ MemberAside(room[p], x, Stream[<<x, p>>][1])
  PROVE  Listings(Stream', room', made')
<1>0. Listings(Stream, room, made)
  BY DEF Together
<1>1. /\ Under(r, p) <=> Under(room[p], p)
      /\ Under(room[p], p) => r.id = room[p].id /\ r.roster = room[p].roster
      /\ \A x : SeatKept(room[p], r, x)
  BY DEF SameList, Under, SeatKept
<1>2. m.t # "roster" /\ m.t # "leave" /\ m.t # "join"
  OBVIOUS
<1>3. HostSide(Stream', room, made, p, r)
  BY <1>0, <1>1, <1>2, HostSideStays
<1>4. MemberSide(Stream', room, made[p], p, r)
  BY <1>0, <1>1, <1>2, MemberSideStays
<1>5. OwnGood(made, p, r)
  <2>1. OwnGood(made, p, room[p])
    BY <1>0 DEF Listings
  <2> QED  BY <2>1 DEF SameList, OwnGood
<1>6. \A x : WordGood(made, <<p, x>>, m)
  BY <1>2 DEF WordGood
<1> QED  BY <1>3, <1>4, <1>5, <1>6, RoomStep

\* Nothing on its way changes: nobody sends, nothing is taken.
LEMMA NonePassed ==
  ASSUME NEW st, NEW p \in People, NEW m
  PROVE  Passed(st, st, p, {}, m, {})
BY DEF Passed

\* A frame that is no list and no leave can be done without.
LEMMA OthersAside ==
  ASSUME NEW f, f.t \notin {"roster", "leave"}
  PROVE  \A r, p, x : HostAside(r, p, x, f) /\ MemberAside(r, x, f)
<1>1. \A id : f # Leaving(id) /\ ~ Listing(f, id)
  BY DEF Leaving, Listing
<1> QED  BY <1>1 DEF HostAside, MemberAside

\* What says nothing of lists.
LEMMA PlainKinds ==
  /\ \A id : Declining(id).t = "decline"
  /\ \A r : Invite(r).t = "invite" /\ Hello(r).t = "hello"
  /\ \A id, k, n : Line(id, k, n).t = "line"
BY DEF Declining, Invite, Hello, Line

\* Lines said, invitations made and turned down,
LEMMA SaidListings ==
  ASSUME Together, NEW p \in People, Say(p) \/ Decline(p) \/ \E q \in People : InviteTo(p, q)
  PROVE  Listings(Stream', room', made')
<1>1. open' = open /\ live' = live /\ made' = made
  BY DEF Say, Decline, InviteTo
<1>2. ASSUME NEW STATE r, NEW STATE some, NEW STATE m, Becomes(p, r, ToEach(some, m), wire),
             m.t \notin {"roster", "leave", "join"}, SameList(room[p], r)
      PROVE  Listings(Stream', room', made')
  <2>1. /\ Passed(Stream, Stream', p, some, m, {})
        /\ \A x \in People : room'[x] = IF x = p THEN r ELSE room[x]
    BY <1>1, <1>2, SaidStep
  <2> DEFINE from == {}
  <2>2. \A x \in from : /\ HostAside(room[p], p, x, Stream[<<x, p>>][1])
                        /\ MemberAside(room[p], x, Stream[<<x, p>>][1])
    OBVIOUS
  <2>3. Passed(Stream, Stream', p, some, m, from)
    BY <2>1
  <2> HIDE DEF from
  <2> QED  BY <1>1, <1>2, <2>1, <2>2, <2>3, PlainStep
<1>3. room[p] # NoRoom => Shaped(room[p])
  BY OwnRoom DEF Together
<1>4. CASE Say(p)
  <2> DEFINE r == [room[p] EXCEPT !.said = @ + 1]
             m == Line(r.id, r.key, r.said)
  <2>1. Becomes(p, r, ToEach(Targets(r), m), wire) /\ room[p] # NoRoom
    BY <1>4, Zenon DEF Say
  <2>2. /\ r.id = room[p].id /\ r.host = room[p].host /\ r.key = room[p].key
        /\ r.roster = room[p].roster /\ r.bound = room[p].bound /\ r # NoRoom
    <3>1. Shaped(r)
      BY <1>3, <2>1 DEF Shaped, Fields
    <3>2. r # NoRoom
      BY <3>1, ShapedIsRoom
    <3> QED  BY <1>3, <2>1, <3>2 DEF Shaped, Fields
  <2>3. m.t \notin {"roster", "leave", "join"}
    BY PlainKinds
  <2> HIDE DEF r, m
  <2>4. SameList(room[p], r)
    BY <2>1, <2>2 DEF SameList
  <2> QED  BY <1>2, <2>1, <2>3, <2>4
<1>5. CASE Decline(p)
  <2> DEFINE m == Declining(invite[p].id)
             some == {invite[p].from}
  <2>1. Send(p, ToEach(some, m), wire) /\ room' = room
    BY <1>5, Zenon DEF Decline
  <2>2. m.t \notin {"roster", "leave", "join"} /\ SameList(room[p], room[p])
    BY PlainKinds DEF SameList
  <2> HIDE DEF m, some
  <2>3. room' = [room EXCEPT ![p] = room[p]]
    <3>1. room = [x \in People |-> room[x]]
      BY DEF Together, HeardInv, RoomsFit
    <3> QED  BY <2>1, <3>1
  <2>4. Becomes(p, room[p], ToEach(some, m), wire)
    BY <2>1, <2>3 DEF Becomes
  <2> QED  BY <1>2, <2>2, <2>4
<1>6. ASSUME NEW q \in People, InviteTo(p, q)
      PROVE  Listings(Stream', room', made')
  <2> DEFINE r == [room[p] EXCEPT !.invited = @ \cup {q}]
             m == Invite(room[p])
             some == {q}
  <2>1. Becomes(p, r, ToEach(some, m), wire) /\ room[p] # NoRoom
    BY <1>6, Zenon DEF InviteTo, Hosts
  <2>2. /\ r.id = room[p].id /\ r.host = room[p].host /\ r.key = room[p].key
        /\ r.roster = room[p].roster /\ r.bound = room[p].bound /\ r # NoRoom
    <3>1. Shaped(r)
      BY <1>3, <2>1 DEF Shaped, Fields
    <3>2. r # NoRoom
      BY <3>1, ShapedIsRoom
    <3> QED  BY <1>3, <2>1, <3>2 DEF Shaped, Fields
  <2>3. m.t \notin {"roster", "leave", "join"}
    BY PlainKinds
  <2> HIDE DEF r, m, some
  <2>4. SameList(room[p], r)
    BY <2>1, <2>2 DEF SameList
  <2> QED  BY <1>2, <2>1, <2>3, <2>4
<1> QED  BY <1>4, <1>5, <1>6

\* A connection made leaves what is on its way where it was.
LEMMA ConnectedStream ==
  ASSUME HeardInv, Whole, NEW p \in People, NEW q \in People, Connects(p, q)
  PROVE  Stream' = Stream
<1> DEFINE v == <<p, q>>
<1>1. /\ v \in Ways /\ v \notin open
      /\ wire' = [wire EXCEPT ![v] = waiting[v], ![Back(v)] = waiting[Back(v)]]
      /\ waiting' = [waiting EXCEPT ![v] = <<>>, ![Back(v)] = <<>>]
      /\ {p, q} \notin live
  BY DEF Connects, Connect
<1>2. Back(v) = <<q, p>> /\ <<q, p>> \in Ways /\ {q, p} = {p, q} /\ p # q
  BY <1>1, WayEnds DEF Back
<1>3. PICK S : wire \in [Ways -> Seq(S)] /\ waiting \in [Ways -> Seq(S)]
  BY DEF HeardInv, WireGood
<1>4. wire[v] = <<>> /\ wire[<<q, p>>] = <<>>
  BY <1>1, <1>2 DEF Whole
<1>5. ASSUME NEW w \in Ways
      PROVE  /\ wire'[w] = IF w \in {v, <<q, p>>} THEN waiting[w] ELSE wire[w]
             /\ waiting'[w] = IF w \in {v, <<q, p>>} THEN <<>> ELSE waiting[w]
  BY <1>1, <1>2, <1>3
<1>6. ASSUME NEW w \in Ways PROVE wire'[w] \o waiting'[w] = wire[w] \o waiting[w]
  <2>1. CASE w \in {v, <<q, p>>}
    <3>1. wire'[w] = waiting[w] /\ waiting'[w] = <<>> /\ wire[w] = <<>>
      BY <1>4, <1>5, <2>1
    <3>2. waiting[w] \in Seq(S)
      BY <1>3
    <3> QED  BY <3>1, <3>2, ConcatEmptySeq
  <2>2. CASE w \notin {v, <<q, p>>}
    BY <1>5, <2>2
  <2> QED  BY <2>1, <2>2
<1> QED  BY <1>6, StreamPrime DEF Stream

\* invitations that have had their time, and connections made,
LEMMA SilentListings ==
  ASSUME Together, NEW p \in People, NEW q \in People,
         Forget(p) \/ Expire(p, q) \/ Connects(p, q)
  PROVE  Listings(Stream', room', made')
<1> DEFINE none == {}
           m == Declining(1)
<1>1. m.t \notin {"roster", "leave", "join"}
  BY PlainKinds
<1>2. \A x \in none : /\ HostAside(room[p], p, x, Stream[<<x, p>>][1])
                      /\ MemberAside(room[p], x, Stream[<<x, p>>][1])
  OBVIOUS
<1>3. Passed(Stream, Stream, p, none, m, none)
  BY NonePassed
<1> HIDE DEF none, m
<1>4. CASE Connects(p, q)
  <2>1. Stream' = Stream /\ room' = room /\ made' = made
    BY <1>4, ConnectedStream DEF Together, Connects
  <2> QED  BY <2>1 DEF Together
<1>5. CASE Forget(p)
  <2>1. Stream' = Stream /\ room' = room /\ made' = made
    BY <1>5 DEF Forget, linkVars, Stream
  <2> QED  BY <2>1 DEF Together
<1>6. CASE Expire(p, q)
  <2> DEFINE r == [room[p] EXCEPT !.invited = @ \ {q}]
  <2>1. /\ Stream' = Stream /\ room' = [room EXCEPT ![p].invited = @ \ {q}] /\ made' = made
        /\ room[p] # NoRoom
    BY <1>6 DEF Expire, linkVars, Stream, Hosts
  <2>2. room' = [room EXCEPT ![p] = r]
    <3>1. room = [x \in People |-> room[x]]
      BY DEF Together, HeardInv, RoomsFit
    <3> QED  BY <2>1, <3>1
  <2>3. Shaped(room[p])
    BY <2>1, OwnRoom DEF Together
  <2>4. /\ r.id = room[p].id /\ r.host = room[p].host /\ r.key = room[p].key
        /\ r.roster = room[p].roster /\ r.bound = room[p].bound /\ r # NoRoom
    <3>1. Shaped(r)
      BY <2>3 DEF Shaped, Fields
    <3>2. r # NoRoom
      BY <3>1, ShapedIsRoom
    <3> QED  BY <2>3, <3>2 DEF Shaped, Fields
  <2> HIDE DEF r
  <2>5. \A x \in People : room'[x] = IF x = p THEN r ELSE room[x]
    BY <2>2, RoomNow DEF Together
  <2>6. SameList(room[p], r)
    BY <2>1, <2>4 DEF SameList
  <2>7. Passed(Stream, Stream', p, none, m, none)
    BY <1>3, <2>1
  <2> QED  BY <1>1, <1>2, <2>1, <2>5, <2>6, <2>7, PlainStep
<1> QED  BY <1>4, <1>5, <1>6

\* frames that change nothing about a list, or nothing at all,
LEMMA PlainAnswer ==
  ASSUME Together, NEW p \in People, NEW q \in People, NEW kind, Frame(p, q, kind),
         NEW STATE r, NEW STATE some, NEW STATE m,
         Becomes(p, r, ToEach(some, m), Unread(q, p)),
         m.t \notin {"roster", "leave", "join"}, SameList(room[p], r),
         HostAside(room[p], p, q, Heard(q, p)), MemberAside(room[p], q, Heard(q, p)),
         open' = open, live' = live, made' = made
  PROVE  Listings(Stream', room', made')
<1> DEFINE from == {q}
<1>1. /\ Passed(Stream, Stream', p, some, m, from)
      /\ \A x \in People : room'[x] = IF x = p THEN r ELSE room[x]
      /\ Stream[<<q, p>>][1] = Heard(q, p)
  BY AnsweredStep
<1>2. \A x \in from : /\ HostAside(room[p], p, x, Stream[<<x, p>>][1])
                      /\ MemberAside(room[p], x, Stream[<<x, p>>][1])
  BY <1>1
<1> HIDE DEF from
<1> QED  BY <1>1, <1>2, PlainStep

LEMMA IgnoredListings ==
  ASSUME Together, NEW p \in People, NEW q \in People, NEW kind, Frame(p, q, kind),
         Ignored(p, q),
         HostAside(room[p], p, q, Heard(q, p)), MemberAside(room[p], q, Heard(q, p)),
         open' = open, live' = live, made' = made
  PROVE  Listings(Stream', room', made')
<1> DEFINE m == Declining(1)
           some == {}
<1>1. Becomes(p, room[p], ToEach(some, m), Unread(q, p))
  BY NothingSent, Zenon DEF Ignored
<1>2. m.t \notin {"roster", "leave", "join"} /\ SameList(room[p], room[p])
  BY PlainKinds DEF SameList
<1> HIDE DEF m, some
<1> QED  BY <1>1, <1>2, PlainAnswer

\* A host is told no key by itself.
LEMMA HelloElsewhere ==
  ASSUME Together, NEW p \in People, NEW q \in People, Frame(p, q, "hello"),
         1 \in 1 .. Len(Stream[<<q, p>>]), Stream[<<q, p>>][1] = Heard(q, p),
         room[p] # NoRoom, room[p].id = Heard(q, p).id
  PROVE  room[p].host # p
<1>1. <<q, p>> \in Ways /\ Heard(q, p).t = "hello"
  BY FrameWay
<1>2. PICK y \in People \ {p} : Heard(q, p).id \in Made(made, y)
  BY <1>1 DEF Together, Calm, ToldByMembers
<1>3. RoomGood(made, p, room[p])
  BY OwnRoom DEF Together
<1> QED  BY <1>2, <1>3, MadeApart DEF RoomGood

LEMMA HeardListings ==
  ASSUME Together, NEW p \in People, NEW q \in People,
         HearInvite(p, q) \/ HearDecline(p, q) \/ HearLine(p, q) \/ IgnoreLine(p, q)
  PROVE  Listings(Stream', room', made')
<1>1. open' = open /\ live' = live /\ made' = made
  BY DEF HearInvite, HearDecline, HearLine, IgnoreLine
<1>2. room[p] # NoRoom => Shaped(room[p])
  BY OwnRoom DEF Together
<1>3. ASSUME NEW kind \in {"invite", "decline", "line"}, Frame(p, q, kind)
      PROVE  /\ HostAside(room[p], p, q, Heard(q, p)) /\ MemberAside(room[p], q, Heard(q, p))
             /\ Heard(q, p).t = kind
  <2>1. Heard(q, p).t = kind
    BY <1>3, FrameWay
  <2>2. Heard(q, p).t \notin {"roster", "leave"}
    BY <1>3, <2>1
  <2> QED  BY <2>1, <2>2, OthersAside
<1>4. CASE HearInvite(p, q)
  <2> DEFINE f == Heard(q, p)
  <2>1. Frame(p, q, "invite") /\ Becomes(p, room[p], Refusal(p, q, f), Unread(q, p))
    BY <1>4, Zenon DEF HearInvite
  <2>2. \E some : \E id : Refusal(p, q, f) = ToEach(some, Declining(id))
    <3>1. CASE room[p] # NoRoom
      BY <3>1, Zenon DEF Refusal
    <3>2. CASE room[p] = NoRoom /\ invite[p] # NoInvite /\ invite[p].id # f.id
      BY <3>2, Zenon DEF Refusal
    <3>3. CASE room[p] = NoRoom /\ ~ (invite[p] # NoInvite /\ invite[p].id # f.id)
      <4>1. Refusal(p, q, f) = Nothing
        BY <3>3, Zenon DEF Refusal
      <4>2. Nothing = ToEach({}, Declining(1))
        BY NothingSent
      <4> QED  BY <4>1, <4>2
    <3> QED  BY <3>1, <3>2, <3>3
  <2>3. PICK some, id : Refusal(p, q, f) = ToEach(some, Declining(id))
    BY <2>2
  <2> DEFINE m == Declining(id)
  <2>4. Becomes(p, room[p], ToEach(some, m), Unread(q, p))
    BY <2>1, <2>3, Zenon
  <2>5. m.t \notin {"roster", "leave", "join"} /\ SameList(room[p], room[p])
    BY PlainKinds DEF SameList
  <2>6. "invite" \in {"invite", "decline", "line"}
    OBVIOUS
  <2>7. HostAside(room[p], p, q, f) /\ MemberAside(room[p], q, f)
    BY <1>3, <2>1, <2>6
  <2> HIDE DEF m
  <2> QED  BY <1>1, <2>1, <2>4, <2>5, <2>7, PlainAnswer
<1>5. CASE HearDecline(p, q)
  <2>0. Frame(p, q, "decline") /\ "decline" \in {"invite", "decline", "line"}
    BY <1>5 DEF HearDecline
  <2>1. HostAside(room[p], p, q, Heard(q, p)) /\ MemberAside(room[p], q, Heard(q, p))
    BY <1>3, <2>0
  <2>2. CASE Ignored(p, q)
    BY <1>1, <2>0, <2>1, <2>2, IgnoredListings
  <2>3. CASE ~ Ignored(p, q)
    <3> DEFINE r == [room[p] EXCEPT !.invited = @ \ {q}]
               m == Declining(1)
               some == {}
    <3>1. room[p] # NoRoom /\ Becomes(p, r, Nothing, Unread(q, p))
      BY <1>5, <2>3, Zenon DEF HearDecline, In
    <3>2. /\ r.id = room[p].id /\ r.host = room[p].host /\ r.key = room[p].key
          /\ r.roster = room[p].roster /\ r.bound = room[p].bound /\ r # NoRoom
      <4>1. Shaped(r)
        BY <1>2, <3>1 DEF Shaped, Fields
      <4>2. r # NoRoom
        BY <4>1, ShapedIsRoom
      <4> QED  BY <1>2, <3>1, <4>2 DEF Shaped, Fields
    <3>3. Becomes(p, r, ToEach(some, m), Unread(q, p))
      BY <3>1, NothingSent, Zenon
    <3>4. m.t \notin {"roster", "leave", "join"}
      BY PlainKinds
    <3> HIDE DEF r, m, some
    <3>5. SameList(room[p], r)
      BY <3>1, <3>2 DEF SameList
    <3> QED  BY <1>1, <2>0, <2>1, <3>3, <3>4, <3>5, PlainAnswer
  <2> QED  BY <2>2, <2>3
<1>6. CASE IgnoreLine(p, q)
  <2>0. Frame(p, q, "line") /\ Ignored(p, q) /\ "line" \in {"invite", "decline", "line"}
    BY <1>6, Zenon DEF IgnoreLine
  <2>1. HostAside(room[p], p, q, Heard(q, p)) /\ MemberAside(room[p], q, Heard(q, p))
    BY <1>3, <2>0
  <2> QED  BY <1>1, <2>0, <2>1, IgnoredListings
<1>7. CASE HearLine(p, q)
  <2> DEFINE f == Heard(q, p)
             r == HeardOnce(room[p], f)
             author == IF f.key \in DOMAIN room[p].bound THEN {room[p].bound[f.key]} ELSE {}
             some == Targets(room[p]) \ (author \cup {q})
  <2>0. Frame(p, q, "line") /\ "line" \in {"invite", "decline", "line"}
    BY <1>7 DEF HearLine
  <2>1. room[p] # NoRoom /\ Becomes(p, r, PassOn(room[p], q, f), Unread(q, p))
    BY <1>7, Zenon DEF HearLine, In
  <2>2. PassOn(room[p], q, f) = ToEach(some, f)
    BY Zenon DEF PassOn
  <2>3. /\ r.id = room[p].id /\ r.host = room[p].host /\ r.key = room[p].key
        /\ r.roster = room[p].roster /\ r.bound = room[p].bound /\ r # NoRoom
    <3>1. Shaped(r)
      BY <1>2, <2>1, HeardShape
    <3>2. r # NoRoom
      BY <3>1, ShapedIsRoom
    <3> QED  BY <1>2, <2>1, <3>2 DEF HeardOnce, Shaped, Fields
  <2>4. HostAside(room[p], p, q, f) /\ MemberAside(room[p], q, f) /\ f.t = "line"
    BY <1>3, <2>0
  <2>5. Becomes(p, r, ToEach(some, f), Unread(q, p))
    BY <2>1, <2>2, Zenon
  <2>6. HostAside(room[p], p, q, Heard(q, p)) /\ MemberAside(room[p], q, Heard(q, p))
    BY <2>4
  <2> HIDE DEF r, some, f
  <2>7. SameList(room[p], r) /\ f.t \notin {"roster", "leave", "join"}
    BY <2>1, <2>3, <2>4 DEF SameList
  <2> QED  BY <1>1, <2>0, <2>5, <2>6, <2>7, PlainAnswer
<1> QED  BY <1>4, <1>5, <1>6, <1>7

\* a claim,
LEMMA HelloListings ==
  ASSUME Together, NEW p \in People, NEW q \in People, HearHello(p, q)
  PROVE  Listings(Stream', room', made')
<1>1. Frame(p, q, "hello") /\ open' = open /\ live' = live /\ made' = made
  BY DEF HearHello
<1>2. HostAside(room[p], p, q, Heard(q, p)) /\ MemberAside(room[p], q, Heard(q, p))
  <2>1. Heard(q, p).t = "hello"
    BY <1>1, FrameWay
  <2>2. Heard(q, p).t \notin {"roster", "leave"}
    BY <2>1
  <2> QED  BY <2>2, OthersAside
<1>3. CASE Ignored(p, q)
  BY <1>1, <1>2, <1>3, IgnoredListings
<1>4. CASE ~ Ignored(p, q)
  <2> DEFINE s == [room[p] EXCEPT !.claimed = With(@, q, Heard(q, p).key)]
             r == SettleClaims(s)
             m == Declining(1)
             none == {}
             from == {q}
  <2>1. room[p] # NoRoom /\ room[p].id = Heard(q, p).id /\ Becomes(p, r, Nothing, Unread(q, p))
    BY <1>4, Zenon DEF HearHello, In
  <2>2. Shaped(room[p])
    BY <2>1, OwnRoom DEF Together
  <2>3. /\ Shaped(s) /\ s.id = room[p].id /\ s.host = room[p].host /\ s.key = room[p].key
        /\ s.roster = room[p].roster
    BY <2>2 DEF Shaped, Fields
  <2> HIDE DEF s
  <2>4. /\ r.id = room[p].id /\ r.host = room[p].host /\ r.key = room[p].key
        /\ r.roster = room[p].roster /\ r # NoRoom
    <3>1. Shaped(r)
      BY <2>3, SettleShape
    <3> QED  BY <2>3, <3>1, SettleWho, ShapedIsRoom
  <2>5. Becomes(p, r, ToEach(none, m), Unread(q, p))
    BY <2>1, NothingSent, Zenon
  <2>6. m.t # "roster" /\ m.t # "leave" /\ m.t # "join"
    BY PlainKinds
  <2> HIDE DEF r, m, none
  <2>7. /\ Passed(Stream, Stream', p, none, m, from)
        /\ \A x \in People : room'[x] = IF x = p THEN r ELSE room[x]
        /\ Stream[<<q, p>>][1] = Heard(q, p) /\ 1 \in 1 .. Len(Stream[<<q, p>>])
    BY <1>1, <2>5, AnsweredStep
  <2>8. room[p].host # p
    BY <1>1, <2>1, <2>7, HelloElsewhere
  <2>9. \A x \in from : /\ HostAside(room[p], p, x, Stream[<<x, p>>][1])
                        /\ MemberAside(room[p], x, Stream[<<x, p>>][1])
    BY <1>2, <2>7
  <2> HIDE DEF from
  <2>10. Listings(Stream, room, made)
    BY DEF Together
  <2>11. /\ ~ Under(r, p) /\ ~ Under(room[p], p) /\ \A x : SeatKept(room[p], r, x)
    BY <2>1, <2>4, <2>8 DEF Under, SeatKept
  <2>12. HostSide(Stream', room, made, p, r)
    BY <2>6, <2>7, <2>9, <2>10, <2>11, HostSideStays
  <2>13. MemberSide(Stream', room, made[p], p, r)
    BY <2>6, <2>7, <2>9, <2>10, <2>11, MemberSideStays
  <2>14. OwnGood(made, p, r)
    <3>1. OwnGood(made, p, room[p])
      BY <2>10 DEF Listings
    <3> QED  BY <2>1, <2>4, <2>8, <3>1 DEF OwnGood
  <2>15. \A x : WordGood(made, <<p, x>>, m)
    BY <2>6 DEF WordGood
  <2> QED  BY <1>1, <2>7, <2>12, <2>13, <2>14, <2>15, RoomStep
<1> QED  BY <1>3, <1>4

-----------------------------------------------------------------------------
(***************************************************************************)
(* What changes a list.                                                    *)
(***************************************************************************)

\* A list sent to all on it; what becomes of `who` is shown elsewhere.
LEMMA HostSideRelists ==
  ASSUME NEW st, NEW st2, NEW rm, NEW md, NEW p \in People, NEW some, NEW from, NEW who, NEW r,
         Listings(st, rm, md), Passed(st, st2, p, some, Roster(r), from),
         Under(rm[p], p), Under(r, p), r.id = rm[p].id, OwnGood(md, p, r),
         \A x \in People : x # p /\ x \notin who =>
           \A k : Entry(k, x) \in r.roster <=> Entry(k, x) \in rm[p].roster,
         \A x \in People : x # p /\ x \notin who => \A k : Entry(k, x) \in rm[p].roster =>
           (x \in some /\ <<p, x>> \in open) \/ r.roster = rm[p].roster,
         \A x \in from : x \in who \/ st[<<x, p>>][1].t = "line",
         \A x \in who : <<p, x>> \in Ways =>
           PairGood(st2[<<p, x>>], st2[<<x, p>>], r, rm[x], md[x], p, x)
  PROVE  HostSide(st2, rm, md, p, r)
<1> SUFFICES ASSUME NEW x, <<p, x>> \in Ways, x \notin who
             PROVE  PairGood(st2[<<p, x>>], st2[<<x, p>>], r, rm[x], md[x], p, x)
  BY DEF HostSide
<1>1. /\ x \in People /\ p # x
      /\ \/ st2[<<p, x>>] = st[<<p, x>>]
         \/ MoreOne(st[<<p, x>>], st2[<<p, x>>], Roster(r))
      /\ x \in some /\ <<p, x>> \in open => MoreOne(st[<<p, x>>], st2[<<p, x>>], Roster(r))
      /\ x \in from => LessOne(st[<<x, p>>], st2[<<x, p>>])
      /\ x \notin from => st2[<<x, p>>] = st[<<x, p>>]
  BY PassedPair
<1>2. PairGood(st[<<p, x>>], st[<<x, p>>], rm[p], rm[x], md[x], p, x)
  BY <1>1 DEF Listings
<1>3. \A k : Entry(k, x) \in r.roster <=> Entry(k, x) \in rm[p].roster
  BY <1>1
<1>4. \A k : Entry(k, x) \in rm[p].roster =>
        MoreOne(st[<<p, x>>], st2[<<p, x>>], Roster(r)) \/ r.roster = rm[p].roster
  BY <1>1
<1>5. \/ st2[<<x, p>>] = st[<<x, p>>]
      \/ LessOne(st[<<x, p>>], st2[<<x, p>>]) /\ st[<<x, p>>][1].t = "line"
  BY <1>1
<1>6. rm[x] # NoRoom /\ rm[x].key \in KeysOf(r.roster) => Entry(rm[x].key, x) \in r.roster
  <2>1. rm[x] # NoRoom => rm[x].key \in Made(md, x)
    BY <1>1 DEF Listings, OwnGood
  <2>2. \A k : k \in KeysOf(r.roster) /\ k \in Made(md, x) => Entry(k, x) \in r.roster
    BY <1>1, HostKnows
  <2> QED  BY <2>1, <2>2
<1>7. st2[<<p, x>>] = st[<<p, x>>] \/ MoreOne(st[<<p, x>>], st2[<<p, x>>], Roster(r))
  BY <1>1
<1> QED  BY <1>1, <1>2, <1>3, <1>4, <1>5, <1>6, <1>7, HostRelists

\* The room closed, and everybody on the list told.
LEMMA HostSideCloses ==
  ASSUME NEW st, NEW st2, NEW rm, NEW md, NEW p \in People, NEW some,
         Listings(st, rm, md), Passed(st, st2, p, some, Leaving(rm[p].id), {}), Under(rm[p], p),
         \A x \in People : x # p => \A k : Entry(k, x) \in rm[p].roster =>
           x \in some /\ <<p, x>> \in open
  PROVE  HostSide(st2, rm, md, p, NoRoom)
<1> SUFFICES ASSUME NEW x, <<p, x>> \in Ways
             PROVE  PairGood(st2[<<p, x>>], st2[<<x, p>>], NoRoom, rm[x], md[x], p, x)
  BY DEF HostSide
<1>1. /\ x \in People /\ p # x /\ x \notin {}
      /\ \/ st2[<<p, x>>] = st[<<p, x>>]
         \/ MoreOne(st[<<p, x>>], st2[<<p, x>>], Leaving(rm[p].id))
      /\ x \in some /\ <<p, x>> \in open =>
           MoreOne(st[<<p, x>>], st2[<<p, x>>], Leaving(rm[p].id))
      /\ st2[<<x, p>>] = st[<<x, p>>]
  BY PassedPair
<1>2. PairGood(st[<<p, x>>], st[<<x, p>>], rm[p], rm[x], md[x], p, x)
  BY <1>1 DEF Listings
<1> QED  BY <1>1, <1>2, HostCloses

\* Out of the room of somebody who hears of it, or says so.
LEMMA MemberSideGone ==
  ASSUME NEW st, NEW st2, NEW rm, NEW md, NEW p \in People, NEW some, NEW m, NEW from,
         Listings(st, rm, md), Passed(st, st2, p, some, m, from), m.t # "join",
         \A x \in People : <<p, x>> \in Ways /\ Under(rm[p], x) /\ Under(rm[x], x)
                             /\ rm[p].id = rm[x].id =>
           \/ Carries(st2[<<p, x>>], Leaving(rm[x].id))
           \/ Carries(st[<<x, p>>], Leaving(rm[x].id))
           \/ /\ rm[p].key \notin KeysOf(rm[x].roster)
              /\ ~ Carries(st[<<p, x>>], JoinFrame(rm[x].id, rm[p].key))
  PROVE  MemberSide(st2, rm, md[p], p, NoRoom)
<1> SUFFICES ASSUME NEW x, <<p, x>> \in Ways
             PROVE  PairGood(st2[<<x, p>>], st2[<<p, x>>], rm[x], NoRoom, md[p], x, p)
  BY DEF MemberSide
<1>1. /\ x \in People /\ p # x /\ <<x, p>> \in Ways
      /\ \/ st2[<<p, x>>] = st[<<p, x>>]
         \/ MoreOne(st[<<p, x>>], st2[<<p, x>>], m)
      /\ \/ st2[<<x, p>>] = st[<<x, p>>]
         \/ LessOne(st[<<x, p>>], st2[<<x, p>>])
  BY PassedPair
<1>2. PairGood(st[<<x, p>>], st[<<p, x>>], rm[x], rm[p], md[p], x, p)
  BY <1>1 DEF Listings
<1>3. Under(rm[p], x) /\ Under(rm[x], x) /\ rm[p].id = rm[x].id =>
        \/ Carries(st2[<<p, x>>], Leaving(rm[x].id))
        \/ Carries(st[<<x, p>>], Leaving(rm[x].id))
        \/ /\ rm[p].key \notin KeysOf(rm[x].roster)
           /\ ~ Carries(st[<<p, x>>], JoinFrame(rm[x].id, rm[p].key))
  BY <1>1
<1>4. x # p /\ (st2[<<p, x>>] = st[<<p, x>>] \/ (MoreOne(st[<<p, x>>], st2[<<p, x>>], m) /\ m.t # "join"))
  BY <1>1
<1> QED  BY SMTT(30), <1>1, <1>2, <1>3, <1>4, MemberGone

\* Who made a room or a key has made something.
LEMMA MadeSome ==
  ASSUME NEW md, NEW x, NEW k, k \in Made(md, x), md[x] \in Nat
  PROVE  md[x] # 0
BY DEF Made

\* A leave said to somebody, by somebody who has a key.
LEMMA LeaveWord ==
  ASSUME NEW md, NEW p, NEW x, NEW id, md[p] # 0, md[x] # 0
  PROVE  WordGood(md, <<p, x>>, Leaving(id))
<1>1. <<p, x>>[1] = p /\ <<p, x>>[2] = x
  OBVIOUS
<1>2. Leaving(id).t = "leave" /\ Leaving(id).id = id
  BY OtherKinds
<1> QED  BY <1>1, <1>2 DEF WordGood

\* somebody reminded of the list,
LEMMA DroppedListings ==
  ASSUME Together, NEW p \in People, NEW q \in People, HearDropped(p, q)
  PROVE  Listings(Stream', room', made')
<1> DEFINE r == [room[p] EXCEPT !.dropped = @ \ {q}]
           m == Roster(room[p])
           some == {q}
           from == {q}
           none == {}
<1>1. /\ Frame(p, q, "line") /\ open' = open /\ live' = live /\ made' = made
      /\ room[p] # NoRoom /\ room[p].host = p /\ Becomes(p, r, ToEach(some, m), Unread(q, p))
  BY Zenon DEF HearDropped, In, Hosts
<1>2. Shaped(room[p])
  BY <1>1, OwnRoom DEF Together
<1>3. /\ r.id = room[p].id /\ r.host = room[p].host /\ r.key = room[p].key
      /\ r.roster = room[p].roster /\ r.bound = room[p].bound /\ r # NoRoom
  <2>1. Shaped(r)
    BY <1>2 DEF Shaped, Fields
  <2>2. r # NoRoom
    BY <2>1, ShapedIsRoom
  <2> QED  BY <1>2, <2>2 DEF Shaped, Fields
<1>4. m = Roster(r) /\ m.t # "join" /\ m.t # "leave"
  BY <1>3 DEF Roster
<1> HIDE DEF r, m, some
<1>5. /\ Passed(Stream, Stream', p, some, m, from)
      /\ \A x \in People : room'[x] = IF x = p THEN r ELSE room[x]
      /\ Stream[<<q, p>>][1] = Heard(q, p)
  BY <1>1, AnsweredStep
<1>6. Heard(q, p).t = "line"
  BY <1>1, FrameWay
<1>7. Listings(Stream, room, made) /\ OwnGood(made, p, room[p])
  BY DEF Together, Listings
<1>8. Under(room[p], p) /\ Under(r, p) /\ SameList(room[p], r) /\ OwnGood(made, p, r)
  BY <1>1, <1>3, <1>7 DEF Under, SameList, OwnGood
<1>9. \A x \in from : Stream[<<x, p>>][1].t = "line"
  BY <1>5, <1>6
<1>10. \A x \in from : MemberAside(room[p], x, Stream[<<x, p>>][1])
  <2>1. Heard(q, p).t \notin {"roster", "leave"}
    BY <1>6
  <2> QED  BY <1>5, <2>1, OthersAside
<1>11. \A x \in none : <<p, x>> \in Ways =>
         PairGood(Stream'[<<p, x>>], Stream'[<<x, p>>], r, room[x], made[x], p, x)
  OBVIOUS
<1> HIDE DEF from, none
<1>12. HostSide(Stream', room, made, p, r)
  BY <1>3, <1>4, <1>5, <1>7, <1>8, <1>9, <1>11, HostSideRelists
<1>13. MemberSide(Stream', room, made[p], p, r)
  <2>1. \A x : SeatKept(room[p], r, x)
    BY <1>1, <1>3 DEF SeatKept
  <2> QED  BY <1>4, <1>5, <1>7, <1>10, <2>1, MemberSideStays
<1>14. \A x : WordGood(made, <<p, x>>, m)
  BY <1>4 DEF WordGood
<1> QED  BY <1>1, <1>5, <1>8, <1>12, <1>13, <1>14, RoomStep

\* a room left,
LEMMA LeftListings ==
  ASSUME Together, NEW p \in People, Leave(p)
  PROVE  Listings(Stream', room', made')
<1> DEFINE told == IF Hosts(p) THEN Targets(room[p]) ELSE {room[p].host}
           m == Leaving(room[p].id)
           none == {}
<1>1. /\ open' = open /\ live' = live /\ made' = made
      /\ room[p] # NoRoom /\ Becomes(p, NoRoom, ToEach(told, m), wire)
  BY Zenon DEF Leave
<1>2. m.t = "leave" /\ \A id, k : m # JoinFrame(id, k)
  BY OtherKinds
<1>3. told = IF room[p].host = p THEN Targets(room[p]) ELSE {room[p].host}
  BY <1>1 DEF Hosts
<1> HIDE DEF told
<1>4. /\ Passed(Stream, Stream', p, told, m, none)
      /\ \A x \in People : room'[x] = IF x = p THEN NoRoom ELSE room[x]
  <2> HIDE DEF m
  <2> QED  BY <1>1, SaidStep
<1>5. Listings(Stream, room, made) /\ OwnGood(made, p, room[p])
  BY DEF Together, Listings
<1>6. /\ Reached(open, p, room[p]) /\ RoomGood(made, p, room[p])
      /\ \A x \in People : made[x] \in Nat
  BY <1>1, OwnRoom DEF Together, Calm, Openly, HeardInv, Plain
<1>7. \A x \in told : <<p, x>> \in Ways => WordGood(made, <<p, x>>, m)
  <2> SUFFICES ASSUME NEW x \in told, <<p, x>> \in Ways PROVE WordGood(made, <<p, x>>, m)
    OBVIOUS
  <2>1. x \in People /\ x # p
    BY WayEnds
  <2>2. made[p] # 0
    BY <1>1, <1>5, <1>6, MadeSome DEF OwnGood
  <2>3. \E k : k \in Made(made, x)
    <3>1. CASE room[p].host = p
      <4>1. PICK k \in DOMAIN room[p].bound : room[p].bound[k] = x
        BY <1>3, <3>1 DEF Targets
      <4> QED  BY <1>1, <1>5, <3>1, <4>1 DEF OwnGood
    <3>2. CASE room[p].host # p
      BY <1>1, <1>3, <1>6, <3>2 DEF RoomGood
    <3> QED  BY <3>1, <3>2
  <2>4. made[x] # 0
    BY <1>6, <2>1, <2>3, MadeSome
  <2> QED  BY <2>2, <2>4, LeaveWord
<1>8. OwnGood(made, p, NoRoom)
  BY DEF OwnGood
<1>9. MemberSide(Stream', room, made[p], p, NoRoom)
  <2>1. ASSUME NEW x \in People, <<p, x>> \in Ways, Under(room[p], x), room[p].id = room[x].id
        PROVE  Carries(Stream'[<<p, x>>], Leaving(room[x].id))
    <3> HIDE DEF m, none
    <3>1. x # p /\ <<p, x>> \in Ways
      BY <2>1, WayEnds
    <3>2. x \in told /\ <<p, x>> \in open
      BY <1>1, <1>3, <1>6, <2>1, <3>1 DEF Under, Reached
    <3>3. MoreOne(Stream[<<p, x>>], Stream'[<<p, x>>], m)
      BY <1>4, <3>1, <3>2, PassedPair
    <3>4. Carries(Stream'[<<p, x>>], m)
      BY <3>3, MoreCarries
    <3> QED  BY <2>1, <3>4 DEF m
  <2>2. m.t # "join"
    BY <1>2
  <2> HIDE DEF m
  <2> QED  BY <1>4, <1>5, <2>1, <2>2, MemberSideGone
<1>10. CASE room[p].host = p
  <2>1. \A x \in People : x # p => \A k : Entry(k, x) \in room[p].roster =>
          x \in told /\ <<p, x>> \in open
    <3> SUFFICES ASSUME NEW x \in People, x # p, NEW k, Entry(k, x) \in room[p].roster
                 PROVE  x \in told /\ <<p, x>> \in open
      OBVIOUS
    <3>1. x \in Targets(room[p])
      BY <1>1, <1>5, <1>10, HostKnows DEF Under
    <3> QED  BY <1>3, <1>6, <1>10, <3>1 DEF Reached
  <2>2. Under(room[p], p)
    BY <1>1, <1>10 DEF Under
  <2>3. HostSide(Stream', room, made, p, NoRoom)
    BY <1>4, <1>5, <2>1, <2>2, HostSideCloses
  <2> HIDE DEF m, none
  <2> QED  BY <1>1, <1>4, <1>7, <1>8, <1>9, <2>3, RoomStep
<1>11. CASE room[p].host # p
  <2>1. ~ Under(room[p], p) /\ ~ Under(NoRoom, p) /\ m.t # "roster"
    BY <1>2, <1>11 DEF Under
  <2>2. \A x \in none : HostAside(room[p], p, x, Stream[<<x, p>>][1])
    OBVIOUS
  <2> HIDE DEF m, none
  <2>3. HostSide(Stream', room, made, p, NoRoom)
    BY <1>4, <1>5, <2>1, <2>2, HostSideStays
  <2> QED  BY <1>1, <1>4, <1>7, <1>8, <1>9, <2>3, RoomStep
<1> QED  BY <1>10, <1>11

\* Who is gone from a host's list, entry by entry.
LEMMA WithoutSays ==
  ASSUME NEW r, NEW q, Shaped(r)
  PROVE  LET s == Without(r, q)
         IN  /\ \A k : k \in DOMAIN s.bound <=> k \in DOMAIN r.bound /\ r.bound[k] # q
             /\ \A k \in DOMAIN s.bound : s.bound[k] = r.bound[k]
             /\ \A e : e \in s.roster <=>
                  /\ e \in r.roster
                  /\ e.key \in DOMAIN r.bound => r.bound[e.key] # q
<1> DEFINE keys == {k \in DOMAIN r.bound : r.bound[k] = q}
           bound == Restricted(r.bound, DOMAIN r.bound \ keys)
           roster == {e \in r.roster : e.key \notin keys}
           s == Without(r, q)
<1>1. s = [r EXCEPT !.bound = Restricted(@, DOMAIN @ \ keys),
                    !.roster = {e \in @ : e.key \notin keys},
                    !.dropped = IF keys = {} THEN @ ELSE @ \cup {q}]
  BY Zenon DEF Without
<1>2. /\ \A k : k \in DOMAIN bound <=> k \in DOMAIN r.bound /\ r.bound[k] # q
      /\ \A k \in DOMAIN bound : bound[k] = r.bound[k]
  BY DEF Restricted
<1>3. \A e : e \in roster <=> e \in r.roster /\ (e.key \in DOMAIN r.bound => r.bound[e.key] # q)
  OBVIOUS
<1> HIDE DEF keys, s
<1>4. s.bound = bound /\ s.roster = roster
  BY <1>1 DEF Shaped, Fields
<1> HIDE DEF bound, roster
<1> QED  BY <1>2, <1>3, <1>4 DEF s

\* somebody gone, or the host,
LEMMA GoneListings ==
  ASSUME Together, NEW p \in People, NEW q \in People, HearLeave(p, q)
  PROVE  Listings(Stream', room', made')
<1> DEFINE f == Heard(q, p)
           from == {q}
<1>1. Frame(p, q, "leave") /\ open' = open /\ live' = live /\ made' = made
  BY DEF HearLeave
<1>2. <<q, p>> \in Ways /\ <<p, q>> \in Ways /\ p # q /\ f.t = "leave"
  BY <1>1, FrameWay
<1>3. Listings(Stream, room, made) /\ OwnGood(made, p, room[p])
  BY DEF Together, Listings
<1>4. ASSUME ~ In(p, f.id) PROVE Listings(Stream', room', made')
  <2>1. Ignored(p, q)
    BY <1>4 DEF HearLeave
  <2>2. room[p] # NoRoom => f # Leaving(room[p].id) /\ ~ Listing(f, room[p].id)
    BY <1>2, <1>4, OtherKinds DEF In
  <2>3. HostAside(room[p], p, q, Heard(q, p)) /\ MemberAside(room[p], q, Heard(q, p))
    BY <2>2 DEF HostAside, MemberAside, Under
  <2> QED  BY <1>1, <2>1, <2>3, IgnoredListings
<1>5. ASSUME In(p, f.id), room[p].host = q PROVE Listings(Stream', room', made')
  <2> DEFINE m == Declining(1)
             none == {}
  <2>1. room[p] # NoRoom /\ room[p].id = f.id
    BY <1>5 DEF In
  <2>2. Becomes(p, NoRoom, Nothing, Unread(q, p))
    BY <1>5, <2>1, Zenon DEF HearLeave, Loses
  <2>3. Becomes(p, NoRoom, ToEach(none, m), Unread(q, p))
    BY <2>2, NothingSent, Zenon
  <2>4. m.t # "roster" /\ m.t # "leave" /\ m.t # "join"
    BY PlainKinds
  <2> HIDE DEF m, none
  <2>5. /\ Passed(Stream, Stream', p, none, m, from)
        /\ \A x \in People : room'[x] = IF x = p THEN NoRoom ELSE room[x]
        /\ Stream[<<q, p>>][1] = f /\ 1 \in 1 .. Len(Stream[<<q, p>>])
        /\ WordGood(made, <<q, p>>, f)
    BY <1>1, <2>3, AnsweredStep
  <2>6. f = Leaving(room[p].id)
    BY <1>2, <2>1, <2>5 DEF WordGood
  <2>7. Carries(Stream[<<q, p>>], Leaving(room[p].id))
    BY <2>5, <2>6 DEF Carries
  <2>8. ~ Under(room[p], p) /\ ~ Under(NoRoom, p)
    BY <1>2, <1>5 DEF Under
  <2>9. \A x \in from : HostAside(room[p], p, x, Stream[<<x, p>>][1])
    BY <2>8 DEF HostAside
  <2>10. \A x \in People : <<p, x>> \in Ways /\ Under(room[p], x) /\ Under(room[x], x)
                             /\ room[p].id = room[x].id =>
           Carries(Stream[<<x, p>>], Leaving(room[x].id))
    BY <1>5, <2>7 DEF Under
  <2> HIDE DEF from, f
  <2>11. HostSide(Stream', room, made, p, NoRoom)
    BY <1>3, <2>4, <2>5, <2>8, <2>9, HostSideStays
  <2>12. MemberSide(Stream', room, made[p], p, NoRoom)
    BY <1>3, <2>4, <2>5, <2>10, MemberSideGone
  <2>13. OwnGood(made, p, NoRoom) /\ \A x : WordGood(made, <<p, x>>, m)
    BY <2>4 DEF OwnGood, WordGood
  <2> QED  BY <1>1, <2>5, <2>11, <2>12, <2>13, RoomStep
<1>6. ASSUME In(p, f.id), room[p].host # q, ~ (room[p].host = p /\ q \in Targets(room[p]))
      PROVE  Listings(Stream', room', made')
  <2>1. room[p] # NoRoom
    BY <1>6 DEF In
  <2>2. Ignored(p, q)
    BY <1>6, <2>1, Zenon DEF HearLeave, Loses, Ignored
  <2>3. HostAside(room[p], p, q, Heard(q, p))
    <3>1. CASE Under(room[p], p)
      <4>1. \A k : Entry(k, q) \in room[p].roster => q \in Targets(room[p])
        BY <1>2, <1>3, <3>1, HostKnows
      <4>2. q \notin Targets(room[p])
        BY <1>6, <3>1 DEF Under
      <4> QED  BY <4>1, <4>2 DEF HostAside
    <3> QED  BY <3>1 DEF HostAside
  <2>4. MemberAside(room[p], q, Heard(q, p))
    BY <1>6 DEF MemberAside, Under
  <2> QED  BY <1>1, <2>2, <2>3, <2>4, IgnoredListings
<1>7. ASSUME In(p, f.id), room[p].host = p, q \in Targets(room[p])
      PROVE  Listings(Stream', room', made')
  <2> DEFINE r == Without(room[p], q)
             m == Roster(r)
             some == Targets(r)
  <2>1. room[p] # NoRoom /\ room[p].id = f.id /\ Under(room[p], p)
    BY <1>7 DEF In, Under
  <2>2. Becomes(p, r, ToEach(some, m), Unread(q, p))
    BY <1>2, <1>7, <2>1, Zenon DEF HearLeave, Loses
  <2>3. Shaped(room[p]) /\ Reached(open, p, room[p])
    BY <2>1, OwnRoom DEF Together, Calm, Openly
  <2>4. /\ r.id = room[p].id /\ r.host = room[p].host /\ r.key = room[p].key /\ r # NoRoom
        /\ some = Targets(room[p]) \ {q}
        /\ \A k : k \in DOMAIN r.bound <=> k \in DOMAIN room[p].bound /\ room[p].bound[k] # q
        /\ \A k \in DOMAIN r.bound : r.bound[k] = room[p].bound[k]
        /\ \A e : e \in r.roster <=>
             /\ e \in room[p].roster
             /\ e.key \in DOMAIN room[p].bound => room[p].bound[e.key] # q
    <3>1. Shaped(r)
      BY <2>3, WithoutShape
    <3>2. r # NoRoom
      BY <3>1, ShapedIsRoom
    <3>3. /\ r.id = room[p].id /\ r.host = room[p].host /\ r.key = room[p].key
          /\ Targets(r) = Targets(room[p]) \ {q}
      BY <2>3, WithoutWho
    <3>4. /\ \A k : k \in DOMAIN r.bound <=> k \in DOMAIN room[p].bound /\ room[p].bound[k] # q
          /\ \A k \in DOMAIN r.bound : r.bound[k] = room[p].bound[k]
          /\ \A e : e \in r.roster <=>
               /\ e \in room[p].roster
               /\ e.key \in DOMAIN room[p].bound => room[p].bound[e.key] # q
      BY <2>3, WithoutSays
    <3> QED  BY <3>2, <3>3, <3>4
  <2>5. m.t = "roster"
    BY OtherKinds
  <2> HIDE DEF r, m, some
  <2>6. /\ Passed(Stream, Stream', p, some, m, from)
        /\ \A x \in People : room'[x] = IF x = p THEN r ELSE room[x]
        /\ Stream[<<q, p>>][1] = f /\ 1 \in 1 .. Len(Stream[<<q, p>>])
        /\ WordGood(made, <<q, p>>, f)
    BY <1>1, <2>2, AnsweredStep
  <2>7. f = Leaving(room[p].id)
    BY <1>2, <2>1, <2>6 DEF WordGood
  <2>8. Under(r, p)
    BY <1>7, <2>4 DEF Under
  <2>9. /\ room[p].key \in Made(made, p)
        /\ \A e \in room[p].roster :
             /\ e = Entry(e.key, e.of) /\ e.of \in People /\ e.key \in Made(made, e.of)
             /\ \/ e.key = room[p].key
                \/ e.key \in DOMAIN room[p].bound /\ room[p].bound[e.key] = e.of
        /\ \A k \in DOMAIN room[p].bound :
             /\ room[p].bound[k] \in People /\ k \in Made(made, room[p].bound[k])
             /\ k \in KeysOf(room[p].roster)
    BY <1>3, <1>7, <2>1 DEF OwnGood
  <2>10. /\ \A k : k \in DOMAIN r.bound <=> k \in DOMAIN room[p].bound /\ room[p].bound[k] # q
         /\ \A k \in DOMAIN r.bound : r.bound[k] = room[p].bound[k]
    BY <2>4
  <2>11. OwnGood(made, p, r)
    <3>1. \A e \in r.roster :
             /\ e = Entry(e.key, e.of) /\ e.of \in People /\ e.key \in Made(made, e.of)
             /\ e.key = r.key \/ (e.key \in DOMAIN r.bound /\ r.bound[e.key] = e.of)
      BY <2>4, <2>9, <2>10
    <3>2. ASSUME NEW k \in DOMAIN r.bound
          PROVE  /\ r.bound[k] \in People /\ k \in Made(made, r.bound[k])
                 /\ k \in KeysOf(r.roster)
      <4>1. PICK e \in room[p].roster : e.key = k
        BY <2>9, <2>10 DEF KeysOf
      <4>2. e \in r.roster
        BY <2>4, <2>10, <4>1
      <4> QED  BY <2>9, <2>10, <4>1, <4>2 DEF KeysOf
    <3>3. r.key \in Made(made, p)
      BY <2>4, <2>9
    <3> QED  BY <3>1, <3>2, <3>3 DEF OwnGood
  <2>12. \A x \in People : x # p /\ x \notin from =>
           \A k : Entry(k, x) \in r.roster <=> Entry(k, x) \in room[p].roster
    <3> SUFFICES ASSUME NEW x \in People, x # p, x # q, NEW k, Entry(k, x) \in room[p].roster
                 PROVE  Entry(k, x) \in r.roster
      BY <2>4
    <3>1. Entry(k, x).key = k /\ Entry(k, x).of = x
      BY DEF Entry
    <3>2. k \in Made(made, x)
      BY <2>9, <3>1
    <3>3. k \in DOMAIN room[p].bound => room[p].bound[k] = x
      BY <2>9, <3>2, MadeApart
    <3> QED  BY <2>4, <3>1, <3>3
  <2>13. \A x \in People : x # p /\ x \notin from => \A k : Entry(k, x) \in room[p].roster =>
           (x \in some /\ <<p, x>> \in open)
    <3> SUFFICES ASSUME NEW x \in People, x # p, x # q, NEW k, Entry(k, x) \in room[p].roster
                 PROVE  x \in some /\ <<p, x>> \in open
      OBVIOUS
    <3>1. x \in Targets(room[p])
      BY <1>3, <2>1, HostKnows
    <3> QED  BY <2>3, <2>4, <3>1 DEF Reached
  <2>14. PairGood(Stream'[<<p, q>>], Stream'[<<q, p>>], r, room[q], made[q], p, q)
    <3>1. Stream'[<<p, q>>] = Stream[<<p, q>>] /\ LessOne(Stream[<<q, p>>], Stream'[<<q, p>>])
      <4>1. q \in from /\ q \notin some
        BY <2>4
      <4> HIDE DEF from
      <4> QED  BY <1>2, <2>6, <4>1, PassedPair
    <3>2. PairGood(Stream[<<p, q>>], Stream[<<q, p>>], room[p], room[q], made[q], p, q)
      BY <1>2, <1>3 DEF Listings
    <3>3. \A j : Entry(j, q) \notin r.roster
      <4>1. \A j : Entry(j, q) \in r.roster => q \in Targets(r)
        BY <1>2, <2>8, <2>11, HostKnows
      <4>2. q \notin Targets(r)
        BY <2>4 DEF some
      <4> QED  BY <4>1, <4>2
    <3>4. Stream[<<q, p>>][1] = Leaving(room[p].id)
      BY <2>6, <2>7
    <3> QED  BY <1>2, <2>1, <2>4, <2>8, <3>1, <3>2, <3>3, <3>4, HostLosesOne
  <2>15. \A x \in from : <<p, x>> \in Ways =>
           PairGood(Stream'[<<p, x>>], Stream'[<<x, p>>], r, room[x], made[x], p, x)
    BY <2>14
  <2>16. \A x \in from : MemberAside(room[p], x, Stream[<<x, p>>][1])
    BY <1>2, <1>7 DEF MemberAside, Under
  <2>17. \A x \in People : x # p => SeatKept(room[p], r, x)
    BY <1>7, <2>1, <2>4 DEF SeatKept
  <2>18. m = Roster(r)
    BY DEF m
  <2> HIDE DEF from
  <2>19. HostSide(Stream', room, made, p, r)
    <3>1. \A x \in from : x \in from \/ Stream[<<x, p>>][1].t = "line"
      OBVIOUS
    <3>2. Passed(Stream, Stream', p, some, Roster(r), from)
      BY <2>6, <2>18
    <3> QED  BY <1>3, <2>1, <2>4, <2>8, <2>11, <2>12, <2>13, <2>15, <3>1, <3>2, HostSideRelists
  <2>20. MemberSide(Stream', room, made[p], p, r)
    <3>1. m.t # "join" /\ m.t # "leave"
      BY <2>5
    <3> QED  BY <1>3, <2>6, <2>16, <2>17, <3>1, MemberSideStays
  <2>21. \A x : WordGood(made, <<p, x>>, m)
    BY <2>5 DEF WordGood
  <2> QED  BY <1>1, <2>6, <2>11, <2>19, <2>20, <2>21, RoomStep
<1> QED  BY <1>2, <1>4, <1>5, <1>6, <1>7

\* a list heard,
LEMMA RosterListings ==
  ASSUME Together, NEW p \in People, NEW q \in People, HearRoster(p, q)
  PROVE  Listings(Stream', room', made')
<1> DEFINE f == Heard(q, p)
           from == {q}
<1>1. Frame(p, q, "roster") /\ open' = open /\ live' = live /\ made' = made
  BY DEF HearRoster
<1>2. <<q, p>> \in Ways /\ <<p, q>> \in Ways /\ p # q /\ f.t = "roster"
  BY <1>1, FrameWay
<1>3. Listings(Stream, room, made) /\ OwnGood(made, p, room[p]) /\ f # Leaving(room[p].id)
  BY <1>2, OtherKinds DEF Together, Listings
<1>4. CASE ~ (In(p, f.id) /\ room[p].host = q)
  <2>1. Ignored(p, q)
    BY <1>4, Zenon DEF HearRoster
  <2>2. HostAside(room[p], p, q, Heard(q, p)) /\ MemberAside(room[p], q, Heard(q, p))
    BY <1>3, <1>4 DEF HostAside, MemberAside, Under, Listing, In
  <2> QED  BY <1>1, <2>1, <2>2, IgnoredListings
<1>5. ASSUME room[p] # NoRoom, room[p].id = f.id, room[p].host = q
      PROVE  ~ Under(room[p], p) /\ Under(room[p], q) /\ Listing(f, room[p].id)
             /\ Shaped(room[p])
  BY <1>2, <1>5, OwnRoom DEF Under, Listing, Together
<1>6. CASE /\ room[p] # NoRoom /\ room[p].id = f.id /\ room[p].host = q
           /\ room[p].key \in KeysOf(room[p].roster) /\ room[p].key \notin KeysOf(f.members)
           /\ Becomes(p, NoRoom, Nothing, Unread(q, p))
  <2> DEFINE m == Declining(1)
             none == {}
             k == room[p].key
             id == room[p].id
  <2>1. Becomes(p, NoRoom, ToEach(none, m), Unread(q, p))
    BY <1>6, NothingSent, Zenon
  <2>2. m.t # "roster" /\ m.t # "leave" /\ m.t # "join"
    BY PlainKinds
  <2> HIDE DEF m, none
  <2>3. /\ Passed(Stream, Stream', p, none, m, from)
        /\ \A x \in People : room'[x] = IF x = p THEN NoRoom ELSE room[x]
        /\ Stream[<<q, p>>][1] = f /\ 1 \in 1 .. Len(Stream[<<q, p>>])
    BY <1>1, <2>1, AnsweredStep
  <2>4. ~ Under(room[p], p) /\ ~ Under(NoRoom, p)
    BY <1>5, <1>6 DEF Under
  <2>5. \A x \in from : HostAside(room[p], p, x, Stream[<<x, p>>][1])
    BY <2>4 DEF HostAside
  <2>6. Lists(room, p, q, id, k) /\ Sits(room, p, q, id)
    BY <1>6 DEF Lists, Sits
  <2>7. GoneFromList(Stream, room) /\ AsksFresh(Stream, room, shown)
    BY DEF Together, HeardInv, Steady
  <2>8. ~ Lists(room, q, q, id, k)
    <3> DEFINE w == <<q, p>>
    <3>1. w \in Ways /\ w[1] = q /\ w[2] = p
      BY <1>2
    <3>2. Omits(Stream[w][1], id, k) /\ 1 \in 1 .. Len(Stream[w])
      BY <1>2, <1>6, <2>3 DEF Omits
    <3> HIDE DEF w, k, id
    <3>3. Lists(room, w[2], w[1], id, k)
      BY <2>6, <3>1
    <3>4. Over(Stream, room, w, id, k, 1)
      BY <2>7, <3>1, <3>2, <3>3 DEF GoneFromList
    <3> QED  BY <3>1, <3>4 DEF Over
  <2>9. ~ Carries(Stream[<<p, q>>], JoinFrame(id, k))
    <3> DEFINE w == <<p, q>>
    <3>1. w \in Ways /\ w[2] = q
      BY <1>2
    <3> HIDE DEF w, k, id
    <3>2. ~ Asked(Stream, q, id, k)
      BY <2>6, <2>7 DEF AsksFresh, Fresh
    <3>3. Asks(JoinFrame(id, k), id, k)
      BY DEF Asks, JoinFrame
    <3>4. ~ Carries(Stream[w], JoinFrame(id, k))
      BY <3>1, <3>2, <3>3 DEF Carries, Asked
    <3> QED  BY <3>4 DEF w
  <2>10. \A x \in People : <<p, x>> \in Ways /\ Under(room[p], x) /\ Under(room[x], x)
                              /\ room[p].id = room[x].id =>
           /\ room[p].key \notin KeysOf(room[x].roster)
           /\ ~ Carries(Stream[<<p, x>>], JoinFrame(room[x].id, room[p].key))
    BY <1>6, <2>8, <2>9 DEF Under, Lists, Sits
  <2> HIDE DEF from, f
  <2>11. HostSide(Stream', room, made, p, NoRoom)
    BY <1>3, <2>2, <2>3, <2>4, <2>5, HostSideStays
  <2>12. MemberSide(Stream', room, made[p], p, NoRoom)
    BY <1>3, <2>2, <2>3, <2>10, MemberSideGone
  <2>13. OwnGood(made, p, NoRoom) /\ \A x : WordGood(made, <<p, x>>, m)
    BY <2>2 DEF OwnGood, WordGood
  <2> QED  BY <1>1, <2>3, <2>11, <2>12, <2>13, RoomStep
<1>7. CASE /\ room[p] # NoRoom /\ room[p].id = f.id /\ room[p].host = q
           /\ LET now == Listed(p, room[p], f.members)
              IN  Becomes(p, now, ToEach(now.greeted \ room[p].greeted, Hello(room[p])), Unread(q, p))
  <2> DEFINE r == Listed(p, room[p], f.members)
             m == Hello(room[p])
             some == r.greeted \ room[p].greeted
  <2>1. Becomes(p, r, ToEach(some, m), Unread(q, p))
    BY <1>7
  <2>2. /\ r.id = room[p].id /\ r.host = room[p].host /\ r.key = room[p].key
        /\ r.roster = f.members /\ r # NoRoom
    <3>1. Shaped(r)
      BY <1>5, <1>7, ListedShape
    <3>2. r # NoRoom
      BY <3>1, ShapedIsRoom
    <3>3. /\ r.id = room[p].id /\ r.host = room[p].host /\ r.key = room[p].key
          /\ r.roster = f.members
      BY <1>5, <1>7, ListedWho
    <3> QED  BY <3>2, <3>3
  <2>3. q \notin some
    <3>1. \A x \in some : x # room[p].host
      BY <1>5, <1>7, ListedWho
    <3> QED  BY <1>7, <3>1
  <2>4. m.t # "roster" /\ m.t # "leave" /\ m.t # "join"
    BY PlainKinds
  <2> HIDE DEF r, m, some
  <2>5. /\ Passed(Stream, Stream', p, some, m, from)
        /\ \A x \in People : room'[x] = IF x = p THEN r ELSE room[x]
        /\ Stream[<<q, p>>][1] = f
    BY <1>1, <2>1, AnsweredStep
  <2>6. ~ Under(room[p], p) /\ ~ Under(r, p) /\ Under(r, q)
    BY <1>5, <1>7, <2>2 DEF Under
  <2>7. \A x \in from : HostAside(room[p], p, x, Stream[<<x, p>>][1])
    BY <2>6 DEF HostAside
  <2>8. OwnGood(made, p, r)
    BY <1>3, <1>7, <2>2, <2>6 DEF OwnGood, Under
  <2>9. \A x : WordGood(made, <<p, x>>, m)
    BY <2>4 DEF WordGood
  <2>10. MemberSide(Stream', room, made[p], p, r)
    <3> SUFFICES ASSUME NEW x, <<p, x>> \in Ways
                 PROVE  PairGood(Stream'[<<x, p>>], Stream'[<<p, x>>], room[x], r, made[p], x, p)
      BY DEF MemberSide
    <3> DEFINE d == <<x, p>>
               u == <<p, x>>
    <3> HIDE DEF from
    <3>1. /\ x \in People /\ p # x /\ d \in Ways /\ u \in Ways
          /\ Stream'[u] = Stream[u] \/ (x \in some /\ MoreOne(Stream[u], Stream'[u], m))
          /\ x \in from => LessOne(Stream[d], Stream'[d])
          /\ x \notin from => Stream'[d] = Stream[d]
      BY <2>5, PassedPair
    <3> USE DEF from
    <3>2. PairGood(Stream[d], Stream[u], room[x], room[p], made[p], x, p)
      BY <1>3, <3>1 DEF Listings
    <3>3. CASE x = q
      <4>1. Stream'[u] = Stream[u] /\ LessOne(Stream[d], Stream'[d]) /\ Stream[d][1] = f
        BY <2>3, <2>5, <3>1, <3>3
      <4>2. /\ Under(room[p], x) /\ Under(r, x) /\ Listing(Stream[d][1], room[p].id)
            /\ r.roster = Stream[d][1].members
        BY <1>5, <1>7, <2>2, <2>6, <3>3, <4>1
      <4> HIDE DEF d, u, from, f
      <4>3. PairGood(Stream'[d], Stream[u], room[x], r, made[p], x, p)
        BY <2>2, <3>1, <3>2, <4>1, <4>2, MemberLists
      <4> QED  BY <4>1, <4>3 DEF d, u
    <3>4. CASE x # q
      <4>1. Stream'[d] = Stream[d]
        BY <3>1, <3>4
      <4>2. SeatKept(room[p], r, x)
        BY <1>7, <2>2, <3>4 DEF SeatKept
      <4> HIDE DEF d, u, from, f
      <4>3. PairGood(Stream'[d], Stream'[u], room[x], r, made[p], x, p)
        BY <2>4, <3>1, <3>2, <4>1, <4>2, MemberStays
      <4> QED  BY <4>3 DEF d, u
    <3> QED  BY <3>3, <3>4
  <2> HIDE DEF from, f
  <2>11. HostSide(Stream', room, made, p, r)
    BY <1>3, <2>4, <2>5, <2>6, <2>7, HostSideStays
  <2> QED  BY <1>1, <2>5, <2>8, <2>9, <2>10, <2>11, RoomStep
<1>8. \/ ~ (In(p, f.id) /\ room[p].host = q)
      \/ /\ room[p] # NoRoom /\ room[p].id = f.id /\ room[p].host = q
         /\ \/ /\ room[p].key \in KeysOf(room[p].roster) /\ room[p].key \notin KeysOf(f.members)
               /\ Becomes(p, NoRoom, Nothing, Unread(q, p))
            \/ LET now == Listed(p, room[p], f.members)
               IN  Becomes(p, now, ToEach(now.greeted \ room[p].greeted, Hello(room[p])), Unread(q, p))
  BY Zenon DEF HearRoster, In
<1> QED  BY <1>4, <1>6, <1>7, <1>8

\* The key of somebody who has made one thing.
LEMMA OnlyKey ==
  ASSUME NEW md, NEW x, NEW k, k \in Made(md, x), md[x] = 1
  PROVE  k = <<x, 0>>
BY DEF Made

\* With somebody taken in, the list is still of those the host knows.
LEMMA TakesInOwn ==
  ASSUME NEW md, NEW p \in People, NEW q \in People, NEW r, NEW r2, NEW k,
         OwnGood(md, p, r), Under(r, p), Under(r2, p), r2.key = r.key,
         k \in Made(md, q), k \notin KeysOf(r.roster),
         r2.roster = r.roster \cup {Entry(k, q)}, r2.bound = With(r.bound, k, q)
  PROVE  /\ OwnGood(md, p, r2) /\ Targets(r) \subseteq Targets(r2) /\ q \in Targets(r2)
         /\ Targets(r2) \subseteq Targets(r) \cup {q}
<1>1. /\ DOMAIN r2.bound = DOMAIN r.bound \cup {k} /\ r2.bound[k] = q
      /\ \A j \in DOMAIN r.bound : j # k => r2.bound[j] = r.bound[j]
  BY DEF With
<1>2. Entry(k, q).key = k /\ Entry(k, q).of = q
  BY DEF Entry
<1>3. /\ r.key \in Made(md, p)
      /\ \A e \in r.roster : /\ e = Entry(e.key, e.of) /\ e.of \in People
                             /\ e.key \in Made(md, e.of)
                             /\ e.key = r.key \/ (e.key \in DOMAIN r.bound /\ r.bound[e.key] = e.of)
      /\ \A j \in DOMAIN r.bound : /\ r.bound[j] \in People /\ j \in Made(md, r.bound[j])
                                   /\ j \in KeysOf(r.roster)
  BY DEF OwnGood, Under
<1>4. \A e \in r.roster : e.key # k
  BY DEF KeysOf
<1>5. \A j \in DOMAIN r.bound : j # k
  BY <1>3
<1>6. KeysOf(r2.roster) = KeysOf(r.roster) \cup {k}
  BY <1>2 DEF KeysOf
<1>7. ASSUME NEW e \in r2.roster
      PROVE  /\ e = Entry(e.key, e.of) /\ e.of \in People /\ e.key \in Made(md, e.of)
             /\ e.key = r2.key \/ (e.key \in DOMAIN r2.bound /\ r2.bound[e.key] = e.of)
  <2>1. CASE e = Entry(k, q)
    BY <1>1, <1>2, <2>1
  <2>2. CASE e \in r.roster
    BY <1>1, <1>3, <1>4, <2>2
  <2> QED  BY <2>1, <2>2
<1>8. ASSUME NEW j \in DOMAIN r2.bound
      PROVE  /\ r2.bound[j] \in People /\ j \in Made(md, r2.bound[j])
             /\ j \in KeysOf(r2.roster)
  <2>1. CASE j = k
    BY <1>1, <1>6, <2>1
  <2>2. CASE j # k
    BY <1>1, <1>3, <1>6, <2>2
  <2> QED  BY <2>1, <2>2
<1>9. OwnGood(md, p, r2)
  BY <1>3, <1>7, <1>8 DEF OwnGood
<1>10. Targets(r) \subseteq Targets(r2) /\ q \in Targets(r2)
  BY <1>1, <1>5 DEF Targets
<1>11. Targets(r2) \subseteq Targets(r) \cup {q}
  BY <1>1, <1>5 DEF Targets
<1> QED  BY <1>9, <1>10, <1>11

\* somebody who asks to be let in.
LEMMA JoinHeardListings ==
  ASSUME Together, NEW p \in People, NEW q \in People, HearJoin(p, q)
  PROVE  Listings(Stream', room', made')
<1> DEFINE f == Heard(q, p)
           r == room[p]
           asked == [r EXCEPT !.invited = @ \ {q}]
           in == [asked EXCEPT !.roster = @ \cup {Entry(f.key, q)},
                               !.bound = With(@, f.key, q)]
           from == {q}
<1>1. Frame(p, q, "join") /\ open' = open /\ live' = live /\ made' = made /\ <<p, q>> \in open
  BY DEF HearJoin, Frame
<1>2. <<q, p>> \in Ways /\ <<p, q>> \in Ways /\ p # q /\ f.t = "join"
  BY <1>1, FrameWay
<1>3. \A s, x : HostAside(s, p, x, f) /\ MemberAside(s, x, f)
  <2>1. f.t \notin {"roster", "leave"}
    BY <1>2
  <2> HIDE DEF f
  <2> QED  BY <2>1, OthersAside
<1>4. CASE Ignored(p, q)
  BY <1>1, <1>3, <1>4, IgnoredListings
<1>5. /\ Listings(Stream, room, made) /\ OwnGood(made, p, r) /\ OwnGood(made, q, room[q])
      /\ AsksOnce(Stream)
  BY DEF Together, Listings, HeardInv, Steady
<1>6. ASSUME r # NoRoom, r.host = p, f.id = r.id, q \notin Targets(r)
      PROVE  /\ Shaped(r) /\ Reached(open, p, r) /\ Under(r, p)
             /\ \A j : Entry(j, q) \notin r.roster
             /\ asked.id = r.id /\ asked.host = p /\ asked.key = r.key /\ asked # NoRoom
             /\ asked.bound = r.bound /\ asked.roster = r.roster
  <2>1. Shaped(r) /\ Reached(open, p, r) /\ Under(r, p)
    BY <1>6, OwnRoom DEF Together, Calm, Openly, Under
  <2>2. \A j : Entry(j, q) \notin r.roster
    <3> HIDE DEF r
    <3> QED  BY <1>2, <1>5, <1>6, <2>1, HostKnows
  <2>3. Shaped(asked)
    BY <2>1 DEF Shaped, Fields
  <2>4. asked # NoRoom
    BY <2>3, ShapedIsRoom
  <2> QED  BY <1>6, <2>1, <2>2, <2>4 DEF Shaped, Fields
<1>7. ASSUME FrameGood(made, <<q, p>>, f), WordGood(made, <<q, p>>, f)
      PROVE  /\ f.key \in Made(made, q) /\ f = JoinFrame(f.id, f.key)
             /\ made[q] # 0 /\ (made[q] = 1 => f.key = <<q, 0>>)
  <2>1. <<q, p>>[1] = q
    OBVIOUS
  <2> HIDE DEF f
  <2>2. f.key \in Made(made, q) /\ f = JoinFrame(f.id, f.key)
    BY <1>2, <1>7, <2>1 DEF FrameGood, WordGood
  <2>3. made[q] \in Nat
    BY DEF Together, HeardInv, Plain
  <2> QED  BY <2>2, <2>3, MadeSome, OnlyKey
<1>8. CASE /\ r # NoRoom /\ r.host = p /\ f.id = r.id /\ q \notin Targets(r)
           /\ Becomes(p, asked, ToEach({q}, Leaving(f.id)), Unread(q, p))
  <2> DEFINE m == Leaving(f.id)
             some == {q}
             now == asked
  <2>1. Becomes(p, now, ToEach(some, m), Unread(q, p))
    BY <1>8
  <2>2. m = Leaving(r.id) /\ m.t # "roster" /\ m.t # "join"
    BY <1>8, OtherKinds
  <2> HIDE DEF now, m, some
  <2>3. /\ Passed(Stream, Stream', p, some, m, from)
        /\ \A x \in People : room'[x] = IF x = p THEN now ELSE room[x]
        /\ Stream[<<q, p>>][1] = f
        /\ FrameGood(made, <<q, p>>, f) /\ WordGood(made, <<q, p>>, f)
    BY <1>1, <2>1, AnsweredStep
  <2>4. /\ now.id = r.id /\ now.host = p /\ now.key = r.key /\ now # NoRoom
        /\ now.bound = r.bound /\ now.roster = r.roster
        /\ Under(now, p) /\ Under(r, p) /\ SameList(r, now)
    BY <1>6, <1>8 DEF now, Under, SameList
  <2>5. OwnGood(made, p, now)
    BY <1>5, <2>4 DEF SameList, OwnGood
  <2>6. /\ f.key \in Made(made, q) /\ f = JoinFrame(r.id, f.key)
        /\ made[q] # 0 /\ (made[q] = 1 => f.key = <<q, 0>>)
    BY <1>7, <1>8, <2>3
  <2>7. \A x \in some : WordGood(made, <<p, x>>, m)
    <3>1. made[p] # 0
      <4>1. r.key \in Made(made, p) /\ made[p] \in Nat
        BY <1>5, <1>8 DEF OwnGood, Together, HeardInv, Plain
      <4> QED  BY <4>1, MadeSome
    <3> QED  BY <2>6, <3>1, LeaveWord DEF some, m
  <2>8. HostSide(Stream', room, made, p, now)
    <3> SUFFICES ASSUME NEW x, <<p, x>> \in Ways
                 PROVE  PairGood(Stream'[<<p, x>>], Stream'[<<x, p>>], now, room[x], made[x], p, x)
      BY DEF HostSide
    <3> DEFINE d == <<p, x>>
               u == <<x, p>>
    <3> HIDE DEF from
    <3>1. /\ x \in People /\ p # x /\ d \in Ways /\ u \in Ways
          /\ Stream'[d] = Stream[d] \/ (x \in some /\ MoreOne(Stream[d], Stream'[d], m))
          /\ x \in some /\ d \in open => MoreOne(Stream[d], Stream'[d], m)
          /\ x \in from => LessOne(Stream[u], Stream'[u])
          /\ x \notin from => Stream'[u] = Stream[u]
      BY <2>3, PassedPair
    <3> USE DEF from
    <3>2. PairGood(Stream[d], Stream[u], r, room[x], made[x], p, x)
      BY <1>5, <3>1 DEF Listings
    <3>3. CASE x = q
      <4>1. MoreOne(Stream[d], Stream'[d], Leaving(r.id)) /\ LessOne(Stream[u], Stream'[u])
        BY <1>1, <2>2, <3>1, <3>3 DEF some
      <4>2. Stream[u][1] = JoinFrame(r.id, f.key) /\ (made[x] = 1 => f.key = <<x, 0>>)
        BY <2>3, <2>6, <3>3
      <4>3. \A j : Entry(j, x) \notin r.roster
        BY <1>6, <1>8, <3>3
      <4> HIDE DEF d, u, r
      <4>4. \A i, j \in 1 .. Len(Stream[u]) :
              Asks(Stream[u][i], r.id, f.key) /\ Asks(Stream[u][j], r.id, f.key) => i = j
        BY <1>5, <3>1 DEF AsksOnce
      <4> HIDE DEF f
      <4>5. PairGood(Stream'[d], Stream'[u], now, room[x], made[x], p, x)
        BY <2>4, <3>1, <3>2, <4>1, <4>2, <4>3, <4>4, HostRefuses
      <4> QED  BY <4>5 DEF d, u
    <3>4. CASE x # q
      <4>1. Stream'[d] = Stream[d] /\ Stream'[u] = Stream[u]
        BY <3>1, <3>4 DEF some
      <4> HIDE DEF d, u, r
      <4>2. PairGood(Stream'[d], Stream'[u], now, room[x], made[x], p, x)
        BY <2>4, <3>1, <3>2, <4>1, HostStays
      <4> QED  BY <4>2 DEF d, u
    <3> QED  BY <3>3, <3>4
  <2>9. MemberSide(Stream', room, made[p], p, now)
    <3>1. \A x : SeatKept(room[p], now, x)
      BY <2>4 DEF SeatKept, Under
    <3>2. \A x \in from : MemberAside(room[p], x, Stream[<<x, p>>][1])
      BY <1>3, <2>3
    <3>3. room[p].host = p
      BY <1>8
    <3> HIDE DEF from
    <3> QED  BY <1>5, <2>2, <2>3, <3>1, <3>2, <3>3, MemberSideStays
  <2> HIDE DEF from
  <2> QED  BY <1>1, <2>3, <2>5, <2>7, <2>8, <2>9, RoomStep
<1>9. CASE /\ r # NoRoom /\ r.host = p /\ f.id = r.id /\ q \notin Targets(r)
           /\ f.key \notin KeysOf(r.roster)
           /\ Becomes(p, in, ToEach(Targets(in), Roster(in)), Unread(q, p))
  <2> DEFINE now == in
             m == Roster(now)
             some == Targets(now)
             k == f.key
  <2>1. Becomes(p, now, ToEach(some, m), Unread(q, p))
    BY <1>9
  <2>2. m.t # "leave" /\ m.t # "join"
    BY OtherKinds
  <2>3. /\ now.id = r.id /\ now.host = p /\ now.key = r.key /\ now # NoRoom
        /\ now.roster = r.roster \cup {Entry(k, q)} /\ now.bound = With(r.bound, k, q)
    <3>1. Shaped(r)
      BY <1>6, <1>9
    <3>2. Shaped(now)
      BY <3>1 DEF Shaped, Fields
    <3>3. now # NoRoom
      BY <3>2, ShapedIsRoom
    <3> QED  BY <1>9, <3>1, <3>3 DEF Shaped, Fields
  <2> HIDE DEF now, m, some
  <2>4. /\ Passed(Stream, Stream', p, some, m, from)
        /\ \A x \in People : room'[x] = IF x = p THEN now ELSE room[x]
        /\ Stream[<<q, p>>][1] = f
        /\ FrameGood(made, <<q, p>>, f) /\ WordGood(made, <<q, p>>, f)
    BY <1>1, <2>1, AnsweredStep
  <2>5. k \in Made(made, q) /\ f = JoinFrame(r.id, k)
    BY <1>7, <1>9, <2>4
  <2>6. Under(now, p) /\ Under(r, p) /\ Reached(open, p, r) /\ \A j : Entry(j, q) \notin r.roster
    BY <1>6, <1>9, <2>3 DEF Under
  <2>7. OwnGood(made, p, now) /\ Targets(r) \subseteq some /\ q \in some
    <3>1. k \notin KeysOf(r.roster)
      BY <1>9
    <3> HIDE DEF r, k
    <3> QED  BY <1>5, <2>3, <2>5, <2>6, <3>1, TakesInOwn DEF some
  <2>8. \A x : x # q => \A j : Entry(j, x) \in now.roster <=> Entry(j, x) \in r.roster
    <3>1. \A x, j : Entry(j, x).of = x
      BY DEF Entry
    <3> QED  BY <2>3, <3>1
  <2>9. \A x \in People : x # p => \A j : Entry(j, x) \in r.roster =>
          x \in some /\ <<p, x>> \in open
    <3> HIDE DEF r
    <3>1. \A x \in People : x # p => \A j : Entry(j, x) \in r.roster => x \in Targets(r)
      BY <1>5, <2>6, HostKnows
    <3> QED  BY <2>6, <2>7, <3>1 DEF Reached
  <2>10. PairGood(Stream'[<<p, q>>], Stream'[<<q, p>>], now, room[q], made[q], p, q)
    <3> DEFINE d == <<p, q>>
               u == <<q, p>>
    <3>1. MoreOne(Stream[d], Stream'[d], m) /\ LessOne(Stream[u], Stream'[u])
      <4>1. q \in from
        OBVIOUS
      <4> HIDE DEF from
      <4> QED  BY <1>1, <1>2, <2>4, <2>7, <4>1, PassedPair
    <3>2. PairGood(Stream[d], Stream[u], r, room[q], made[q], p, q)
      BY <1>2, <1>5 DEF Listings
    <3>3. Stream[u][1] = JoinFrame(r.id, k)
      BY <2>4, <2>5
    <3> HIDE DEF d, u, r, k, f
    <3>4. room[q] # NoRoom /\ room[q].key \in KeysOf(now.roster) => Entry(room[q].key, q) \in now.roster
      <4>1. \A j : j \in KeysOf(now.roster) /\ j \in Made(made, q) => Entry(j, q) \in now.roster
        BY <1>2, <2>6, <2>7, HostKnows
      <4>2. room[q] # NoRoom => room[q].key \in Made(made, q)
        BY <1>5 DEF OwnGood
      <4> QED  BY <4>1, <4>2
    <3>5. PairGood(Stream'[d], Stream'[u], now, room[q], made[q], p, q)
      BY <1>2, <2>3, <2>6, <3>1, <3>2, <3>3, <3>4, HostTakesIn DEF m
    <3> QED  BY <3>5 DEF d, u
  <2>11. HostSide(Stream', room, made, p, now)
    <3> DEFINE who == {q}
    <3>1. \A x \in who : <<p, x>> \in Ways =>
            PairGood(Stream'[<<p, x>>], Stream'[<<x, p>>], now, room[x], made[x], p, x)
      BY <2>10
    <3>2. \A x \in from : x \in who
      OBVIOUS
    <3>3. \A x \in People : x # p /\ x \notin who =>
            \A j : Entry(j, x) \in now.roster <=> Entry(j, x) \in room[p].roster
      BY <2>8
    <3>4. Passed(Stream, Stream', p, some, Roster(now), from)
      BY <2>4 DEF m
    <3>5. now.id = room[p].id /\ Under(room[p], p)
      BY <2>3, <2>6
    <3>6. \A x \in People : x # p /\ x \notin who => \A j : Entry(j, x) \in room[p].roster =>
            x \in some /\ <<p, x>> \in open
      BY <2>9
    <3> HIDE DEF who, from, f, r, k
    <3> QED  BY <1>5, <2>6, <2>7, <3>1, <3>2, <3>3, <3>4, <3>5, <3>6, HostSideRelists
  <2>12. MemberSide(Stream', room, made[p], p, now)
    <3>1. \A x \in People : x # p => SeatKept(room[p], now, x)
      BY <1>9, <2>3 DEF SeatKept
    <3>2. \A x \in from : MemberAside(room[p], x, Stream[<<x, p>>][1])
      BY <1>3, <2>4
    <3> HIDE DEF from
    <3>3. m.t # "join" /\ m.t # "leave"
      BY <2>2 DEF m
    <3> QED  BY <1>5, <2>4, <3>1, <3>2, <3>3, MemberSideStays
  <2>13. \A x : WordGood(made, <<p, x>>, m)
    BY <2>2 DEF m, WordGood
  <2> HIDE DEF from
  <2> QED  BY <1>1, <2>4, <2>7, <2>11, <2>12, <2>13, RoomStep
<1>10. \/ Ignored(p, q)
       \/ /\ r # NoRoom /\ r.host = p /\ f.id = r.id /\ q \notin Targets(r)
          /\ \/ Becomes(p, asked, ToEach({q}, Leaving(f.id)), Unread(q, p))
             \/ /\ f.key \notin KeysOf(r.roster)
                /\ Becomes(p, in, ToEach(Targets(in), Roster(in)), Unread(q, p))
  BY Zenon DEF HearJoin, In, Hosts
<1> QED  BY <1>4, <1>8, <1>9, <1>10

-----------------------------------------------------------------------------
(***************************************************************************)
(* Rooms made and entered.                                                 *)
(***************************************************************************)

\* What is known of a pair.
LEMMA KnownPair ==
  ASSUME Together, NEW h \in People, NEW q \in People, <<h, q>> \in Ways
  PROVE  PairKnown(made, h, q, Stream[<<h, q>>], Stream[<<q, h>>], room[h])
<1> DEFINE d == <<h, q>>
           u == <<q, h>>
<1>1. d \in Ways /\ u \in Ways
  BY BothWays
<1>2. Streams(Stream)
  BY StreamGood DEF Together, HeardInv
<1>3. FramesGood(Stream, made) /\ WordsGood(Stream, made) /\ RoomGood(made, h, room[h])
  BY DEF Together, HeardInv, RoomsGood, Listings
<1> HIDE DEF d, u
<1>4. Len(Stream[d]) \in Nat /\ Len(Stream[u]) \in Nat
  BY <1>1, <1>2, LenNat
<1>5. /\ \A i \in 1 .. Len(Stream[d]) : FrameGood(made, d, Stream[d][i]) /\ WordGood(made, d, Stream[d][i])
      /\ \A i \in 1 .. Len(Stream[u]) : FrameGood(made, u, Stream[u][i]) /\ WordGood(made, u, Stream[u][i])
  BY <1>1, <1>3 DEF FramesGood, WordsGood
<1> QED  BY <1>3, <1>4, <1>5 DEF PairKnown, d, u

\* One more made by p.
LEMMA MadeMore ==
  ASSUME Together, NEW p \in People, made' = [made EXCEPT ![p] = @ + 1]
  PROVE  /\ <<p, made[p]>> \notin AnyMade(made) /\ <<p, made[p]>> \in Made(made', p)
         /\ \A x \in People : Made(made, x) \subseteq Made(made', x)
         /\ \A x \in People : x # p => made'[x] = made[x]
         /\ \A x \in People : made[x] # 0 => made'[x] # 0
         /\ made'[p] = made[p] + 1 /\ \A x \in People : made[x] \in Nat
<1>1. made \in [People -> Nat]
  BY DEF Together, HeardInv, Plain
<1>2. /\ \A x \in People : x # p => made'[x] = made[x]
      /\ made'[p] = made[p] + 1 /\ \A x \in People : made[x] \in Nat
  BY <1>1
<1>3. \A x \in People : made[x] # 0 => made'[x] # 0
  BY <1>2
<1>4. /\ <<p, made[p]>> \notin AnyMade(made) /\ <<p, made[p]>> \in Made(made', p)
      /\ \A x \in People : Made(made, x) \subseteq Made(made', x)
  BY <1>1, NextIsNew
<1> QED  BY <1>2, <1>3, <1>4

\* or made,
LEMMA CreateListings ==
  ASSUME Together, NEW p \in People, Create(p)
  PROVE  Listings(Stream', room', made')
<1> DEFINE fresh == <<p, made[p]>>
           r0 == NewRoom(fresh, p, fresh)
           r == [r0 EXCEPT !.roster = {Entry(fresh, p)}]
           m == Declining(1)
           none == {}
<1>1. /\ room[p] = NoRoom /\ room' = [room EXCEPT ![p] = r]
      /\ made' = [made EXCEPT ![p] = @ + 1] /\ UNCHANGED linkVars
  <2>1. room' = [room EXCEPT ![p] = r]
    BY Zenon DEF Create
  <2> QED  BY <2>1 DEF Create
<1>2. /\ r.id = fresh /\ r.host = p /\ r.key = fresh /\ r.roster = {Entry(fresh, p)}
      /\ r.bound = Empty /\ r # NoRoom
  BY DEF NewRoom, NoRoom
<1> HIDE DEF r, m
<1>3. Stream' = Stream
  BY <1>1 DEF linkVars, Stream
<1>4. Passed(Stream, Stream, p, none, m, none)
  BY NonePassed
<1>5. /\ fresh \notin AnyMade(made) /\ fresh \in Made(made', p)
      /\ \A x \in People : Made(made, x) \subseteq Made(made', x)
      /\ \A x \in People : x # p => made'[x] = made[x]
      /\ \A x \in People : made[x] # 0 => made'[x] # 0
      /\ made'[p] = made[p] + 1 /\ \A x \in People : made[x] \in Nat
  BY <1>1, MadeMore
<1>6. Listings(Stream, room, made) /\ WordsGood(Stream, made)
  BY DEF Together, Listings
<1>7. WordsGood(Stream, made')
  <2>1. \A x \in none : <<p, x>> \in Ways => WordGood(made', <<p, x>>, m)
    OBVIOUS
  <2> HIDE DEF none
  <2> QED  BY <1>4, <1>5, <1>6, <2>1, WordsPassed
<1>8. OwnGood(made', p, r)
  <2>1. \A e \in r.roster : e = Entry(e.key, e.of) /\ e.of = p /\ e.key = r.key
    BY <1>2 DEF Entry
  <2>2. DOMAIN r.bound = {}
    BY <1>2 DEF Empty
  <2> QED  BY <1>2, <1>5, <2>1, <2>2 DEF OwnGood
<1>9. \A x \in People : room'[x] = IF x = p THEN r ELSE room[x]
  BY <1>1, RoomNow DEF Together
<1>10. HostSide(Stream, room, made, p, r)
  <2> SUFFICES ASSUME NEW x, <<p, x>> \in Ways
               PROVE  PairGood(Stream[<<p, x>>], Stream[<<x, p>>], r, room[x], made[x], p, x)
    BY DEF HostSide
  <2> DEFINE d == Stream[<<p, x>>]
             u == Stream[<<x, p>>]
  <2>1. x \in People /\ p # x
    BY WayEnds
  <2>2. PairKnown(made, p, x, d, u, NoRoom)
    BY <1>1, <2>1, KnownPair
  <2>3. PairGood(d, u, NoRoom, room[x], made[x], p, x)
    BY <1>1, <1>6, <2>1 DEF Listings
  <2>4. room[x] # NoRoom => room[x].id \in AnyMade(made)
    <3>1. RoomGood(made, x, room[x])
      BY <2>1 DEF Together, HeardInv, RoomsGood
    <3>2. ContactsOf(x) \cup {x} \subseteq People
      BY <2>1 DEF ContactsOf
    <3> QED  BY <3>1, <3>2 DEF RoomGood, AnyMade
  <2> HIDE DEF fresh, d, u
  <2>5. r.id \notin AnyMade(made) /\ r.roster = {Entry(r.id, p)}
    BY <1>2, <1>5
  <2> QED  BY <2>1, <2>2, <2>3, <2>4, <2>5, HostMakes DEF d, u
<1>11. MemberSide(Stream, room, made'[p], p, r)
  <2> SUFFICES ASSUME NEW x, <<p, x>> \in Ways
               PROVE  PairGood(Stream[<<x, p>>], Stream[<<p, x>>], room[x], r, made[p] + 1, x, p)
    BY <1>5 DEF MemberSide
  <2> DEFINE d == Stream[<<x, p>>]
             u == Stream[<<p, x>>]
  <2>1. x \in People /\ p # x /\ <<x, p>> \in Ways
    BY WayEnds, BothWays
  <2>2. PairKnown(made, x, p, d, u, room[x])
    BY <2>1, KnownPair
  <2>3. r.host = p /\ r.key = <<p, made[p]>> /\ r.key \notin AnyMade(made)
    BY <1>2, <1>5
  <2> HIDE DEF d, u
  <2>4. PairGood(d, u, room[x], r, made[p] + 1, x, p)
    BY <1>5, <2>1, <2>2, <2>3, MemberMakes
  <2> QED  BY <2>4 DEF d, u
<1> HIDE DEF none
<1>12. GrowsAt(made, made', room, room', p, r)
  BY <1>5, <1>9 DEF GrowsAt
<1>13. Listings(Stream, room, made)
  BY <1>6
<1>14. Listings(Stream, room', made')
  BY <1>4, <1>7, <1>8, <1>10, <1>11, <1>12, <1>13, ListingsStep
<1> QED  BY <1>3, <1>14

\* or entered.
LEMMA JoinListings ==
  ASSUME Together, NEW p \in People, Join(p)
  PROVE  Listings(Stream', room', made')
<1> DEFINE old == invite[p]
           r == NewRoom(old.id, old.from, <<p, made[p]>>)
           m == Joining(r)
           some == {old.from}
           none == {}
<1>1. /\ room[p] = NoRoom /\ old # NoInvite
      /\ Becomes(p, r, ToEach({r.host}, m), wire)
      /\ made' = [made EXCEPT ![p] = @ + 1] /\ open' = open /\ live' = live
  BY DEF Join
<1>2. /\ r.host = old.from /\ r.id = old.id /\ r.key = <<p, made[p]>>
      /\ r.roster = {} /\ r # NoRoom
  BY DEF NewRoom, NoRoom
<1>3. old.from # p
  <2>1. old.from \in ContactsOf(p)
    BY <1>1 DEF Together, HeardInv, InvitesGood
  <2>2. <<p, old.from>> \in Ways
    BY <2>1 DEF ContactsOf
  <2> HIDE DEF old
  <2> QED  BY <2>2, WayEnds
<1>4. m = JoinFrame(r.id, r.key) /\ Becomes(p, r, ToEach(some, m), wire)
  BY <1>1, <1>2 DEF Joining, JoinFrame
<1>5. m.t = "join"
  BY <1>4, OtherKinds
<1> HIDE DEF r, m
<1>6. /\ Passed(Stream, Stream', p, some, m, none)
      /\ \A x \in People : room'[x] = IF x = p THEN r ELSE room[x]
  <2> HIDE DEF some
  <2> QED  BY <1>1, <1>4, SaidStep
<1>7. /\ <<p, made[p]>> \notin AnyMade(made) /\ <<p, made[p]>> \in Made(made', p)
      /\ \A x \in People : Made(made, x) \subseteq Made(made', x)
      /\ \A x \in People : x # p => made'[x] = made[x]
      /\ \A x \in People : made[x] # 0 => made'[x] # 0
      /\ made'[p] = made[p] + 1 /\ \A x \in People : made[x] \in Nat
  BY <1>1, MadeMore
<1>8. Listings(Stream, room, made) /\ WordsGood(Stream, made)
  BY DEF Together, Listings
<1>9. \A x \in some : WordGood(made', <<p, x>>, m)
  BY <1>4, <1>5, OtherKinds DEF WordGood
<1>10. WordsGood(Stream', made')
  <2> HIDE DEF some, none
  <2> QED  BY <1>6, <1>7, <1>8, <1>9, WordsPassed
<1>11. OwnGood(made', p, r)
  BY <1>2, <1>3, <1>7 DEF OwnGood
<1>12. HostSide(Stream', room, made, p, r)
  <2>1. ~ Under(room[p], p) /\ ~ Under(r, p)
    BY <1>1, <1>2, <1>3 DEF Under
  <2>2. m.t # "roster" /\ m.t # "leave"
    BY <1>5
  <2>3. \A x \in none : HostAside(room[p], p, x, Stream[<<x, p>>][1])
    OBVIOUS
  <2> HIDE DEF some, none
  <2> QED  BY <1>6, <1>8, <2>1, <2>2, <2>3, HostSideStays
<1>13. MemberSide(Stream', room, made'[p], p, r)
  <2> SUFFICES ASSUME NEW x, <<p, x>> \in Ways
               PROVE  PairGood(Stream'[<<x, p>>], Stream'[<<p, x>>], room[x], r, made[p] + 1, x, p)
    BY <1>7 DEF MemberSide
  <2> DEFINE d == Stream[<<x, p>>]
             u == Stream[<<p, x>>]
             u2 == Stream'[<<p, x>>]
  <2>1. x \in People /\ p # x /\ <<x, p>> \in Ways
    BY WayEnds, BothWays
  <2>2. PairKnown(made, x, p, d, u, room[x])
    BY <2>1, KnownPair
  <2>3. Stream'[<<x, p>>] = d /\ (u2 = u \/ (x \in some /\ MoreOne(u, u2, m)))
    <3>1. x \notin none
      OBVIOUS
    <3> HIDE DEF some, none
    <3> QED  BY <1>6, <3>1, PassedPair
  <2>4. u2 = u \/ (r.host = x /\ MoreOne(u, u2, JoinFrame(r.id, r.key)))
    BY <1>2, <1>4, <2>3
  <2>5. r.key = <<p, made[p]>> /\ r.key \notin AnyMade(made)
    BY <1>2, <1>7
  <2> HIDE DEF d, u, u2
  <2>6. PairGood(d, u2, room[x], r, made[p] + 1, x, p)
    BY <1>2, <1>7, <2>1, <2>2, <2>4, <2>5, MemberEnters
  <2> QED  BY <2>3, <2>6 DEF u2
<1>14. GrowsAt(made, made', room, room', p, r)
  BY <1>6, <1>7 DEF GrowsAt
<1>15. Listings(Stream, room, made) /\ Passed(Stream, Stream', p, some, m, none)
  BY <1>6, <1>8
<1> HIDE DEF some, none
<1> QED  BY <1>10, <1>11, <1>12, <1>13, <1>14, <1>15, ListingsStep

-----------------------------------------------------------------------------
\* The inductive invariant of the theorems on lists.
ListInv == AnswerInv /\ (Unbroken => Listings(Stream, room, made))

LEMMA ListingsPrime ==
  Listings(Stream, room, made)' <=> Listings(Stream', room', made')
BY DEF Listings, OwnGood, WordsGood, WordGood, PairGood, Credible, Current, AsksAfter,
       Newcomer, AsksFirst, Under, Admits, Naming, Names, Carries, EndsAs, Listing,
       JoinFrame, Leaving, KeysOf, Entry, Made

LEMMA ListFirst == Init => ListInv
<1> SUFFICES ASSUME Init PROVE ListInv
  OBVIOUS
<1>1. AnswerInv
  BY AnswerFirst
<1>2. \A x \in People : room[x] = NoRoom
  BY DEF Init
<1>3. \A w \in Ways : Stream[w] = <<>>
  <2>1. wire = [w \in Ways |-> <<>>] /\ waiting = wire
    BY DEF Init, LinksInit
  <2>2. <<>> \o <<>> = <<>>
    BY EmptySeq, ConcatEmptySeq
  <2> QED  BY <2>1, <2>2 DEF Stream
<1>4. \A w \in Ways : Len(Stream[w]) = 0
  BY <1>3
<1>5. 1 .. 0 = {}
  OBVIOUS
<1>6. WordsGood(Stream, made)
  BY <1>4, <1>5 DEF WordsGood
<1>7. \A p \in People : OwnGood(made, p, room[p])
  BY <1>2 DEF OwnGood
<1>8. ASSUME NEW h \in People, NEW q \in People, <<h, q>> \in Ways
      PROVE  PairGood(Stream[<<h, q>>], Stream[<<q, h>>], room[h], room[q], made[q], h, q)
  <2>1. Len(Stream[<<q, h>>]) = 0
    BY <1>4, <1>8, BothWays
  <2>2. ~ Under(room[h], h) /\ ~ Under(room[q], h) /\ room[q] = NoRoom
    BY <1>2 DEF Under
  <2>3. AsksFirst(Stream[<<q, h>>], made[q])
    BY <1>5, <2>1 DEF AsksFirst
  <2>4. AsksAfter(Stream[<<q, h>>], room[q], h, q)
    BY <2>2 DEF AsksAfter
  <2> QED  BY <2>2, <2>3, <2>4 DEF PairGood, Credible, Current, Newcomer, Admits
<1>9. Listings(Stream, room, made)
  BY <1>6, <1>7, <1>8 DEF Listings
<1> QED  BY <1>1, <1>9 DEF ListInv

LEMMA ListKept == ListInv /\ [Next]_vars => ListInv'
<1> SUFFICES ASSUME ListInv, [Next]_vars PROVE ListInv'
  OBVIOUS
<1>1. AnswerInv'
  BY AnswerKept DEF ListInv
<1> SUFFICES ASSUME Unbroken' PROVE Listings(Stream', room', made')
  BY <1>1, ListingsPrime DEF ListInv
<1>2. Counted(budget) /\ Unbroken /\ ~ Strikes("fault")
  BY CountedKept DEF ListInv, AnswerInv
<1>3. Together /\ open \subseteq Ways
  BY <1>2 DEF ListInv, AnswerInv, Together
<1>4. CASE UNCHANGED vars
  <2>1. UNCHANGED linkVars /\ room' = room /\ made' = made
    BY <1>4 DEF vars
  <2>2. Stream' = Stream
    BY <2>1 DEF linkVars, Stream
  <2> QED  BY <1>3, <2>1, <2>2 DEF Together
<1>5. ASSUME NEW p \in People, Types(p) \/ Forget(p) \/ Crash(p)
      PROVE  Listings(Stream', room', made')
  <2>1. CASE Create(p)
    BY <1>3, <2>1, CreateListings
  <2>2. CASE Join(p)
    BY <1>3, <2>2, JoinListings
  <2>3. CASE Decline(p) \/ Say(p) \/ \E q \in People : InviteTo(p, q)
    BY <1>3, <2>3, SaidListings
  <2>4. CASE Leave(p)
    BY <1>3, <2>4, LeftListings
  <2>5. CASE Forget(p)
    BY <1>3, <2>5, SilentListings
  <2>6. CASE Crash(p)
    BY <1>2, <2>6 DEF Crash
  <2> QED  BY <1>5, <2>1, <2>2, <2>3, <2>4, <2>5, <2>6, Zenon DEF Types
<1>6. ASSUME NEW p \in People, NEW q \in People,
             \/ Expire(p, q)
             \/ HearInvite(p, q) \/ HearJoin(p, q) \/ HearDecline(p, q)
             \/ HearLeave(p, q) \/ HearRoster(p, q) \/ HearHello(p, q)
             \/ HearLine(p, q) \/ HearDropped(p, q) \/ IgnoreLine(p, q)
             \/ Connects(p, q) \/ Breaks(p, q) \/ Notice(p, q) \/ LetsGo(p, q)
      PROVE  Listings(Stream', room', made')
  <2>1. CASE Expire(p, q) \/ Connects(p, q)
    BY <1>3, <2>1, SilentListings
  <2>2. CASE HearInvite(p, q) \/ HearDecline(p, q) \/ HearLine(p, q) \/ IgnoreLine(p, q)
    BY <1>3, <2>2, HeardListings
  <2>3. CASE HearJoin(p, q)
    BY <1>3, <2>3, JoinHeardListings
  <2>4. CASE HearLeave(p, q)
    BY <1>3, <2>4, GoneListings
  <2>5. CASE HearRoster(p, q)
    BY <1>3, <2>5, RosterListings
  <2>6. CASE HearHello(p, q)
    BY <1>3, <2>6, HelloListings
  <2>7. CASE HearDropped(p, q)
    BY <1>3, <2>7, DroppedListings
  <2>8. CASE Breaks(p, q) \/ LetsGo(p, q)
    BY <1>2, <2>8 DEF Breaks, LetsGo
  <2>9. CASE Notice(p, q)
    <3>1. <<p, q>> \in open /\ {p, q} \notin live
      BY <2>9 DEF Notice, Ends
    <3>2. <<p, q>> \in Ways /\ Whole
      BY <1>3, <3>1 DEF Together
    <3> QED  BY <3>1, <3>2 DEF Whole
  <2> QED  BY <1>6, <2>1, <2>2, <2>3, <2>4, <2>5, <2>6, <2>7, <2>8, <2>9
<1> QED  BY <1>4, <1>5, <1>6, Zenon DEF Next

\* Once everything has arrived, what was to be heard is known.
LEMMA SettledPair ==
  ASSUME NEW d, NEW u, NEW rh, NEW rq, NEW n, NEW h, NEW q, PairGood(d, u, rh, rq, n, h, q),
         Len(d) = 0, Len(u) = 0
  PROVE  /\ Under(rq, h) /\ rq.key \in KeysOf(rq.roster) => Admits(rh, rq, h, q)
         /\ Admits(rh, rq, h, q) => rq.roster = rh.roster
         /\ Under(rh, h) /\ n = 1 /\ Entry(<<q, 0>>, q) \in rh.roster =>
              Under(rq, h) /\ rq.id = rh.id /\ rq.key = <<q, 0>>
<1>1. 1 .. 0 = {}
  OBVIOUS
<1>2. /\ \A x : ~ Carries(d, x) /\ ~ Carries(u, x)
      /\ \A id, old, now : EndsAs(d, id, old, now) => old = now
  BY <1>1 DEF Carries, EndsAs
<1>3. Credible(d, rh, rq, h, q) /\ Current(d, u, rh, rq, h, q) /\ Newcomer(d, u, rh, rq, n, h, q)
  BY DEF PairGood
<1> QED  BY <1>2, <1>3 DEF Credible, Current, Newcomer

LEMMA ListsSettle ==
  ASSUME ListInv, Quiet, Unbroken, NEW h \in People, NEW q \in People, <<h, q>> \in Ways
  PROVE  /\ Under(room[q], h) /\ room[q].key \in KeysOf(room[q].roster) =>
              Admits(room[h], room[q], h, q)
         /\ Admits(room[h], room[q], h, q) => room[q].roster = room[h].roster
         /\ Under(room[h], h) /\ made[q] = 1 /\ Entry(<<q, 0>>, q) \in room[h].roster =>
              Under(room[q], h) /\ room[q].id = room[h].id /\ room[q].key = <<q, 0>>
<1>1. PairGood(Stream[<<h, q>>], Stream[<<q, h>>], room[h], room[q], made[q], h, q)
  BY DEF ListInv, Listings
<1>2. \A w \in Ways : Len(Stream[w]) = 0
  <2> SUFFICES ASSUME NEW w \in Ways PROVE Len(Stream[w]) = 0
    OBVIOUS
  <2>1. Stream[w] = <<>> \o <<>>
    BY DEF Quiet, Stream
  <2>2. Stream[w] = <<>>
    BY <2>1, EmptySeq, ConcatEmptySeq
  <2> QED  BY <2>2
<1>3. Len(Stream[<<h, q>>]) = 0 /\ Len(Stream[<<q, h>>]) = 0
  BY <1>2, BothWays
<1> QED  BY <1>1, <1>3, SettledPair

LEMMA ListSuffices == ListInv => OneList /\ NewcomersAreIn
<1> SUFFICES ASSUME ListInv, Quiet, Unbroken, NEW p \in People, room[p] # NoRoom
             PROVE  /\ room[p].key \in KeysOf(room[p].roster) =>
                         LET h == room[p].host
                         IN  In(h, room[p].id) /\ room[h].roster = room[p].roster
                    /\ Hosts(p) => \A e \in room[p].roster : made[e.of] = 1 =>
                         /\ In(e.of, room[p].id) /\ room[e.of].key = e.key
                         /\ e.key \in KeysOf(room[e.of].roster)
  BY DEF OneList, NewcomersAreIn, Hosts
<1>1. RoomGood(made, p, room[p]) /\ OwnGood(made, p, room[p])
  BY DEF ListInv, AnswerInv, HeardInv, RoomsGood, Listings
<1>2. ASSUME room[p].key \in KeysOf(room[p].roster)
      PROVE  /\ In(room[p].host, room[p].id)
             /\ room[room[p].host].roster = room[p].roster
  <2>1. CASE room[p].host = p
    BY <2>1 DEF In
  <2>2. CASE room[p].host # p
    <3> DEFINE h == room[p].host
    <3>1. h \in ContactsOf(p)
      BY <1>1, <2>2 DEF RoomGood
    <3>2. h \in People /\ <<h, p>> \in Ways
      BY <3>1, BothWays DEF ContactsOf
    <3>3. Under(room[p], h)
      BY DEF Under
    <3> HIDE DEF h
    <3>4. Admits(room[h], room[p], h, p)
      BY <1>2, <3>2, <3>3, ListsSettle
    <3>5. room[p].roster = room[h].roster
      BY <3>2, <3>4, ListsSettle
    <3>6. In(h, room[p].id)
      BY <3>4 DEF Admits, Under, In
    <3> QED  BY <3>5, <3>6 DEF h
  <2> QED  BY <2>1, <2>2
<1>3. ASSUME Hosts(p), NEW e \in room[p].roster, made[e.of] = 1
      PROVE  /\ In(e.of, room[p].id) /\ room[e.of].key = e.key
             /\ e.key \in KeysOf(room[e.of].roster)
  <2>1. /\ room[p].host = p /\ room[p].key \in Made(made, p)
        /\ e = Entry(e.key, e.of) /\ e.of \in People /\ e.key \in Made(made, e.of)
        /\ e.key = room[p].key \/ (e.key \in DOMAIN room[p].bound /\ room[p].bound[e.key] = e.of)
    BY <1>1, <1>3 DEF OwnGood, Hosts
  <2>2. e.key = <<e.of, 0>> /\ e.key \in KeysOf(room[p].roster)
    BY <1>3, <2>1, OnlyKey DEF KeysOf
  <2>3. CASE e.of = p
    <3>1. room[p].key = <<p, 0>>
      BY <1>3, <2>1, <2>3, OnlyKey
    <3> QED  BY <2>2, <2>3, <3>1 DEF In
  <2>4. CASE e.of # p
    <3> DEFINE q == e.of
    <3>1. Entry(<<q, 0>>, q) \in room[p].roster /\ Under(room[p], p)
      BY <1>3, <2>1, <2>2 DEF Under
    <3>2. q \in People /\ q # p /\ made[q] = 1
      BY <1>3, <2>1, <2>4
    <3> HIDE DEF q
    <3>3. q \in Targets(room[p])
      BY <1>1, <3>1, <3>2, HostKnows
    <3>4. Reached(open, p, room[p]) /\ open \subseteq Ways
      BY DEF ListInv, AnswerInv, Calm, Openly
    <3>5. <<p, q>> \in Ways
      BY <3>3, <3>4 DEF Reached
    <3>6. Under(room[q], p) /\ room[q].id = room[p].id /\ room[q].key = <<q, 0>>
      BY <3>1, <3>2, <3>5, ListsSettle
    <3>7. Admits(room[p], room[q], p, q)
      BY <3>1, <3>6 DEF Admits
    <3>8. room[q].roster = room[p].roster
      BY <3>2, <3>5, <3>7, ListsSettle
    <3>9. In(q, room[p].id)
      BY <3>6 DEF In, Under
    <3> QED  BY <2>2, <3>6, <3>8, <3>9 DEF q
  <2> QED  BY <2>3, <2>4
<1> QED  BY <1>2, <1>3

\* Who the host lists is in the room, and they all have that list (room.rs,
\* `joined`, `roster`, `left`, `lost`): while no fault comes between, whoever
\* finds their own key on a list has the one the host has, and somebody listed
\* who has been in no other room is in this one, under that key, and knows it,
\* once everything has arrived; joins, refusals, leavings and comings back in
\* any order.
THEOREM ListsAgree == Spec => []ListedAreIn
<1>1. Spec => []ListInv
  BY ListFirst, ListKept, PTL DEF Spec
<1>2. ListInv => ListedAreIn
  BY ListSuffices DEF ListedAreIn
<1> QED  BY <1>1, <1>2, PTL
=============================================================================
