------------------------------ MODULE CallProofs ------------------------------
(***************************************************************************)
(* Proofs about calls (Call).                                              *)
(*                                                                         *)
(* Whoever rings can be answered.  The inductive invariant says where each *)
(* connection is: whatever the pool, the call or a handshake on its way    *)
(* names is held by that person and is theirs with the one it is for, and  *)
(* in one of those places only; a frame is only on a wire whose reader may *)
(* still take it.                                                          *)
(*                                                                         *)
(* Lines are shown as they were said.  The inductive invariant follows     *)
(* them from one person to another: those shown, then those in hand (rung, *)
(* or kept for the call that answers), then those on the wire, then those  *)
(* held until a dial lands, all below what comes next.  It holds of two    *)
(* who hold one connection at most: with two, a wire overtakes the other.  *)
(*                                                                         *)
(* Nobody goes on talking to nobody.  The inductive invariant adds what    *)
(* the other side of a call knows of it: a line not yet taken, a ring, a   *)
(* call of its own, or a refusal on its way; and what the pool lends.      *)
(***************************************************************************)
EXTENDS Call, Integers, FiniteSetTheorems, SequenceTheorems, TLAPS

-----------------------------------------------------------------------------
(***************************************************************************)
(* Types.                                                                  *)
(***************************************************************************)

Frames == [t : {"text", "hangup", "decline"}, n : Nat]
BothSides == [People -> Seq(Frames)]

PhoneCalls ==
  [state : {"none", "dial", "talk", "over"}, peer : People \cup {Nobody}, conn : Nat,
   first : Seq(Frames), held : Seq(Frames), spoke : BOOLEAN, alive : BOOLEAN]

NetTyped ==
  /\ pair \in Seq(Contacts) /\ holds \subseteq People \X Nat
  /\ wire \in [Conns -> BothSides]
  /\ arriving \in [People -> SUBSET Nat] /\ strangers \in [People -> Nat]

PoolTyped ==
  /\ idle \in [People -> [People -> Nat]]
  /\ lent \in [People -> [to : People \cup {Nobody}, conn : Nat]]
  /\ waiting \in [People -> [People -> Seq({CallDecline})]]

LoopTyped ==
  /\ phone \in [People -> PhoneCalls]
  /\ ringing \in [People -> [peer : People \cup {Nobody}, said : Seq(Frames)]]
  /\ asides \in [People -> Seq([peer : People, conn : Nat])]

LinesTyped ==
  /\ said \in [People -> [People -> Nat]] /\ shown \in [People -> Seq(People \X Nat)]
  /\ budget \in [Kinds -> Nat]

CallTyped == NetTyped /\ PoolTyped /\ LoopTyped /\ LinesTyped

\* Whoever is at the other end of a connection between two.
LEMMA FarIs ==
  ASSUME NEW p, NEW q, p # q, NEW c, pair[c] = {p, q}
  PROVE  Far(p, c) = q
BY DEF Far

LEMMA ContactEnds ==
  ASSUME NEW p, NEW q, {p, q} \in Contacts
  PROVE  p \in People /\ q \in People /\ p # q
BY CallAssumption

LEMMA ConnsNat == NetTyped => Conns = 1 .. Len(pair) /\ Len(pair) \in Nat
BY DEF NetTyped, Conns

\* What is written, and what is not read any more, leaves frames on the wires.
LEMMA WrittenTyped ==
  ASSUME NEW w, w \in [Conns -> BothSides], NEW p \in People, NEW c, NEW frames \in Seq(Frames)
  PROVE  /\ Written(w, p, c, frames) \in [Conns -> BothSides]
         /\ Unheard(w, p, c) \in [Conns -> BothSides]
<1>1. ASSUME NEW x, NEW f \in Seq(Frames)
      PROVE  /\ [w EXCEPT ![c][x] = f] \in [Conns -> BothSides]
             /\ x \in People /\ c \in Conns => w[c][x] \o frames \in Seq(Frames)
  <2>1. CASE c \in Conns
    <3>1. w[c] \in BothSides
      BY <2>1
    <3>2. [w[c] EXCEPT ![x] = f] \in BothSides
      BY <3>1 DEF BothSides
    <3> QED  BY <2>1, <3>1, <3>2 DEF BothSides
  <2>2. CASE c \notin Conns
    BY <2>2
  <2> QED  BY <2>1, <2>2
<1>2. Unheard(w, p, c) \in [Conns -> BothSides]
  <2>1. <<>> \in Seq(Frames)
    OBVIOUS
  <2> QED  BY <1>1, <2>1 DEF Unheard
<1>3. Written(w, p, c, frames) \in [Conns -> BothSides]
  <2>1. CASE c \in Conns
    <3>1. w[c][p] \o frames \in Seq(Frames)
      BY <1>1, <2>1
    <3> QED  BY <1>1, <3>1 DEF Written
  <2>2. CASE c \notin Conns
    BY <2>2 DEF Written
  <2> QED  BY <2>1, <2>2
<1> QED  BY <1>2, <1>3

LEMMA TakenTyped ==
  ASSUME NetTyped, NEW p, NEW c \in Conns, NEW kind, Comes(p, c, kind), Far(p, c) \in People
  PROVE  /\ Taken(p, c) \in [Conns -> BothSides]
         /\ Head(wire[c][Far(p, c)]) \in Frames
<1>1. wire \in [Conns -> BothSides] /\ wire[c][Far(p, c)] \in Seq(Frames)
      /\ wire[c][Far(p, c)] # <<>>
  BY DEF NetTyped, BothSides, Comes
<1>2. Tail(wire[c][Far(p, c)]) \in Seq(Frames) /\ Head(wire[c][Far(p, c)]) \in Frames
  BY <1>1, HeadTailProperties
<1> HIDE DEF Frames
<1> QED  BY <1>1, <1>2 DEF Taken, BothSides

\* A set in some order: each of its members once.
LEMMA InSomeOrder ==
  ASSUME NEW S, IsFiniteSet(S)
  PROVE  /\ SetToSeq(S) \in Seq(S)
         /\ \A i, j \in DOMAIN SetToSeq(S) : SetToSeq(S)[i] = SetToSeq(S)[j] => i = j
         /\ \A x \in S : \E i \in DOMAIN SetToSeq(S) : SetToSeq(S)[i] = x
<1>1. PICK n \in Nat : ExistsBijection(1 .. n, S)
  BY FS_NatBijection
<1>2. Cardinality(S) = n
  BY <1>1, FS_CountingElements
<1>3. \E f \in [1 .. n -> S] : IsInjective(f)
  BY <1>1 DEF ExistsBijection, Bijection, Injection
<1> DEFINE g == SetToSeq(S)
<1>4. g \in [1 .. n -> S] /\ IsInjective(g)
  BY <1>2, <1>3 DEF SetToSeq
<1> HIDE DEF g
<1>5. g \in Seq(S)
  BY <1>4
<1>6. \A i, j \in DOMAIN g : g[i] = g[j] => i = j
  BY <1>4 DEF IsInjective
<1> DEFINE T == {g[i] : i \in 1 .. n}
<1>7. ExistsBijection(1 .. n, T)
  <2>1. g \in [1 .. n -> T] /\ \A t \in T : \E i \in 1 .. n : g[i] = t
    BY <1>4
  <2> QED  BY <1>4, <2>1 DEF ExistsBijection, Bijection, Injection, Surjection
<1>8. Cardinality(T) = n
  BY <1>7, FS_CountingElements
<1>9. T \in SUBSET S
  BY <1>4
<1>10. T = S
  BY <1>2, <1>8, <1>9, FS_Subset
<1>11. \A x \in S : \E i \in DOMAIN g : g[i] = x
  BY <1>4, <1>10
<1> QED  BY <1>5, <1>6, <1>11 DEF g

-----------------------------------------------------------------------------
(***************************************************************************)
(* Where connections are.                                                  *)
(***************************************************************************)

\* A connection that is held is one of its holder's, and each of those the
\* program has a place for is held: in the pool, with the call, on its way.
Placed ==
  /\ \A h \in holds : h[2] \in Conns /\ h[1] \in pair[h[2]]
  /\ \A p, q \in People : idle[p][q] # 0 =>
       /\ pair[idle[p][q]] = {p, q} /\ <<p, idle[p][q]>> \in holds
       /\ idle[p][q] # phone[p].conn /\ idle[p][q] \notin arriving[p]
  /\ \A p \in People : phone[p].conn # 0 =>
       /\ pair[phone[p].conn] = {p, phone[p].peer} /\ <<p, phone[p].conn>> \in holds
       /\ phone[p].conn \notin arriving[p]
  /\ \A p \in People : \A c \in arriving[p] : <<p, c>> \in holds

\* What a call is in each of its states.
Phones ==
  \A p \in People :
    /\ phone[p].state = "none" => phone[p] = NoCall
    /\ phone[p].state # "none" => {p, phone[p].peer} \in Contacts
    /\ phone[p].state = "dial" => phone[p].conn = 0
    /\ phone[p].state = "talk" => phone[p].conn # 0 /\ phone[p].held = <<>>

\* Frames are only on their way to somebody who may still take them.
Readable(w, h) ==
  \A c \in Conns : \A p, q \in People :
    pair[c] = {p, q} /\ p # q /\ w[c][q] # <<>> => <<p, c>> \in h

\* The inductive invariant of the theorem on ringing.
CallInv == CallTyped /\ Placed /\ Phones /\ Readable(wire, holds) /\ RingingIsConnected

LEMMA HeldPlaced ==
  ASSUME Placed, NEW h \in holds
  PROVE  h[2] \in Conns /\ h[1] \in pair[h[2]]
BY DEF Placed

LEMMA IdlePlaced ==
  ASSUME Placed, NEW p \in People, NEW q \in People, idle[p][q] # 0
  PROVE  /\ pair[idle[p][q]] = {p, q} /\ <<p, idle[p][q]>> \in holds
         /\ idle[p][q] # phone[p].conn /\ idle[p][q] \notin arriving[p]
BY DEF Placed

LEMMA CallPlaced ==
  ASSUME Placed, NEW p \in People, phone[p].conn # 0
  PROVE  /\ pair[phone[p].conn] = {p, phone[p].peer} /\ <<p, phone[p].conn>> \in holds
         /\ phone[p].conn \notin arriving[p]
BY DEF Placed

LEMMA ComingPlaced ==
  ASSUME Placed, NEW p \in People, NEW c \in arriving[p]
  PROVE  <<p, c>> \in holds
BY DEF Placed

\* One of each person's entries about each other one.
LEMMA TwoDeep ==
  ASSUME NEW S, NEW f \in [People -> [People -> S]], NEW v \in S, NEW p \in People, NEW q \in People
  PROVE  /\ [f EXCEPT ![p][q] = v] \in [People -> [People -> S]]
         /\ \A x, y \in People : [f EXCEPT ![p][q] = v][x][y] = IF x = p /\ y = q THEN v ELSE f[x][y]
OBVIOUS

LEMMA PairIsContacts == NetTyped => \A c \in Conns : pair[c] \in Contacts
BY DEF NetTyped, Conns

LEMMA WrittenReadable ==
  ASSUME NetTyped, Readable(wire, holds), NEW w \in [Conns -> BothSides], Readable(w, holds),
         NEW p \in People, NEW c, NEW frames
  PROVE  Readable(Written(w, p, c, frames), holds)
<1> SUFFICES ASSUME NEW d \in Conns, NEW x \in People, NEW y \in People, pair[d] = {x, y}, x # y,
                    Written(w, p, c, frames)[d][y] # <<>>, <<x, d>> \notin holds
             PROVE  FALSE
  BY DEF Readable
<1>1. w[d][y] = <<>>
  BY DEF Readable
<1>2. Up(p, c) /\ d = c /\ y = p
  <2>1. Written(w, p, c, frames) = IF Up(p, c) THEN [w EXCEPT ![c][p] = @ \o frames] ELSE w
    BY DEF Written
  <2>2. d # c \/ y # p => [w EXCEPT ![c][p] = @ \o frames][d][y] = w[d][y]
    BY DEF BothSides
  <2> QED  BY <1>1, <2>1, <2>2
<1>3. Far(p, c) = x
  <2>1. pair[c] = {p, x} /\ p # x
    BY <1>2
  <2> QED  BY <2>1, FarIs
<1> QED  BY <1>2, <1>3 DEF Up

LEMMA UnheardReadable ==
  ASSUME NEW w \in [Conns -> BothSides], NEW h, Readable(w, h), NEW p \in People, NEW c
  PROVE  Readable(Unheard(w, p, c), h \ {<<p, c>>})
<1> SUFFICES ASSUME NEW d \in Conns, NEW x \in People, NEW y \in People, pair[d] = {x, y}, x # y,
                    Unheard(w, p, c)[d][y] # <<>>
             PROVE  <<x, d>> \in h \ {<<p, c>>}
  BY DEF Readable
<1>1. d # c \/ y # Far(p, c) => Unheard(w, p, c)[d][y] = w[d][y]
  BY DEF Unheard, BothSides
<1>2. ~ (x = p /\ d = c)
  <2>1. SUFFICES ASSUME x = p, d = c PROVE FALSE
    OBVIOUS
  <2>2. Far(p, c) = y
    BY <2>1, FarIs
  <2>3. Unheard(w, p, c)[d][y] = <<>>
    BY <2>1, <2>2 DEF Unheard, BothSides
  <2> QED  BY <2>3
<1>3. w[d][y] # <<>>
  <2>1. CASE d = c /\ y = Far(p, c)
    <3>1. Unheard(w, p, c)[d][y] = <<>>
      BY <2>1 DEF Unheard, BothSides
    <3> QED  BY <3>1
  <2> QED  BY <1>1, <2>1
<1> QED  BY <1>2, <1>3 DEF Readable

LEMMA TakenReadable ==
  ASSUME NetTyped, Readable(wire, holds), NEW p, NEW c, NEW kind, Comes(p, c, kind)
  PROVE  Readable(Taken(p, c), holds)
<1>1. \A d \in Conns, y \in People : wire[d][y] = <<>> => Taken(p, c)[d][y] = <<>>
  <2> SUFFICES ASSUME NEW d \in Conns, NEW y \in People, wire[d][y] = <<>>
               PROVE  Taken(p, c)[d][y] = <<>>
    OBVIOUS
  <2>1. ~ (d = c /\ y = Far(p, c))
    BY DEF Comes
  <2> QED  BY <2>1 DEF Taken, NetTyped, BothSides
<1> QED  BY <1>1 DEF Readable

-----------------------------------------------------------------------------
(***************************************************************************)
(* Steps that leave the connections where they are.                        *)
(***************************************************************************)

\* What of a step the places depend on.
SamePlaces ==
  /\ pair' = pair /\ holds' = holds /\ idle' = idle /\ arriving' = arriving
  /\ \A p \in People : phone'[p].conn = phone[p].conn /\ phone'[p].peer = phone[p].peer

LEMMA StillPlaced ==
  ASSUME Placed, SamePlaces
  PROVE  Placed'
BY DEF Placed, SamePlaces, Conns

\* A frame on a line, or one that waits.
LEMMA SendsDoes ==
  ASSUME CallTyped, NEW p \in People, NEW q \in People, NEW w \in [Conns -> BothSides],
         Readable(wire, holds), Readable(w, holds), Sends(p, q, CallDecline, w)
  PROVE  /\ wire' \in [Conns -> BothSides] /\ Readable(wire', holds)
         /\ waiting' \in [People -> [People -> Seq({CallDecline})]]
         /\ crossed \subseteq crossed'
         /\ wire' = w \/ \E c : wire' = Written(w, p, c, <<CallDecline>>)
<1>1. CallDecline \in Frames /\ <<CallDecline>> \in Seq(Frames)
  BY DEF CallDecline, Frames
<1>2. NetTyped /\ waiting \in [People -> [People -> Seq({CallDecline})]]
  BY DEF CallTyped, PoolTyped
<1>3. CASE wire' = Written(w, p, Route(p, q), <<CallDecline>>)
           /\ UNCHANGED <<waiting, crossed>>
  BY <1>1, <1>2, <1>3, WrittenTyped, WrittenReadable
<1>4. CASE /\ wire' = w
           /\ waiting' = [waiting EXCEPT ![p][q] =
                            IF Len(@) < WAITING THEN Append(@, CallDecline) ELSE @]
           /\ crossed' = crossed \cup {{p, q}}
  <2>1. waiting[p][q] \in Seq({CallDecline})
    BY <1>2
  <2>2. Append(waiting[p][q], CallDecline) \in Seq({CallDecline})
    BY <2>1
  <2> QED  BY <1>2, <1>4, <2>1, <2>2
<1> QED  BY <1>3, <1>4 DEF Sends

\* The pool's connection to somebody, as one of both.
LEMMA PoolConn ==
  ASSUME CallInv, NEW p \in People, NEW q \in People, idle[p][q] # 0
  PROVE  /\ idle[p][q] \in Conns /\ pair[idle[p][q]] = {p, q} /\ {p, q} \in Contacts
         /\ p # q /\ Far(p, idle[p][q]) = q /\ <<p, idle[p][q]>> \in holds
<1>1. /\ pair[idle[p][q]] = {p, q} /\ <<p, idle[p][q]>> \in holds
  BY DEF CallInv, Placed
<1>2. idle[p][q] \in Conns
  BY <1>1 DEF CallInv, Placed
<1>3. {p, q} \in Contacts
  <2>1. pair[idle[p][q]] \in Contacts
    BY <1>2, PairIsContacts DEF CallInv, CallTyped
  <2> QED  BY <1>1, <2>1
<1> QED  BY <1>1, <1>2, <1>3, ContactEnds, FarIs

\* The call's connection.
LEMMA CallConn ==
  ASSUME CallInv, NEW p \in People, phone[p].conn # 0
  PROVE  /\ phone[p].conn \in Conns /\ pair[phone[p].conn] = {p, phone[p].peer}
         /\ {p, phone[p].peer} \in Contacts /\ phone[p].peer \in People
         /\ p # phone[p].peer /\ Far(p, phone[p].conn) = phone[p].peer
         /\ <<p, phone[p].conn>> \in holds
<1>1. /\ pair[phone[p].conn] = {p, phone[p].peer} /\ <<p, phone[p].conn>> \in holds
  BY DEF CallInv, Placed
<1>2. phone[p].conn \in Conns
  BY <1>1 DEF CallInv, Placed
<1>3. {p, phone[p].peer} \in Contacts
  <2>1. pair[phone[p].conn] \in Contacts
    BY <1>2, PairIsContacts DEF CallInv, CallTyped
  <2> QED  BY <1>1, <2>1
<1>4. phone[p].peer \in People /\ p # phone[p].peer
  BY <1>3, ContactEnds
<1> QED  BY <1>1, <1>2, <1>3, <1>4, FarIs

\* Two tell each other nothing the loop keeps.
LEMMA RungStep ==
  ASSUME CallInv, SamePlaces, NEW p \in People, phone' = phone,
         wire' \in [Conns -> BothSides], Readable(wire', holds), PoolTyped', LinesTyped',
         asides' = asides, strangers' = strangers,
         ringing' \in [People -> [peer : People \cup {Nobody}, said : Seq(Frames)]],
         \A x \in People : ringing'[x].peer \in {ringing[x].peer, Nobody}
           \/ idle[x][ringing'[x].peer] # 0
  PROVE  CallInv'
<1>1. Conns' = Conns /\ pair' = pair /\ holds' = holds /\ idle' = idle /\ arriving' = arriving
  BY DEF SamePlaces, Conns
<1>2. NetTyped'
  BY <1>1 DEF CallInv, CallTyped, NetTyped
<1>3. LoopTyped'
  BY DEF CallInv, CallTyped, LoopTyped
<1>4. CallTyped'
  BY <1>2, <1>3 DEF CallTyped
<1>5. Placed'
  BY StillPlaced DEF CallInv
<1>6. Phones'
  BY DEF CallInv, Phones
<1>7. Readable(wire, holds)'
  BY <1>1 DEF Readable
<1>8. RingingIsConnected'
  BY <1>1 DEF CallInv, RingingIsConnected
<1> QED  BY <1>4, <1>5, <1>6, <1>7, <1>8 DEF CallInv

\* Whoever was ringing stops, or goes on.
LEMMA HushedRing ==
  ASSUME ringing \in [People -> [peer : People \cup {Nobody}, said : Seq(Frames)]],
         NEW p, NEW q, NoLongerRinging(p, q) \/ UNCHANGED ringing
  PROVE  /\ ringing' \in [People -> [peer : People \cup {Nobody}, said : Seq(Frames)]]
         /\ \A x \in People : ringing'[x] = ringing[x] \/ (x = p /\ ringing'[x] = NoRing)
         /\ \A x \in People : ringing'[x].peer \in {ringing[x].peer, Nobody}
         /\ NoLongerRinging(p, q) /\ p \in People => ringing'[p].peer # q \/ q = Nobody
<1>1. NoRing \in [peer : People \cup {Nobody}, said : Seq(Frames)] /\ NoRing.peer = Nobody
  BY DEF NoRing
<1> HIDE DEF NoRing
<1> QED  BY <1>1 DEF NoLongerRinging

LEMMA SpokenToKept ==
  ASSUME CallInv, NEW p \in People, NEW q \in People, SpokenTo(p, q)
  PROVE  CallInv'
<1> DEFINE c == idle[p][q]
           w == Taken(p, c)
           line == Head(wire[c][q])
<1>1. /\ c # 0 /\ Comes(p, c, "text") /\ phone' = phone
      /\ pair' = pair /\ holds' = holds /\ arriving' = arriving /\ idle' = idle
      /\ strangers' = strangers /\ lent' = lent /\ asides' = asides /\ budget' = budget
      /\ said' = said /\ shown' = shown
  BY DEF SpokenTo
<1>2. c \in Conns /\ Far(p, c) = q /\ NetTyped /\ Readable(wire, holds)
  BY <1>1, PoolConn DEF CallInv, CallTyped
<1>3. w \in [Conns -> BothSides] /\ line \in Frames /\ Readable(w, holds)
  BY <1>1, <1>2, TakenTyped, TakenReadable
<1>4. (Sends(p, q, CallDecline, w) \/ (wire' = w /\ UNCHANGED <<waiting, crossed>>))
      /\ \/ ringing' = [ringing EXCEPT ![p] = IF @.peer = q THEN NoRing ELSE @]
         \/ UNCHANGED ringing
         \/ /\ ringing[p].peer = q
            /\ ringing' = [ringing EXCEPT ![p] = [ringing[p] EXCEPT !.said =
                           IF Len(@) < RINGING_LINES THEN Append(@, line) ELSE @]]
         \/ ringing' = [ringing EXCEPT ![p] = [peer |-> q, said |-> <<line>>]]
  BY Zenon DEF SpokenTo, Busy, NoLongerRinging
<1> HIDE DEF c, w, line
<1>5. wire' \in [Conns -> BothSides] /\ Readable(wire', holds)
      /\ waiting' \in [People -> [People -> Seq({CallDecline})]]
  BY <1>2, <1>3, <1>4, SendsDoes DEF CallInv, CallTyped, PoolTyped
<1>6. PoolTyped' /\ LinesTyped' /\ SamePlaces
  BY <1>1, <1>5 DEF CallInv, CallTyped, PoolTyped, LinesTyped, SamePlaces
<1>7. ringing \in [People -> [peer : People \cup {Nobody}, said : Seq(Frames)]]
  BY DEF CallInv, CallTyped, LoopTyped
<1>8. /\ ringing' \in [People -> [peer : People \cup {Nobody}, said : Seq(Frames)]]
      /\ \A x \in People : ringing'[x].peer \in {ringing[x].peer, Nobody}
           \/ idle[x][ringing'[x].peer] # 0
  <2>1. CASE ringing' = [ringing EXCEPT ![p] = IF @.peer = q THEN NoRing ELSE @]
    <3>1. NoRing \in [peer : People \cup {Nobody}, said : Seq(Frames)] /\ NoRing.peer = Nobody
      BY DEF NoRing
    <3> QED  BY <1>7, <2>1, <3>1
  <2>2. CASE UNCHANGED ringing
    BY <1>7, <2>2
  <2>3. CASE /\ ringing[p].peer = q
             /\ ringing' = [ringing EXCEPT ![p] = [ringing[p] EXCEPT !.said =
                           IF Len(@) < RINGING_LINES THEN Append(@, line) ELSE @]]
    <3>1. Append(ringing[p].said, line) \in Seq(Frames) /\ ringing[p].said \in Seq(Frames)
      BY <1>3, <1>7
    <3> DEFINE r == [ringing[p] EXCEPT !.said =
                           IF Len(@) < RINGING_LINES THEN Append(@, line) ELSE @]
    <3>2. r \in [peer : People \cup {Nobody}, said : Seq(Frames)] /\ r.peer = ringing[p].peer
      BY <1>7, <3>1
    <3> QED  BY <1>7, <2>3, <3>2
  <2>4. CASE ringing' = [ringing EXCEPT ![p] = [peer |-> q, said |-> <<line>>]]
    <3> DEFINE r == [peer |-> q, said |-> <<line>>]
    <3>1. r \in [peer : People \cup {Nobody}, said : Seq(Frames)] /\ r.peer = q
      BY <1>3
    <3>2. idle[p][q] # 0
      BY <1>1 DEF c
    <3> HIDE DEF r
    <3>3. \A x \in People : ringing'[x] = IF x = p THEN r ELSE ringing[x]
      BY <1>7, <2>4 DEF r
    <3> QED  BY <1>7, <2>4, <3>1, <3>2, <3>3 DEF r
  <2> QED  BY <1>4, <2>1, <2>2, <2>3, <2>4
<1> QED  BY <1>1, <1>5, <1>6, <1>8, RungStep

LEMMA HushedKept ==
  ASSUME CallInv, NEW p \in People, NEW q \in People, Stopped(p, q) \/ Ignored(p, q)
  PROVE  CallInv'
<1> DEFINE c == idle[p][q]
           w == Taken(p, c)
<1>1. /\ c # 0 /\ (Comes(p, c, "hangup") \/ Comes(p, c, "decline")) /\ phone' = phone
      /\ pair' = pair /\ holds' = holds /\ arriving' = arriving /\ UNCHANGED poolVars
      /\ strangers' = strangers /\ asides' = asides /\ budget' = budget
      /\ said' = said /\ shown' = shown /\ wire' = w
      /\ NoLongerRinging(p, q) \/ UNCHANGED ringing
  BY DEF Stopped, Ignored, historyVars
<1>2. c \in Conns /\ Far(p, c) = q /\ NetTyped /\ Readable(wire, holds)
  BY <1>1, PoolConn DEF CallInv, CallTyped
<1>3. w \in [Conns -> BothSides] /\ Readable(w, holds)
  BY <1>1, <1>2, TakenTyped, TakenReadable
<1>4. PoolTyped' /\ LinesTyped' /\ SamePlaces
  BY <1>1 DEF CallInv, CallTyped, PoolTyped, LinesTyped, SamePlaces, poolVars
<1>5. ringing \in [People -> [peer : People \cup {Nobody}, said : Seq(Frames)]]
  BY DEF CallInv, CallTyped, LoopTyped
<1>6. /\ ringing' \in [People -> [peer : People \cup {Nobody}, said : Seq(Frames)]]
      /\ \A x \in People : ringing'[x].peer \in {ringing[x].peer, Nobody}
  BY <1>1, <1>5, HushedRing
<1> HIDE DEF w
<1> QED  BY <1>1, <1>3, <1>4, <1>6, RungStep

\* Steps that leave the connections where they are.
LEMMA StillStep ==
  ASSUME CallInv, SamePlaces, wire' \in [Conns -> BothSides], Readable(wire', holds),
         strangers' \in [People -> Nat], PoolTyped', LoopTyped', LinesTyped', Phones',
         ringing' = ringing \/ \E p, q : NoLongerRinging(p, q)
  PROVE  CallInv'
<1>1. Conns' = Conns /\ pair' = pair /\ holds' = holds /\ idle' = idle /\ arriving' = arriving
  BY DEF SamePlaces, Conns
<1>2. NetTyped'
  BY <1>1 DEF CallInv, CallTyped, NetTyped
<1>3. CallTyped'
  BY <1>2 DEF CallTyped
<1>4. Placed'
  BY StillPlaced DEF CallInv
<1>5. Readable(wire, holds)'
  BY <1>1 DEF Readable
<1>6. \A x \in People : ringing'[x].peer \in {ringing[x].peer, Nobody}
  <2>1. ringing \in [People -> [peer : People \cup {Nobody}, said : Seq(Frames)]]
    BY DEF CallInv, CallTyped, LoopTyped
  <2> QED  BY <2>1, HushedRing
<1>7. RingingIsConnected'
  BY <1>1, <1>6 DEF CallInv, RingingIsConnected, SamePlaces
<1> QED  BY <1>3, <1>4, <1>5, <1>7 DEF CallInv

\* One call changes, and the wires.
LEMMA CallStep ==
  ASSUME CallInv, NEW p \in People, NEW r \in PhoneCalls, phone' = [phone EXCEPT ![p] = r],
         phone[p].state # "none", r.peer = phone[p].peer, r.conn = phone[p].conn,
         r.state \in {"dial", "over"} \/ r.held = <<>>, r.state # "none",
         r.state # "over" => r.state = phone[p].state,
         pair' = pair, holds' = holds, arriving' = arriving, strangers' = strangers,
         UNCHANGED poolVars, ringing' = ringing, asides' = asides,
         wire' \in [Conns -> BothSides], Readable(wire', holds), LinesTyped'
  PROVE  CallInv'
<1>1. phone \in [People -> PhoneCalls]
  BY DEF CallInv, CallTyped, LoopTyped
<1>2. \A x \in People : phone'[x] = IF x = p THEN r ELSE phone[x]
  BY <1>1
<1>3. SamePlaces
  BY <1>2 DEF SamePlaces, poolVars
<1>4. PoolTyped'
  BY DEF CallInv, CallTyped, PoolTyped, poolVars
<1>5. LoopTyped'
  BY <1>1 DEF CallInv, CallTyped, LoopTyped
<1>6. Phones'
  <2> SUFFICES ASSUME NEW x \in People
               PROVE  /\ phone'[x].state = "none" => phone'[x] = NoCall
                      /\ phone'[x].state # "none" => {x, phone'[x].peer} \in Contacts
                      /\ phone'[x].state = "dial" => phone'[x].conn = 0
                      /\ phone'[x].state = "talk" => phone'[x].conn # 0 /\ phone'[x].held = <<>>
    BY DEF Phones
  <2>1. /\ phone[x].state = "none" => phone[x] = NoCall
        /\ phone[x].state # "none" => {x, phone[x].peer} \in Contacts
        /\ phone[x].state = "dial" => phone[x].conn = 0
        /\ phone[x].state = "talk" => phone[x].conn # 0 /\ phone[x].held = <<>>
    BY DEF CallInv, Phones
  <2>2. CASE x = p
    <3>1. phone'[x] = r
      BY <1>2, <2>2
    <3> HIDE DEF PhoneCalls
    <3> QED  BY <2>1, <2>2, <3>1
  <2>3. CASE x # p
    <3>1. phone'[x] = phone[x]
      BY <1>2, <2>3
    <3> QED  BY <2>1, <3>1
  <2> QED  BY <2>2, <2>3
<1>7. strangers' \in [People -> Nat]
  BY DEF CallInv, CallTyped, NetTyped
<1> QED  BY <1>3, <1>4, <1>5, <1>6, <1>7, StillStep

\* The wires of a call after it wrote, and after it read.
LEMMA CallWrites ==
  ASSUME CallInv, NEW p \in People, NEW c, NEW frames \in Seq(Frames)
  PROVE  /\ Written(wire, p, c, frames) \in [Conns -> BothSides]
         /\ Readable(Written(wire, p, c, frames), holds)
<1>1. NetTyped /\ wire \in [Conns -> BothSides] /\ Readable(wire, holds)
  BY DEF CallInv, CallTyped, NetTyped
<1> QED  BY <1>1, WrittenTyped, WrittenReadable

LEMMA CallReads ==
  ASSUME CallInv, NEW p \in People, Talks(p), NEW kind, Comes(p, phone[p].conn, kind)
  PROVE  /\ Taken(p, phone[p].conn) \in [Conns -> BothSides]
         /\ Readable(Taken(p, phone[p].conn), holds)
         /\ Head(wire[phone[p].conn][phone[p].peer]) \in Frames
<1>1. phone[p].conn # 0
  BY DEF CallInv, Phones, Talks
<1>2. NetTyped /\ Readable(wire, holds)
  BY DEF CallInv, CallTyped
<1>3. phone[p].conn \in Conns /\ Far(p, phone[p].conn) = phone[p].peer /\ phone[p].peer \in People
  BY <1>1, CallConn
<1>4. Readable(Taken(p, phone[p].conn), holds)
  BY <1>2, TakenReadable
<1>5. /\ Taken(p, phone[p].conn) \in [Conns -> BothSides]
      /\ Head(wire[phone[p].conn][Far(p, phone[p].conn)]) \in Frames
  BY <1>2, <1>3, TakenTyped
<1> QED  BY <1>3, <1>4, <1>5

LEMMA BudgetTyped ==
  ASSUME NEW kind \in Kinds, budget \in [Kinds -> Nat], Strikes(kind)
  PROVE  budget' \in [Kinds -> Nat]
<1>1. budget[kind] - 1 \in Nat
  BY DEF Strikes
<1> HIDE DEF Kinds
<1> QED  BY <1>1 DEF Strikes

LEMMA SaysTyped ==
  ASSUME LinesTyped, NEW p \in People, NEW q \in People, Says(p, q), shown' = shown
  PROVE  LinesTyped' /\ Text(said[p][q] + 1) \in Frames
<1>1. budget' \in [Kinds -> Nat]
  BY BudgetTyped DEF LinesTyped, Says, Kinds
<1>2. said' \in [People -> [People -> Nat]]
  BY DEF LinesTyped, Says
<1>3. Text(said[p][q] + 1) \in Frames
  BY DEF LinesTyped, Text, Frames
<1> QED  BY <1>1, <1>2, <1>3 DEF LinesTyped

LEMMA CallerIs ==
  ASSUME CallInv, NEW p \in People, phone[p].state # "none"
  PROVE  phone[p] \in PhoneCalls /\ phone[p].peer \in People /\ p # phone[p].peer
         /\ phone[p].first \in Seq(Frames) /\ phone[p].held \in Seq(Frames)
         /\ phone \in [People -> PhoneCalls]
<1>1. phone \in [People -> PhoneCalls] /\ {p, phone[p].peer} \in Contacts
  BY DEF CallInv, CallTyped, LoopTyped, Phones
<1>2. phone[p] \in PhoneCalls
  BY <1>1
<1>3. phone[p].first \in Seq(Frames) /\ phone[p].held \in Seq(Frames)
  BY <1>2 DEF PhoneCalls
<1> QED  BY <1>1, <1>2, <1>3, ContactEnds

LEMMA HoldLineKept ==
  ASSUME CallInv, NEW p \in People, HoldLine(p)
  PROVE  CallInv'
<1> DEFINE q == phone[p].peer
           r == [phone[p] EXCEPT !.held = Append(@, Text(said[p][q] + 1))]
<1>1. phone[p].state = "dial" /\ phone[p] \in PhoneCalls /\ q \in People
      /\ phone[p].held \in Seq(Frames)
  BY CallerIs DEF HoldLine, Dials
<1>2. LinesTyped' /\ Text(said[p][q] + 1) \in Frames
  BY <1>1, SaysTyped DEF HoldLine, CallInv, CallTyped
<1>3. Append(phone[p].held, Text(said[p][q] + 1)) \in Seq(Frames)
  BY <1>1, <1>2
<1> HIDE DEF Frames
<1>4. r \in PhoneCalls /\ r.peer = phone[p].peer /\ r.conn = phone[p].conn /\ r.state = "dial"
  BY <1>1, <1>3 DEF PhoneCalls
<1>5. phone' = [phone EXCEPT ![p] = r] /\ UNCHANGED <<netVars, poolVars, ringing, asides>>
  BY DEF HoldLine
<1>6. wire \in [Conns -> BothSides] /\ Readable(wire, holds)
  BY DEF CallInv, CallTyped, NetTyped
<1> QED  BY <1>1, <1>2, <1>4, <1>5, <1>6, CallStep DEF netVars

LEMMA EndingKept ==
  ASSUME CallInv, NEW p \in People, GiveUpDialling(p) \/ Bye(p) \/ ToldItIsOver(p) \/ HungUpOn(p)
  PROVE  CallInv'
<1>1. \E alive \in BOOLEAN : Over(p, alive)
  BY DEF GiveUpDialling, Bye, ToldItIsOver, HungUpOn
<1>2. PICK alive \in BOOLEAN : Over(p, alive)
  BY <1>1
<1>3. phone[p].state \in {"dial", "talk"}
  BY DEF GiveUpDialling, Bye, ToldItIsOver, HungUpOn, Dials, Talks
<1> DEFINE r == [phone[p] EXCEPT !.state = "over", !.alive = alive]
<1>4. phone[p] \in PhoneCalls /\ phone \in [People -> PhoneCalls]
  BY <1>3, CallerIs
<1>5. r \in PhoneCalls /\ r.peer = phone[p].peer /\ r.conn = phone[p].conn /\ r.state = "over"
  BY <1>4 DEF PhoneCalls
<1>6. phone' = [phone EXCEPT ![p] = r]
  BY <1>2, <1>4 DEF Over
<1>7. /\ pair' = pair /\ holds' = holds /\ arriving' = arriving /\ strangers' = strangers
      /\ UNCHANGED poolVars /\ ringing' = ringing /\ asides' = asides /\ budget' = budget
      /\ said' = said /\ shown' = shown
  BY DEF GiveUpDialling, Bye, ToldItIsOver, HungUpOn, netVars, historyVars
<1>8. LinesTyped'
  BY <1>7 DEF CallInv, CallTyped, LinesTyped
<1>9. wire' \in [Conns -> BothSides] /\ Readable(wire', holds)
  <2>1. CASE wire' = wire
    BY <2>1 DEF CallInv, CallTyped, NetTyped
  <2>2. CASE Bye(p)
    <3>1. <<HangUp>> \in Seq(Frames)
      BY DEF HangUp, Frames
    <3> QED  BY <2>2, <3>1, CallWrites DEF Bye
  <2>3. CASE ToldItIsOver(p)
    BY <2>3, CallReads DEF ToldItIsOver
  <2> QED  BY <2>1, <2>2, <2>3 DEF GiveUpDialling, HungUpOn, netVars
<1> HIDE DEF r
<1> QED  BY <1>3, <1>5, <1>6, <1>7, <1>8, <1>9, CallStep

LEMMA SayKept ==
  ASSUME CallInv, NEW p \in People, Say(p)
  PROVE  CallInv'
<1> DEFINE q == phone[p].peer
           r == [phone[p] EXCEPT !.spoke = TRUE]
<1>1. phone[p].state = "talk" /\ phone[p] \in PhoneCalls /\ q \in People /\ phone[p].held = <<>>
  BY CallerIs DEF Say, Talks, CallInv, Phones
<1>2. LinesTyped' /\ Text(said[p][q] + 1) \in Frames
  BY <1>1, SaysTyped DEF Say, CallInv, CallTyped
<1>3. <<Text(said[p][q] + 1)>> \in Seq(Frames)
  BY <1>2
<1>4. r \in PhoneCalls /\ r.peer = phone[p].peer /\ r.conn = phone[p].conn /\ r.state = "talk"
      /\ r.held = <<>>
  BY <1>1 DEF PhoneCalls
<1>5. phone' = [phone EXCEPT ![p] = r]
      /\ UNCHANGED <<pair, holds, dead, arriving, strangers, poolVars, ringing, asides>>
      /\ wire' = Written(wire, p, phone[p].conn, <<Text(said[p][q] + 1)>>)
  BY DEF Say
<1>6. wire' \in [Conns -> BothSides] /\ Readable(wire', holds)
  BY <1>3, <1>5, CallWrites
<1> HIDE DEF r, q
<1> QED  BY <1>1, <1>2, <1>4, <1>5, <1>6, CallStep

LEMMA ShownTyped ==
  ASSUME LinesTyped, NEW p \in People, NEW q \in People, NEW f \in Frames,
         shown' = [shown EXCEPT ![p] = Append(@, <<q, f.n>>)], budget' = budget, said' = said
  PROVE  LinesTyped'
<1>1. <<q, f.n>> \in People \X Nat
  BY DEF Frames
<1>2. Append(shown[p], <<q, f.n>>) \in Seq(People \X Nat)
  BY <1>1 DEF LinesTyped
<1> QED  BY <1>2 DEF LinesTyped

LEMMA HearFirstKept ==
  ASSUME CallInv, NEW p \in People, HearFirst(p)
  PROVE  CallInv'
<1> DEFINE q == phone[p].peer
           r == [phone[p] EXCEPT !.first = Tail(@)]
<1>1. phone[p].state = "talk" /\ phone[p] \in PhoneCalls /\ q \in People /\ phone[p].held = <<>>
      /\ phone[p].first \in Seq(Frames) /\ phone[p].first # <<>>
  BY CallerIs DEF HearFirst, Talks, CallInv, Phones
<1>2. Tail(phone[p].first) \in Seq(Frames) /\ Head(phone[p].first) \in Frames
  BY <1>1
<1>3. r \in PhoneCalls /\ r.peer = phone[p].peer /\ r.conn = phone[p].conn /\ r.state = "talk"
      /\ r.held = <<>>
  BY <1>1, <1>2 DEF PhoneCalls
<1>4. phone' = [phone EXCEPT ![p] = r] /\ UNCHANGED <<netVars, poolVars, ringing, asides>>
      /\ budget' = budget /\ said' = said
      /\ shown' = [shown EXCEPT ![p] = Append(@, <<q, Head(phone[p].first).n>>)]
  BY DEF HearFirst
<1>5. LinesTyped'
  BY <1>1, <1>2, <1>4, ShownTyped DEF CallInv, CallTyped
<1>6. wire' \in [Conns -> BothSides] /\ Readable(wire', holds)
  BY <1>4 DEF CallInv, CallTyped, NetTyped, netVars
<1> HIDE DEF r, q
<1> QED  BY <1>1, <1>3, <1>4, <1>5, <1>6, CallStep DEF netVars

LEMMA HearKept ==
  ASSUME CallInv, NEW p \in People, Hear(p)
  PROVE  CallInv'
<1> DEFINE q == phone[p].peer
           c == phone[p].conn
<1>1. phone[p].state = "talk" /\ phone[p] \in PhoneCalls /\ q \in People /\ phone[p].held = <<>>
  BY CallerIs DEF Hear, Talks, CallInv, Phones
<1>2. /\ Taken(p, c) \in [Conns -> BothSides] /\ Readable(Taken(p, c), holds)
      /\ Head(wire[c][q]) \in Frames
  BY CallReads DEF Hear
<1>3. wire' = Taken(p, c) /\ shown' = [shown EXCEPT ![p] = Append(@, <<q, Head(wire[c][q]).n>>)]
      /\ UNCHANGED <<pair, holds, dead, arriving, strangers, poolVars, phone, ringing, asides,
                     budget, said>>
  BY DEF Hear
<1>4. LinesTyped'
  BY <1>1, <1>2, <1>3, ShownTyped DEF CallInv, CallTyped
<1>5. SamePlaces /\ PoolTyped' /\ LoopTyped' /\ Phones' /\ strangers' \in [People -> Nat]
  BY <1>3 DEF CallInv, CallTyped, SamePlaces, PoolTyped, LoopTyped, Phones, NetTyped, poolVars
<1> HIDE DEF c, q
<1> QED  BY <1>2, <1>3, <1>4, <1>5, StillStep

LEMMA DeclineKept ==
  ASSUME CallInv, NEW p \in People, Decline(p)
  PROVE  CallInv'
<1> DEFINE q == ringing[p].peer
<1>1. ringing \in [People -> [peer : People \cup {Nobody}, said : Seq(Frames)]]
  BY DEF CallInv, CallTyped, LoopTyped
<1>2. q \in People
  BY <1>1 DEF Decline
<1>3. /\ Sends(p, q, CallDecline, wire) /\ ringing' = [ringing EXCEPT ![p] = NoRing]
      /\ UNCHANGED <<pair, holds, dead, arriving, strangers, idle, lent, phone, asides,
                     budget, said, shown>>
  BY DEF Decline
<1>4. wire \in [Conns -> BothSides] /\ Readable(wire, holds)
  BY DEF CallInv, CallTyped, NetTyped
<1>5. wire' \in [Conns -> BothSides] /\ Readable(wire', holds)
      /\ waiting' \in [People -> [People -> Seq({CallDecline})]]
  BY <1>2, <1>3, <1>4, SendsDoes DEF CallInv
<1>6. NoLongerRinging(p, q)
  BY <1>1, <1>3 DEF NoLongerRinging
<1>7. ringing' \in [People -> [peer : People \cup {Nobody}, said : Seq(Frames)]]
  BY <1>1, <1>6, HushedRing
<1>8. /\ SamePlaces /\ PoolTyped' /\ LoopTyped' /\ Phones' /\ strangers' \in [People -> Nat]
      /\ LinesTyped'
  BY <1>3, <1>5, <1>7 DEF CallInv, CallTyped, SamePlaces, PoolTyped, LoopTyped, Phones, NetTyped,
     LinesTyped
<1> QED  BY <1>5, <1>6, <1>8, StillStep

LEMMA OpenedKept ==
  ASSUME CallInv, NEW p \in People, Opened(p)
  PROVE  CallInv'
<1> DEFINE it == Head(asides[p])
<1>1. /\ asides[p] # <<>> /\ asides' = [asides EXCEPT ![p] = Tail(@)]
      /\ \/ UNCHANGED <<wire, lent, waiting>>
         \/ /\ lent' = [lent EXCEPT ![p].conn = it.conn]
            /\ wire' = Written(wire, p, it.conn, waiting[p][it.peer])
            /\ waiting' = [waiting EXCEPT ![p][it.peer] = <<>>]
      /\ UNCHANGED <<pair, holds, dead, arriving, strangers, idle, phone, ringing, budget,
                     historyVars>>
  BY DEF Opened
<1>2. asides \in [People -> Seq([peer : People, conn : Nat])]
  BY DEF CallInv, CallTyped, LoopTyped
<1>3. it \in [peer : People, conn : Nat] /\ Tail(asides[p]) \in Seq([peer : People, conn : Nat])
  <2>1. asides[p] \in Seq([peer : People, conn : Nat])
    BY <1>2
  <2> QED  BY <1>1, <2>1, HeadTailProperties
<1>4. asides' \in [People -> Seq([peer : People, conn : Nat])]
  BY <1>1, <1>2, <1>3
<1>5. PoolTyped'
  <2>1. PoolTyped
    BY DEF CallInv, CallTyped
  <2>2. waiting' \in [People -> [People -> Seq({CallDecline})]]
    <3>1. <<>> \in Seq({CallDecline})
      OBVIOUS
    <3>2. it.peer \in People
      BY <1>3
    <3>3. waiting \in [People -> [People -> Seq({CallDecline})]]
      BY <2>1 DEF PoolTyped
    <3>4. CASE waiting' = waiting
      BY <3>3, <3>4
    <3>5. CASE waiting' = [waiting EXCEPT ![p][it.peer] = <<>>]
      BY <3>1, <3>2, <3>3, <3>5, TwoDeep
    <3> QED  BY <1>1, <3>4, <3>5
  <2>3. lent' \in [People -> [to : People \cup {Nobody}, conn : Nat]]
    <3>1. CASE lent' = lent
      BY <2>1, <3>1 DEF PoolTyped
    <3>2. CASE lent' = [lent EXCEPT ![p].conn = it.conn]
      BY <1>3, <2>1, <3>2 DEF PoolTyped
    <3> QED  BY <1>1, <3>1, <3>2
  <2> QED  BY <1>1, <2>1, <2>2, <2>3 DEF PoolTyped
<1>6. wire' \in [Conns -> BothSides] /\ Readable(wire', holds)
  <2>1. CASE wire' = wire
    BY <2>1 DEF CallInv, CallTyped, NetTyped
  <2>2. CASE wire' = Written(wire, p, it.conn, waiting[p][it.peer])
    <3>1. waiting[p][it.peer] \in Seq({CallDecline})
      BY <1>3 DEF CallInv, CallTyped, PoolTyped
    <3>2. {CallDecline} \subseteq Frames
      BY DEF CallDecline, Frames
    <3>3. waiting[p][it.peer] \in Seq(Frames)
      BY <3>1, <3>2
    <3> QED  BY <2>2, <3>3, CallWrites
  <2> QED  BY <1>1, <2>1, <2>2
<1>7. /\ SamePlaces /\ LoopTyped' /\ Phones' /\ strangers' \in [People -> Nat] /\ LinesTyped'
  BY <1>1, <1>4 DEF CallInv, CallTyped, SamePlaces, LoopTyped, Phones, NetTyped, LinesTyped,
     historyVars
<1> HIDE DEF it
<1> QED  BY <1>1, <1>5, <1>6, <1>7, StillStep

LEMMA StrangersKept ==
  ASSUME CallInv, NEW p \in People, Stranger(p) \/ Refused(p)
  PROVE  CallInv'
<1>1. /\ UNCHANGED <<pair, holds, dead, wire, arriving, poolVars, phone, ringing, asides,
                     historyVars>>
      /\ budget' = budget \/ Strikes("trouble")
  BY DEF Stranger, Refused
<1>2. budget' \in [Kinds -> Nat]
  BY <1>1, BudgetTyped DEF CallInv, CallTyped, LinesTyped, Kinds
<1>3. strangers' \in [People -> Nat]
  <2>1. strangers \in [People -> Nat]
    BY DEF CallInv, CallTyped, NetTyped
  <2>2. strangers[p] + 1 \in Nat /\ (strangers[p] > 0 => strangers[p] - 1 \in Nat)
    BY <2>1
  <2> QED  BY <2>1, <2>2 DEF Stranger, Refused
<1>4. wire' \in [Conns -> BothSides] /\ Readable(wire', holds)
  BY <1>1 DEF CallInv, CallTyped, NetTyped
<1>5. SamePlaces /\ PoolTyped' /\ LoopTyped' /\ Phones' /\ LinesTyped'
  BY <1>1, <1>2 DEF CallInv, CallTyped, SamePlaces, PoolTyped, LoopTyped, Phones, LinesTyped,
     poolVars, historyVars
<1> QED  BY <1>1, <1>3, <1>4, <1>5, StillStep

LEMMA BreakKept ==
  ASSUME CallInv, NEW c \in Conns, Break(c)
  PROVE  CallInv'
<1>1. /\ UNCHANGED <<pair, holds, arriving, strangers, poolVars, phone, ringing, asides,
                     historyVars>>
      /\ Strikes("trouble")
  BY DEF Break
<1>2. PICK w \in [People -> UNION {Prefixes(wire[c][x]) : x \in People}] :
        wire' = [wire EXCEPT ![c] = w] /\ \A x \in People : w[x] \in Prefixes(wire[c][x])
  BY DEF Break
<1>3. wire \in [Conns -> BothSides] /\ Readable(wire, holds)
  BY DEF CallInv, CallTyped, NetTyped
<1>4. \A x \in People : w[x] \in Seq(Frames) /\ (wire[c][x] = <<>> => w[x] = <<>>)
  <2> SUFFICES ASSUME NEW x \in People
               PROVE  w[x] \in Seq(Frames) /\ (wire[c][x] = <<>> => w[x] = <<>>)
    OBVIOUS
  <2>1. wire[c][x] \in Seq(Frames)
    BY <1>3 DEF BothSides
  <2>2. w[x] \in {SubSeq(wire[c][x], 1, l) : l \in 0 .. Len(wire[c][x])}
    BY <1>2 DEF Prefixes
  <2>3. PICK l \in 0 .. Len(wire[c][x]) : w[x] = SubSeq(wire[c][x], 1, l)
    BY <2>2
  <2>4. w[x] \in Seq(Frames) /\ Len(w[x]) = l
    BY <2>1, <2>3
  <2> QED  BY <2>1, <2>4
<1>5. wire' \in [Conns -> BothSides] /\ Readable(wire', holds)
  <2>1. w \in BothSides
    BY <1>4 DEF BothSides
  <2>2. \A d \in Conns : wire'[d] = IF d = c THEN w ELSE wire[d]
    BY <1>2, <1>3
  <2> QED  BY <1>2, <1>3, <1>4, <2>1, <2>2 DEF Readable
<1>6. budget' \in [Kinds -> Nat]
  BY <1>1, BudgetTyped DEF CallInv, CallTyped, LinesTyped, Kinds
<1>7. SamePlaces /\ PoolTyped' /\ LoopTyped' /\ Phones' /\ LinesTyped' /\ strangers' \in [People -> Nat]
  BY <1>1, <1>6 DEF CallInv, CallTyped, SamePlaces, PoolTyped, LoopTyped, Phones, LinesTyped,
     poolVars, historyVars, NetTyped
<1> QED  BY <1>1, <1>5, <1>7, StillStep

-----------------------------------------------------------------------------
(***************************************************************************)
(* Steps that move connections.                                            *)
(***************************************************************************)

\* What the pool does with a connection of p's to q, the call's or a new one.
Kept(p, q, c) ==
  /\ holds' = holds \ {<<p, idle[p][q]>>} /\ idle' = [idle EXCEPT ![p][q] = c]
  /\ waiting' = [waiting EXCEPT ![p][q] = <<>>]
  /\ wire' \in [Conns -> BothSides] /\ Readable(wire', holds')
  /\ idle' \in [People -> [People -> Nat]]
  /\ waiting' \in [People -> [People -> Seq({CallDecline})]]

LEMMA KeepDoes ==
  ASSUME CallInv, NEW p \in People, NEW c \in Conns, NEW q \in People, pair[c] = {p, q}, p # q,
         <<p, c>> \in holds, idle[p][q] # c, Keep(p, c, wire)
  PROVE  Kept(p, q, c)
<1> DEFINE stale == idle[p][q]
           drained == Written(wire, p, c, waiting[p][q])
<1>1. Far(p, c) = q
  BY FarIs
<1>2. /\ wire' = IF stale = 0 THEN drained ELSE Unheard(drained, p, stale)
      /\ holds' = holds \ {<<p, stale>>}
      /\ idle' = [idle EXCEPT ![p][q] = c]
      /\ waiting' = [waiting EXCEPT ![p][q] = <<>>]
  BY <1>1 DEF Keep
<1>3. waiting[p][q] \in Seq(Frames)
  <2>1. waiting[p][q] \in Seq({CallDecline})
    BY DEF CallInv, CallTyped, PoolTyped
  <2>2. {CallDecline} \subseteq Frames
    BY DEF CallDecline, Frames
  <2> QED  BY <2>1, <2>2
<1>4. drained \in [Conns -> BothSides] /\ Readable(drained, holds)
  BY <1>3, CallWrites
<1>5. <<>> \in Seq(Frames)
  OBVIOUS
<1> HIDE DEF drained
<1>6. wire' \in [Conns -> BothSides]
  BY <1>2, <1>4, <1>5, WrittenTyped
<1>7. Readable(wire', holds')
  <2>1. CASE stale = 0
    <3>1. <<p, 0>> \notin holds
      BY ConnsNat DEF CallInv, CallTyped, Placed
    <3>2. holds' = holds
      BY <1>2, <2>1, <3>1
    <3> QED  BY <1>2, <1>4, <2>1, <3>2
  <2>2. CASE stale # 0
    BY <1>2, <1>4, <2>2, UnheardReadable
  <2> QED  BY <2>1, <2>2
<1>8. c \in Nat
  BY ConnsNat DEF CallInv, CallTyped
<1>9. idle' \in [People -> [People -> Nat]]
  BY <1>2, <1>8 DEF CallInv, CallTyped, PoolTyped
<1>10. waiting' \in [People -> [People -> Seq({CallDecline})]]
  <2>1. waiting \in [People -> [People -> Seq({CallDecline})]]
    BY DEF CallInv, CallTyped, PoolTyped
  <2>2. <<>> \in Seq({CallDecline})
    OBVIOUS
  <2> QED  BY <1>2, <2>1, <2>2, TwoDeep
<1> QED  BY <1>2, <1>6, <1>7, <1>9, <1>10 DEF Kept

\* A connection goes to the pool, and the one it had there is gone.
LEMMA KeepPlaced ==
  ASSUME Placed, NetTyped, PoolTyped, NEW p \in People, NEW q \in People, p # q, NEW c \in Conns,
         pair[c] = {p, q}, <<p, c>> \in holds, idle[p][q] # c,
         pair' = pair, Kept(p, q, c),
         \A x \in People : arriving'[x] \subseteq arriving[x], c \notin arriving'[p],
         \A x \in People : phone'[x].conn # 0 =>
           phone'[x].conn = phone[x].conn /\ phone'[x].peer = phone[x].peer,
         phone'[p].conn # c
  PROVE  /\ Placed' /\ c # 0
         /\ \A x, y \in People : idle'[x][y] = IF x = p /\ y = q THEN c ELSE idle[x][y]
<1>1. /\ Conns' = Conns
      /\ holds' = holds \ {<<p, idle[p][q]>>} /\ idle' = [idle EXCEPT ![p][q] = c]
  BY DEF Conns, Kept
<1>2. c # 0 /\ c \in Nat /\ 0 \notin Conns
  BY ConnsNat
<1>3. \A x, y \in People : idle'[x][y] = IF x = p /\ y = q THEN c ELSE idle[x][y]
  <2>1. idle \in [People -> [People -> Nat]]
    BY DEF PoolTyped
  <2>2. \A x, y \in People :
          [idle EXCEPT ![p][q] = c][x][y] = IF x = p /\ y = q THEN c ELSE idle[x][y]
    BY <2>1
  <2> QED  BY <1>1, <2>2
<1>4. \A h \in holds' : h[2] \in Conns' /\ h[1] \in pair'[h[2]]
  BY <1>1, HeldPlaced
<1>5. ASSUME NEW x \in People, NEW y \in People, idle'[x][y] # 0
      PROVE  /\ pair'[idle'[x][y]] = {x, y} /\ <<x, idle'[x][y]>> \in holds'
             /\ idle'[x][y] # phone'[x].conn /\ idle'[x][y] \notin arriving'[x]
  <2>1. CASE x = p /\ y = q
    <3>1. idle'[x][y] = c
      BY <1>3, <2>1
    <3>2. <<p, c>> \in holds'
      BY <1>1
    <3> QED  BY <2>1, <3>1, <3>2
  <2>2. CASE ~ (x = p /\ y = q)
    <3>1. idle'[x][y] = idle[x][y]
      BY <1>3, <2>2
    <3>2. /\ pair[idle[x][y]] = {x, y} /\ <<x, idle[x][y]>> \in holds
          /\ idle[x][y] # phone[x].conn /\ idle[x][y] \notin arriving[x]
      BY <1>5, <3>1, IdlePlaced
    <3>3. <<x, idle[x][y]>> # <<p, idle[p][q]>>
      <4>1. CASE x = p /\ idle[p][q] # 0
        <5>1. pair[idle[p][q]] = {p, q}
          BY <4>1, IdlePlaced
        <5>2. idle[x][y] # idle[p][q]
          BY <2>2, <3>2, <4>1, <5>1
        <5> QED  BY <5>2
      <4>2. CASE x # p
        BY <4>2
      <4>3. CASE idle[p][q] = 0
        BY <1>5, <3>1, <4>3
      <4> QED  BY <4>1, <4>2, <4>3
    <3>4. <<x, idle[x][y]>> \in holds'
      BY <1>1, <3>2, <3>3
    <3>5. idle[x][y] # phone'[x].conn
      BY <1>5, <3>1, <3>2
    <3> QED  BY <3>1, <3>2, <3>4, <3>5
  <2> QED  BY <2>1, <2>2
<1>6. ASSUME NEW x \in People, phone'[x].conn # 0
      PROVE  /\ pair'[phone'[x].conn] = {x, phone'[x].peer} /\ <<x, phone'[x].conn>> \in holds'
             /\ phone'[x].conn \notin arriving'[x]
  <2>1. phone'[x].conn = phone[x].conn /\ phone'[x].peer = phone[x].peer /\ phone[x].conn # 0
    BY <1>6
  <2>2. /\ pair[phone[x].conn] = {x, phone[x].peer} /\ <<x, phone[x].conn>> \in holds
        /\ phone[x].conn \notin arriving[x]
    BY <2>1, CallPlaced
  <2>3. <<x, phone[x].conn>> # <<p, idle[p][q]>>
    <3>1. idle[p][q] # 0 => idle[p][q] # phone[p].conn
      BY IdlePlaced
    <3> QED  BY <2>1, <3>1
  <2>4. <<x, phone[x].conn>> \in holds'
    BY <1>1, <2>2, <2>3
  <2> QED  BY <2>1, <2>2, <2>4
<1>7. ASSUME NEW x \in People, NEW d \in arriving'[x]
      PROVE  <<x, d>> \in holds'
  <2>1. d \in arriving[x]
    BY <1>7
  <2>2. <<x, d>> \in holds
    BY <2>1, ComingPlaced
  <2>3. d # 0
    BY <1>2, <2>2, HeldPlaced
  <2>4. <<x, d>> # <<p, idle[p][q]>>
    <3>1. idle[p][q] # 0 => idle[p][q] \notin arriving[p]
      BY IdlePlaced
    <3> QED  BY <2>1, <2>3, <3>1
  <2> QED  BY <1>1, <2>2, <2>4
<1>8. Placed'
  BY <1>4, <1>5, <1>6, <1>7 DEF Placed
<1> QED  BY <1>2, <1>3, <1>8

LEMMA ArrivesKept ==
  ASSUME CallInv, NEW p \in People, NEW c \in Conns, Arrives(p, c)
  PROVE  CallInv'
<1>1. /\ c \in arriving[p] /\ arriving' = [arriving EXCEPT ![p] = @ \ {c}] /\ Keep(p, c, wire)
      /\ UNCHANGED <<pair, dead, strangers, lent, phone, ringing, asides, budget,
                     historyVars>>
  BY DEF Arrives
<1>0. Placed /\ NetTyped /\ PoolTyped
  BY DEF CallInv, CallTyped
<1>2. <<p, c>> \in holds /\ p \in pair[c]
  <2>1. <<p, c>> \in holds
    BY <1>0, <1>1, ComingPlaced
  <2> QED  BY <1>0, <2>1, HeldPlaced
<1>3. pair[c] \in Contacts
  BY PairIsContacts DEF CallInv, CallTyped
<1>4. PICK q : pair[c] = {p, q}
  BY <1>2, <1>3, CallAssumption
<1>5. q \in People /\ p # q
  BY <1>3, <1>4, ContactEnds
<1>6. idle[p][q] # c /\ phone[p].conn # c /\ c # 0 /\ c \in Nat
  <2>1. c # 0 /\ c \in Nat
    BY <1>0, ConnsNat
  <2>2. idle[p][q] # 0 => idle[p][q] # c
    <3>1. c \in arriving[p]
      BY <1>1
    <3>2. idle[p][q] # 0 => idle[p][q] \notin arriving[p]
      BY <1>0, <1>5, IdlePlaced
    <3> QED  BY <3>1, <3>2
  <2>3. phone[p].conn # 0 => phone[p].conn # c
    BY <1>0, <1>1, CallPlaced
  <2> QED  BY <2>1, <2>2, <2>3
<1>7. Kept(p, q, c)
  BY <1>1, <1>2, <1>4, <1>5, <1>6, KeepDoes
<1>8. Conns' = Conns
  BY <1>1 DEF Conns
<1>9. /\ idle \in [People -> [People -> Nat]] /\ arriving \in [People -> SUBSET Nat]
      /\ holds \subseteq People \X Nat
  BY DEF CallInv, CallTyped, NetTyped, PoolTyped
<1>10. \A x \in People : arriving'[x] = IF x = p THEN arriving[p] \ {c} ELSE arriving[x]
  BY <1>1, <1>9
<1>11. NetTyped'
  BY <1>1, <1>7, <1>8, <1>9 DEF CallInv, CallTyped, NetTyped, Kept
<1>12. CallTyped'
  BY <1>1, <1>7, <1>11 DEF CallInv, CallTyped, PoolTyped, LoopTyped, LinesTyped, historyVars, Kept
<1>13. /\ Placed'
       /\ \A x, y \in People : idle'[x][y] = IF x = p /\ y = q THEN c ELSE idle[x][y]
  <2>1. \A x \in People : arriving'[x] \subseteq arriving[x]
    BY <1>10
  <2>2. c \notin arriving'[p] /\ pair' = pair /\ phone' = phone
    BY <1>1, <1>10
  <2> QED  BY <1>0, <1>2, <1>4, <1>5, <1>6, <1>7, <2>1, <2>2, KeepPlaced
<1>15. Phones'
  BY <1>1 DEF CallInv, Phones
<1>16. Readable(wire, holds)'
  BY <1>1, <1>7, <1>8 DEF Readable, Kept
<1>17. RingingIsConnected'
  <2> SUFFICES ASSUME NEW x \in People, ringing'[x].peer # Nobody
               PROVE  \/ idle'[x][ringing'[x].peer] # 0
                      \/ phone'[x].peer = ringing'[x].peer /\ phone'[x].conn # 0
    BY DEF RingingIsConnected
  <2>1. \/ idle[x][ringing[x].peer] # 0
        \/ phone[x].peer = ringing[x].peer /\ phone[x].conn # 0
    BY <1>1 DEF CallInv, RingingIsConnected
  <2>2. ringing[x].peer \in People
    BY <1>1 DEF CallInv, CallTyped, LoopTyped
  <2> QED  BY <1>1, <1>6, <1>13, <2>1, <2>2
<1> QED  BY <1>12, <1>13, <1>15, <1>16, <1>17 DEF CallInv

LEMMA CallEndedKept ==
  ASSUME CallInv, NEW p \in People, CallEnded(p), NEW c, c = phone[p].conn, NEW q, q = phone[p].peer
  PROVE  CallInv'
<1>1. /\ phone[p].state = "over" /\ phone' = [phone EXCEPT ![p] = NoCall]
      /\ lent' = [lent EXCEPT ![p] = NotLent]
      /\ UNCHANGED <<pair, dead, arriving, strangers, asides, budget, historyVars>>
  BY DEF CallEnded
<1>2. Placed /\ NetTyped /\ PoolTyped /\ LoopTyped /\ LinesTyped
  BY DEF CallInv, CallTyped
<1>3. phone \in [People -> PhoneCalls] /\ q \in People /\ p # q
  BY <1>1, CallerIs
<1>4. NoCall \in PhoneCalls /\ NoCall.conn = 0 /\ NoCall.state = "none"
  <2>1. <<>> \in Seq(Frames)
    OBVIOUS
  <2> QED  BY <2>1 DEF NoCall, PhoneCalls
<1>5. \A x \in People : phone'[x] = IF x = p THEN NoCall ELSE phone[x]
  BY <1>1, <1>3
<1>6. LoopTyped' \/ ~ (ringing' \in [People -> [peer : People \cup {Nobody}, said : Seq(Frames)]])
  <2>1. phone' \in [People -> PhoneCalls]
    BY <1>1, <1>3, <1>4
  <2> QED  BY <1>1, <1>2, <2>1 DEF LoopTyped
<1>7. lent' \in [People -> [to : People \cup {Nobody}, conn : Nat]]
  <2>1. NotLent \in [to : People \cup {Nobody}, conn : Nat]
    BY DEF NotLent
  <2> QED  BY <1>1, <1>2, <2>1 DEF PoolTyped
<1>8. LinesTyped' /\ Conns' = Conns
  BY <1>1, <1>2 DEF LinesTyped, historyVars, Conns
<1>9. Phones'
  <2> SUFFICES ASSUME NEW x \in People
               PROVE  /\ phone'[x].state = "none" => phone'[x] = NoCall
                      /\ phone'[x].state # "none" => {x, phone'[x].peer} \in Contacts
                      /\ phone'[x].state = "dial" => phone'[x].conn = 0
                      /\ phone'[x].state = "talk" => phone'[x].conn # 0 /\ phone'[x].held = <<>>
    BY DEF Phones
  <2>1. CASE x = p
    <3>1. phone'[x] = NoCall
      BY <1>5, <2>1
    <3> QED  BY <1>4, <3>1
  <2>2. CASE x # p
    <3>1. phone'[x] = phone[x]
      BY <1>5, <2>2
    <3> QED  BY <3>1 DEF CallInv, Phones
  <2> QED  BY <2>1, <2>2
<1>10. \A x \in People : phone'[x].conn # 0 =>
         phone'[x].conn = phone[x].conn /\ phone'[x].peer = phone[x].peer
  BY <1>4, <1>5
<1>11. phone'[p].conn = 0
  BY <1>4, <1>5
<1>12. RingingIsConnected
  BY DEF CallInv
<1>13. ringing \in [People -> [peer : People \cup {Nobody}, said : Seq(Frames)]]
  BY <1>2 DEF LoopTyped
<1>14. CASE c # 0 /\ Keep(p, c, wire) /\ UNCHANGED ringing
  <2>1. c \in Conns /\ pair[c] = {p, q} /\ <<p, c>> \in holds
    BY <1>14, CallConn
  <2>2. c \notin arriving[p] /\ idle[p][q] # c
    <3>1. idle[p][q] # 0 => idle[p][q] # phone[p].conn
      BY <1>2, <1>3, IdlePlaced
    <3>2. c \notin arriving[p]
      BY <1>2, <1>14, CallPlaced
    <3> QED  BY <1>14, <3>1, <3>2
  <2>3. Kept(p, q, c)
    BY <1>3, <1>14, <2>1, <2>2, KeepDoes
  <2>4. pair' = pair /\ (\A x \in People : arriving'[x] \subseteq arriving[x]) /\ c \notin arriving'[p]
    BY <1>1, <2>2
  <2>5. phone'[p].conn # c
    BY <1>11, <1>14
  <2>6. /\ Placed' /\ c # 0
        /\ \A x, y \in People : idle'[x][y] = IF x = p /\ y = q THEN c ELSE idle[x][y]
    BY <1>2, <1>3, <1>10, <2>1, <2>2, <2>3, <2>4, <2>5, KeepPlaced
  <2>7. CallTyped'
    <3>1. NetTyped'
      BY <1>1, <1>2, <1>8, <2>3 DEF NetTyped, Kept
    <3>2. PoolTyped'
      BY <1>7, <2>3 DEF PoolTyped, Kept
    <3> QED  BY <1>6, <1>8, <1>13, <1>14, <3>1, <3>2 DEF CallTyped
  <2>8. Readable(wire, holds)'
    BY <1>1, <1>8, <2>3 DEF Readable, Kept
  <2>9. RingingIsConnected'
    <3> SUFFICES ASSUME NEW x \in People, ringing'[x].peer # Nobody
                 PROVE  \/ idle'[x][ringing'[x].peer] # 0
                        \/ phone'[x].peer = ringing'[x].peer /\ phone'[x].conn # 0
      BY DEF RingingIsConnected
    <3>1. \/ idle[x][ringing[x].peer] # 0
          \/ phone[x].peer = ringing[x].peer /\ phone[x].conn # 0
      BY <1>12, <1>14 DEF RingingIsConnected
    <3>2. ringing[x].peer \in People /\ ringing'[x] = ringing[x]
      BY <1>13, <1>14
    <3>3. CASE idle[x][ringing[x].peer] # 0
      BY <2>6, <3>2, <3>3
    <3>4. CASE phone[x].peer = ringing[x].peer /\ phone[x].conn # 0
      <4>1. CASE x = p
        BY <2>6, <3>2, <3>4, <4>1
      <4>2. CASE x # p
        BY <1>5, <3>2, <3>4, <4>2
      <4> QED  BY <4>1, <4>2
    <3> QED  BY <3>1, <3>3, <3>4
  <2> QED  BY <1>9, <2>6, <2>7, <2>8, <2>9 DEF CallInv
<1>15. CASE /\ holds' = holds \ {<<p, c>>}
            /\ wire' = IF c = 0 THEN wire ELSE Unheard(wire, p, c)
            /\ IF c = 0 THEN UNCHANGED ringing ELSE NoLongerRinging(p, q)
            /\ UNCHANGED <<idle, waiting>>
  <2>1. ringing' \in [People -> [peer : People \cup {Nobody}, said : Seq(Frames)]]
        /\ \A x \in People : ringing'[x].peer \in {ringing[x].peer, Nobody}
    BY <1>13, <1>15, HushedRing
  <2>2. c # 0 => ringing'[p].peer # q
    <3>1. c # 0 => NoLongerRinging(p, q)
      BY <1>15
    <3>2. q # Nobody
      BY <1>3, CallAssumption
    <3> QED  BY <1>13, <3>1, <3>2, HushedRing
  <2>3. wire \in [Conns -> BothSides] /\ Readable(wire, holds) /\ holds \subseteq People \X Nat
    BY <1>2 DEF CallInv, NetTyped
  <2>4. <<>> \in Seq(Frames)
    OBVIOUS
  <2>5. 0 \notin Conns
    BY <1>2, ConnsNat
  <2>6. wire' \in [Conns -> BothSides]
    BY <1>15, <2>3, <2>4, WrittenTyped
  <2>7. Readable(wire', holds')
    <3>1. CASE c = 0
      <4>1. <<p, 0>> \notin holds
        BY <1>2, <2>5, HeldPlaced
      <4>2. holds' = holds
        BY <1>15, <3>1, <4>1
      <4> QED  BY <1>15, <2>3, <3>1, <4>2
    <3>2. CASE c # 0
      BY <1>15, <2>3, <3>2, UnheardReadable
    <3> QED  BY <3>1, <3>2
  <2>8. CallTyped'
    <3>1. NetTyped'
      BY <1>1, <1>2, <1>8, <1>15, <2>3, <2>6 DEF NetTyped
    <3>2. PoolTyped'
      BY <1>2, <1>7, <1>15 DEF PoolTyped
    <3> QED  BY <1>6, <1>8, <2>1, <3>1, <3>2 DEF CallTyped
  <2>9. Readable(wire, holds)'
    BY <1>1, <1>8, <2>7 DEF Readable
  <2>10. Placed'
    <3>1. \A h \in holds' : h[2] \in Conns' /\ h[1] \in pair'[h[2]]
      BY <1>1, <1>2, <1>8, <1>15, HeldPlaced
    <3>2. ASSUME NEW x \in People, NEW y \in People, idle'[x][y] # 0
          PROVE  /\ pair'[idle'[x][y]] = {x, y} /\ <<x, idle'[x][y]>> \in holds'
                 /\ idle'[x][y] # phone'[x].conn /\ idle'[x][y] \notin arriving'[x]
      <4>1. idle'[x][y] = idle[x][y]
        BY <1>15
      <4>2. /\ pair[idle[x][y]] = {x, y} /\ <<x, idle[x][y]>> \in holds
            /\ idle[x][y] # phone[x].conn /\ idle[x][y] \notin arriving[x]
        BY <1>2, <3>2, <4>1, IdlePlaced
      <4>3. <<x, idle[x][y]>> # <<p, c>>
        BY <4>2
      <4>4. idle[x][y] # phone'[x].conn
        BY <1>4, <1>5, <3>2, <4>1, <4>2
      <4>5. pair' = pair /\ arriving' = arriving
        BY <1>1
      <4>6. <<x, idle[x][y]>> \in holds'
        BY <1>15, <4>2, <4>3
      <4> QED  BY <4>1, <4>2, <4>4, <4>5, <4>6
    <3>3. ASSUME NEW x \in People, phone'[x].conn # 0
          PROVE  /\ pair'[phone'[x].conn] = {x, phone'[x].peer} /\ <<x, phone'[x].conn>> \in holds'
                 /\ phone'[x].conn \notin arriving'[x]
      <4>1. x # p /\ phone'[x] = phone[x]
        BY <1>4, <1>5, <3>3
      <4>2. /\ pair[phone[x].conn] = {x, phone[x].peer} /\ <<x, phone[x].conn>> \in holds
            /\ phone[x].conn \notin arriving[x]
        BY <1>2, <3>3, <4>1, CallPlaced
      <4>3. pair' = pair /\ arriving' = arriving
        BY <1>1
      <4>4. <<x, phone[x].conn>> \in holds'
        BY <1>15, <4>1, <4>2
      <4> QED  BY <4>1, <4>2, <4>3, <4>4
    <3>4. ASSUME NEW x \in People, NEW d \in arriving'[x]
          PROVE  <<x, d>> \in holds'
      <4>1. d \in arriving[x]
        BY <1>1, <3>4
      <4>2. <<x, d>> \in holds
        BY <1>2, <4>1, ComingPlaced
      <4>3. d # 0
        BY <1>2, <2>5, <4>2, HeldPlaced
      <4>4. c # 0 => c \notin arriving[p]
        BY <1>2, CallPlaced
      <4>5. <<x, d>> # <<p, c>>
        BY <4>1, <4>3, <4>4
      <4> QED  BY <1>15, <4>2, <4>5
    <3> QED  BY <3>1, <3>2, <3>3, <3>4 DEF Placed
  <2>11. RingingIsConnected'
    <3> SUFFICES ASSUME NEW x \in People, ringing'[x].peer # Nobody
                 PROVE  \/ idle'[x][ringing'[x].peer] # 0
                        \/ phone'[x].peer = ringing'[x].peer /\ phone'[x].conn # 0
      BY DEF RingingIsConnected
    <3>1. ringing'[x].peer = ringing[x].peer /\ idle' = idle
      BY <1>15, <2>1
    <3>2. \/ idle[x][ringing[x].peer] # 0
          \/ phone[x].peer = ringing[x].peer /\ phone[x].conn # 0
      BY <1>12, <3>1 DEF RingingIsConnected
    <3>3. CASE x = p
      BY <2>2, <3>1, <3>2, <3>3
    <3>4. CASE x # p
      BY <1>5, <3>1, <3>2, <3>4
    <3> QED  BY <3>3, <3>4
  <2> QED  BY <1>9, <2>8, <2>9, <2>10, <2>11 DEF CallInv
<1>16. \/ c # 0 /\ Keep(p, c, wire) /\ UNCHANGED ringing
       \/ /\ holds' = holds \ {<<p, c>>}
          /\ wire' = IF c = 0 THEN wire ELSE Unheard(wire, p, c)
          /\ IF c = 0 THEN UNCHANGED ringing ELSE NoLongerRinging(p, q)
          /\ UNCHANGED <<idle, waiting>>
  BY DEF CallEnded
<1> QED  BY <1>14, <1>15, <1>16

\* A connection more, between p and q.
Landed(p, q, c, w) ==
  /\ c = Len(pair) + 1 /\ c \in Nat /\ c # 0 /\ c \notin Conns /\ Conns' = Conns \cup {c}
  /\ pair' \in Seq(Contacts) /\ pair'[c] = {p, q} /\ \A d \in Conns : pair'[d] = pair[d]
  /\ holds' = holds \cup {<<p, c>>, <<q, c>>} /\ holds' \subseteq People \X Nat
  /\ wire' \in [Conns' -> BothSides] /\ \A d \in Conns : wire'[d] = wire[d]
  /\ \A x \in People : wire'[c][x] = IF x = p THEN w ELSE <<>>

LEMMA LandsDoes ==
  ASSUME NetTyped, NEW p \in People, NEW q \in People, {p, q} \in Contacts,
         NEW w \in Seq(Frames), Lands(p, q, w)
  PROVE  Landed(p, q, Len(pair) + 1, w)
<1> DEFINE c == Len(pair) + 1
           v == [Silent EXCEPT ![p] = w]
<1>1. /\ pair' = Append(pair, {p, q}) /\ holds' = holds \cup {<<p, c>>, <<q, c>>}
      /\ wire' = Append(wire, v)
  BY DEF Lands
<1>2. Conns = 1 .. Len(pair) /\ Len(pair) \in Nat
  BY ConnsNat
<1>3. pair \in Seq(Contacts) /\ wire \in [Conns -> BothSides] /\ holds \subseteq People \X Nat
  BY DEF NetTyped
<1>4. c \in Nat /\ c # 0 /\ c \notin Conns
  BY <1>2
<1>5. /\ pair' \in Seq(Contacts) /\ Len(pair') = c /\ pair'[c] = {p, q}
      /\ \A d \in Conns : pair'[d] = pair[d]
  BY <1>1, <1>2, <1>3, AppendProperties
<1>6. Conns' = 1 .. c
  <2>1. DOMAIN pair' = 1 .. Len(pair')
    BY <1>5
  <2> QED  BY <1>5, <2>1 DEF Conns
<1>7. Conns' = Conns \cup {c}
  BY <1>2, <1>6
<1>8. v \in BothSides /\ \A x \in People : v[x] = IF x = p THEN w ELSE <<>>
  <2>1. <<>> \in Seq(Frames)
    OBVIOUS
  <2> QED  BY <2>1 DEF Silent, BothSides
<1> HIDE DEF v
<1>9. wire \in Seq(BothSides) /\ Len(wire) = Len(pair)
  BY <1>2, <1>3
<1>10. /\ wire' \in Seq(BothSides) /\ Len(wire') = c /\ wire'[c] = v
       /\ \A d \in 1 .. Len(wire) : wire'[d] = wire[d]
  BY <1>1, <1>8, <1>9, AppendProperties
<1>11. wire' \in [Conns' -> BothSides]
  <2>1. wire' \in [1 .. Len(wire') -> BothSides]
    BY <1>10
  <2> QED  BY <1>6, <1>10, <2>1
<1>12. holds' \subseteq People \X Nat
  BY <1>1, <1>3, <1>4
<1> HIDE DEF BothSides
<1> QED  BY <1>1, <1>2, <1>4, <1>5, <1>7, <1>8, <1>9, <1>10, <1>11, <1>12 DEF Landed

LEMMA LandedReadable ==
  ASSUME NetTyped, Readable(wire, holds), NEW p \in People, NEW q \in People, NEW c, NEW w,
         Landed(p, q, c, w)
  PROVE  Readable(wire, holds)'
<1> SUFFICES ASSUME NEW d \in Conns', NEW x \in People, NEW y \in People, pair'[d] = {x, y}, x # y,
                    wire'[d][y] # <<>>
             PROVE  <<x, d>> \in holds'
  BY DEF Readable
<1>1. CASE d = c
  BY <1>1 DEF Landed
<1>2. CASE d \in Conns
  <2>1. pair[d] = {x, y} /\ wire[d][y] # <<>>
    BY <1>2 DEF Landed
  <2>2. <<x, d>> \in holds
    BY <1>2, <2>1 DEF Readable
  <2> QED  BY <2>2 DEF Landed
<1> QED  BY <1>1, <1>2 DEF Landed

\* Where it is, on each side: on its way to the pool, or with the call.
LEMMA LandedPlaced ==
  ASSUME Placed, NetTyped, NEW p \in People, NEW q \in People, NEW c, NEW w, Landed(p, q, c, w),
         idle' = idle,
         \A x \in People : arriving'[x] \subseteq arriving[x]
           \/ (x \in {p, q} /\ arriving'[x] \subseteq arriving[x] \cup {c}),
         \A x \in People :
           \/ phone'[x].conn = phone[x].conn /\ phone'[x].peer = phone[x].peer
           \/ /\ x = p /\ phone'[x].conn = c /\ phone'[x].peer = q
              /\ arriving'[x] \subseteq arriving[x]
  PROVE  Placed'
<1>1. c \notin Conns /\ Conns' = Conns \cup {c} /\ pair'[c] = {p, q}
      /\ (\A d \in Conns : pair'[d] = pair[d]) /\ holds' = holds \cup {<<p, c>>, <<q, c>>}
      /\ c # 0
  BY DEF Landed
<1>2. \A h \in holds' : h[2] \in Conns' /\ h[1] \in pair'[h[2]]
  BY <1>1, HeldPlaced
<1>3. \A x \in People, y \in People : idle[x][y] # 0 => idle[x][y] \in Conns
  <2> SUFFICES ASSUME NEW x \in People, NEW y \in People, idle[x][y] # 0
               PROVE  idle[x][y] \in Conns
    OBVIOUS
  <2>1. <<x, idle[x][y]>> \in holds
    BY IdlePlaced
  <2> QED  BY <2>1, HeldPlaced
<1>4. \A x \in People : phone[x].conn # 0 => phone[x].conn \in Conns
  <2> SUFFICES ASSUME NEW x \in People, phone[x].conn # 0
               PROVE  phone[x].conn \in Conns
    OBVIOUS
  <2>1. <<x, phone[x].conn>> \in holds
    BY CallPlaced
  <2> QED  BY <2>1, HeldPlaced
<1>5. \A x \in People : arriving[x] \subseteq Conns
  <2> SUFFICES ASSUME NEW x \in People, NEW d \in arriving[x]
               PROVE  d \in Conns
    OBVIOUS
  <2>1. <<x, d>> \in holds
    BY ComingPlaced
  <2> QED  BY <2>1, HeldPlaced
<1>6. ASSUME NEW x \in People, NEW y \in People, idle'[x][y] # 0
      PROVE  /\ pair'[idle'[x][y]] = {x, y} /\ <<x, idle'[x][y]>> \in holds'
             /\ idle'[x][y] # phone'[x].conn /\ idle'[x][y] \notin arriving'[x]
  <2>1. idle'[x][y] = idle[x][y] /\ idle[x][y] \in Conns /\ idle[x][y] # c
    BY <1>1, <1>3, <1>6
  <2>2. /\ pair[idle[x][y]] = {x, y} /\ <<x, idle[x][y]>> \in holds
        /\ idle[x][y] # phone[x].conn /\ idle[x][y] \notin arriving[x]
    BY <1>6, IdlePlaced
  <2>3. idle[x][y] # phone'[x].conn
    BY <2>1, <2>2
  <2>4. idle[x][y] \notin arriving'[x]
    BY <2>1, <2>2
  <2> QED  BY <1>1, <2>1, <2>2, <2>3, <2>4
<1>7. ASSUME NEW x \in People, phone'[x].conn # 0
      PROVE  /\ pair'[phone'[x].conn] = {x, phone'[x].peer} /\ <<x, phone'[x].conn>> \in holds'
             /\ phone'[x].conn \notin arriving'[x]
  <2>1. CASE phone'[x].conn = phone[x].conn /\ phone'[x].peer = phone[x].peer
    <3>1. /\ pair[phone[x].conn] = {x, phone[x].peer} /\ <<x, phone[x].conn>> \in holds
          /\ phone[x].conn \notin arriving[x]
      BY <1>7, <2>1, CallPlaced
    <3>2. phone[x].conn \in Conns /\ phone[x].conn # c
      BY <1>1, <1>4, <1>7, <2>1
    <3> QED  BY <1>1, <2>1, <3>1, <3>2
  <2>2. CASE x = p /\ phone'[x].conn = c /\ phone'[x].peer = q /\ arriving'[x] \subseteq arriving[x]
    <3>1. c \notin arriving'[x]
      BY <1>1, <1>5, <2>2
    <3> QED  BY <1>1, <2>2, <3>1
  <2> QED  BY <2>1, <2>2
<1>8. ASSUME NEW x \in People, NEW d \in arriving'[x]
      PROVE  <<x, d>> \in holds'
  <2>1. d \in arriving[x] \/ (x \in {p, q} /\ d = c)
    BY <1>8
  <2>2. d \in arriving[x] => <<x, d>> \in holds
    BY ComingPlaced
  <2> QED  BY <1>1, <2>1, <2>2
<1> QED  BY <1>2, <1>6, <1>7, <1>8 DEF Placed

LEMMA ReachKept ==
  ASSUME CallInv, NEW p \in People, NEW q \in People, Reach(p, q)
  PROVE  CallInv'
<1> DEFINE c == Len(pair) + 1
<1>1. /\ {p, q} \in Contacts /\ Strikes("call") /\ Lands(p, q, <<>>)
      /\ arriving' = [arriving EXCEPT ![p] = @ \cup {Len(pair) + 1},
                                      ![q] = @ \cup {Len(pair) + 1}]
      /\ UNCHANGED <<dead, strangers, poolVars, phone, ringing, asides, said, shown>>
  BY DEF Reach
<1>2. Placed /\ NetTyped /\ PoolTyped /\ LoopTyped /\ LinesTyped /\ Readable(wire, holds)
      /\ Phones /\ RingingIsConnected
  BY DEF CallInv, CallTyped
<1>3. <<>> \in Seq(Frames)
  OBVIOUS
<1>4. Landed(p, q, c, <<>>)
  BY <1>1, <1>2, <1>3, LandsDoes
<1>5. c \in Nat
  BY <1>4 DEF Landed
<1> HIDE DEF c
<1>6. arriving' = [arriving EXCEPT ![p] = @ \cup {c}, ![q] = @ \cup {c}]
  BY <1>1 DEF c
<1>7. arriving \in [People -> SUBSET Nat]
  BY <1>2 DEF NetTyped
<1>8. /\ arriving' \in [People -> SUBSET Nat]
      /\ \A x \in People : arriving'[x] = IF x \in {p, q} THEN arriving[x] \cup {c} ELSE arriving[x]
  BY <1>5, <1>6, <1>7
<1>9. budget' \in [Kinds -> Nat]
  BY <1>1, <1>2, BudgetTyped DEF LinesTyped, Kinds
<1>10. idle' = idle /\ phone' = phone /\ ringing' = ringing
  BY <1>1 DEF poolVars
<1>11. Placed'
  BY <1>2, <1>4, <1>8, <1>10, LandedPlaced
<1>12. Readable(wire, holds)'
  BY <1>2, <1>4, LandedReadable
<1>13. NetTyped'
  BY <1>1, <1>2, <1>4, <1>8 DEF NetTyped, Landed
<1>14. CallTyped'
  BY <1>1, <1>2, <1>9, <1>13 DEF CallTyped, PoolTyped, LoopTyped, LinesTyped, poolVars
<1>15. Phones' /\ RingingIsConnected'
  BY <1>2, <1>10 DEF Phones, RingingIsConnected
<1> QED  BY <1>11, <1>12, <1>14, <1>15 DEF CallInv

LEMMA DialLandsKept ==
  ASSUME CallInv, NEW p \in People, DialLands(p), NEW q, q = phone[p].peer
  PROVE  CallInv'
<1> DEFINE c == Len(pair) + 1
           r == SaidAhead(p, c)
<1>1. /\ phone[p].state = "dial" /\ Lands(p, q, phone[p].held)
      /\ arriving' = [arriving EXCEPT ![q] = @ \cup {Len(pair) + 1}]
      /\ phone' = [phone EXCEPT ![p] = SaidAhead(p, Len(pair) + 1)]
      /\ asides' = [asides EXCEPT ![p] = Append(@, [peer |-> q, conn |-> Len(pair) + 1])]
      /\ UNCHANGED <<dead, strangers, poolVars, ringing, budget, said, shown>>
  BY DEF DialLands, Dials
<1>2. Placed /\ NetTyped /\ PoolTyped /\ LoopTyped /\ LinesTyped /\ Readable(wire, holds)
      /\ Phones /\ RingingIsConnected
  BY DEF CallInv, CallTyped
<1>3. {p, q} \in Contacts /\ phone[p].conn = 0
  BY <1>1, <1>2 DEF Phones
<1>4. /\ phone[p] \in PhoneCalls /\ q \in People /\ p # q /\ phone[p].held \in Seq(Frames)
      /\ phone \in [People -> PhoneCalls]
  BY <1>1, CallerIs
<1>5. Landed(p, q, c, phone[p].held)
  BY <1>1, <1>2, <1>3, <1>4, LandsDoes
<1>6. c \in Nat /\ c # 0
  BY <1>5 DEF Landed
<1>7. /\ arriving' = [arriving EXCEPT ![q] = @ \cup {c}] /\ phone' = [phone EXCEPT ![p] = r]
      /\ asides' = [asides EXCEPT ![p] = Append(@, [peer |-> q, conn |-> c])]
  BY <1>1
<1> HIDE DEF c
<1>8. r \in PhoneCalls /\ r.conn = c /\ r.peer = q /\ r.state = "talk" /\ r.held = <<>>
  <2>1. <<>> \in Seq(Frames)
    OBVIOUS
  <2> QED  BY <1>4, <1>6, <2>1 DEF SaidAhead, PhoneCalls
<1> HIDE DEF r
<1>9. phone' \in [People -> PhoneCalls] /\ \A x \in People : phone'[x] = IF x = p THEN r ELSE phone[x]
  BY <1>4, <1>7, <1>8
<1>10. /\ arriving' \in [People -> SUBSET Nat]
       /\ \A x \in People : arriving'[x] = IF x = q THEN arriving[x] \cup {c} ELSE arriving[x]
  <2>1. arriving \in [People -> SUBSET Nat]
    BY <1>2 DEF NetTyped
  <2> QED  BY <1>4, <1>6, <1>7, <2>1
<1>11. asides' \in [People -> Seq([peer : People, conn : Nat])]
  <2>1. asides \in [People -> Seq([peer : People, conn : Nat])]
    BY <1>2 DEF LoopTyped
  <2>2. [peer |-> q, conn |-> c] \in [peer : People, conn : Nat]
    BY <1>4, <1>6
  <2>3. Append(asides[p], [peer |-> q, conn |-> c]) \in Seq([peer : People, conn : Nat])
    BY <2>1, <2>2, AppendProperties
  <2> QED  BY <1>7, <2>1, <2>3
<1>12. idle' = idle /\ ringing' = ringing
  BY <1>1 DEF poolVars
<1>13. Placed'
  <2>1. \A x \in People : arriving'[x] \subseteq arriving[x]
           \/ (x \in {p, q} /\ arriving'[x] \subseteq arriving[x] \cup {c})
    BY <1>10
  <2>2. \A x \in People :
           \/ phone'[x].conn = phone[x].conn /\ phone'[x].peer = phone[x].peer
           \/ /\ x = p /\ phone'[x].conn = c /\ phone'[x].peer = q
              /\ arriving'[x] \subseteq arriving[x]
    BY <1>4, <1>8, <1>9, <1>10
  <2> QED  BY <1>2, <1>4, <1>5, <1>12, <2>1, <2>2, LandedPlaced
<1>14. Readable(wire, holds)'
  BY <1>2, <1>4, <1>5, LandedReadable
<1>15. NetTyped'
  BY <1>1, <1>2, <1>5, <1>10 DEF NetTyped, Landed
<1>16. LoopTyped'
  BY <1>2, <1>9, <1>11, <1>12 DEF LoopTyped
<1>17. CallTyped'
  BY <1>1, <1>2, <1>15, <1>16 DEF CallTyped, PoolTyped, LinesTyped, poolVars
<1>18. Phones'
  <2> SUFFICES ASSUME NEW x \in People
               PROVE  /\ phone'[x].state = "none" => phone'[x] = NoCall
                      /\ phone'[x].state # "none" => {x, phone'[x].peer} \in Contacts
                      /\ phone'[x].state = "dial" => phone'[x].conn = 0
                      /\ phone'[x].state = "talk" => phone'[x].conn # 0 /\ phone'[x].held = <<>>
    BY DEF Phones
  <2>1. CASE x = p
    <3>1. phone'[x] = r
      BY <1>9, <2>1
    <3> QED  BY <1>3, <1>6, <1>8, <2>1, <3>1
  <2>2. CASE x # p
    <3>1. phone'[x] = phone[x]
      BY <1>9, <2>2
    <3> QED  BY <1>2, <3>1 DEF Phones
  <2> QED  BY <2>1, <2>2
<1>19. RingingIsConnected'
  <2> SUFFICES ASSUME NEW x \in People, ringing'[x].peer # Nobody
               PROVE  \/ idle'[x][ringing'[x].peer] # 0
                      \/ phone'[x].peer = ringing'[x].peer /\ phone'[x].conn # 0
    BY DEF RingingIsConnected
  <2>1. \/ idle[x][ringing[x].peer] # 0
        \/ phone[x].peer = ringing[x].peer /\ phone[x].conn # 0
    BY <1>2, <1>12 DEF RingingIsConnected
  <2>2. x = p => phone[x].conn = 0
    BY <1>3
  <2>3. x # p => phone'[x] = phone[x]
    BY <1>9
  <2> QED  BY <1>12, <2>1, <2>2, <2>3
<1> QED  BY <1>13, <1>14, <1>17, <1>18, <1>19 DEF CallInv

\* The pool's connection goes to a call that begins.
LEMMA StartKept ==
  ASSUME CallInv, NEW p \in People, NEW q \in People, {p, q} \in Contacts,
         phone[p].state = "none", NEW first \in Seq(Frames), Start(p, q, first),
         UNCHANGED netVars, asides' = asides, LinesTyped',
         ringing' = ringing \/ NoLongerRinging(p, q)
  PROVE  CallInv'
<1> DEFINE c == idle[p][q]
           r == [NoCall EXCEPT !.state = IF c = 0 THEN "dial" ELSE "talk",
                               !.peer = q, !.conn = c, !.first = first]
<1>1. /\ lent' = [lent EXCEPT ![p] = [to |-> q, conn |-> c]]
      /\ idle' = [idle EXCEPT ![p][q] = 0] /\ phone' = [phone EXCEPT ![p] = r]
      /\ waiting' = waiting
  BY DEF Start
<1>2. Placed /\ NetTyped /\ PoolTyped /\ LoopTyped /\ Phones /\ RingingIsConnected
      /\ Readable(wire, holds)
  BY DEF CallInv, CallTyped
<1>3. idle \in [People -> [People -> Nat]]
  BY <1>2 DEF PoolTyped
<1>4. c \in Nat
  BY <1>3
<1>5. /\ r \in PhoneCalls /\ r.conn = c /\ r.peer = q /\ r.held = <<>>
      /\ r.state = IF c = 0 THEN "dial" ELSE "talk"
  <2>1. <<>> \in Seq(Frames)
    OBVIOUS
  <2> HIDE DEF c
  <2> QED  BY <1>4, <2>1 DEF NoCall, PhoneCalls
<1> HIDE DEF r
<1>6. phone' \in [People -> PhoneCalls] /\ \A x \in People : phone'[x] = IF x = p THEN r ELSE phone[x]
  <2>1. phone \in [People -> PhoneCalls]
    BY <1>2 DEF LoopTyped
  <2> QED  BY <1>1, <1>5, <2>1
<1>7. /\ idle' \in [People -> [People -> Nat]]
      /\ \A x, y \in People : idle'[x][y] = IF x = p /\ y = q THEN 0 ELSE idle[x][y]
  BY <1>1, <1>3
<1>8. lent' \in [People -> [to : People \cup {Nobody}, conn : Nat]]
  <2>1. lent \in [People -> [to : People \cup {Nobody}, conn : Nat]]
    BY <1>2 DEF PoolTyped
  <2> QED  BY <1>1, <1>4, <2>1
<1>9. pair' = pair /\ holds' = holds /\ wire' = wire /\ arriving' = arriving
      /\ strangers' = strangers /\ Conns' = Conns
  BY DEF netVars, Conns
<1>10. phone[p].conn = 0 /\ phone[p].peer = Nobody
  <2>1. phone[p] = NoCall
    BY <1>2 DEF Phones
  <2> QED  BY <2>1 DEF NoCall
<1>11. ringing \in [People -> [peer : People \cup {Nobody}, said : Seq(Frames)]]
  BY <1>2 DEF LoopTyped
<1>12. /\ ringing' \in [People -> [peer : People \cup {Nobody}, said : Seq(Frames)]]
       /\ \A x \in People : ringing'[x].peer \in {ringing[x].peer, Nobody}
  BY <1>11, HushedRing
<1>13. CallTyped'
  <2>1. NetTyped'
    BY <1>2, <1>9 DEF NetTyped
  <2>2. PoolTyped'
    BY <1>1, <1>2, <1>7, <1>8 DEF PoolTyped
  <2>3. LoopTyped'
    BY <1>2, <1>6, <1>12 DEF LoopTyped
  <2> QED  BY <2>1, <2>2, <2>3 DEF CallTyped
<1>14. Placed'
  <2>1. \A h \in holds' : h[2] \in Conns' /\ h[1] \in pair'[h[2]]
    BY <1>2, <1>9, HeldPlaced
  <2>2. ASSUME NEW x \in People, NEW y \in People, idle'[x][y] # 0
        PROVE  /\ pair'[idle'[x][y]] = {x, y} /\ <<x, idle'[x][y]>> \in holds'
               /\ idle'[x][y] # phone'[x].conn /\ idle'[x][y] \notin arriving'[x]
    <3>1. idle'[x][y] = idle[x][y] /\ ~ (x = p /\ y = q)
      BY <1>7, <2>2
    <3>2. /\ pair[idle[x][y]] = {x, y} /\ <<x, idle[x][y]>> \in holds
          /\ idle[x][y] # phone[x].conn /\ idle[x][y] \notin arriving[x]
      BY <1>2, <2>2, <3>1, IdlePlaced
    <3>3. idle[x][y] # phone'[x].conn
      <4>1. CASE x = p
        <5>1. phone'[x].conn = c
          BY <1>5, <1>6, <4>1
        <5>2. CASE c # 0
          <6>1. pair[c] = {p, q}
            BY <1>2, <5>2, IdlePlaced
          <6>2. {p, y} # {p, q}
            BY <3>1, <4>1
          <6>3. pair[idle[x][y]] = {p, y}
            BY <3>2, <4>1
          <6>4. idle[x][y] # c
            BY <6>1, <6>2, <6>3
          <6> QED  BY <5>1, <6>4
        <5>3. CASE c = 0
          BY <2>2, <3>1, <5>1, <5>3
        <5> QED  BY <5>2, <5>3
      <4>2. CASE x # p
        BY <1>6, <3>2, <4>2
      <4> QED  BY <4>1, <4>2
    <3> QED  BY <1>9, <3>1, <3>2, <3>3
  <2>3. ASSUME NEW x \in People, phone'[x].conn # 0
        PROVE  /\ pair'[phone'[x].conn] = {x, phone'[x].peer} /\ <<x, phone'[x].conn>> \in holds'
               /\ phone'[x].conn \notin arriving'[x]
    <3>1. CASE x = p
      <4>1. phone'[x].conn = c /\ phone'[x].peer = q
        BY <1>5, <1>6, <3>1
      <4>2. /\ pair[c] = {p, q} /\ <<p, c>> \in holds /\ c \notin arriving[p]
        BY <1>2, <2>3, <4>1, IdlePlaced
      <4> QED  BY <1>9, <3>1, <4>1, <4>2
    <3>2. CASE x # p
      <4>1. phone'[x] = phone[x]
        BY <1>6, <3>2
      <4>2. /\ pair[phone[x].conn] = {x, phone[x].peer} /\ <<x, phone[x].conn>> \in holds
            /\ phone[x].conn \notin arriving[x]
        BY <1>2, <2>3, <4>1, CallPlaced
      <4> QED  BY <1>9, <4>1, <4>2
    <3> QED  BY <3>1, <3>2
  <2>4. ASSUME NEW x \in People, NEW d \in arriving'[x]
        PROVE  <<x, d>> \in holds'
    BY <1>2, <1>9, <2>4, ComingPlaced
  <2> QED  BY <2>1, <2>2, <2>3, <2>4 DEF Placed
<1>15. Phones'
  <2> SUFFICES ASSUME NEW x \in People
               PROVE  /\ phone'[x].state = "none" => phone'[x] = NoCall
                      /\ phone'[x].state # "none" => {x, phone'[x].peer} \in Contacts
                      /\ phone'[x].state = "dial" => phone'[x].conn = 0
                      /\ phone'[x].state = "talk" => phone'[x].conn # 0 /\ phone'[x].held = <<>>
    BY DEF Phones
  <2>1. CASE x = p
    <3>1. phone'[x] = r
      BY <1>6, <2>1
    <3> HIDE DEF c
    <3> QED  BY <1>5, <2>1, <3>1
  <2>2. CASE x # p
    <3>1. phone'[x] = phone[x]
      BY <1>6, <2>2
    <3> QED  BY <1>2, <3>1 DEF Phones
  <2> QED  BY <2>1, <2>2
<1>16. Readable(wire, holds)'
  BY <1>2, <1>9 DEF Readable
<1>17. RingingIsConnected'
  <2> SUFFICES ASSUME NEW x \in People, ringing'[x].peer # Nobody
               PROVE  \/ idle'[x][ringing'[x].peer] # 0
                      \/ phone'[x].peer = ringing'[x].peer /\ phone'[x].conn # 0
    BY DEF RingingIsConnected
  <2>1. ringing'[x].peer = ringing[x].peer /\ ringing[x].peer \in People
    BY <1>11, <1>12
  <2>2. \/ idle[x][ringing[x].peer] # 0
        \/ phone[x].peer = ringing[x].peer /\ phone[x].conn # 0
    BY <1>2, <2>1 DEF RingingIsConnected
  <2>3. CASE x = p
    <3>1. idle[x][ringing[x].peer] # 0
      BY <1>10, <2>2, <2>3
    <3>2. phone'[x].peer = q /\ phone'[x].conn = c
      BY <1>5, <1>6, <2>3
    <3>3. CASE ringing[x].peer = q
      <4>1. phone'[x].conn # 0
        BY <2>3, <3>1, <3>2, <3>3
      <4> QED  BY <2>1, <3>2, <3>3, <4>1
    <3>4. CASE ringing[x].peer # q
      BY <1>7, <2>1, <2>3, <3>1, <3>4
    <3> QED  BY <3>3, <3>4
  <2>4. CASE x # p
    <3>1. phone'[x] = phone[x]
      BY <1>6, <2>4
    <3>2. idle'[x][ringing[x].peer] = idle[x][ringing[x].peer]
      BY <1>7, <2>1, <2>4
    <3> QED  BY <2>1, <2>2, <3>1, <3>2
  <2> QED  BY <2>3, <2>4
<1> QED  BY <1>13, <1>14, <1>15, <1>16, <1>17 DEF CallInv

LEMMA PlaceCallKept ==
  ASSUME CallInv, NEW p \in People, NEW q \in People, PlaceCall(p, q)
  PROVE  CallInv'
<1>1. /\ {p, q} \in Contacts /\ phone[p].state = "none" /\ Strikes("call") /\ Start(p, q, <<>>)
      /\ UNCHANGED <<netVars, ringing, asides, said, shown>>
  BY DEF PlaceCall
<1>2. <<>> \in Seq(Frames)
  OBVIOUS
<1>3. LinesTyped'
  BY <1>1, BudgetTyped DEF CallInv, CallTyped, LinesTyped, Kinds
<1> QED  BY <1>1, <1>2, <1>3, StartKept

LEMMA AnswerKept ==
  ASSUME CallInv, NEW p \in People, Answer(p), NEW q, q = ringing[p].peer
  PROVE  CallInv'
<1>1. /\ q # Nobody /\ phone[p].state = "none" /\ ringing' = [ringing EXCEPT ![p] = NoRing]
      /\ UNCHANGED <<poolVars, phone>> \/ Start(p, q, ringing[p].said)
      /\ UNCHANGED <<netVars, asides, budget, historyVars>>
  BY DEF Answer
<1>2. ringing \in [People -> [peer : People \cup {Nobody}, said : Seq(Frames)]]
  BY DEF CallInv, CallTyped, LoopTyped
<1>3. q \in People /\ ringing[p].said \in Seq(Frames)
  BY <1>1, <1>2
<1>4. LinesTyped'
  BY <1>1 DEF CallInv, CallTyped, LinesTyped, historyVars
<1>5. NoLongerRinging(p, q)
  BY <1>1, <1>2 DEF NoLongerRinging
<1>6. phone[p].conn = 0
  <2>1. phone[p] = NoCall
    BY <1>1 DEF CallInv, Phones
  <2> QED  BY <2>1 DEF NoCall
<1>7. idle[p][q] # 0
  BY <1>1, <1>6 DEF CallInv, RingingIsConnected
<1>8. {p, q} \in Contacts
  BY <1>3, <1>7, PoolConn
<1>9. CASE Start(p, q, ringing[p].said)
  BY <1>1, <1>3, <1>4, <1>5, <1>8, <1>9, StartKept
<1>10. CASE UNCHANGED <<poolVars, phone>>
  <2>1. ringing' \in [People -> [peer : People \cup {Nobody}, said : Seq(Frames)]]
    BY <1>2, <1>5, HushedRing
  <2>2. wire' \in [Conns -> BothSides] /\ Readable(wire', holds)
    BY <1>1 DEF CallInv, CallTyped, NetTyped, netVars
  <2>3. SamePlaces /\ PoolTyped' /\ LoopTyped' /\ Phones' /\ strangers' \in [People -> Nat]
    BY <1>1, <1>10, <2>1 DEF CallInv, CallTyped, SamePlaces, PoolTyped, LoopTyped, Phones, NetTyped,
       netVars, poolVars
  <2> QED  BY <1>4, <1>5, <2>2, <2>3, StillStep
<1> QED  BY <1>1, <1>9, <1>10

LEMMA LostKept ==
  ASSUME CallInv, NEW p \in People, NEW q \in People, Lost(p, q), NEW c, c = idle[p][q]
  PROVE  CallInv'
<1>1. /\ c # 0 /\ Ends(p, c) /\ idle' = [idle EXCEPT ![p][q] = 0]
      /\ holds' = holds \ {<<p, c>>} /\ NoLongerRinging(p, q)
      /\ UNCHANGED <<pair, dead, wire, arriving, strangers, lent, waiting, phone, asides,
                     budget, historyVars>>
  BY DEF Lost
<1>2. Placed /\ NetTyped /\ PoolTyped /\ LoopTyped /\ LinesTyped /\ Phones /\ RingingIsConnected
      /\ Readable(wire, holds)
  BY DEF CallInv, CallTyped
<1>3. c \in Conns /\ pair[c] = {p, q} /\ p # q /\ Far(p, c) = q /\ <<p, c>> \in holds
  BY <1>1, PoolConn
<1>4. /\ idle' \in [People -> [People -> Nat]]
      /\ \A x, y \in People : idle'[x][y] = IF x = p /\ y = q THEN 0 ELSE idle[x][y]
  <2>1. idle \in [People -> [People -> Nat]]
    BY <1>2 DEF PoolTyped
  <2> QED  BY <1>1, <2>1
<1>5. Conns' = Conns
  BY <1>1 DEF Conns
<1>6. ringing \in [People -> [peer : People \cup {Nobody}, said : Seq(Frames)]]
  BY <1>2 DEF LoopTyped
<1>7. q # Nobody
  BY CallAssumption
<1>8. /\ ringing' \in [People -> [peer : People \cup {Nobody}, said : Seq(Frames)]]
      /\ \A x \in People : ringing'[x].peer \in {ringing[x].peer, Nobody}
      /\ ringing'[p].peer # q
  BY <1>1, <1>6, <1>7, HushedRing
<1>9. CallTyped'
  <2>1. NetTyped'
    BY <1>1, <1>2, <1>5 DEF NetTyped
  <2>2. PoolTyped'
    BY <1>1, <1>2, <1>4 DEF PoolTyped
  <2>3. LoopTyped' /\ LinesTyped'
    BY <1>1, <1>2, <1>8 DEF LoopTyped, LinesTyped, historyVars
  <2> QED  BY <2>1, <2>2, <2>3 DEF CallTyped
<1>10. Placed'
  <2>1. \A h \in holds' : h[2] \in Conns' /\ h[1] \in pair'[h[2]]
    BY <1>1, <1>2, <1>5, HeldPlaced
  <2>2. ASSUME NEW x \in People, NEW y \in People, idle'[x][y] # 0
        PROVE  /\ pair'[idle'[x][y]] = {x, y} /\ <<x, idle'[x][y]>> \in holds'
               /\ idle'[x][y] # phone'[x].conn /\ idle'[x][y] \notin arriving'[x]
    <3>1. idle'[x][y] = idle[x][y] /\ ~ (x = p /\ y = q)
      BY <1>4, <2>2
    <3>2. /\ pair[idle[x][y]] = {x, y} /\ <<x, idle[x][y]>> \in holds
          /\ idle[x][y] # phone[x].conn /\ idle[x][y] \notin arriving[x]
      BY <1>2, <2>2, <3>1, IdlePlaced
    <3>3. <<x, idle[x][y]>> # <<p, c>>
      BY <1>3, <3>1, <3>2
    <3>4. <<x, idle[x][y]>> \in holds'
      BY <1>1, <3>2, <3>3
    <3>5. pair' = pair /\ arriving' = arriving /\ phone' = phone
      BY <1>1
    <3> QED  BY <3>1, <3>2, <3>4, <3>5
  <2>3. ASSUME NEW x \in People, phone'[x].conn # 0
        PROVE  /\ pair'[phone'[x].conn] = {x, phone'[x].peer} /\ <<x, phone'[x].conn>> \in holds'
               /\ phone'[x].conn \notin arriving'[x]
    <3>1. pair' = pair /\ arriving' = arriving /\ phone' = phone
      BY <1>1
    <3>2. /\ pair[phone[x].conn] = {x, phone[x].peer} /\ <<x, phone[x].conn>> \in holds
          /\ phone[x].conn \notin arriving[x]
      BY <1>2, <2>3, <3>1, CallPlaced
    <3>3. c # phone[p].conn
      BY <1>1, <1>2, IdlePlaced
    <3>4. <<x, phone[x].conn>> # <<p, c>>
      BY <3>3
    <3>5. <<x, phone[x].conn>> \in holds'
      BY <1>1, <3>2, <3>4
    <3> QED  BY <3>1, <3>2, <3>5
  <2>4. ASSUME NEW x \in People, NEW d \in arriving'[x]
        PROVE  <<x, d>> \in holds'
    <3>1. d \in arriving[x]
      BY <1>1, <2>4
    <3>2. <<x, d>> \in holds
      BY <1>2, <3>1, ComingPlaced
    <3>3. c \notin arriving[p]
      BY <1>1, <1>2, IdlePlaced
    <3>4. <<x, d>> # <<p, c>>
      BY <3>1, <3>3
    <3> QED  BY <1>1, <3>2, <3>4
  <2> QED  BY <2>1, <2>2, <2>3, <2>4 DEF Placed
<1>11. Phones'
  BY <1>1, <1>2 DEF Phones
<1>12. Readable(wire, holds)'
  <2> SUFFICES ASSUME NEW d \in Conns, NEW x \in People, NEW y \in People, pair[d] = {x, y}, x # y,
                      wire[d][y] # <<>>
               PROVE  <<x, d>> \in holds'
    BY <1>1, <1>5 DEF Readable
  <2>1. <<x, d>> \in holds
    BY <1>2 DEF Readable
  <2>2. wire[c][q] = <<>>
    BY <1>1, <1>3 DEF Ends
  <2>3. <<x, d>> # <<p, c>>
    <3>1. SUFFICES ASSUME x = p, d = c PROVE FALSE
      OBVIOUS
    <3>2. y = q
      BY <1>3, <3>1
    <3> QED  BY <2>2, <3>1, <3>2
  <2> QED  BY <1>1, <2>1, <2>3
<1>13. RingingIsConnected'
  <2> SUFFICES ASSUME NEW x \in People, ringing'[x].peer # Nobody
               PROVE  \/ idle'[x][ringing'[x].peer] # 0
                      \/ phone'[x].peer = ringing'[x].peer /\ phone'[x].conn # 0
    BY DEF RingingIsConnected
  <2>1. ringing'[x].peer = ringing[x].peer /\ ringing[x].peer \in People
    BY <1>6, <1>8
  <2>2. \/ idle[x][ringing[x].peer] # 0
        \/ phone[x].peer = ringing[x].peer /\ phone[x].conn # 0
    BY <1>2, <2>1 DEF RingingIsConnected
  <2>3. ~ (x = p /\ ringing[x].peer = q)
    BY <1>8, <2>1
  <2>4. phone' = phone
    BY <1>1
  <2> QED  BY <1>4, <2>1, <2>2, <2>3, <2>4
<1> QED  BY <1>9, <1>10, <1>11, <1>12, <1>13 DEF CallInv

LEMMA QuitKept ==
  ASSUME CallInv, NEW p \in People, Quit(p)
  PROVE  CallInv'
<1> DEFINE mine == {c \in Conns : <<p, c>> \in holds}
<1>1. /\ Strikes("trouble")
      /\ holds' = holds \ ({p} \X mine)
      /\ wire' = [c \in Conns |-> IF c \in mine THEN [wire[c] EXCEPT ![Far(p, c)] = <<>>]
                                                ELSE wire[c]]
      /\ arriving' = [arriving EXCEPT ![p] = {}]
      /\ strangers' = [strangers EXCEPT ![p] = 0]
      /\ idle' = [idle EXCEPT ![p] = [q \in People |-> 0]]
      /\ lent' = [lent EXCEPT ![p] = NotLent]
      /\ waiting' = [waiting EXCEPT ![p] = Silent]
      /\ phone' = [phone EXCEPT ![p] = NoCall]
      /\ ringing' = [ringing EXCEPT ![p] = NoRing]
      /\ asides' = [asides EXCEPT ![p] = <<>>]
      /\ UNCHANGED <<pair, dead, historyVars>>
  BY DEF Quit
<1>2. Placed /\ NetTyped /\ PoolTyped /\ LoopTyped /\ LinesTyped /\ Phones /\ RingingIsConnected
      /\ Readable(wire, holds)
  BY DEF CallInv, CallTyped
<1>3. Conns' = Conns /\ pair' = pair
  BY <1>1 DEF Conns
<1>4. wire \in [Conns -> BothSides] /\ holds \subseteq People \X Nat
  BY <1>2 DEF NetTyped
<1>5. \A d \in Conns : wire'[d] = IF d \in mine THEN [wire[d] EXCEPT ![Far(p, d)] = <<>>] ELSE wire[d]
  BY <1>1
<1>6. wire' \in [Conns -> BothSides]
  <2>1. \A d \in Conns : wire[d] \in BothSides /\ [wire[d] EXCEPT ![Far(p, d)] = <<>>] \in BothSides
    <3>1. <<>> \in Seq(Frames)
      OBVIOUS
    <3> QED  BY <1>4, <3>1 DEF BothSides
  <2> HIDE DEF mine
  <2> QED  BY <1>1, <2>1
<1>7. \A h \in holds' : h \in holds /\ h[1] # p
  BY <1>1, <1>2, <1>4, HeldPlaced
<1>8. \A h \in holds : h[1] # p => h \in holds'
  BY <1>1
<1>9. /\ phone' \in [People -> PhoneCalls]
      /\ \A x \in People : phone'[x] = IF x = p THEN NoCall ELSE phone[x]
  <2>1. NoCall \in PhoneCalls
    <3>1. <<>> \in Seq(Frames)
      OBVIOUS
    <3> QED  BY <3>1 DEF NoCall, PhoneCalls
  <2>2. phone \in [People -> PhoneCalls]
    BY <1>2 DEF LoopTyped
  <2> QED  BY <1>1, <2>1, <2>2
<1>10. NoCall.conn = 0 /\ NoCall.state = "none"
  BY DEF NoCall
<1>11. /\ idle' \in [People -> [People -> Nat]]
       /\ \A x, y \in People : idle'[x][y] = IF x = p THEN 0 ELSE idle[x][y]
  <2>1. idle \in [People -> [People -> Nat]]
    BY <1>2 DEF PoolTyped
  <2> QED  BY <1>1, <2>1
<1>12. /\ arriving' \in [People -> SUBSET Nat]
       /\ \A x \in People : arriving'[x] = IF x = p THEN {} ELSE arriving[x]
  <2>1. arriving \in [People -> SUBSET Nat]
    BY <1>2 DEF NetTyped
  <2> QED  BY <1>1, <2>1
<1>13. /\ ringing' \in [People -> [peer : People \cup {Nobody}, said : Seq(Frames)]]
       /\ \A x \in People : ringing'[x] = IF x = p THEN NoRing ELSE ringing[x]
  <2>1. NoRing \in [peer : People \cup {Nobody}, said : Seq(Frames)]
    BY DEF NoRing
  <2>2. ringing \in [People -> [peer : People \cup {Nobody}, said : Seq(Frames)]]
    BY <1>2 DEF LoopTyped
  <2> QED  BY <1>1, <2>1, <2>2
<1>14. CallTyped'
  <2>1. strangers' \in [People -> Nat]
    BY <1>1, <1>2 DEF NetTyped
  <2>2. NetTyped'
    BY <1>2, <1>3, <1>4, <1>6, <1>7, <1>12, <2>1 DEF NetTyped
  <2>3. lent' \in [People -> [to : People \cup {Nobody}, conn : Nat]]
    <3>1. NotLent \in [to : People \cup {Nobody}, conn : Nat]
      BY DEF NotLent
    <3> QED  BY <1>1, <1>2, <3>1 DEF PoolTyped
  <2>4. waiting' \in [People -> [People -> Seq({CallDecline})]]
    <3>1. <<>> \in Seq({CallDecline})
      OBVIOUS
    <3>2. Silent \in [People -> Seq({CallDecline})]
      BY <3>1 DEF Silent
    <3> QED  BY <1>1, <1>2, <3>2 DEF PoolTyped
  <2>5. PoolTyped'
    BY <1>11, <2>3, <2>4 DEF PoolTyped
  <2>6. asides' \in [People -> Seq([peer : People, conn : Nat])]
    <3>1. <<>> \in Seq([peer : People, conn : Nat])
      OBVIOUS
    <3> QED  BY <1>1, <1>2, <3>1 DEF LoopTyped
  <2>7. LoopTyped'
    BY <1>9, <1>13, <2>6 DEF LoopTyped
  <2>8. LinesTyped'
    BY <1>1, <1>2, BudgetTyped DEF LinesTyped, historyVars, Kinds
  <2> QED  BY <2>2, <2>5, <2>7, <2>8 DEF CallTyped
<1>15. Placed'
  <2>1. \A h \in holds' : h[2] \in Conns' /\ h[1] \in pair'[h[2]]
    BY <1>2, <1>3, <1>7, HeldPlaced
  <2>2. ASSUME NEW x \in People, NEW y \in People, idle'[x][y] # 0
        PROVE  /\ pair'[idle'[x][y]] = {x, y} /\ <<x, idle'[x][y]>> \in holds'
               /\ idle'[x][y] # phone'[x].conn /\ idle'[x][y] \notin arriving'[x]
    <3>1. x # p /\ idle'[x][y] = idle[x][y] /\ phone'[x] = phone[x] /\ arriving'[x] = arriving[x]
      BY <1>9, <1>11, <1>12, <2>2
    <3>2. /\ pair[idle[x][y]] = {x, y} /\ <<x, idle[x][y]>> \in holds
          /\ idle[x][y] # phone[x].conn /\ idle[x][y] \notin arriving[x]
      BY <1>2, <2>2, <3>1, IdlePlaced
    <3>3. <<x, idle[x][y]>> \in holds'
      BY <1>8, <3>1, <3>2
    <3> QED  BY <1>3, <3>1, <3>2, <3>3
  <2>3. ASSUME NEW x \in People, phone'[x].conn # 0
        PROVE  /\ pair'[phone'[x].conn] = {x, phone'[x].peer} /\ <<x, phone'[x].conn>> \in holds'
               /\ phone'[x].conn \notin arriving'[x]
    <3>1. x # p /\ phone'[x] = phone[x] /\ arriving'[x] = arriving[x]
      BY <1>9, <1>10, <1>12, <2>3
    <3>2. /\ pair[phone[x].conn] = {x, phone[x].peer} /\ <<x, phone[x].conn>> \in holds
          /\ phone[x].conn \notin arriving[x]
      BY <1>2, <2>3, <3>1, CallPlaced
    <3>3. <<x, phone[x].conn>> \in holds'
      BY <1>8, <3>1, <3>2
    <3> QED  BY <1>3, <3>1, <3>2, <3>3
  <2>4. ASSUME NEW x \in People, NEW d \in arriving'[x]
        PROVE  <<x, d>> \in holds'
    <3>1. x # p /\ d \in arriving[x]
      BY <1>12, <2>4
    <3>2. <<x, d>> \in holds
      BY <1>2, <3>1, ComingPlaced
    <3> QED  BY <1>8, <3>1, <3>2
  <2> QED  BY <2>1, <2>2, <2>3, <2>4 DEF Placed
<1>16. Phones'
  <2> SUFFICES ASSUME NEW x \in People
               PROVE  /\ phone'[x].state = "none" => phone'[x] = NoCall
                      /\ phone'[x].state # "none" => {x, phone'[x].peer} \in Contacts
                      /\ phone'[x].state = "dial" => phone'[x].conn = 0
                      /\ phone'[x].state = "talk" => phone'[x].conn # 0 /\ phone'[x].held = <<>>
    BY DEF Phones
  <2>1. CASE x = p
    <3>1. phone'[x] = NoCall
      BY <1>9, <2>1
    <3> QED  BY <1>10, <3>1
  <2>2. CASE x # p
    <3>1. phone'[x] = phone[x]
      BY <1>9, <2>2
    <3> QED  BY <1>2, <3>1 DEF Phones
  <2> QED  BY <2>1, <2>2
<1>17. Readable(wire, holds)'
  <2> SUFFICES ASSUME NEW d \in Conns, NEW x \in People, NEW y \in People, pair[d] = {x, y}, x # y,
                      wire'[d][y] # <<>>
               PROVE  <<x, d>> \in holds'
    BY <1>3 DEF Readable
  <2>1. d \in mine /\ x = p => FALSE
    <3> SUFFICES ASSUME d \in mine, x = p PROVE FALSE
      OBVIOUS
    <3>1. Far(p, d) = y
      BY FarIs
    <3>2. wire'[d] = [wire[d] EXCEPT ![y] = <<>>]
      BY <1>5, <3>1
    <3> QED  BY <1>4, <3>2 DEF BothSides
  <2>2. wire[d][y] # <<>>
    <3>1. CASE d \in mine
      <4>1. wire'[d] = [wire[d] EXCEPT ![Far(p, d)] = <<>>]
        BY <1>5, <3>1
      <4> QED  BY <1>4, <4>1 DEF BothSides
    <3>2. CASE d \notin mine
      <4>1. wire'[d] = wire[d]
        BY <1>5, <3>2
      <4> QED  BY <4>1
    <3> QED  BY <3>1, <3>2
  <2>3. <<x, d>> \in holds
    BY <1>2, <2>2 DEF Readable
  <2>4. x # p
    BY <2>1, <2>3
  <2> QED  BY <1>8, <2>3, <2>4
<1>18. RingingIsConnected'
  <2> SUFFICES ASSUME NEW x \in People, ringing'[x].peer # Nobody
               PROVE  \/ idle'[x][ringing'[x].peer] # 0
                      \/ phone'[x].peer = ringing'[x].peer /\ phone'[x].conn # 0
    BY DEF RingingIsConnected
  <2>1. x # p
    BY <1>13 DEF NoRing
  <2>2. ringing'[x] = ringing[x] /\ phone'[x] = phone[x]
    BY <1>9, <1>13, <2>1
  <2>3. ringing[x].peer \in People
    BY <1>2, <2>2 DEF LoopTyped
  <2>4. idle'[x][ringing[x].peer] = idle[x][ringing[x].peer]
    BY <1>11, <2>1, <2>3
  <2> QED  BY <1>2, <2>2, <2>4 DEF RingingIsConnected
<1> QED  BY <1>14, <1>15, <1>16, <1>17, <1>18 DEF CallInv

LEMMA CallInit == Init => CallInv
<1> SUFFICES ASSUME Init PROVE CallInv
  OBVIOUS
<1>1. PICK some \in Starts :
       /\ pair = SetToSeq(some)
       /\ holds = UNION {{<<p, c>> : p \in pair[c]} : c \in DOMAIN pair}
       /\ wire = [c \in DOMAIN pair |-> Silent]
       /\ idle = [p \in People |-> [q \in People |->
            IF {p, q} \in some THEN CHOOSE c \in DOMAIN pair : pair[c] = {p, q} ELSE 0]]
  BY DEF Init
<1>2. /\ arriving = [p \in People |-> {}] /\ strangers = [p \in People |-> 0]
      /\ lent = [p \in People |-> NotLent] /\ waiting = [p \in People |-> Silent]
      /\ phone = [p \in People |-> NoCall] /\ ringing = [p \in People |-> NoRing]
      /\ asides = Silent /\ shown = Silent
      /\ said = [p \in People |-> [q \in People |-> 0]] /\ budget = Budget
  BY DEF Init
<1>3. IsFiniteSet(some) /\ some \subseteq Contacts
  BY CallAssumption
<1>4. /\ pair \in Seq(some)
      /\ \A i, j \in DOMAIN pair : pair[i] = pair[j] => i = j
      /\ \A x \in some : \E i \in DOMAIN pair : pair[i] = x
  BY <1>1, <1>3, InSomeOrder
<1>5. pair \in Seq(Contacts) /\ (\A c \in Conns : pair[c] \in some) /\ Conns = 1 .. Len(pair)
      /\ Len(pair) \in Nat /\ 0 \notin Conns
  BY <1>3, <1>4 DEF Conns
<1>6. \A p, c : <<p, c>> \in holds <=> c \in Conns /\ p \in pair[c]
  BY <1>1 DEF Conns
<1>7. \A h \in holds : h = <<h[1], h[2]>>
  BY <1>1
<1>8. holds \subseteq People \X Nat
  <2> SUFFICES ASSUME NEW h \in holds PROVE h \in People \X Nat
    OBVIOUS
  <2>1. h[2] \in Conns /\ h[1] \in pair[h[2]]
    BY <1>6, <1>7
  <2>2. h[2] \in Nat
    BY <1>5, <2>1
  <2>3. h[1] \in People
    <3>1. pair[h[2]] \in Contacts
      BY <1>3, <1>5, <2>1
    <3> QED  BY <2>1, <3>1, CallAssumption
  <2> QED  BY <1>7, <2>2, <2>3
<1>9. ASSUME NEW p \in People, NEW q \in People, idle[p][q] # 0
      PROVE  idle[p][q] \in Conns /\ pair[idle[p][q]] = {p, q}
  <2>1. {p, q} \in some /\ idle[p][q] = CHOOSE c \in DOMAIN pair : pair[c] = {p, q}
    BY <1>1, <1>9
  <2>2. \E c \in DOMAIN pair : pair[c] = {p, q}
    BY <1>4, <2>1
  <2> QED  BY <2>1, <2>2 DEF Conns
<1>10. \A p \in People : phone[p] = NoCall /\ ringing[p] = NoRing
  BY <1>2
<1>11. NoCall.conn = 0 /\ NoCall.state = "none" /\ NoRing.peer = Nobody
  BY DEF NoCall, NoRing
<1>12. Silent \in BothSides /\ \A p \in People : Silent[p] = <<>>
  <2>1. <<>> \in Seq(Frames)
    OBVIOUS
  <2> QED  BY <2>1 DEF Silent, BothSides
<1>13. CallTyped
  <2>1. wire \in [Conns -> BothSides]
    BY <1>1, <1>12 DEF Conns
  <2>2. NetTyped
    BY <1>2, <1>5, <1>8, <2>1 DEF NetTyped
  <2>3. idle \in [People -> [People -> Nat]]
    <3> DEFINE E(p, q) == IF {p, q} \in some THEN CHOOSE c \in DOMAIN pair : pair[c] = {p, q}
                                             ELSE 0
    <3>1. idle = [p \in People |-> [q \in People |-> E(p, q)]]
      BY <1>1
    <3>2. \A p, q \in People : E(p, q) \in Nat
      <4> SUFFICES ASSUME NEW p \in People, NEW q \in People PROVE E(p, q) \in Nat
        OBVIOUS
      <4>1. idle[p][q] = E(p, q)
        BY <3>1
      <4>2. idle[p][q] # 0 => idle[p][q] \in Nat
        BY <1>5, <1>9
      <4> HIDE DEF E
      <4> QED  BY <4>1, <4>2
    <3> HIDE DEF E
    <3> QED  BY <3>1, <3>2
  <2>4. lent \in [People -> [to : People \cup {Nobody}, conn : Nat]]
    BY <1>2 DEF NotLent
  <2>5. waiting \in [People -> [People -> Seq({CallDecline})]]
    <3>1. <<>> \in Seq({CallDecline})
      OBVIOUS
    <3> QED  BY <1>2, <3>1 DEF Silent
  <2>6. phone \in [People -> PhoneCalls]
    <3>1. <<>> \in Seq(Frames)
      OBVIOUS
    <3>2. NoCall \in PhoneCalls
      BY <3>1 DEF NoCall, PhoneCalls
    <3> QED  BY <1>2, <3>2
  <2>7. ringing \in [People -> [peer : People \cup {Nobody}, said : Seq(Frames)]]
    BY <1>2 DEF NoRing
  <2>8. asides \in [People -> Seq([peer : People, conn : Nat])]
    <3>1. <<>> \in Seq([peer : People, conn : Nat])
      OBVIOUS
    <3> QED  BY <1>2, <3>1 DEF Silent
  <2>9. LinesTyped
    <3>1. <<>> \in Seq(People \X Nat)
      OBVIOUS
    <3> QED  BY <1>2, <3>1, CallAssumption DEF LinesTyped, Silent
  <2> QED  BY <2>2, <2>3, <2>4, <2>5, <2>6, <2>7, <2>8, <2>9 DEF CallTyped, PoolTyped, LoopTyped
<1>14. Placed
  <2>1. \A h \in holds : h[2] \in Conns /\ h[1] \in pair[h[2]]
    BY <1>6, <1>7
  <2>2. ASSUME NEW p \in People, NEW q \in People, idle[p][q] # 0
        PROVE  /\ pair[idle[p][q]] = {p, q} /\ <<p, idle[p][q]>> \in holds
               /\ idle[p][q] # phone[p].conn /\ idle[p][q] \notin arriving[p]
    <3>1. idle[p][q] \in Conns /\ pair[idle[p][q]] = {p, q}
      BY <1>9, <2>2
    <3>2. arriving[p] = {} /\ phone[p].conn = 0
      BY <1>2, <1>10, <1>11
    <3> QED  BY <1>6, <2>2, <3>1, <3>2
  <2>3. \A p \in People : phone[p].conn = 0
    BY <1>10, <1>11
  <2>4. \A p \in People : \A c \in arriving[p] : <<p, c>> \in holds
    BY <1>2
  <2> QED  BY <2>1, <2>2, <2>3, <2>4 DEF Placed
<1>15. Phones
  BY <1>10, <1>11 DEF Phones
<1>16. Readable(wire, holds)
  <2>1. \A c \in Conns, p \in People : wire[c][p] = <<>>
    BY <1>1, <1>12 DEF Conns
  <2> QED  BY <2>1 DEF Readable
<1>17. RingingIsConnected
  BY <1>10, <1>11 DEF RingingIsConnected
<1> QED  BY <1>13, <1>14, <1>15, <1>16, <1>17 DEF CallInv

LEMMA CallNext ==
  ASSUME CallInv, [Next]_vars
  PROVE  CallInv'
<1>1. CASE UNCHANGED vars
  <2>1. pair' = pair /\ holds' = holds /\ wire' = wire /\ Conns' = Conns
    BY <1>1 DEF vars, netVars, Conns
  <2>2. CallTyped'
    BY <1>1, <2>1 DEF CallInv, CallTyped, NetTyped, PoolTyped, LoopTyped, LinesTyped, vars, netVars,
       poolVars, historyVars
  <2>3. Readable(wire, holds)'
    BY <2>1 DEF CallInv, Readable
  <2>4. SamePlaces /\ ringing' = ringing /\ phone' = phone /\ idle' = idle
    BY <1>1 DEF SamePlaces, vars, netVars, poolVars
  <2>5. Placed'
    BY <2>4, StillPlaced DEF CallInv
  <2>6. Phones' /\ RingingIsConnected'
    BY <2>4 DEF CallInv, Phones, RingingIsConnected
  <2> QED  BY <2>2, <2>3, <2>5, <2>6 DEF CallInv
<1>2. CASE \E c \in Conns : Break(c)
  BY <1>2, BreakKept
<1>3. ASSUME NEW p \in People, Types(p)
      PROVE  CallInv'
  BY <1>3, AnswerKept, DeclineKept, HoldLineKept, SayKept, EndingKept, PlaceCallKept DEF Types
<1>4. ASSUME NEW p \in People, Loops(p)
      PROVE  CallInv'
  BY <1>4, OpenedKept, CallEndedKept, ArrivesKept, LostKept, SpokenToKept, HushedKept DEF Loops
<1>5. ASSUME NEW p \in People, Calls(p)
      PROVE  CallInv'
  BY <1>5, DialLandsKept, EndingKept, HearFirstKept, HearKept DEF Calls
<1>6. ASSUME NEW p \in People,
             Stranger(p) \/ Refused(p) \/ Quit(p) \/ \E q \in People : Reach(p, q)
      PROVE  CallInv'
  BY <1>6, StrangersKept, QuitKept, ReachKept
<1> QED  BY <1>1, <1>2, <1>3, <1>4, <1>5, <1>6 DEF Next

LEMMA CallHolds == Spec => []CallInv
BY CallInit, CallNext, PTL DEF Spec

\* Whoever rings can be answered: there is a connection to them, in the pool or
\* with the call, however dials, losses, ends of calls and quits interleave.
\* (main.rs Heard::Lost, CallEnded)
THEOREM RingingCanBeAnswered == Spec => []RingingIsConnected
<1>1. CallInv => RingingIsConnected
  BY DEF CallInv
<1> QED  BY <1>1, CallHolds, PTL

-----------------------------------------------------------------------------
(***************************************************************************)
(* The order of lines.                                                     *)
(***************************************************************************)

\* The numbers of the lines among some frames, and the lines in order.
Numbers(s) == {s[i].n : i \in {j \in DOMAIN s : s[j].t = "text"}}
Rising(s) ==
  \A i, j \in DOMAIN s : i < j /\ s[i].t = "text" /\ s[j].t = "text" => s[i].n < s[j].n

Worded(s) == \A i \in DOMAIN s : s[i].t = "text"

\* From q to p: shown already, in hand, on the way, held until a dial lands.
ShownNow(p, q) == {shown[p][i][2] : i \in {j \in DOMAIN shown[p] : shown[p][j][1] = q}}
First(p, q) == IF phone[p].peer = q THEN phone[p].first ELSE <<>>
Rung(p, q) == IF ringing[p].peer = q THEN ringing[p].said ELSE <<>>
InHand(p, q) == Numbers(First(p, q)) \cup Numbers(Rung(p, q))
OnItsWay(p, q) == UNION {Numbers(wire[c][q]) : c \in Between(p, q)}
Held(p, q) == IF phone[q].peer = p THEN phone[q].held ELSE <<>>

Below(A, B) == \A a \in A, b \in B : a < b
Ordered(S, A, W, H, top) ==
  /\ Below(S, A) /\ Below(S, W) /\ Below(S, H)
  /\ Below(A, W) /\ Below(A, H) /\ Below(W, H)
  /\ \A n \in S \cup A \cup W \cup H : n <= top

ShownRises(p, q) ==
  \A i, j \in DOMAIN shown[p] :
    i < j /\ shown[p][i][1] = q /\ shown[p][j][1] = q => shown[p][i][2] < shown[p][j][2]

Risings(p, q) ==
  /\ ShownRises(p, q)
  /\ Rising(First(p, q)) /\ Rising(Rung(p, q)) /\ Rising(Held(p, q))
  /\ Worded(First(p, q)) /\ Worded(Rung(p, q))
  /\ \A c \in Between(p, q) : Rising(wire[c][q])

\* At most one connection is held between two.
OneBetween(p, q) ==
  \A c, d \in Between(p, q) :
    {<<p, c>>, <<q, c>>} \cap holds # {} /\ {<<p, d>>, <<q, d>>} \cap holds # {} => c = d

InOrder(p, q) ==
  /\ OneBetween(p, q) /\ (ringing[p].peer = q => phone[p].peer # q) /\ Risings(p, q)
  /\ Ordered(ShownNow(p, q), InHand(p, q), OnItsWay(p, q), Numbers(Held(p, q)), said[q][p])

OrderInv ==
  /\ \A p \in People : \A i \in DOMAIN shown[p] : shown[p][i][1] # p
  /\ \A p, q \in People : p # q /\ Plain(p, q) => InOrder(p, q)

\* The inductive invariant of the theorem on the order of lines.
LinesInv == CallInv /\ OrderInv

LEMMA NumbersTyped ==
  ASSUME NEW s \in Seq(Frames)
  PROVE  /\ Numbers(s) \subseteq Nat /\ \A i \in DOMAIN s : s[i] \in Frames /\ s[i].n \in Nat
         /\ \A n : n \in Numbers(s) <=> \E i \in DOMAIN s : s[i].t = "text" /\ s[i].n = n
<1>1. \A i \in DOMAIN s : s[i] \in Frames
  OBVIOUS
<1>2. \A f \in Frames : f.n \in Nat
  BY DEF Frames
<1> QED  BY <1>1, <1>2 DEF Numbers

LEMMA NothingRises == Numbers(<<>>) = {} /\ Rising(<<>>) /\ Worded(<<>>)
BY DEF Numbers, Rising, Worded

\* One after another.
LEMMA JoinedRise ==
  ASSUME NEW s \in Seq(Frames), NEW t \in Seq(Frames)
  PROVE  /\ Numbers(s \o t) = Numbers(s) \cup Numbers(t)
         /\ Rising(s) /\ Rising(t) /\ Below(Numbers(s), Numbers(t)) => Rising(s \o t)
<1> DEFINE u == s \o t
<1>1. /\ u \in Seq(Frames) /\ DOMAIN u = 1 .. Len(s) + Len(t) /\ DOMAIN s = 1 .. Len(s)
      /\ DOMAIN t = 1 .. Len(t) /\ Len(s) \in Nat /\ Len(t) \in Nat
      /\ \A i \in DOMAIN u : u[i] = IF i <= Len(s) THEN s[i] ELSE t[i - Len(s)]
  OBVIOUS
<1> HIDE DEF u, Frames
<1>2. \A i \in DOMAIN u : \/ i \in DOMAIN s /\ u[i] = s[i]
                          \/ i > Len(s) /\ i - Len(s) \in DOMAIN t /\ u[i] = t[i - Len(s)]
  BY <1>1
<1>3. /\ \A i \in DOMAIN s : i \in DOMAIN u /\ u[i] = s[i]
      /\ \A i \in DOMAIN t : i + Len(s) \in DOMAIN u /\ u[i + Len(s)] = t[i]
  BY SMTT(30), <1>1
<1>4. Numbers(u) = Numbers(s) \cup Numbers(t)
  <2>1. \A n : n \in Numbers(u) <=> \E i \in DOMAIN u : u[i].t = "text" /\ u[i].n = n
    BY <1>1, NumbersTyped
  <2>2. \A n : n \in Numbers(s) <=> \E i \in DOMAIN s : s[i].t = "text" /\ s[i].n = n
    BY NumbersTyped
  <2>3. \A n : n \in Numbers(t) <=> \E i \in DOMAIN t : t[i].t = "text" /\ t[i].n = n
    BY NumbersTyped
  <2>4. ASSUME NEW n \in Numbers(u)
        PROVE  n \in Numbers(s) \cup Numbers(t)
    <3>1. PICK i \in DOMAIN u : u[i].t = "text" /\ u[i].n = n
      BY <2>1, <2>4
    <3>2. \/ i \in DOMAIN s /\ u[i] = s[i]
          \/ i - Len(s) \in DOMAIN t /\ u[i] = t[i - Len(s)]
      BY <1>2
    <3> QED  BY <2>2, <2>3, <3>1, <3>2
  <2>5. ASSUME NEW n \in Numbers(s)
        PROVE  n \in Numbers(u)
    <3>1. PICK i \in DOMAIN s : s[i].t = "text" /\ s[i].n = n
      BY <2>2, <2>5
    <3>2. i \in DOMAIN u /\ u[i] = s[i]
      BY <1>3
    <3> QED  BY <2>1, <3>1, <3>2
  <2>6. ASSUME NEW n \in Numbers(t)
        PROVE  n \in Numbers(u)
    <3>1. PICK i \in DOMAIN t : t[i].t = "text" /\ t[i].n = n
      BY <2>3, <2>6
    <3>2. i + Len(s) \in DOMAIN u /\ u[i + Len(s)] = t[i]
      BY <1>3
    <3> QED  BY <2>1, <3>1, <3>2
  <2> QED  BY <2>4, <2>5, <2>6
<1>5. ASSUME Rising(s), Rising(t), Below(Numbers(s), Numbers(t))
      PROVE  Rising(u)
  <2> SUFFICES ASSUME NEW i \in DOMAIN u, NEW j \in DOMAIN u, i < j, u[i].t = "text",
                      u[j].t = "text"
               PROVE  u[i].n < u[j].n
    BY DEF Rising
  <2>1. CASE i \in DOMAIN s /\ u[i] = s[i] /\ j \in DOMAIN s /\ u[j] = s[j]
    BY <1>5, <2>1 DEF Rising
  <2>2. CASE i > Len(s) /\ i - Len(s) \in DOMAIN t /\ u[i] = t[i - Len(s)]
             /\ j > Len(s) /\ j - Len(s) \in DOMAIN t /\ u[j] = t[j - Len(s)]
    <3>1. i - Len(s) < j - Len(s)
      BY <1>1, <2>2
    <3> QED  BY <1>5, <2>2, <3>1 DEF Rising
  <2>3. CASE i \in DOMAIN s /\ u[i] = s[i] /\ j - Len(s) \in DOMAIN t /\ u[j] = t[j - Len(s)]
    <3>1. u[i].n \in Numbers(s) /\ u[j].n \in Numbers(t)
      BY <2>3, NumbersTyped
    <3> QED  BY <1>5, <3>1 DEF Below
  <2>4. ~ (i > Len(s) /\ j \in DOMAIN s)
    BY <1>1
  <2> QED  BY <1>2, <2>1, <2>2, <2>3, <2>4
<1> QED  BY <1>4, <1>5 DEF u

LEMMA AppendRises ==
  ASSUME NEW s \in Seq(Frames), NEW f \in Frames
  PROVE  /\ f.t = "text" => Numbers(Append(s, f)) = Numbers(s) \cup {f.n}
         /\ f.t # "text" => Numbers(Append(s, f)) = Numbers(s)
         /\ Rising(s) /\ (f.t = "text" => Below(Numbers(s), {f.n})) => Rising(Append(s, f))
<1>1. Append(s, f) = s \o <<f>> /\ <<f>> \in Seq(Frames)
  OBVIOUS
<1>2. DOMAIN <<f>> = {1} /\ <<f>>[1] = f
  OBVIOUS
<1>3. /\ f.t = "text" => Numbers(<<f>>) = {f.n}
      /\ f.t # "text" => Numbers(<<f>>) = {}
  <2> DEFINE o == <<f>>
  <2>1. o \in Seq(Frames) /\ DOMAIN o = {1} /\ o[1] = f
    BY <1>1, <1>2
  <2> HIDE DEF o
  <2>2. \A n : n \in Numbers(o) <=> \E i \in {1} : o[i].t = "text" /\ o[i].n = n
    BY <2>1, NumbersTyped
  <2>3. \A n : n \in Numbers(o) <=> f.t = "text" /\ f.n = n
    BY <2>1, <2>2
  <2>4. f.t = "text" => Numbers(o) = {f.n}
    BY <2>3
  <2>5. f.t # "text" => Numbers(o) = {}
    BY <2>3
  <2> QED  BY <2>4, <2>5 DEF o
<1>4. Rising(<<f>>)
  BY <1>2 DEF Rising
<1>5. f.t # "text" => Below(Numbers(s), Numbers(<<f>>))
  BY <1>3 DEF Below
<1>6. /\ Numbers(s \o <<f>>) = Numbers(s) \cup Numbers(<<f>>)
      /\ Rising(s) /\ Rising(<<f>>) /\ Below(Numbers(s), Numbers(<<f>>)) => Rising(s \o <<f>>)
  BY <1>1, JoinedRise
<1> DEFINE o == <<f>>
           u == s \o <<f>>
<1>7. Append(s, f) = u
  BY <1>1
<1>8. /\ Numbers(u) = Numbers(s) \cup Numbers(o) /\ Rising(o)
      /\ Rising(s) /\ Rising(o) /\ Below(Numbers(s), Numbers(o)) => Rising(u)
      /\ f.t = "text" => Numbers(o) = {f.n}
      /\ f.t # "text" => Numbers(o) = {} /\ Below(Numbers(s), Numbers(o))
  BY <1>3, <1>4, <1>5, <1>6
<1> HIDE DEF o, u
<1> QED  BY <1>7, <1>8

LEMMA TailRises ==
  ASSUME NEW s \in Seq(Frames), s # <<>>
  PROVE  /\ Numbers(Tail(s)) \subseteq Numbers(s) /\ (Rising(s) => Rising(Tail(s)))
         /\ Head(s).t = "text" => Head(s).n \in Numbers(s)
         /\ Head(s).t = "text" /\ Rising(s) => Below({Head(s).n}, Numbers(Tail(s)))
<1>1. /\ Tail(s) \in Seq(Frames) /\ DOMAIN Tail(s) = 1 .. Len(s) - 1 /\ DOMAIN s = 1 .. Len(s)
      /\ Len(s) \in Nat /\ Len(s) # 0 /\ Head(s) = s[1]
      /\ \A i \in DOMAIN Tail(s) : Tail(s)[i] = s[i + 1]
  OBVIOUS
<1> DEFINE u == Tail(s)
<1> HIDE DEF u, Frames
<1>2. \A i \in DOMAIN u : i + 1 \in DOMAIN s /\ u[i] = s[i + 1] /\ 1 < i + 1 /\ i \in Nat
  BY <1>1 DEF u
<1>3. 1 \in DOMAIN s /\ Head(s) = s[1] /\ u \in Seq(Frames)
  BY <1>1 DEF u
<1>4. Numbers(u) \subseteq Numbers(s)
  BY <1>2, <1>3, NumbersTyped
<1>5. Rising(s) => Rising(u)
  <2> SUFFICES ASSUME Rising(s), NEW i \in DOMAIN u, NEW j \in DOMAIN u, i < j, u[i].t = "text",
                      u[j].t = "text"
               PROVE  u[i].n < u[j].n
    BY DEF Rising
  <2>1. i + 1 < j + 1
    BY <1>2
  <2> QED  BY <1>2, <2>1 DEF Rising
<1>6. Head(s).t = "text" => Head(s).n \in Numbers(s)
  BY <1>3, NumbersTyped
<1>7. ASSUME Head(s).t = "text", Rising(s), NEW n \in Numbers(u)
      PROVE  Head(s).n < n
  <2>1. PICK i \in DOMAIN u : u[i].t = "text" /\ u[i].n = n
    BY <1>3, <1>7, NumbersTyped
  <2> QED  BY <1>2, <1>3, <1>7, <2>1 DEF Rising
<1>8. Head(s).t = "text" /\ Rising(s) => Below({Head(s).n}, Numbers(u))
  BY <1>7 DEF Below
<1> QED  BY <1>4, <1>5, <1>6, <1>8 DEF u

LEMMA PrefixRises ==
  ASSUME NEW s \in Seq(Frames), NEW u \in Prefixes(s)
  PROVE  Numbers(u) \subseteq Numbers(s) /\ (Rising(s) => Rising(u))
<1>1. u \in {SubSeq(s, 1, l) : l \in 0 .. Len(s)}
  BY DEF Prefixes
<1>2. PICK l \in 0 .. Len(s) : u = SubSeq(s, 1, l)
  BY <1>1
<1>3. u \in Seq(Frames) /\ \A i \in DOMAIN u : i \in DOMAIN s /\ u[i] = s[i]
  BY <1>2
<1>4. Numbers(u) \subseteq Numbers(s)
  BY <1>3, NumbersTyped
<1> QED  BY <1>3, <1>4 DEF Rising

\* Lines where they are in order are in order elsewhere, when one moves on.
LEMMA FewerOrdered ==
  ASSUME NEW S, NEW A, NEW W, NEW H, NEW top \in Nat, Ordered(S, A, W, H, top),
         S \cup A \cup W \cup H \subseteq Nat,
         NEW A2, A2 \subseteq A, NEW W2, W2 \subseteq W, NEW H2, H2 \subseteq H,
         NEW top2 \in Nat, top <= top2
  PROVE  Ordered(S, A2, W2, H2, top2)
<1>1. \A n \in S \cup A2 \cup W2 \cup H2 : n <= top2
  <2> SUFFICES ASSUME NEW n \in S \cup A2 \cup W2 \cup H2 PROVE n <= top2
    OBVIOUS
  <2>1. n \in Nat /\ n <= top
    BY DEF Ordered
  <2> QED  BY <2>1
<1> QED  BY <1>1 DEF Ordered, Below

LEMMA SaidOrdered ==
  ASSUME NEW S, NEW A, NEW W, NEW H, NEW top \in Nat, Ordered(S, A, W, H, top),
         S \cup A \cup W \cup H \subseteq Nat, NEW more, more \subseteq {top + 1}
  PROVE  /\ H = {} => Ordered(S, A, W \cup more, H, top + 1)
         /\ Ordered(S, A, W, H \cup more, top + 1) /\ Below(W, more) /\ Below(H, more)
<1>1. \A n \in S \cup A \cup W \cup H : n \in Nat /\ n <= top
  BY DEF Ordered
<1>2. \A n \in S \cup A \cup W \cup H : n < top + 1 /\ n <= top + 1
  BY <1>1
<1>3. \A m \in more : m = top + 1 /\ m <= top + 1
  OBVIOUS
<1>4. Below(S, more) /\ Below(A, more) /\ Below(W, more) /\ Below(H, more)
  BY <1>2, <1>3 DEF Below
<1>5. Below(S, A) /\ Below(S, W) /\ Below(S, H) /\ Below(A, W) /\ Below(A, H) /\ Below(W, H)
  BY DEF Ordered
<1>6. \A n \in S \cup A \cup W \cup H \cup more : n <= top + 1
  BY <1>2, <1>3
<1>7. Ordered(S, A, W, H \cup more, top + 1)
  BY <1>4, <1>5, <1>6 DEF Ordered, Below
<1>8. H = {} => Ordered(S, A, W \cup more, H, top + 1)
  BY <1>4, <1>5, <1>6 DEF Ordered, Below
<1> QED  BY <1>4, <1>7, <1>8

LEMMA LandedOrdered ==
  ASSUME NEW S, NEW A, NEW W, NEW H, NEW top \in Nat, Ordered(S, A, W, H, top), NEW W2, W2 \subseteq H
  PROVE  Ordered(S, A, W2, {}, top)
BY DEF Ordered, Below

LEMMA TakenOrdered ==
  ASSUME NEW S, NEW A, NEW W, NEW H, NEW top \in Nat, Ordered(S, A, W, H, top),
         NEW W2, W2 \subseteq W, NEW n \in W, Below({n}, W2)
  PROVE  /\ Ordered(S, A \cup {n}, W2, H, top) /\ Below(A, {n}) /\ Below(S, {n})
         /\ A = {} => Ordered(S \cup {n}, A, W2, H, top)
BY DEF Ordered, Below

LEMMA ReadOrdered ==
  ASSUME NEW S, NEW A, NEW W, NEW H, NEW top \in Nat, Ordered(S, A, W, H, top),
         NEW A2, A2 \subseteq A, NEW n \in A, Below({n}, A2)
  PROVE  Ordered(S \cup {n}, A2, W, H, top) /\ Below(S, {n})
BY DEF Ordered, Below

LEMMA LinesTypes ==
  ASSUME CallInv, NEW p \in People, NEW q \in People
  PROVE  /\ First(p, q) \in Seq(Frames) /\ Rung(p, q) \in Seq(Frames) /\ Held(p, q) \in Seq(Frames)
         /\ \A c \in Between(p, q) : c \in Conns /\ pair[c] = {p, q} /\ wire[c][q] \in Seq(Frames)
         /\ ShownNow(p, q) \cup InHand(p, q) \cup OnItsWay(p, q) \cup Numbers(Held(p, q)) \subseteq Nat
         /\ said[q][p] \in Nat /\ shown[p] \in Seq(People \X Nat)
<1>1. NetTyped /\ LoopTyped /\ LinesTyped
  BY DEF CallInv, CallTyped
<1>2. <<>> \in Seq(Frames)
  OBVIOUS
<1>3. First(p, q) \in Seq(Frames) /\ Held(p, q) \in Seq(Frames)
  <2>1. \A x \in People : phone[x] \in PhoneCalls
    BY <1>1 DEF LoopTyped
  <2>2. \A x \in People : phone[x].first \in Seq(Frames) /\ phone[x].held \in Seq(Frames)
    BY <2>1 DEF PhoneCalls
  <2> QED  BY <1>2, <2>2 DEF First, Held
<1>4. Rung(p, q) \in Seq(Frames)
  BY <1>1, <1>2 DEF LoopTyped, Rung
<1>5. \A c \in Between(p, q) : c \in Conns /\ pair[c] = {p, q} /\ wire[c][q] \in Seq(Frames)
  BY <1>1 DEF NetTyped, Between, BothSides
<1>6. said[q][p] \in Nat /\ shown[p] \in Seq(People \X Nat)
  BY <1>1 DEF LinesTyped
<1>7. ShownNow(p, q) \subseteq Nat
  <2>1. \A i \in DOMAIN shown[p] : shown[p][i] \in People \X Nat
    BY <1>6
  <2> QED  BY <2>1 DEF ShownNow
<1>8. InHand(p, q) \subseteq Nat /\ Numbers(Held(p, q)) \subseteq Nat
  BY <1>3, <1>4, NumbersTyped DEF InHand
<1>9. OnItsWay(p, q) \subseteq Nat
  <2>1. \A c \in Between(p, q) : Numbers(wire[c][q]) \subseteq Nat
    BY <1>5, NumbersTyped
  <2> QED  BY <2>1 DEF OnItsWay
<1> QED  BY <1>3, <1>4, <1>5, <1>6, <1>7, <1>8, <1>9

\* Of the lines from q to p, none moves on, and some may be lost.
Calmer(p, q) ==
  /\ OneBetween(p, q)' /\ (ringing'[p].peer = q => phone'[p].peer # q)
  /\ ShownNow(p, q)' = ShownNow(p, q) /\ ShownRises(p, q)' /\ said'[q][p] >= said[q][p]
  /\ First(p, q)' \in {First(p, q), Rung(p, q), <<>>}
  /\ Rung(p, q)' \in {Rung(p, q), <<>>}
  /\ Held(p, q)' \in {Held(p, q), <<>>}
  /\ OnItsWay(p, q)' \subseteq OnItsWay(p, q)
  /\ \A c \in Between(p, q)' : Rising(wire'[c][q])

LEMMA PairStill ==
  ASSUME CallInv, CallInv', NEW p \in People, NEW q \in People, InOrder(p, q), Calmer(p, q)
  PROVE  InOrder(p, q)'
<1> DEFINE S == ShownNow(p, q)  A == InHand(p, q)  W == OnItsWay(p, q)  H == Numbers(Held(p, q))
           A2 == InHand(p, q)'  W2 == OnItsWay(p, q)'  H2 == Numbers(Held(p, q)')
           top == said[q][p]  top2 == said'[q][p]
<1>1. S \cup A \cup W \cup H \subseteq Nat /\ top \in Nat
  BY LinesTypes
<1>2. top2 \in Nat
  BY DEF CallInv, CallTyped, LinesTyped
<1>3. W2 \subseteq W /\ top <= top2
  BY <1>1, <1>2 DEF Calmer
<1>4. A2 \subseteq A
  <2>1. InHand(p, q)' = Numbers(First(p, q)') \cup Numbers(Rung(p, q)')
    BY DEF InHand, Numbers
  <2> QED  BY <2>1, NothingRises DEF Calmer, InHand
<1>5. H2 \subseteq H
  BY NothingRises DEF Calmer
<1>6. Ordered(S, A, W, H, top)
  BY DEF InOrder
<1>7. ShownNow(p, q)' = S /\ Numbers(Held(p, q))' = H2
  BY DEF Calmer, Numbers
<1> HIDE DEF S, A, W, H, A2, W2, H2, top, top2
<1>8. Ordered(S, A2, W2, H2, top2)
  BY <1>1, <1>2, <1>3, <1>4, <1>5, <1>6, FewerOrdered
<1>9. Ordered(ShownNow(p, q), InHand(p, q), OnItsWay(p, q), Numbers(Held(p, q)), said[q][p])'
  BY <1>7, <1>8 DEF Ordered, Below, A2, W2, top2
<1>10. Risings(p, q)'
  <2>1. Rising(First(p, q)') /\ Rising(Rung(p, q)') /\ Rising(Held(p, q)')
    BY NothingRises DEF Calmer, InOrder, Risings
  <2>5. Worded(First(p, q)') /\ Worded(Rung(p, q)')
    BY NothingRises DEF Calmer, InOrder, Risings
  <2>6. Worded(First(p, q))' /\ Worded(Rung(p, q))'
    BY <2>5 DEF Worded
  <2>2. Rising(First(p, q))' /\ Rising(Rung(p, q))' /\ Rising(Held(p, q))'
    BY <2>1 DEF Rising
  <2>3. \A c \in Between(p, q)' : Rising(wire[c][q])'
    BY DEF Calmer, Rising
  <2>4. ShownRises(p, q)'
    BY DEF Calmer
  <2> QED  BY <2>2, <2>3, <2>4, <2>6 DEF Risings
<1> QED  BY <1>9, <1>10 DEF Calmer, InOrder

\* On the wires there is no line that was not there, nor is any overtaken.
Lighter(v, w) ==
  \A c \in Conns, x \in People :
    Numbers(v[c][x]) \subseteq Numbers(w[c][x]) /\ (Rising(w[c][x]) => Rising(v[c][x]))

\* No line is said, shown or moved.
Wordless ==
  /\ pair' = pair /\ holds' \subseteq holds /\ crossed \subseteq crossed'
  /\ shown' = shown /\ said' = said /\ Lighter(wire', wire)
  /\ \A p \in People :
       /\ \/ /\ phone'[p].peer = phone[p].peer /\ phone'[p].first = phone[p].first
             /\ phone'[p].held = phone[p].held
          \/ phone'[p].first = <<>> /\ phone'[p].held = <<>>
       /\ ringing'[p] = ringing[p] \/ ringing'[p].said = <<>>
  /\ \A p, q \in People : p # q /\ {p, q} \notin crossed' =>
       (ringing'[p].peer = q => phone'[p].peer # q)

\* The same of the lines from q to p.
WordlessFor(p, q) ==
  /\ pair' = pair /\ holds' \subseteq holds
  /\ (ringing'[p].peer = q => phone'[p].peer # q)
  /\ ShownNow(p, q)' = ShownNow(p, q) /\ ShownRises(p, q)' /\ said'[q][p] >= said[q][p]
  /\ First(p, q)' \in {First(p, q), Rung(p, q), <<>>}
  /\ Rung(p, q)' \in {Rung(p, q), <<>>}
  /\ Held(p, q)' \in {Held(p, q), <<>>}
  /\ \A c \in Between(p, q) : /\ Numbers(wire'[c][q]) \subseteq Numbers(wire[c][q])
                              /\ Rising(wire[c][q]) => Rising(wire'[c][q])

LEMMA WordlessPair ==
  ASSUME CallInv, CallInv', NEW p \in People, NEW q \in People, InOrder(p, q), WordlessFor(p, q)
  PROVE  InOrder(p, q)'
<1>1. Between(p, q)' = Between(p, q)
  BY DEF WordlessFor, Between, Conns
<1>2. OneBetween(p, q)'
  <2>1. OneBetween(p, q) /\ holds' \subseteq holds
    BY DEF InOrder, WordlessFor
  <2>2. ASSUME NEW c \in Between(p, q)', NEW d \in Between(p, q)',
               {<<p, c>>, <<q, c>>} \cap holds' # {}, {<<p, d>>, <<q, d>>} \cap holds' # {}
        PROVE  c = d
    <3>1. {<<p, c>>, <<q, c>>} \cap holds # {} /\ {<<p, d>>, <<q, d>>} \cap holds # {}
      BY <2>1, <2>2
    <3>2. c \in Between(p, q) /\ d \in Between(p, q)
      BY <1>1
    <3> QED  BY <2>1, <3>1, <3>2 DEF OneBetween
  <2> QED  BY <2>2 DEF OneBetween
<1>3. /\ \A c \in Between(p, q) : Numbers(wire'[c][q]) \subseteq Numbers(wire[c][q])
      /\ \A c \in Between(p, q) : Rising(wire'[c][q])
  BY DEF InOrder, Risings, WordlessFor
<1>4. OnItsWay(p, q)' \subseteq OnItsWay(p, q)
  <2>1. OnItsWay(p, q)' = UNION {Numbers(wire'[c][q]) : c \in Between(p, q)'}
    BY DEF OnItsWay, Numbers
  <2> QED  BY <1>1, <1>3, <2>1 DEF OnItsWay
<1>5. Calmer(p, q)
  BY <1>1, <1>2, <1>3, <1>4 DEF Calmer, WordlessFor
<1> QED  BY <1>5, PairStill

LEMMA WordlessOrder ==
  ASSUME CallInv, CallInv', OrderInv, Wordless
  PROVE  OrderInv'
<1>1. \A p \in People : \A i \in DOMAIN shown'[p] : shown'[p][i][1] # p
  BY DEF Wordless, OrderInv
<1>2. ASSUME NEW p \in People, NEW q \in People, p # q, Plain(p, q)'
      PROVE  InOrder(p, q)'
  <2>1. Plain(p, q) /\ {p, q} \notin crossed'
    BY <1>2 DEF Plain, Wordless
  <2>2. InOrder(p, q)
    BY <1>2, <2>1 DEF OrderInv
  <2>3. Between(p, q) \subseteq Conns
    BY DEF Between
  <2>4. \A c \in Between(p, q) : /\ Numbers(wire'[c][q]) \subseteq Numbers(wire[c][q])
                                 /\ Rising(wire[c][q]) => Rising(wire'[c][q])
    BY <2>3 DEF Wordless, Lighter
  <2>5. /\ First(p, q)' \in {First(p, q), <<>>} /\ Rung(p, q)' \in {Rung(p, q), <<>>}
        /\ Held(p, q)' \in {Held(p, q), <<>>}
    BY DEF First, Rung, Held, Wordless
  <2>6. said'[q][p] >= said[q][p]
    <3>1. said[q][p] \in Nat
      BY DEF CallInv, CallTyped, LinesTyped
    <3> QED  BY <3>1 DEF Wordless
  <2>7. ringing'[p].peer = q => phone'[p].peer # q
    BY <1>2, <2>1 DEF Wordless
  <2>8. ShownNow(p, q)' = ShownNow(p, q) /\ ShownRises(p, q)'
    BY <2>2 DEF Wordless, ShownNow, ShownRises, InOrder, Risings
  <2>9. WordlessFor(p, q)
    BY <2>4, <2>5, <2>6, <2>7, <2>8 DEF WordlessFor, Wordless
  <2> QED  BY <2>2, <2>9, WordlessPair
<1> QED  BY <1>1, <1>2 DEF OrderInv

\* Wires that lose frames, and that get others than lines.
LEMMA LighterWires ==
  ASSUME CallInv, NEW w \in [Conns -> BothSides], NEW p \in People, NEW c
  PROVE  /\ Lighter(w, w) /\ Lighter(Unheard(w, p, c), w)
         /\ \A frames \in Seq(Frames) : Numbers(frames) = {} => Lighter(Written(w, p, c, frames), w)
<1>1. \A d \in Conns, x \in People : w[d][x] \in Seq(Frames)
  BY DEF BothSides
<1>2. Lighter(Unheard(w, p, c), w)
  <2>1. \A d \in Conns, x \in People : Unheard(w, p, c)[d][x] \in {w[d][x], <<>>}
    BY DEF Unheard, BothSides
  <2> QED  BY <2>1, NothingRises DEF Lighter
<1>3. ASSUME NEW frames \in Seq(Frames), Numbers(frames) = {}
      PROVE  Lighter(Written(w, p, c, frames), w)
  <2>1. \A d \in Conns, x \in People :
          Written(w, p, c, frames)[d][x] \in {w[d][x], w[d][x] \o frames}
    BY DEF Written, BothSides
  <2>2. Rising(frames)
    <3> SUFFICES ASSUME NEW i \in DOMAIN frames, frames[i].t = "text" PROVE FALSE
      BY DEF Rising
    <3> QED  BY <1>3, NumbersTyped
  <2>3. \A d \in Conns, x \in People : /\ Numbers(w[d][x] \o frames) = Numbers(w[d][x])
                                       /\ Rising(w[d][x]) => Rising(w[d][x] \o frames)
    <3> SUFFICES ASSUME NEW d \in Conns, NEW x \in People
                 PROVE  /\ Numbers(w[d][x] \o frames) = Numbers(w[d][x])
                        /\ Rising(w[d][x]) => Rising(w[d][x] \o frames)
      OBVIOUS
    <3> DEFINE s == w[d][x]
    <3>1. s \in Seq(Frames)
      BY <1>1
    <3> HIDE DEF s
    <3>2. Below(Numbers(s), Numbers(frames))
      BY <1>3 DEF Below
    <3>3. Numbers(s \o frames) = Numbers(s) \cup Numbers(frames)
      BY <3>1, JoinedRise
    <3>4. Rising(s) /\ Rising(frames) /\ Below(Numbers(s), Numbers(frames)) => Rising(s \o frames)
      BY <3>1, JoinedRise
    <3>5. Numbers(s \o frames) = Numbers(s)
      BY <1>3, <3>3
    <3> QED  BY <2>2, <3>2, <3>4, <3>5 DEF s
  <2>4. \A d \in Conns, x \in People :
          \/ Written(w, p, c, frames)[d][x] = w[d][x]
          \/ Written(w, p, c, frames)[d][x] = w[d][x] \o frames
    BY <2>1
  <2> SUFFICES ASSUME NEW d \in Conns, NEW x \in People
               PROVE  /\ Numbers(Written(w, p, c, frames)[d][x]) \subseteq Numbers(w[d][x])
                      /\ Rising(w[d][x]) => Rising(Written(w, p, c, frames)[d][x])
    BY DEF Lighter
  <2>5. CASE Written(w, p, c, frames)[d][x] = w[d][x]
    BY <2>5
  <2>6. CASE Written(w, p, c, frames)[d][x] = w[d][x] \o frames
    <3>1. Numbers(w[d][x] \o frames) = Numbers(w[d][x])
          /\ (Rising(w[d][x]) => Rising(w[d][x] \o frames))
      BY <2>3
    <3>2. Numbers(Written(w, p, c, frames)[d][x]) = Numbers(w[d][x])
      BY <2>6, <3>1
    <3>3. Rising(w[d][x]) => Rising(Written(w, p, c, frames)[d][x])
      BY <2>6, <3>1
    <3> QED  BY <3>2, <3>3
  <2> QED  BY <2>4, <2>5, <2>6
<1>4. Lighter(w, w)
  BY DEF Lighter
<1> QED  BY <1>2, <1>3, <1>4

LEMMA LighterTwice ==
  ASSUME NEW u, NEW v, NEW w, Lighter(u, v), Lighter(v, w)
  PROVE  Lighter(u, w)
BY DEF Lighter

LEMMA LighterTaken ==
  ASSUME CallInv, NEW p \in People, NEW c \in Conns, NEW kind, Comes(p, c, kind),
         Far(p, c) \in People
  PROVE  Lighter(Taken(p, c), wire)
<1>1. wire \in [Conns -> BothSides]
  BY DEF CallInv, CallTyped, NetTyped
<1> DEFINE s == wire[c][Far(p, c)]
<1>2. s \in Seq(Frames) /\ s # <<>>
  BY <1>1 DEF BothSides, Comes
<1>3. Numbers(Tail(s)) \subseteq Numbers(s) /\ (Rising(s) => Rising(Tail(s)))
  BY <1>2, TailRises
<1>4. \A d \in Conns, x \in People :
        \/ Taken(p, c)[d][x] = wire[d][x]
        \/ d = c /\ x = Far(p, c) /\ Taken(p, c)[d][x] = Tail(s)
  BY <1>1 DEF Taken, BothSides
<1> QED  BY <1>3, <1>4 DEF Lighter

\* What has waited, and what ends or declines a call, is no line.
LEMMA NoLines ==
  /\ \A s \in Seq({CallDecline}) : s \in Seq(Frames) /\ Numbers(s) = {}
  /\ <<CallDecline>> \in Seq(Frames) /\ Numbers(<<CallDecline>>) = {}
  /\ <<HangUp>> \in Seq(Frames) /\ Numbers(<<HangUp>>) = {}
<1>1. CallDecline \in Frames /\ HangUp \in Frames /\ CallDecline.t = "decline" /\ HangUp.t = "hangup"
  BY DEF CallDecline, HangUp, Frames
<1>2. ASSUME NEW f \in Frames, f.t # "text", NEW s \in Seq({f})
      PROVE  s \in Seq(Frames) /\ Numbers(s) = {}
  <2>1. {f} \subseteq Frames
    OBVIOUS
  <2>2. s \in Seq(Frames) /\ \A i \in DOMAIN s : s[i] = f
    BY <2>1
  <2> QED  BY <1>2, <2>2 DEF Numbers
<1>3. <<CallDecline>> \in Seq({CallDecline}) /\ <<HangUp>> \in Seq({HangUp})
  OBVIOUS
<1> QED  BY <1>1, <1>2, <1>3

LEMMA SendsLighter ==
  ASSUME CallInv, NEW p \in People, NEW q \in People, NEW w \in [Conns -> BothSides],
         Lighter(w, wire), Readable(w, holds), Sends(p, q, CallDecline, w)
  PROVE  Lighter(wire', wire) /\ crossed \subseteq crossed'
<1>1. Readable(wire, holds) /\ CallTyped
  BY DEF CallInv
<1>2. crossed \subseteq crossed' /\ (wire' = w \/ \E c : wire' = Written(w, p, c, <<CallDecline>>))
  BY <1>1, SendsDoes
<1>3. CASE \E c : wire' = Written(w, p, c, <<CallDecline>>)
  <2>1. PICK c : wire' = Written(w, p, c, <<CallDecline>>)
    BY <1>3
  <2>2. Lighter(wire', w)
    BY <2>1, NoLines, LighterWires
  <2> QED  BY <1>2, <2>2, LighterTwice
<1> QED  BY <1>2, <1>3

LEMMA WordlessBy ==
  ASSUME CallInv, OrderInv, pair' = pair, holds' \subseteq holds, crossed \subseteq crossed',
         shown' = shown, said' = said, Lighter(wire', wire),
         \A x \in People :
           \/ /\ phone'[x].peer = phone[x].peer /\ phone'[x].first = phone[x].first
              /\ phone'[x].held = phone[x].held
           \/ phone'[x] = NoCall,
         \A x \in People : ringing'[x] = ringing[x] \/ ringing'[x] = NoRing
  PROVE  Wordless
<1>1. NoCall.first = <<>> /\ NoCall.held = <<>> /\ NoCall.peer = Nobody
      /\ NoRing.said = <<>> /\ NoRing.peer = Nobody
  BY DEF NoCall, NoRing
<1>2. \A x \in People : phone'[x].peer \in {phone[x].peer, Nobody}
                        /\ ringing'[x].peer \in {ringing[x].peer, Nobody}
  BY <1>1
<1>3. ASSUME NEW p \in People, NEW q \in People, p # q, {p, q} \notin crossed', ringing'[p].peer = q
      PROVE  phone'[p].peer # q
  <2>1. q # Nobody
    BY CallAssumption
  <2>2. Plain(p, q)
    BY <1>3 DEF Plain
  <2>3. ringing[p].peer = q => phone[p].peer # q
    BY <1>3, <2>2 DEF OrderInv, InOrder
  <2> QED  BY <1>2, <1>3, <2>1, <2>3
<1>4. \A x \in People : /\ \/ /\ phone'[x].peer = phone[x].peer /\ phone'[x].first = phone[x].first
                              /\ phone'[x].held = phone[x].held
                           \/ phone'[x].first = <<>> /\ phone'[x].held = <<>>
                        /\ ringing'[x] = ringing[x] \/ ringing'[x].said = <<>>
  BY <1>1
<1> QED  BY <1>3, <1>4 DEF Wordless

\* Nobody's phone changes hands, and whoever rang may stop.
LEMMA RingOnly ==
  ASSUME CallInv, NEW p \in People, NEW q,
         ringing' = ringing \/ NoLongerRinging(p, q) \/ ringing' = [ringing EXCEPT ![p] = NoRing]
  PROVE  \A x \in People : ringing'[x] = ringing[x] \/ ringing'[x] = NoRing
<1>1. ringing \in [People -> [peer : People \cup {Nobody}, said : Seq(Frames)]]
  BY DEF CallInv, CallTyped, LoopTyped
<1> QED  BY <1>1 DEF NoLongerRinging

LEMMA KeepLighter ==
  ASSUME CallInv, NEW p \in People, NEW c, Far(p, c) \in People, Keep(p, c, wire)
  PROVE  Lighter(wire', wire) /\ holds' \subseteq holds
<1> DEFINE q == Far(p, c)
           drained == Written(wire, p, c, waiting[p][q])
<1>1. waiting[p][q] \in Seq(Frames) /\ Numbers(waiting[p][q]) = {}
  <2>1. waiting[p][q] \in Seq({CallDecline})
    BY DEF CallInv, CallTyped, PoolTyped
  <2> QED  BY <2>1, NoLines
<1>2. wire \in [Conns -> BothSides]
  BY DEF CallInv, CallTyped, NetTyped
<1>3. drained \in [Conns -> BothSides]
  BY <1>1, CallWrites
<1>4. Lighter(drained, wire)
  BY <1>1, <1>2, LighterWires
<1>5. wire' = drained \/ wire' = Unheard(drained, p, idle[p][q])
  BY DEF Keep
<1> HIDE DEF drained
<1>6. Lighter(Unheard(drained, p, idle[p][q]), drained)
  BY <1>3, LighterWires
<1>7. Lighter(Unheard(drained, p, idle[p][q]), wire)
  BY <1>4, <1>6, LighterTwice
<1> QED  BY <1>4, <1>5, <1>7 DEF Keep

LEMMA ArrivesOrder ==
  ASSUME CallInv, CallInv', OrderInv, NEW p \in People, NEW c \in Conns, Arrives(p, c)
  PROVE  OrderInv'
<1>1. /\ c \in arriving[p] /\ Keep(p, c, wire)
      /\ UNCHANGED <<pair, dead, strangers, lent, phone, ringing, asides, budget,
                     historyVars>>
  BY DEF Arrives
<1>2. Far(p, c) \in People
  <2>1. <<p, c>> \in holds
    BY <1>1, ComingPlaced DEF CallInv
  <2>2. p \in pair[c]
    BY <2>1, HeldPlaced DEF CallInv
  <2>3. pair[c] \in Contacts
    BY PairIsContacts DEF CallInv, CallTyped
  <2>4. PICK q : pair[c] = {p, q}
    BY <2>2, <2>3, CallAssumption
  <2>5. q \in People /\ p # q
    BY <2>3, <2>4, ContactEnds
  <2>6. Far(p, c) = q
    BY <2>4, <2>5, FarIs
  <2> QED  BY <2>5, <2>6
<1>3. Lighter(wire', wire) /\ holds' \subseteq holds
  BY <1>1, <1>2, KeepLighter
<1>4. Wordless
  BY <1>1, <1>3, WordlessBy DEF historyVars
<1> QED  BY <1>4, WordlessOrder

LEMMA SameWires ==
  ASSUME CallInv, wire' = wire
  PROVE  Lighter(wire', wire)
BY DEF Lighter

LEMMA StrangersOrder ==
  ASSUME CallInv, CallInv', OrderInv, NEW p \in People, Stranger(p) \/ Refused(p)
  PROVE  OrderInv'
<1>1. UNCHANGED <<pair, holds, dead, wire, arriving, poolVars, phone, ringing, asides, historyVars>>
  BY DEF Stranger, Refused
<1>2. Wordless
  BY <1>1, SameWires, WordlessBy DEF historyVars
<1> QED  BY <1>2, WordlessOrder

LEMMA LostOrder ==
  ASSUME CallInv, CallInv', OrderInv, NEW p \in People, NEW q \in People, Lost(p, q)
  PROVE  OrderInv'
<1>1. /\ holds' \subseteq holds /\ NoLongerRinging(p, q)
      /\ UNCHANGED <<pair, dead, wire, arriving, strangers, lent, waiting, phone, asides,
                     budget, historyVars>>
  BY DEF Lost
<1>2. \A x \in People : ringing'[x] = ringing[x] \/ ringing'[x] = NoRing
  BY <1>1, RingOnly
<1>3. Wordless
  BY <1>1, <1>2, SameWires, WordlessBy DEF historyVars
<1> QED  BY <1>3, WordlessOrder

LEMMA HushedOrder ==
  ASSUME CallInv, CallInv', OrderInv, NEW p \in People, NEW q \in People,
         Stopped(p, q) \/ Ignored(p, q)
  PROVE  OrderInv'
<1> DEFINE c == idle[p][q]
<1>1. /\ c # 0 /\ (Comes(p, c, "hangup") \/ Comes(p, c, "decline")) /\ phone' = phone
      /\ pair' = pair /\ holds' = holds /\ UNCHANGED historyVars /\ wire' = Taken(p, c)
      /\ NoLongerRinging(p, q) \/ UNCHANGED ringing
  BY DEF Stopped, Ignored
<1>2. c \in Conns /\ Far(p, c) \in People
  BY <1>1, PoolConn
<1>3. Lighter(wire', wire)
  BY <1>1, <1>2, LighterTaken
<1>4. \A x \in People : ringing'[x] = ringing[x] \/ ringing'[x] = NoRing
  BY <1>1, RingOnly
<1>5. Wordless
  BY <1>1, <1>3, <1>4, WordlessBy DEF historyVars
<1> QED  BY <1>5, WordlessOrder

LEMMA DeclineOrder ==
  ASSUME CallInv, CallInv', OrderInv, NEW p \in People, Decline(p)
  PROVE  OrderInv'
<1> DEFINE q == ringing[p].peer
<1>1. /\ q # Nobody /\ ringing' = [ringing EXCEPT ![p] = NoRing] /\ Sends(p, q, CallDecline, wire)
      /\ UNCHANGED <<pair, holds, dead, arriving, strangers, idle, lent, phone, asides,
                     budget, said, shown>>
  BY DEF Decline
<1>2. q \in People
  BY <1>1 DEF CallInv, CallTyped, LoopTyped
<1>3. wire \in [Conns -> BothSides] /\ Readable(wire, holds) /\ Lighter(wire, wire)
  BY DEF CallInv, CallTyped, NetTyped, Lighter
<1>4. Lighter(wire', wire) /\ crossed \subseteq crossed'
  BY <1>1, <1>2, <1>3, SendsLighter
<1>5. \A x \in People : ringing'[x] = ringing[x] \/ ringing'[x] = NoRing
  BY <1>1, RingOnly
<1>6. Wordless
  BY <1>1, <1>4, <1>5, WordlessBy
<1> QED  BY <1>6, WordlessOrder

LEMMA OpenedOrder ==
  ASSUME CallInv, CallInv', OrderInv, NEW p \in People, Opened(p)
  PROVE  OrderInv'
<1> DEFINE it == Head(asides[p])
<1>1. /\ asides[p] # <<>>
      /\ wire' = wire \/ wire' = Written(wire, p, it.conn, waiting[p][it.peer])
      /\ UNCHANGED <<pair, holds, dead, arriving, strangers, idle, phone, ringing, budget,
                     historyVars>>
  BY DEF Opened
<1>2. asides[p] \in Seq([peer : People, conn : Nat])
  BY DEF CallInv, CallTyped, LoopTyped
<1>3. it.peer \in People
  <2>1. it \in [peer : People, conn : Nat]
    BY <1>1, <1>2, HeadTailProperties
  <2> QED  BY <2>1
<1> HIDE DEF it
<1>4. waiting[p][it.peer] \in Seq(Frames) /\ Numbers(waiting[p][it.peer]) = {}
  <2>1. waiting[p][it.peer] \in Seq({CallDecline})
    BY <1>3 DEF CallInv, CallTyped, PoolTyped
  <2> QED  BY <2>1, NoLines
<1>5. wire \in [Conns -> BothSides]
  BY DEF CallInv, CallTyped, NetTyped
<1>6. Lighter(Written(wire, p, it.conn, waiting[p][it.peer]), wire)
  BY <1>4, <1>5, LighterWires
<1>7. Lighter(wire', wire)
  BY <1>1, <1>6, SameWires
<1>8. Wordless
  BY <1>1, <1>7, WordlessBy DEF historyVars
<1> QED  BY <1>8, WordlessOrder

LEMMA CallEndedOrder ==
  ASSUME CallInv, CallInv', OrderInv, NEW p \in People, CallEnded(p)
  PROVE  OrderInv'
<1> DEFINE c == phone[p].conn
           q == phone[p].peer
<1>1. /\ phone[p].state = "over" /\ phone' = [phone EXCEPT ![p] = NoCall]
      /\ UNCHANGED <<pair, dead, arriving, strangers, asides, budget, historyVars>>
      /\ \/ c # 0 /\ Keep(p, c, wire) /\ UNCHANGED ringing
         \/ /\ holds' = holds \ {<<p, c>>}
            /\ wire' = wire \/ wire' = Unheard(wire, p, c)
            /\ UNCHANGED ringing \/ NoLongerRinging(p, q)
  BY DEF CallEnded
<1>2. \A x \in People : phone'[x] = phone[x] \/ phone'[x] = NoCall
  <2>1. phone \in [People -> PhoneCalls]
    BY DEF CallInv, CallTyped, LoopTyped
  <2> QED  BY <1>1, <2>1
<1>3. \A x \in People : ringing'[x] = ringing[x] \/ ringing'[x] = NoRing
  BY <1>1, RingOnly
<1>4. wire \in [Conns -> BothSides]
  BY DEF CallInv, CallTyped, NetTyped
<1>5. Lighter(wire', wire) /\ holds' \subseteq holds
  <2>1. CASE c # 0 /\ Keep(p, c, wire)
    <3>1. Far(p, c) \in People
      BY <2>1, CallConn
    <3> QED  BY <2>1, <3>1, KeepLighter
  <2>2. CASE holds' = holds \ {<<p, c>>} /\ (wire' = wire \/ wire' = Unheard(wire, p, c))
    BY <1>4, <2>2, LighterWires
  <2> QED  BY <1>1, <2>1, <2>2
<1>6. Wordless
  BY <1>1, <1>2, <1>3, <1>5, WordlessBy DEF historyVars
<1> QED  BY <1>6, WordlessOrder

LEMMA EndingOrder ==
  ASSUME CallInv, CallInv', OrderInv, NEW p \in People,
         GiveUpDialling(p) \/ Bye(p) \/ ToldItIsOver(p) \/ HungUpOn(p)
  PROVE  OrderInv'
<1> DEFINE c == phone[p].conn
<1>1. \E alive \in BOOLEAN : Over(p, alive)
  BY DEF GiveUpDialling, Bye, ToldItIsOver, HungUpOn
<1>2. phone \in [People -> PhoneCalls] /\ wire \in [Conns -> BothSides]
  BY DEF CallInv, CallTyped, LoopTyped, NetTyped
<1>3. \A x \in People : phone'[x].peer = phone[x].peer /\ phone'[x].first = phone[x].first
                        /\ phone'[x].held = phone[x].held
  <2>1. PICK alive \in BOOLEAN : Over(p, alive)
    BY <1>1
  <2>2. \A x \in People : phone[x] \in PhoneCalls
    BY <1>2
  <2>3. \A x \in People : x # p => phone'[x] = phone[x]
    BY <1>2, <2>1 DEF Over
  <2>4. phone'[p] = [phone[p] EXCEPT !.state = "over", !.alive = alive]
    BY <1>2, <2>1 DEF Over
  <2>5. phone'[p].peer = phone[p].peer /\ phone'[p].first = phone[p].first
        /\ phone'[p].held = phone[p].held
    BY <2>2, <2>4 DEF PhoneCalls
  <2> QED  BY <2>3, <2>5
<1>4. /\ pair' = pair /\ holds' = holds /\ ringing' = ringing /\ UNCHANGED historyVars
  BY DEF GiveUpDialling, Bye, ToldItIsOver, HungUpOn, netVars
<1>5. Lighter(wire', wire)
  <2>1. CASE Bye(p)
    <3>1. wire' = Written(wire, p, c, <<HangUp>>)
      BY <2>1 DEF Bye
    <3> HIDE DEF c
    <3> QED  BY <1>2, <3>1, NoLines, LighterWires
  <2>2. CASE ToldItIsOver(p)
    <3>1. phone[p].conn # 0
      BY <2>2 DEF ToldItIsOver, Talks, CallInv, Phones
    <3>2. c \in Conns /\ Far(p, c) \in People
      BY <3>1, CallConn
    <3>3. (Comes(p, c, "hangup") \/ Comes(p, c, "decline")) /\ wire' = Taken(p, c)
      BY <2>2 DEF ToldItIsOver
    <3> HIDE DEF c
    <3> QED  BY <3>2, <3>3, LighterTaken
  <2>3. CASE wire' = wire
    BY <2>3, SameWires
  <2> QED  BY <2>1, <2>2, <2>3 DEF GiveUpDialling, HungUpOn, netVars
<1>6. Wordless
  BY <1>3, <1>4, <1>5, WordlessBy DEF historyVars
<1> QED  BY <1>6, WordlessOrder

LEMMA BreakOrder ==
  ASSUME CallInv, CallInv', OrderInv, NEW c \in Conns, Break(c)
  PROVE  OrderInv'
<1>1. UNCHANGED <<pair, holds, arriving, strangers, poolVars, phone, ringing, asides, historyVars>>
  BY DEF Break
<1>2. PICK w \in [People -> UNION {Prefixes(wire[c][x]) : x \in People}] :
        wire' = [wire EXCEPT ![c] = w] /\ \A x \in People : w[x] \in Prefixes(wire[c][x])
  BY DEF Break
<1>3. wire \in [Conns -> BothSides]
  BY DEF CallInv, CallTyped, NetTyped
<1>4. \A x \in People : Numbers(w[x]) \subseteq Numbers(wire[c][x])
                        /\ (Rising(wire[c][x]) => Rising(w[x]))
  <2> SUFFICES ASSUME NEW x \in People
               PROVE  Numbers(w[x]) \subseteq Numbers(wire[c][x])
                      /\ (Rising(wire[c][x]) => Rising(w[x]))
    OBVIOUS
  <2>1. wire[c][x] \in Seq(Frames)
    BY <1>3 DEF BothSides
  <2>2. w[x] \in Prefixes(wire[c][x])
    BY <1>2
  <2> DEFINE s == wire[c][x]
             u == w[x]
  <2> HIDE DEF s, u
  <2>3. Numbers(u) \subseteq Numbers(s) /\ (Rising(s) => Rising(u))
    BY <2>1, <2>2, PrefixRises DEF s, u
  <2> QED  BY <2>3 DEF s, u
<1>5. \A d \in Conns : wire'[d] = IF d = c THEN w ELSE wire[d]
  BY <1>2, <1>3
<1>6. Lighter(wire', wire)
  <2> SUFFICES ASSUME NEW d \in Conns, NEW x \in People
               PROVE  /\ Numbers(wire'[d][x]) \subseteq Numbers(wire[d][x])
                      /\ Rising(wire[d][x]) => Rising(wire'[d][x])
    BY DEF Lighter
  <2>1. CASE d = c
    <3>1. wire'[d] = w
      BY <1>5, <2>1
    <3> QED  BY <1>4, <2>1, <3>1
  <2>2. CASE d # c
    <3>1. wire'[d] = wire[d]
      BY <1>5, <2>2
    <3> QED  BY <3>1
  <2> QED  BY <2>1, <2>2
<1>7. Wordless
  BY <1>1, <1>6, WordlessBy DEF historyVars
<1> QED  BY <1>7, WordlessOrder

LEMMA QuitOrder ==
  ASSUME CallInv, CallInv', OrderInv, NEW p \in People, Quit(p)
  PROVE  OrderInv'
<1> DEFINE mine == {c \in Conns : <<p, c>> \in holds}
<1>1. /\ holds' \subseteq holds
      /\ wire' = [c \in Conns |-> IF c \in mine THEN [wire[c] EXCEPT ![Far(p, c)] = <<>>]
                                                ELSE wire[c]]
      /\ phone' = [phone EXCEPT ![p] = NoCall]
      /\ ringing' = [ringing EXCEPT ![p] = NoRing]
      /\ UNCHANGED <<pair, dead, historyVars>>
  BY DEF Quit
<1>2. wire \in [Conns -> BothSides] /\ phone \in [People -> PhoneCalls]
  BY DEF CallInv, CallTyped, NetTyped, LoopTyped
<1>3. \A x \in People : phone'[x] = phone[x] \/ phone'[x] = NoCall
  BY <1>1, <1>2
<1>4. \A x \in People : ringing'[x] = ringing[x] \/ ringing'[x] = NoRing
  BY <1>1, RingOnly
<1>5. Lighter(wire', wire)
  <2> SUFFICES ASSUME NEW d \in Conns, NEW x \in People
               PROVE  /\ Numbers(wire'[d][x]) \subseteq Numbers(wire[d][x])
                      /\ Rising(wire[d][x]) => Rising(wire'[d][x])
    BY DEF Lighter
  <2>1. wire'[d] = wire[d] \/ wire'[d] = [wire[d] EXCEPT ![Far(p, d)] = <<>>]
    BY <1>1
  <2>2. wire'[d][x] = wire[d][x] \/ wire'[d][x] = <<>>
    BY <1>2, <2>1 DEF BothSides
  <2>3. CASE wire'[d][x] = wire[d][x]
    BY <2>3
  <2>4. CASE wire'[d][x] = <<>>
    BY <2>4, NothingRises
  <2> QED  BY <2>2, <2>3, <2>4
<1>6. Wordless
  BY <1>1, <1>3, <1>4, <1>5, WordlessBy DEF historyVars
<1> QED  BY <1>6, WordlessOrder

LEMMA StutterOrder ==
  ASSUME CallInv, CallInv', OrderInv, UNCHANGED vars
  PROVE  OrderInv'
<1>1. UNCHANGED <<pair, holds, wire, phone, ringing, historyVars>>
  BY DEF vars, netVars
<1>2. Wordless
  BY <1>1, SameWires, WordlessBy DEF historyVars
<1> QED  BY <1>2, WordlessOrder

\* A call placed while the other one rings crosses it.
LEMMA PlaceCallOrder ==
  ASSUME CallInv, CallInv', OrderInv, NEW p \in People, NEW q \in People, PlaceCall(p, q)
  PROVE  OrderInv'
<1>1. /\ crossed' = IF ringing[p].peer = q THEN crossed \cup {{p, q}} ELSE crossed
      /\ UNCHANGED <<netVars, ringing, asides, said, shown>>
      /\ Start(p, q, <<>>)
  BY DEF PlaceCall
<1> DEFINE r == [NoCall EXCEPT !.state = IF idle[p][q] = 0 THEN "dial" ELSE "talk",
                               !.peer = q, !.conn = idle[p][q], !.first = <<>>]
<1>2. r.peer = q /\ r.first = <<>> /\ r.held = <<>>
  BY DEF NoCall
<1>3. phone' = [phone EXCEPT ![p] = r]
  BY <1>1 DEF Start
<1> HIDE DEF r
<1>4. \A x \in People : phone'[x] = IF x = p THEN r ELSE phone[x]
  BY <1>3 DEF CallInv, CallTyped, LoopTyped
<1>5. \A x \in People :
        \/ /\ phone'[x].peer = phone[x].peer /\ phone'[x].first = phone[x].first
           /\ phone'[x].held = phone[x].held
        \/ phone'[x].first = <<>> /\ phone'[x].held = <<>>
  BY <1>2, <1>4
<1>6. ASSUME NEW x \in People, NEW y \in People, x # y, {x, y} \notin crossed', ringing'[x].peer = y
      PROVE  phone'[x].peer # y
  <2>1. ringing'[x].peer = ringing[x].peer
    BY <1>1
  <2>2. CASE x = p
    <3>1. phone'[x].peer = q
      BY <1>2, <1>4, <2>2
    <3>2. y # q
      BY <1>1, <1>6, <2>1, <2>2
    <3> QED  BY <3>1, <3>2
  <2>3. CASE x # p
    <3>1. phone'[x] = phone[x]
      BY <1>4, <2>3
    <3>2. Plain(x, y)
      BY <1>1, <1>6 DEF Plain
    <3> QED  BY <1>6, <2>1, <3>1, <3>2 DEF OrderInv, InOrder
  <2> QED  BY <2>2, <2>3
<1>7. Lighter(wire', wire)
  BY <1>1, SameWires DEF netVars
<1>8. Wordless
  BY <1>1, <1>5, <1>6, <1>7 DEF Wordless, netVars
<1> QED  BY <1>8, WordlessOrder

-----------------------------------------------------------------------------
(***************************************************************************)
(* Steps that move lines.                                                  *)
(***************************************************************************)

\* Who is shown a line, and by whom.
LEMMA ShownMore ==
  ASSUME CallInv, NEW p \in People, NEW q \in People, p # q, NEW n \in Nat, OrderInv,
         shown' = [shown EXCEPT ![p] = Append(@, <<q, n>>)]
  PROVE  /\ ShownNow(p, q)' = ShownNow(p, q) \cup {n}
         /\ ShownRises(p, q) /\ Below(ShownNow(p, q), {n}) => ShownRises(p, q)'
         /\ \A x, y \in People : ~ (x = p /\ y = q) =>
              ShownNow(x, y)' = ShownNow(x, y) /\ (ShownRises(x, y) => ShownRises(x, y)')
         /\ \A x \in People : \A i \in DOMAIN shown'[x] : shown'[x][i][1] # x
<1> DEFINE s == shown[p]
           m == Len(s) + 1
           u == Append(s, <<q, n>>)
<1>1. shown \in [People -> Seq(People \X Nat)] /\ s \in Seq(People \X Nat)
  BY DEF CallInv, CallTyped, LinesTyped
<1>2. /\ DOMAIN s = 1 .. Len(s) /\ Len(s) \in Nat /\ DOMAIN u = 1 .. m /\ u[m] = <<q, n>>
      /\ \A i \in DOMAIN s : u[i] = s[i] /\ s[i] \in People \X Nat
  BY <1>1
<1>3. /\ DOMAIN u = DOMAIN s \cup {m} /\ m \notin DOMAIN s /\ \A i \in DOMAIN s : i < m /\ ~ m < i
      /\ ~ m < m
  BY <1>2
<1>4. \A x \in People : shown'[x] = IF x = p THEN u ELSE shown[x]
  BY <1>1
<1>5. u[m][1] = q /\ u[m][2] = n
  BY <1>2
<1> HIDE DEF s, u, m
<1>6. shown'[p] = u /\ shown[p] = s
  BY <1>4 DEF s
<1>7. ASSUME NEW y \in People
      PROVE  /\ ShownNow(p, y)' = ShownNow(p, y) \cup (IF y = q THEN {n} ELSE {})
             /\ ShownRises(p, y) /\ (y = q => Below(ShownNow(p, y), {n})) => ShownRises(p, y)'
  <2>1. \A k : k \in ShownNow(p, y) <=> \E i \in DOMAIN s : s[i][1] = y /\ s[i][2] = k
    BY <1>6 DEF ShownNow
  <2>2. \A k : k \in ShownNow(p, y)' <=> \E i \in DOMAIN u : u[i][1] = y /\ u[i][2] = k
    BY <1>6 DEF ShownNow
  <2>6. ASSUME NEW k, k \in ShownNow(p, y)'
        PROVE  k \in ShownNow(p, y) \/ (y = q /\ k = n)
    <3>1. PICK i \in DOMAIN u : u[i][1] = y /\ u[i][2] = k
      BY <2>2, <2>6
    <3>2. CASE i \in DOMAIN s
      <4>1. s[i][1] = y /\ s[i][2] = k
        BY <1>2, <3>1, <3>2
      <4> QED  BY <2>1, <3>2, <4>1
    <3>3. CASE i = m
      BY <1>5, <3>1, <3>3
    <3> QED  BY <1>3, <3>2, <3>3
  <2>7. ASSUME NEW k, k \in ShownNow(p, y)
        PROVE  k \in ShownNow(p, y)'
    <3>1. PICK i \in DOMAIN s : s[i][1] = y /\ s[i][2] = k
      BY <2>1, <2>7
    <3>2. i \in DOMAIN u /\ u[i][1] = y /\ u[i][2] = k
      BY <1>2, <1>3, <3>1
    <3> QED  BY <2>2, <3>2
  <2>8. y = q => n \in ShownNow(p, y)'
    BY <1>3, <1>5, <2>2
  <2>3. \A k : k \in ShownNow(p, y)' <=> (k \in ShownNow(p, y) \/ (y = q /\ k = n))
    BY <2>6, <2>7, <2>8
  <2>4. ShownRises(p, y) /\ (y = q => Below(ShownNow(p, y), {n})) => ShownRises(p, y)'
    <3> SUFFICES ASSUME ShownRises(p, y), y = q => Below(ShownNow(p, y), {n}),
                        NEW i \in DOMAIN u, NEW j \in DOMAIN u, i < j, u[i][1] = y, u[j][1] = y
                 PROVE  u[i][2] < u[j][2]
      BY <1>6 DEF ShownRises
    <3>1. CASE i \in DOMAIN s /\ j \in DOMAIN s
      BY <1>2, <1>6, <3>1 DEF ShownRises
    <3>2. CASE i \in DOMAIN s /\ j = m
      <4>1. u[i] = s[i] /\ u[i][2] \in ShownNow(p, y) /\ y = q /\ u[j][2] = n
        BY <1>2, <1>5, <2>1, <3>2
      <4> QED  BY <4>1 DEF Below
    <3> QED  BY <1>3, <3>1, <3>2
  <2>5. ShownNow(p, y)' = ShownNow(p, y) \cup (IF y = q THEN {n} ELSE {})
    BY <2>3
  <2> QED  BY <2>4, <2>5
<1>8. ASSUME NEW x \in People, x # p, NEW y \in People
      PROVE  ShownNow(x, y)' = ShownNow(x, y) /\ (ShownRises(x, y) => ShownRises(x, y)')
  BY <1>4, <1>8 DEF ShownNow, ShownRises
<1>9. \A x \in People : \A i \in DOMAIN shown'[x] : shown'[x][i][1] # x
  <2> SUFFICES ASSUME NEW x \in People, NEW i \in DOMAIN shown'[x]
               PROVE  shown'[x][i][1] # x
    OBVIOUS
  <2>1. CASE x = p
    <3>1. i \in DOMAIN s \/ i = m
      BY <1>3, <1>6, <2>1
    <3>2. i \in DOMAIN s => u[i] = shown[p][i] /\ shown[p][i][1] # p
      BY <1>2, <1>6 DEF OrderInv
    <3> QED  BY <1>5, <1>6, <2>1, <3>1, <3>2
  <2>2. CASE x # p
    <3>1. shown'[x] = shown[x]
      BY <1>4, <2>2
    <3> QED  BY <3>1 DEF OrderInv
  <2> QED  BY <2>1, <2>2
<1> QED  BY <1>7, <1>8, <1>9

\* A line taken off a wire is the first of those on their way.
LEMMA TakenWay ==
  ASSUME CallInv, NEW p \in People, NEW q \in People, p # q, InOrder(p, q),
         NEW c \in Between(p, q), <<p, c>> \in holds, Comes(p, c, "text"),
         wire' = Taken(p, c), pair' = pair, NEW n, n = Head(wire[c][q]).n
  PROVE  /\ n \in OnItsWay(p, q) /\ n \in Nat
         /\ OnItsWay(p, q)' \subseteq OnItsWay(p, q) /\ Below({n}, OnItsWay(p, q)')
         /\ \A d \in Between(p, q)' : Rising(wire'[d][q])
<1>1. c \in Conns /\ pair[c] = {p, q} /\ Far(p, c) = q /\ Between(p, q)' = Between(p, q)
  BY FarIs DEF Between, Conns
<1>2. wire \in [Conns -> BothSides]
  BY DEF CallInv, CallTyped, NetTyped
<1> DEFINE s == wire[c][q]
<1>3. s \in Seq(Frames) /\ s # <<>> /\ Head(s).t = "text"
  BY <1>1, <1>2 DEF BothSides, Comes
<1>4. \A d \in Between(p, q) : d # c => wire[d][q] = <<>>
  <2> SUFFICES ASSUME NEW d \in Between(p, q), wire[d][q] # <<>> PROVE d = c
    OBVIOUS
  <2>1. d \in Conns /\ pair[d] = {p, q}
    BY DEF Between
  <2>2. <<p, d>> \in holds
    BY <2>1 DEF CallInv, Readable
  <2> QED  BY <2>2 DEF InOrder, OneBetween
<1>5. wire'[c][q] = Tail(s) /\ \A d \in Between(p, q) : d # c => wire'[d][q] = <<>>
  <2>1. \A d \in Conns : d # c => wire'[d] = wire[d]
    BY <1>2 DEF Taken
  <2>2. wire'[c][q] = Tail(s)
    BY <1>1, <1>2 DEF Taken, BothSides
  <2> QED  BY <1>4, <2>1, <2>2 DEF Between
<1>6. Rising(s)
  BY DEF InOrder, Risings
<1> HIDE DEF s
<1>7. /\ Numbers(Tail(s)) \subseteq Numbers(s) /\ Rising(Tail(s)) /\ Head(s).n \in Numbers(s)
      /\ Below({Head(s).n}, Numbers(Tail(s)))
  BY <1>3, <1>6, TailRises
<1>8. OnItsWay(p, q)' = Numbers(Tail(s))
  <2>1. OnItsWay(p, q)' = UNION {Numbers(wire'[d][q]) : d \in Between(p, q)'}
    BY DEF OnItsWay, Numbers
  <2>2. \A d \in Between(p, q) : Numbers(wire'[d][q]) = IF d = c THEN Numbers(Tail(s)) ELSE {}
    BY <1>5, NothingRises
  <2> QED  BY <1>1, <2>1, <2>2
<1>9. Numbers(s) \subseteq OnItsWay(p, q)
  BY DEF OnItsWay, s
<1>10. \A d \in Between(p, q)' : Rising(wire'[d][q])
  <2> SUFFICES ASSUME NEW d \in Between(p, q) PROVE Rising(wire'[d][q])
    BY <1>1
  <2>1. CASE d = c
    BY <1>5, <1>7, <2>1
  <2>2. CASE d # c
    <3>1. wire'[d][q] = <<>>
      BY <1>5, <2>2
    <3> QED  BY <3>1, NothingRises
  <2> QED  BY <2>1, <2>2
<1>11. Numbers(s) \subseteq Nat
  BY <1>3, NumbersTyped
<1> QED  BY <1>7, <1>8, <1>9, <1>10, <1>11 DEF s

\* The connections stay, and so does who rings whom.
LEMMA StillOne ==
  ASSUME NEW p \in People, NEW q \in People, InOrder(p, q), pair' = pair, holds' = holds
  PROVE  OneBetween(p, q)' /\ Between(p, q)' = Between(p, q)
BY DEF InOrder, OneBetween, Between, Conns

\* Taking a frame off a wire changes nothing of the lines to others.
LEMMA TakenOthers ==
  ASSUME CallInv, NEW p \in People, NEW q \in People, p # q, NEW c \in Between(p, q),
         Comes(p, c, "text"), wire' = Taken(p, c),
         NEW x \in People, NEW y \in People, x # y, ~ (x = p /\ y = q)
  PROVE  \A d \in Between(x, y) : wire'[d][y] = wire[d][y]
<1>1. c \in Conns /\ pair[c] = {p, q} /\ Far(p, c) = q
  BY FarIs DEF Between
<1>2. wire \in [Conns -> BothSides]
  BY DEF CallInv, CallTyped, NetTyped
<1> SUFFICES ASSUME NEW d \in Between(x, y) PROVE wire'[d][y] = wire[d][y]
  OBVIOUS
<1>3. d \in Conns /\ pair[d] = {x, y}
  BY DEF Between
<1>4. ~ (d = c /\ y = q)
  BY <1>1, <1>3
<1> QED  BY <1>1, <1>2, <1>3, <1>4 DEF Taken, BothSides

-----------------------------------------------------------------------------
(***************************************************************************)
(* A line is said.                                                         *)
(***************************************************************************)

\* From p to q, and onto the wires, or among those held.
SaidTo(p, q) ==
  /\ pair' = pair /\ holds' = holds /\ (ringing'[q].peer = p => phone'[q].peer # p)
  /\ ShownNow(q, p)' = ShownNow(q, p) /\ ShownRises(q, p)'
  /\ First(q, p)' = First(q, p) /\ Rung(q, p)' = Rung(q, p)
  /\ said'[p][q] = said[p][q] + 1

LEMMA SaidPair ==
  ASSUME CallInv, CallInv', NEW p \in People, NEW q \in People, InOrder(q, p), SaidTo(p, q),
         NEW line, line = Text(said[p][q] + 1),
         \/ /\ Held(q, p) = <<>> /\ Held(q, p)' = <<>>
            /\ \A d \in Between(q, p) : \/ wire'[d][p] = wire[d][p]
                                        \/ wire'[d][p] = Append(wire[d][p], line)
         \/ /\ Held(q, p)' = Append(Held(q, p), line)
            /\ \A d \in Between(q, p) : wire'[d][p] = wire[d][p]
  PROVE  InOrder(q, p)'
<1> DEFINE S == ShownNow(q, p)  A == InHand(q, p)  W == OnItsWay(q, p)  H == Numbers(Held(q, p))
           W2 == OnItsWay(q, p)'  H2 == Numbers(Held(q, p)')  top == said[p][q]
<1>1. S \cup A \cup W \cup H \subseteq Nat /\ top \in Nat
  BY LinesTypes
<1>2. line \in Frames /\ line.t = "text" /\ line.n = top + 1
  <2>1. line = [t |-> "text", n |-> top + 1]
    BY DEF Text
  <2> QED  BY <1>1, <2>1 DEF Frames
<1>3. Held(q, p) \in Seq(Frames) /\ \A d \in Between(q, p) : wire[d][p] \in Seq(Frames)
  BY LinesTypes
<1>4. Between(q, p)' = Between(q, p) /\ OneBetween(q, p)'
  BY StillOne DEF SaidTo
<1>5. Ordered(S, A, W, H, top)
  BY DEF InOrder
<1>6. InHand(q, p)' = A
  <2>1. InHand(q, p)' = Numbers(First(q, p)') \cup Numbers(Rung(q, p)')
    BY DEF InHand, Numbers
  <2> QED  BY <2>1 DEF SaidTo, InHand
<1>7. W2 = UNION {Numbers(wire'[d][p]) : d \in Between(q, p)}
  BY <1>4 DEF OnItsWay, Numbers
<1>8. W = UNION {Numbers(wire[d][p]) : d \in Between(q, p)}
  BY DEF OnItsWay
<1>9. \A d \in Between(q, p) : Rising(wire[d][p])
  BY DEF InOrder, Risings
<1>10. Rising(Held(q, p))
  BY DEF InOrder, Risings
<1>11. Held(q, p)' = <<>> => H2 = {} /\ Rising(Held(q, p)')
  BY NothingRises
<1>12. Held(q, p) = <<>> => H = {}
  BY NothingRises
<1> HIDE DEF S, A, W, H, W2, H2, top
<1>13. /\ Below(W, {top + 1}) /\ Below(H, {top + 1})
       /\ Ordered(S, A, W, H \cup {top + 1}, top + 1)
       /\ H = {} => /\ Ordered(S, A, W \cup {top + 1}, H, top + 1)
                    /\ Ordered(S, A, W, H, top + 1)
  <2>1. \A more : more \subseteq {top + 1} =>
          /\ H = {} => Ordered(S, A, W \cup more, H, top + 1)
          /\ Ordered(S, A, W, H \cup more, top + 1) /\ Below(W, more) /\ Below(H, more)
    BY <1>1, <1>5, SaidOrdered
  <2>2. W \cup {} = W
    OBVIOUS
  <2>3. {top + 1} \subseteq {top + 1} /\ {} \subseteq {top + 1}
    OBVIOUS
  <2>4. H = {} => Ordered(S, A, W \cup {}, H, top + 1)
    BY <2>1, <2>3
  <2> QED  BY <2>1, <2>2, <2>3, <2>4
<1>14. /\ Ordered(S, A, W2, H2, top + 1)
       /\ \A d \in Between(q, p) : Rising(wire'[d][p])
       /\ Rising(Held(q, p)')
  <2>1. CASE /\ Held(q, p) = <<>> /\ Held(q, p)' = <<>>
             /\ \A d \in Between(q, p) : \/ wire'[d][p] = wire[d][p]
                                         \/ wire'[d][p] = Append(wire[d][p], line)
    <3>1. ASSUME NEW d \in Between(q, p)
          PROVE  /\ Numbers(wire'[d][p]) \subseteq W \cup {top + 1}
                 /\ Rising(wire'[d][p])
      <4>1. CASE wire'[d][p] = wire[d][p]
        BY <1>8, <1>9, <4>1
      <4>2. CASE wire'[d][p] = Append(wire[d][p], line)
        <5> DEFINE s == wire[d][p]
        <5>1. s \in Seq(Frames) /\ Rising(s) /\ Numbers(s) \subseteq W
          BY <1>3, <1>8, <1>9
        <5> HIDE DEF s
        <5>2. Below(Numbers(s), {line.n})
          BY <1>2, <1>13, <5>1 DEF Below
        <5>3. Numbers(Append(s, line)) = Numbers(s) \cup {line.n} /\ Rising(Append(s, line))
          BY <1>2, <5>1, <5>2, AppendRises
        <5>4. Numbers(wire'[d][p]) = Numbers(s) \cup {line.n} /\ Rising(wire'[d][p])
          BY <4>2, <5>3 DEF s
        <5> QED  BY <1>2, <5>1, <5>4
      <4> QED  BY <2>1, <4>1, <4>2
    <3>2. W2 \subseteq W \cup {top + 1}
      BY <1>7, <3>1
    <3>3. H = {} /\ H2 = {} /\ Rising(Held(q, p)')
      BY <1>11, <1>12, <2>1
    <3>4. Ordered(S, A, W \cup {top + 1}, H, top + 1)
      BY <1>13, <3>3
    <3>5. Ordered(S, A, W2, H2, top + 1)
      BY <3>2, <3>3, <3>4 DEF Ordered, Below
    <3> QED  BY <3>1, <3>3, <3>5
  <2>2. CASE /\ Held(q, p)' = Append(Held(q, p), line)
             /\ \A d \in Between(q, p) : wire'[d][p] = wire[d][p]
    <3> DEFINE s == Held(q, p)
    <3>1. s \in Seq(Frames) /\ Rising(s) /\ Numbers(s) = H
      BY <1>3, <1>10 DEF H
    <3> HIDE DEF s
    <3>2. Below(Numbers(s), {line.n})
      BY <1>2, <1>13, <3>1
    <3>3. Numbers(Append(s, line)) = Numbers(s) \cup {line.n} /\ Rising(Append(s, line))
      BY <1>2, <3>1, <3>2, AppendRises
    <3>4. Held(q, p)' = Append(s, line)
      BY <2>2 DEF s
    <3>5. H2 = H \cup {top + 1} /\ Rising(Held(q, p)')
      BY <1>2, <3>1, <3>3, <3>4 DEF H2
    <3>6. W2 = W
      BY <1>7, <1>8, <2>2
    <3>7. \A d \in Between(q, p) : Rising(wire'[d][p])
      BY <1>9, <2>2
    <3> QED  BY <1>13, <3>5, <3>6, <3>7
  <2> QED  BY <2>1, <2>2
<1>15. ShownNow(q, p)' = S /\ Numbers(Held(q, p))' = H2 /\ said'[p][q] = top + 1
  BY DEF SaidTo, S, H2, top, Numbers
<1>16. Ordered(ShownNow(q, p), InHand(q, p), OnItsWay(q, p), Numbers(Held(q, p)), said[p][q])'
  BY <1>6, <1>14, <1>15 DEF Ordered, Below, W2
<1>17. Risings(q, p)'
  <2>1. Rising(First(q, p)') /\ Rising(Rung(q, p)')
    BY DEF SaidTo, InOrder, Risings
  <2>2. Rising(First(q, p))' /\ Rising(Rung(q, p))' /\ Rising(Held(q, p))'
    BY <1>14, <2>1 DEF Rising
  <2>5. Worded(First(q, p)') /\ Worded(Rung(q, p)')
    BY DEF SaidTo, InOrder, Risings
  <2>6. Worded(First(q, p))' /\ Worded(Rung(q, p))'
    BY <2>5 DEF Worded
  <2>3. \A d \in Between(q, p)' : Rising(wire[d][p])'
    BY <1>4, <1>14 DEF Rising
  <2>4. ShownRises(q, p)'
    BY DEF SaidTo
  <2> QED  BY <2>2, <2>3, <2>4, <2>6 DEF Risings
<1> QED  BY <1>4, <1>16, <1>17 DEF InOrder, SaidTo

\* Nothing is said, shown or moved between two others.
LEMMA OthersStill ==
  ASSUME CallInv, CallInv', NEW x \in People, NEW y \in People, InOrder(x, y),
         pair' = pair, holds' = holds, ringing'[x] = ringing[x],
         phone'[x].peer = phone[x].peer,
         phone[x].peer = y => phone'[x].first = phone[x].first,
         phone'[y].peer = phone[y].peer,
         phone[y].peer = x => phone'[y].held = phone[y].held,
         ShownNow(x, y)' = ShownNow(x, y), ShownRises(x, y)', said'[y][x] = said[y][x],
         \A d \in Between(x, y) : wire'[d][y] = wire[d][y]
  PROVE  InOrder(x, y)'
<1>1. First(x, y)' = First(x, y) /\ Rung(x, y)' = Rung(x, y) /\ Held(x, y)' = Held(x, y)
  BY DEF First, Rung, Held
<1>2. ringing'[x].peer = y => phone'[x].peer # y
  BY DEF InOrder
<1>3. said'[y][x] >= said[y][x]
  BY LinesTypes
<1>4. \A d \in Between(x, y) : /\ Numbers(wire'[d][y]) \subseteq Numbers(wire[d][y])
                               /\ Rising(wire[d][y]) => Rising(wire'[d][y])
  OBVIOUS
<1>5. WordlessFor(x, y)
  BY <1>1, <1>2, <1>3, <1>4 DEF WordlessFor
<1> QED  BY <1>5, WordlessPair

LEMMA SayOrder ==
  ASSUME CallInv, CallInv', OrderInv, NEW p \in People, Say(p), NEW q, q = phone[p].peer
  PROVE  OrderInv'
<1> DEFINE c == phone[p].conn
           line == Text(said[p][q] + 1)
<1>1. /\ Talks(p) /\ Says(p, q) /\ wire' = Written(wire, p, c, <<line>>)
      /\ phone' = [phone EXCEPT ![p].spoke = TRUE]
      /\ UNCHANGED <<pair, holds, dead, arriving, strangers, poolVars, ringing, asides,
                     shown, crossed>>
  BY DEF Say
<1>2. phone[p].conn # 0 /\ phone[p].held = <<>> /\ phone[p].state # "none"
  BY <1>1 DEF CallInv, Phones, Talks
<1>3. c \in Conns /\ pair[c] = {p, q} /\ q \in People /\ p # q
  BY <1>2, CallConn
<1>4. phone \in [People -> PhoneCalls] /\ wire \in [Conns -> BothSides] /\ line \in Frames
      /\ said \in [People -> [People -> Nat]]
  BY <1>1, <1>3, SaysTyped DEF CallInv, CallTyped, LoopTyped, NetTyped, LinesTyped
<1>5. \A x \in People : /\ phone'[x].peer = phone[x].peer /\ phone'[x].first = phone[x].first
                        /\ phone'[x].held = phone[x].held
  <2>1. \A x \in People : phone[x] \in PhoneCalls
    BY <1>4
  <2>2. \A x \in People : x # p => phone'[x] = phone[x]
    BY <1>1, <1>4
  <2>3. phone'[p] = [phone[p] EXCEPT !.spoke = TRUE]
    BY <1>1, <1>4
  <2> QED  BY <2>1, <2>2, <2>3 DEF PhoneCalls
<1>6. \A x, y \in People : said'[x][y] = IF x = p /\ y = q THEN said[p][q] + 1 ELSE said[x][y]
  BY <1>1, <1>3, <1>4 DEF Says
<1>7. \A d \in Conns, x \in People :
        \/ wire'[d][x] = wire[d][x]
        \/ d = c /\ x = p /\ wire'[d][x] = wire[d][x] \o <<line>>
  <2> DEFINE v == wire[c][p] \o <<line>>
  <2>1. wire' = [wire EXCEPT ![c][p] = v] \/ wire' = wire
    BY <1>1 DEF Written
  <2> HIDE DEF c, line, v
  <2>2. \A d \in Conns, x \in People : \/ wire'[d][x] = wire[d][x]
                                       \/ d = c /\ x = p /\ wire'[d][x] = v
    <3>1. CASE wire' = [wire EXCEPT ![c][p] = v]
      <4>1. \A d \in Conns : d # c => wire'[d] = wire[d]
        BY <1>4, <3>1
      <4>2. wire'[c] = [wire[c] EXCEPT ![p] = v] /\ wire[c] \in [People -> Seq(Frames)]
        BY <1>3, <1>4, <3>1 DEF BothSides
      <4>3. \A x \in People : wire'[c][x] = IF x = p THEN v ELSE wire[c][x]
        BY <4>2
      <4> QED  BY <4>1, <4>3
    <3>2. CASE wire' = wire
      BY <3>2
    <3> QED  BY <2>1, <3>1, <3>2
  <2> QED  BY <2>2 DEF v
<1>8. \A d \in Conns : wire[d][p] \in Seq(Frames)
  BY <1>4 DEF BothSides
<1>9. \A d \in Conns : wire[d][p] \o <<line>> = Append(wire[d][p], line)
  <2> HIDE DEF line
  <2> QED  BY <1>4, <1>8
<1> HIDE DEF c, line
<1>10. \A x, y \in People : /\ ShownNow(x, y)' = ShownNow(x, y)
                            /\ ShownRises(x, y) => ShownRises(x, y)'
  BY <1>1 DEF ShownNow, ShownRises
<1>11. ASSUME NEW x \in People, NEW y \in People, x # y, Plain(x, y)'
       PROVE  InOrder(x, y)'
  <2>1. InOrder(x, y)
    BY <1>1, <1>11 DEF OrderInv, Plain
  <2>2. ShownRises(x, y)'
    BY <1>10, <2>1 DEF InOrder, Risings
  <2>3. CASE x = q /\ y = p
    <3>1. First(q, p)' = First(q, p) /\ Rung(q, p)' = Rung(q, p) /\ Held(q, p)' = <<>>
          /\ Held(q, p) = <<>>
      BY <1>1, <1>2, <1>3, <1>5 DEF First, Rung, Held
    <3>2. ringing'[q].peer = p => phone'[q].peer # p
      BY <1>1, <1>3, <1>5, <2>1, <2>3 DEF InOrder
    <3>3. SaidTo(p, q)
      BY <1>1, <1>3, <1>6, <1>10, <2>2, <2>3, <3>1, <3>2 DEF SaidTo
    <3>4. \A d \in Between(q, p) : \/ wire'[d][p] = wire[d][p]
                                   \/ wire'[d][p] = Append(wire[d][p], line)
      BY <1>7, <1>9 DEF Between
    <3>5. InOrder(q, p)
      BY <2>1, <2>3
    <3>6. InOrder(q, p)'
      BY <1>3, <3>1, <3>3, <3>4, <3>5, SaidPair DEF line
    <3> QED  BY <2>3, <3>6
  <2>4. CASE ~ (x = q /\ y = p)
    <3>1. said'[y][x] = said[y][x]
      BY <1>6, <2>4
    <3>2. \A d \in Between(x, y) : wire'[d][y] = wire[d][y]
      <4> SUFFICES ASSUME NEW d \in Between(x, y) PROVE wire'[d][y] = wire[d][y]
        OBVIOUS
      <4>1. d \in Conns /\ pair[d] = {x, y}
        BY DEF Between
      <4>2. d = c /\ y = p => x = q
        BY <1>3, <1>11, <4>1
      <4> QED  BY <1>7, <2>4, <4>1, <4>2
    <3> QED  BY <1>1, <1>5, <1>10, <2>1, <2>2, <3>1, <3>2, OthersStill
  <2> QED  BY <2>3, <2>4
<1>12. \A x \in People : \A i \in DOMAIN shown'[x] : shown'[x][i][1] # x
  BY <1>1 DEF OrderInv
<1> QED  BY <1>11, <1>12 DEF OrderInv

LEMMA HoldLineOrder ==
  ASSUME CallInv, CallInv', OrderInv, NEW p \in People, HoldLine(p), NEW q, q = phone[p].peer
  PROVE  OrderInv'
<1> DEFINE line == Text(said[p][q] + 1)
<1>1. /\ Dials(p) /\ Says(p, q)
      /\ phone' = [phone EXCEPT ![p].held = Append(@, line)]
      /\ UNCHANGED <<netVars, poolVars, ringing, asides, shown, crossed>>
  BY DEF HoldLine
<1>2. q \in People /\ p # q
  BY <1>1, CallerIs DEF Dials
<1>3. phone \in [People -> PhoneCalls] /\ said \in [People -> [People -> Nat]]
  BY DEF CallInv, CallTyped, LoopTyped, LinesTyped
<1>4. /\ \A x \in People : phone'[x].peer = phone[x].peer /\ phone'[x].first = phone[x].first
      /\ \A x \in People : x # p => phone'[x].held = phone[x].held
      /\ phone'[p].held = Append(phone[p].held, line)
  <2> DEFINE h == Append(phone[p].held, line)
  <2>0. phone' = [phone EXCEPT ![p].held = h]
    BY <1>1
  <2> HIDE DEF line, h
  <2>1. \A x \in People : phone[x] \in PhoneCalls
    BY <1>3
  <2>2. \A x \in People : x # p => phone'[x] = phone[x]
    BY <1>3, <2>0
  <2>3. phone'[p] = [phone[p] EXCEPT !.held = h]
    BY <1>3, <2>0
  <2>4. phone'[p].peer = phone[p].peer /\ phone'[p].first = phone[p].first /\ phone'[p].held = h
    BY <2>1, <2>3 DEF PhoneCalls
  <2>5. \A x \in People : phone'[x].peer = phone[x].peer /\ phone'[x].first = phone[x].first
    BY <2>2, <2>4
  <2> QED  BY <2>2, <2>4, <2>5 DEF h
<1>5. \A x, y \in People : said'[x][y] = IF x = p /\ y = q THEN said[p][q] + 1 ELSE said[x][y]
  BY <1>1, <1>2, <1>3 DEF Says
<1>6. pair' = pair /\ holds' = holds /\ wire' = wire /\ ringing' = ringing /\ shown' = shown
      /\ crossed' = crossed
  BY <1>1 DEF netVars
<1> HIDE DEF line
<1>7. \A x, y \in People : /\ ShownNow(x, y)' = ShownNow(x, y)
                           /\ ShownRises(x, y) => ShownRises(x, y)'
  BY <1>6 DEF ShownNow, ShownRises
<1>8. ASSUME NEW x \in People, NEW y \in People, x # y, Plain(x, y)'
      PROVE  InOrder(x, y)'
  <2>1. InOrder(x, y)
    BY <1>6, <1>8 DEF OrderInv, Plain
  <2>2. ShownRises(x, y)'
    BY <1>7, <2>1 DEF InOrder, Risings
  <2>3. CASE x = q /\ y = p
    <3>1. First(q, p)' = First(q, p) /\ Rung(q, p)' = Rung(q, p)
          /\ Held(q, p)' = Append(Held(q, p), line)
      BY <1>2, <1>4, <1>6 DEF First, Rung, Held
    <3>2. ringing'[q].peer = p => phone'[q].peer # p
      BY <1>2, <1>4, <1>6, <2>1, <2>3 DEF InOrder
    <3>3. SaidTo(p, q)
      BY <1>2, <1>5, <1>6, <1>7, <2>2, <2>3, <3>1, <3>2 DEF SaidTo
    <3>4. \A d \in Between(q, p) : wire'[d][p] = wire[d][p]
      BY <1>6
    <3>5. InOrder(q, p)
      BY <2>1, <2>3
    <3>6. InOrder(q, p)'
      BY <1>2, <3>1, <3>3, <3>4, <3>5, SaidPair DEF line
    <3> QED  BY <2>3, <3>6
  <2>4. CASE ~ (x = q /\ y = p)
    <3>1. said'[y][x] = said[y][x]
      BY <1>5, <2>4
    <3>2. phone[y].peer = x => phone'[y].held = phone[y].held
      BY <1>4, <2>4
    <3>3. \A d \in Between(x, y) : wire'[d][y] = wire[d][y]
      BY <1>6
    <3> QED  BY <1>4, <1>6, <1>7, <2>1, <2>2, <3>1, <3>2, <3>3, OthersStill
  <2> QED  BY <2>3, <2>4
<1>9. \A x \in People : \A i \in DOMAIN shown'[x] : shown'[x][i][1] # x
  BY <1>6 DEF OrderInv
<1> QED  BY <1>8, <1>9 DEF OrderInv

-----------------------------------------------------------------------------
(***************************************************************************)
(* A line is shown.                                                        *)
(***************************************************************************)

LEMMA ShownPair ==
  ASSUME CallInv, OrderInv, NEW p \in People, NEW q \in People, p # q, InOrder(p, q),
         pair' = pair, holds' = holds, ringing' = ringing, said' = said,
         \A x \in People : phone'[x].peer = phone[x].peer /\ phone'[x].held = phone[x].held,
         NEW n \in Nat, shown' = [shown EXCEPT ![p] = Append(@, <<q, n>>)],
         Below(ShownNow(p, q), {n}),
         Ordered(ShownNow(p, q) \cup {n}, InHand(p, q)', OnItsWay(p, q)', Numbers(Held(p, q)),
                 said[q][p]),
         Rising(First(p, q)'), Worded(First(p, q)'),
         \A d \in Between(p, q)' : Rising(wire'[d][q])
  PROVE  InOrder(p, q)'
<1>1. Between(p, q)' = Between(p, q) /\ OneBetween(p, q)'
  BY StillOne
<1>2. Rung(p, q)' = Rung(p, q) /\ Held(p, q)' = Held(p, q)
  BY DEF Rung, Held
<1>3. ShownRises(p, q)
  BY DEF InOrder, Risings
<1>4. ShownNow(p, q)' = ShownNow(p, q) \cup {n} /\ ShownRises(p, q)'
  BY <1>3, ShownMore
<1>5. Numbers(Held(p, q))' = Numbers(Held(p, q))
  BY <1>2 DEF Numbers
<1>6. Ordered(ShownNow(p, q), InHand(p, q), OnItsWay(p, q), Numbers(Held(p, q)), said[q][p])'
  BY <1>4, <1>5 DEF Ordered, Below
<1>7. Risings(p, q)'
  <2>1. Rising(Rung(p, q)') /\ Rising(Held(p, q)') /\ Worded(Rung(p, q)')
    BY <1>2 DEF InOrder, Risings
  <2>2. Rising(First(p, q))' /\ Rising(Rung(p, q))' /\ Rising(Held(p, q))'
    BY <2>1 DEF Rising
  <2>3. Worded(First(p, q))' /\ Worded(Rung(p, q))'
    BY <2>1 DEF Worded
  <2>4. \A d \in Between(p, q)' : Rising(wire[d][q])'
    BY DEF Rising
  <2> QED  BY <1>4, <2>2, <2>3, <2>4 DEF Risings
<1>8. ringing'[p].peer = q => phone'[p].peer # q
  BY DEF InOrder
<1> QED  BY <1>1, <1>6, <1>7, <1>8 DEF InOrder

LEMMA HearFirstOrder ==
  ASSUME CallInv, CallInv', OrderInv, NEW p \in People, HearFirst(p), NEW q, q = phone[p].peer
  PROVE  OrderInv'
<1> DEFINE s == phone[p].first
           n == Head(s).n
<1>1. /\ Talks(p) /\ s # <<>> /\ phone' = [phone EXCEPT ![p].first = Tail(s)]
      /\ shown' = [shown EXCEPT ![p] = Append(@, <<q, n>>)]
      /\ UNCHANGED <<netVars, poolVars, ringing, asides, budget, said, crossed>>
  BY DEF HearFirst
<1>2. /\ q \in People /\ p # q /\ s \in Seq(Frames) /\ phone \in [People -> PhoneCalls]
  BY <1>1, CallerIs DEF Talks
<1>3. Head(s) \in Frames /\ n \in Nat
  <2>1. Head(s) \in Frames
    BY <1>1, <1>2
  <2> QED  BY <2>1 DEF Frames
<1>4. /\ \A x \in People : phone'[x].peer = phone[x].peer /\ phone'[x].held = phone[x].held
      /\ \A x \in People : x # p => phone'[x].first = phone[x].first
      /\ phone'[p].first = Tail(s)
  <2> DEFINE t == Tail(s)
  <2>0. phone' = [phone EXCEPT ![p].first = t]
    BY <1>1
  <2> HIDE DEF t
  <2>1. \A x \in People : phone[x] \in PhoneCalls
    BY <1>2
  <2>2. \A x \in People : x # p => phone'[x] = phone[x]
    BY <1>2, <2>0
  <2>3. phone'[p] = [phone[p] EXCEPT !.first = t]
    BY <1>2, <2>0
  <2>4. phone'[p].peer = phone[p].peer /\ phone'[p].held = phone[p].held /\ phone'[p].first = t
    BY <2>1, <2>3 DEF PhoneCalls
  <2>5. \A x \in People : phone'[x].peer = phone[x].peer /\ phone'[x].held = phone[x].held
    BY <2>2, <2>4
  <2> QED  BY <2>2, <2>4, <2>5 DEF t
<1>5. pair' = pair /\ holds' = holds /\ wire' = wire /\ ringing' = ringing /\ said' = said
      /\ crossed' = crossed
  BY <1>1 DEF netVars
<1>6. First(p, q) = s /\ First(p, q)' = Tail(s)
  BY <1>2, <1>4 DEF First
<1> HIDE DEF s, n
<1>7. /\ \A x, y \in People : ~ (x = p /\ y = q) =>
           ShownNow(x, y)' = ShownNow(x, y) /\ (ShownRises(x, y) => ShownRises(x, y)')
      /\ \A x \in People : \A i \in DOMAIN shown'[x] : shown'[x][i][1] # x
  BY <1>1, <1>2, <1>3, ShownMore
<1>8. ASSUME NEW x \in People, NEW y \in People, x # y, Plain(x, y)'
      PROVE  InOrder(x, y)'
  <2>1. InOrder(x, y)
    BY <1>5, <1>8 DEF OrderInv, Plain
  <2>2. CASE x = p /\ y = q
    <3>0. InOrder(p, q)
      BY <2>1, <2>2
    <3>1. Rung(p, q) = <<>> /\ Rung(p, q)' = <<>>
      BY <1>5, <3>0 DEF InOrder, Rung
    <3>2. Rising(s) /\ Worded(s) /\ Ordered(ShownNow(p, q), InHand(p, q), OnItsWay(p, q),
                                            Numbers(Held(p, q)), said[q][p])
      BY <1>6, <3>0 DEF InOrder, Risings
    <3>3. Head(s) = s[1] /\ 1 \in DOMAIN s /\ Tail(s) \in Seq(Frames)
          /\ \A i \in DOMAIN Tail(s) : i + 1 \in DOMAIN s /\ Tail(s)[i] = s[i + 1]
      BY <1>1, <1>2
    <3>4. Head(s).t = "text" /\ Worded(Tail(s))
      BY <3>2, <3>3 DEF Worded
    <3>5. /\ Numbers(Tail(s)) \subseteq Numbers(s) /\ Rising(Tail(s)) /\ n \in Numbers(s)
          /\ Below({n}, Numbers(Tail(s)))
      BY <1>1, <1>2, <3>2, <3>4, TailRises DEF n
    <3>6. InHand(p, q) = Numbers(s)
      BY <1>6, <3>1, NothingRises DEF InHand
    <3>7. InHand(p, q)' = Numbers(Tail(s))
      <4>1. InHand(p, q)' = Numbers(First(p, q)') \cup Numbers(Rung(p, q)')
        BY DEF InHand, Numbers
      <4> QED  BY <1>6, <3>1, <4>1, NothingRises
    <3>8. OnItsWay(p, q)' = OnItsWay(p, q) /\ Between(p, q)' = Between(p, q)
      BY <1>5 DEF OnItsWay, Numbers, Between, Conns
    <3> DEFINE S == ShownNow(p, q)  W == OnItsWay(p, q)  H == Numbers(Held(p, q))
               A == Numbers(s)  A2 == Numbers(Tail(s))  top == said[q][p]
    <3>9. Ordered(S, A, W, H, top) /\ A2 \subseteq A /\ n \in A /\ Below({n}, A2) /\ top \in Nat
      BY <1>2, <3>2, <3>5, <3>6, LinesTypes
    <3> HIDE DEF S, W, H, A, A2, top
    <3>10. Ordered(S \cup {n}, A2, W, H, top) /\ Below(S, {n})
      BY <3>9, ReadOrdered
    <3>11. Ordered(ShownNow(p, q) \cup {n}, InHand(p, q)', OnItsWay(p, q)', Numbers(Held(p, q)),
                   said[q][p]) /\ Below(ShownNow(p, q), {n})
      BY <3>7, <3>8, <3>10 DEF S, W, H, A2, top
    <3>12. \A d \in Between(p, q)' : Rising(wire'[d][q])
      BY <1>5, <3>0, <3>8 DEF InOrder, Risings
    <3>13. Rising(First(p, q)') /\ Worded(First(p, q)')
      BY <1>6, <3>4, <3>5
    <3>14. InOrder(p, q)'
      BY <1>1, <1>2, <1>3, <1>4, <1>5, <3>0, <3>11, <3>12, <3>13, ShownPair
    <3> QED  BY <2>2, <3>14
  <2>3. CASE ~ (x = p /\ y = q)
    <3>1. ShownNow(x, y)' = ShownNow(x, y) /\ ShownRises(x, y)'
      BY <1>7, <2>1, <2>3 DEF InOrder, Risings
    <3>2. phone[x].peer = y => phone'[x].first = phone[x].first
      BY <1>4, <2>3
    <3>3. \A d \in Between(x, y) : wire'[d][y] = wire[d][y]
      BY <1>5
    <3> QED  BY <1>4, <1>5, <2>1, <3>1, <3>2, <3>3, OthersStill
  <2> QED  BY <2>2, <2>3
<1> QED  BY <1>7, <1>8 DEF OrderInv

LEMMA HearOrder ==
  ASSUME CallInv, CallInv', OrderInv, NEW p \in People, Hear(p), NEW q, q = phone[p].peer,
         NEW c, c = phone[p].conn
  PROVE  OrderInv'
<1> DEFINE n == Head(wire[c][q]).n
<1>1. /\ Talks(p) /\ phone[p].first = <<>> /\ Comes(p, c, "text") /\ wire' = Taken(p, c)
      /\ shown' = [shown EXCEPT ![p] = Append(@, <<q, n>>)]
      /\ UNCHANGED <<pair, holds, dead, arriving, strangers, poolVars, phone, ringing, asides,
                     budget, said, crossed>>
  BY DEF Hear
<1>2. phone[p].conn # 0
  BY <1>1 DEF CallInv, Phones, Talks
<1>3. /\ c \in Conns /\ pair[c] = {p, q} /\ q \in People /\ p # q /\ <<p, c>> \in holds
      /\ c \in Between(p, q)
  BY <1>2, CallConn DEF Between
<1>4. n \in Nat
  <2>1. Head(wire[c][q]) \in Frames
    BY <1>1, CallReads
  <2> QED  BY <2>1 DEF Frames
<1>5. First(p, q) = <<>> /\ First(p, q)' = <<>>
  BY <1>1, <1>3 DEF First
<1> HIDE DEF n
<1>7. /\ \A x, y \in People : ~ (x = p /\ y = q) =>
           ShownNow(x, y)' = ShownNow(x, y) /\ (ShownRises(x, y) => ShownRises(x, y)')
      /\ \A x \in People : \A i \in DOMAIN shown'[x] : shown'[x][i][1] # x
  BY <1>1, <1>3, <1>4, ShownMore
<1>8. ASSUME NEW x \in People, NEW y \in People, x # y, Plain(x, y)'
      PROVE  InOrder(x, y)'
  <2>1. InOrder(x, y)
    BY <1>1, <1>8 DEF OrderInv, Plain
  <2>2. CASE x = p /\ y = q
    <3>0. InOrder(p, q)
      BY <2>1, <2>2
    <3>1. Rung(p, q) = <<>> /\ Rung(p, q)' = <<>>
      BY <1>1, <3>0 DEF InOrder, Rung
    <3>2. InHand(p, q) = {} /\ InHand(p, q)' = {}
      <4>1. InHand(p, q)' = Numbers(First(p, q)') \cup Numbers(Rung(p, q)')
        BY DEF InHand, Numbers
      <4> QED  BY <1>5, <3>1, <4>1, NothingRises DEF InHand
    <3>3. n = Head(wire[c][q]).n /\ pair' = pair
      BY <1>1 DEF n
    <3>4. /\ n \in OnItsWay(p, q) /\ OnItsWay(p, q)' \subseteq OnItsWay(p, q)
          /\ Below({n}, OnItsWay(p, q)')
          /\ \A d \in Between(p, q)' : Rising(wire'[d][q])
      BY <1>1, <1>3, <3>0, <3>3, TakenWay
    <3> DEFINE S == ShownNow(p, q)  W == OnItsWay(p, q)  H == Numbers(Held(p, q))
               A == InHand(p, q)  W2 == OnItsWay(p, q)'  top == said[q][p]
    <3>5. Ordered(S, A, W, H, top) /\ W2 \subseteq W /\ n \in W /\ Below({n}, W2) /\ top \in Nat
          /\ A = {}
      BY <1>3, <3>0, <3>2, <3>4, LinesTypes DEF InOrder
    <3> HIDE DEF S, W, H, A, W2, top
    <3>6. Ordered(S \cup {n}, A, W2, H, top) /\ Below(S, {n})
      BY <3>5, TakenOrdered
    <3>7. Ordered(ShownNow(p, q) \cup {n}, InHand(p, q)', OnItsWay(p, q)', Numbers(Held(p, q)),
                  said[q][p]) /\ Below(ShownNow(p, q), {n})
      BY <3>2, <3>5, <3>6 DEF S, W2, H, top
    <3>8. Rising(First(p, q)') /\ Worded(First(p, q)')
      BY <1>5, NothingRises
    <3>9. InOrder(p, q)'
      BY <1>1, <1>3, <1>4, <3>0, <3>4, <3>7, <3>8, ShownPair
    <3> QED  BY <2>2, <3>9
  <2>3. CASE ~ (x = p /\ y = q)
    <3>1. ShownNow(x, y)' = ShownNow(x, y) /\ ShownRises(x, y)'
      BY <1>7, <2>1, <2>3 DEF InOrder, Risings
    <3>2. \A d \in Between(x, y) : wire'[d][y] = wire[d][y]
      BY <1>1, <1>3, <1>8, <2>3, TakenOthers
    <3> QED  BY <1>1, <2>1, <3>1, <3>2, OthersStill
  <2> QED  BY <2>2, <2>3
<1> QED  BY <1>7, <1>8 DEF OrderInv

-----------------------------------------------------------------------------
(***************************************************************************)
(* A line rings, and is taken into the call that answers it.               *)
(***************************************************************************)

LEMMA AnswerOrder ==
  ASSUME CallInv, CallInv', OrderInv, NEW p \in People, Answer(p), NEW q, q = ringing[p].peer
  PROVE  OrderInv'
<1>1. /\ q # Nobody /\ phone[p].state = "none" /\ ringing' = [ringing EXCEPT ![p] = NoRing]
      /\ UNCHANGED phone \/ Start(p, q, ringing[p].said)
      /\ UNCHANGED <<netVars, asides, budget, historyVars>>
  BY DEF Answer
<1>2. /\ ringing \in [People -> [peer : People \cup {Nobody}, said : Seq(Frames)]]
      /\ phone \in [People -> PhoneCalls]
  BY DEF CallInv, CallTyped, LoopTyped
<1>3. /\ pair' = pair /\ holds' = holds /\ wire' = wire /\ shown' = shown /\ said' = said
      /\ crossed' = crossed
  BY <1>1 DEF netVars, historyVars
<1>4. Lighter(wire', wire)
  BY <1>3, SameWires
<1>5. CASE UNCHANGED phone
  <2>1. \A x \in People : ringing'[x] = ringing[x] \/ ringing'[x] = NoRing
    BY <1>1, RingOnly
  <2>2. Wordless
    BY <1>3, <1>4, <1>5, <2>1, WordlessBy
  <2> QED  BY <2>2, WordlessOrder
<1>6. CASE Start(p, q, ringing[p].said)
  <2> DEFINE first == ringing[p].said
             r == [NoCall EXCEPT !.state = IF idle[p][q] = 0 THEN "dial" ELSE "talk",
                                 !.peer = q, !.conn = idle[p][q], !.first = first]
  <2>1. phone' = [phone EXCEPT ![p] = r]
    BY <1>6 DEF Start
  <2>2. r.peer = q /\ r.first = first /\ r.held = <<>>
    BY DEF NoCall
  <2> HIDE DEF r
  <2>3. \A x \in People : phone'[x] = IF x = p THEN r ELSE phone[x]
    BY <1>2, <2>1
  <2>4. \A x \in People : ringing'[x] = IF x = p THEN NoRing ELSE ringing[x]
    BY <1>1, <1>2
  <2>5. NoRing.peer = Nobody /\ NoRing.said = <<>>
    BY DEF NoRing
  <2>6. ASSUME NEW x \in People, NEW y \in People, x # y, Plain(x, y)'
        PROVE  InOrder(x, y)'
    <3>1. InOrder(x, y)
      BY <1>3, <2>6 DEF OrderInv, Plain
    <3>2. First(x, y)' \in {First(x, y), Rung(x, y), <<>>}
      <4>1. CASE x = p
        BY <2>2, <2>3, <4>1 DEF First, Rung
      <4>2. CASE x # p
        BY <2>3, <4>2 DEF First
      <4> QED  BY <4>1, <4>2
    <3>3. Rung(x, y)' \in {Rung(x, y), <<>>}
      BY <2>4, <2>5 DEF Rung
    <3>4. Held(x, y)' \in {Held(x, y), <<>>}
      BY <2>2, <2>3 DEF Held
    <3>5. ringing'[x].peer = y => phone'[x].peer # y
      <4>1. CASE x = p
        BY <2>4, <2>5, <4>1, CallAssumption
      <4>2. CASE x # p
        BY <2>3, <2>4, <3>1, <4>2 DEF InOrder
      <4> QED  BY <4>1, <4>2
    <3>6. ShownNow(x, y)' = ShownNow(x, y) /\ ShownRises(x, y)' /\ said'[y][x] >= said[y][x]
      <4>1. said[y][x] \in Nat
        BY LinesTypes
      <4>2. ShownRises(x, y)
        BY <3>1 DEF InOrder, Risings
      <4> QED  BY <1>3, <4>1, <4>2 DEF ShownNow, ShownRises
    <3>7. WordlessFor(x, y)
      BY <1>3, <3>2, <3>3, <3>4, <3>5, <3>6 DEF WordlessFor
    <3> QED  BY <3>1, <3>7, WordlessPair
  <2>7. \A x \in People : \A i \in DOMAIN shown'[x] : shown'[x][i][1] # x
    BY <1>3 DEF OrderInv
  <2> QED  BY <2>6, <2>7 DEF OrderInv
<1> QED  BY <1>1, <1>5, <1>6

\* The first one to speak rings, and what they go on saying is kept for the call.
Rings(p, q, line) ==
  /\ phone[p].state = "none" /\ crossed' = crossed
  /\ ringing[p].peer \in {q, Nobody} /\ \A x \in People : x # p => ringing'[x] = ringing[x]
  /\ ringing'[p].peer = q
  /\ ringing'[p].said = Append(Rung(p, q), line) \/ ringing'[p].said = Rung(p, q)

LEMMA RingsPair ==
  ASSUME CallInv, CallInv', OrderInv, NEW p \in People, NEW q \in People, p # q,
         NEW c \in Between(p, q), <<p, c>> \in holds, Comes(p, c, "text"), wire' = Taken(p, c),
         NEW line, line = Head(wire[c][q]), line \in Frames, line.t = "text", Rings(p, q, line),
         pair' = pair, holds' = holds, phone' = phone, said' = said, shown' = shown, Plain(p, q)
  PROVE  InOrder(p, q)'
<1>1. InOrder(p, q)
  BY DEF OrderInv
<1>2. phone[p].peer = Nobody /\ Nobody # q
  <2>1. phone[p] = NoCall
    BY DEF Rings, CallInv, Phones
  <2>2. NoCall.peer = Nobody
    BY DEF NoCall
  <2> QED  BY <2>1, <2>2, CallAssumption
<1>3. First(p, q) = <<>> /\ First(p, q)' = <<>> /\ Held(p, q)' = Held(p, q)
      /\ Rung(p, q)' = ringing'[p].said
  BY <1>2 DEF First, Held, Rung, Rings
<1>4. Between(p, q)' = Between(p, q) /\ OneBetween(p, q)'
  BY <1>1, StillOne
<1> DEFINE n == line.n
<1>5. n \in Nat /\ n = Head(wire[c][q]).n
  BY DEF Frames
<1>6. /\ n \in OnItsWay(p, q) /\ OnItsWay(p, q)' \subseteq OnItsWay(p, q)
      /\ Below({n}, OnItsWay(p, q)')
      /\ \A d \in Between(p, q)' : Rising(wire'[d][q])
  BY <1>1, <1>5, TakenWay
<1> DEFINE S == ShownNow(p, q)  W == OnItsWay(p, q)  H == Numbers(Held(p, q))
           A == InHand(p, q)  W2 == OnItsWay(p, q)'  top == said[q][p]
           s == Rung(p, q)
<1>7. /\ Ordered(S, A, W, H, top) /\ W2 \subseteq W /\ n \in W /\ Below({n}, W2) /\ top \in Nat
      /\ S \cup A \cup W \cup H \subseteq Nat /\ s \in Seq(Frames) /\ Rising(s) /\ Worded(s)
  BY <1>1, <1>6, LinesTypes DEF InOrder, Risings
<1>8. A = Numbers(s)
  BY <1>3, NothingRises DEF InHand
<1>9. InHand(p, q)' = Numbers(ringing'[p].said)
  <2>1. InHand(p, q)' = Numbers(First(p, q)') \cup Numbers(Rung(p, q)')
    BY DEF InHand, Numbers
  <2> QED  BY <1>3, <2>1, NothingRises
<1>10. ringing'[p].said = Append(s, line) \/ ringing'[p].said = s
  BY DEF Rings
<1>11. ShownNow(p, q)' = S /\ Numbers(Held(p, q))' = H /\ said'[q][p] = top /\ ShownRises(p, q)'
  BY <1>1, <1>3 DEF ShownNow, Numbers, InOrder, Risings, ShownRises
<1> DEFINE u == ringing'[p].said
<1> HIDE DEF S, A, W, H, W2, top, s, u, n
<1>12. Ordered(S, A \cup {n}, W2, H, top) /\ Below(A, {n})
  BY <1>7, TakenOrdered
<1>13. Ordered(S, A, W2, H, top)
  <2>1. top <= top /\ A \subseteq A /\ H \subseteq H
    BY <1>7
  <2> QED  BY <1>7, <2>1, FewerOrdered
<1>14. Numbers(Append(s, line)) = A \cup {n} /\ Rising(Append(s, line)) /\ Worded(Append(s, line))
  <2>1. Below(Numbers(s), {line.n})
    BY <1>8, <1>12 DEF n
  <2>2. Numbers(Append(s, line)) = Numbers(s) \cup {line.n} /\ Rising(Append(s, line))
    BY <1>7, <2>1, AppendRises
  <2> DEFINE v == Append(s, line)
  <2>3. \A i \in DOMAIN v : (i \in DOMAIN s /\ v[i] = s[i]) \/ v[i] = line
    BY <1>7
  <2> HIDE DEF v
  <2>4. Worded(v)
    BY <1>7, <2>3 DEF Worded
  <2> QED  BY <1>8, <2>2, <2>4 DEF n, v
<1>15. Ordered(S, Numbers(u), W2, H, top) /\ Rising(u) /\ Worded(u)
  <2>1. CASE u = Append(s, line)
    BY <1>12, <1>14, <2>1
  <2>2. CASE u = s
    BY <1>7, <1>8, <1>13, <2>2
  <2> QED  BY <1>10, <2>1, <2>2 DEF u
<1>16. Ordered(ShownNow(p, q), InHand(p, q), OnItsWay(p, q), Numbers(Held(p, q)), said[q][p])'
  BY <1>9, <1>11, <1>15 DEF Ordered, Below, W2, u
<1>17. Risings(p, q)'
  <2>1. Rising(Held(p, q)') /\ Rising(First(p, q)') /\ Rising(Rung(p, q)')
    BY <1>1, <1>3, <1>15, NothingRises DEF InOrder, Risings, u
  <2>2. Worded(First(p, q)') /\ Worded(Rung(p, q)')
    BY <1>3, <1>15, NothingRises DEF u
  <2>3. Rising(First(p, q))' /\ Rising(Rung(p, q))' /\ Rising(Held(p, q))'
    BY <2>1 DEF Rising
  <2>4. Worded(First(p, q))' /\ Worded(Rung(p, q))'
    BY <2>2 DEF Worded
  <2>5. \A d \in Between(p, q)' : Rising(wire[d][q])'
    BY <1>6 DEF Rising
  <2> QED  BY <1>11, <2>3, <2>4, <2>5 DEF Risings
<1>18. ringing'[p].peer = q => phone'[p].peer # q
  BY <1>2
<1> QED  BY <1>4, <1>16, <1>17, <1>18 DEF InOrder

LEMMA SpokenToOrder ==
  ASSUME CallInv, CallInv', OrderInv, NEW p \in People, NEW q \in People, SpokenTo(p, q),
         NEW c, c = idle[p][q]
  PROVE  OrderInv'
<1> DEFINE line == Head(wire[c][q])
<1>1. /\ c # 0 /\ Comes(p, c, "text") /\ phone' = phone
      /\ pair' = pair /\ holds' = holds /\ said' = said /\ shown' = shown
  BY DEF SpokenTo
<1>2. /\ c \in Conns /\ Far(p, c) = q /\ pair[c] = {p, q} /\ p # q /\ <<p, c>> \in holds
      /\ c \in Between(p, q)
  BY <1>1, PoolConn DEF Between
<1>3. NetTyped /\ Readable(wire, holds)
  BY DEF CallInv, CallTyped
<1>4. /\ Taken(p, c) \in [Conns -> BothSides] /\ Readable(Taken(p, c), holds)
      /\ Lighter(Taken(p, c), wire) /\ line \in Frames /\ line.t = "text"
  BY <1>1, <1>2, <1>3, TakenTyped, TakenReadable, LighterTaken DEF Comes
<1>5. ringing \in [People -> [peer : People \cup {Nobody}, said : Seq(Frames)]]
  BY DEF CallInv, CallTyped, LoopTyped
<1>6. \/ /\ Sends(p, q, CallDecline, Taken(p, c))
         /\ ringing' = ringing \/ NoLongerRinging(p, q)
      \/ /\ wire' = Taken(p, c) /\ crossed' = crossed /\ phone[p].state = "none"
         /\ \/ /\ ringing[p].peer = q
               /\ ringing' = [ringing EXCEPT ![p] = [ringing[p] EXCEPT !.said =
                           IF Len(@) < RINGING_LINES THEN Append(@, line) ELSE @]]
            \/ /\ ringing[p].peer = Nobody
               /\ ringing' = [ringing EXCEPT ![p] = [peer |-> q, said |-> <<line>>]]
  <2>1. CASE phone[p].state # "none"
    BY <2>1 DEF SpokenTo, Busy
  <2>2. CASE phone[p].state = "none" /\ ringing[p].peer \notin {q, Nobody}
    BY <2>2 DEF SpokenTo, Busy
  <2>3. CASE phone[p].state = "none" /\ ringing[p].peer = q
    BY <2>3 DEF SpokenTo, Busy
  <2>4. CASE phone[p].state = "none" /\ ringing[p].peer = Nobody /\ ringing[p].peer # q
    BY <2>4 DEF SpokenTo, Busy
  <2> QED  BY <2>1, <2>2, <2>3, <2>4
<1> HIDE DEF line
<1>7. CASE /\ Sends(p, q, CallDecline, Taken(p, c))
           /\ ringing' = ringing \/ NoLongerRinging(p, q)
  <2>1. Lighter(wire', wire) /\ crossed \subseteq crossed'
    BY <1>4, <1>7, SendsLighter
  <2>2. \A x \in People : ringing'[x] = ringing[x] \/ ringing'[x] = NoRing
    BY <1>7, RingOnly
  <2>3. Wordless
    BY <1>1, <2>1, <2>2, WordlessBy
  <2> QED  BY <2>3, WordlessOrder
<1>8. ASSUME wire' = Taken(p, c), Rings(p, q, line)
      PROVE  OrderInv'
  <2>1. ASSUME NEW x \in People, NEW y \in People, x # y, Plain(x, y)'
        PROVE  InOrder(x, y)'
    <3>1. Plain(x, y) /\ InOrder(x, y)
      BY <1>8, <2>1 DEF OrderInv, Plain, Rings
    <3>2. CASE x = p /\ y = q
      <4>1. InOrder(p, q)'
        BY <1>1, <1>2, <1>4, <1>8, <3>1, <3>2, RingsPair DEF line
      <4> QED  BY <3>2, <4>1
    <3>3. CASE ~ (x = p /\ y = q)
      <4>1. \A d \in Between(x, y) : wire'[d][y] = wire[d][y]
        BY <1>1, <1>2, <1>8, <2>1, <3>3, TakenOthers
      <4>2. ShownNow(x, y)' = ShownNow(x, y) /\ ShownRises(x, y)'
        BY <1>1, <3>1 DEF ShownNow, InOrder, Risings, ShownRises
      <4>3. CASE x # p
        <5>1. ringing'[x] = ringing[x]
          BY <1>8, <4>3 DEF Rings
        <5> QED  BY <1>1, <3>1, <4>1, <4>2, <5>1, OthersStill
      <4>4. CASE x = p
        <5>1. ringing'[x].peer # y
          BY <1>8, <3>3, <4>4 DEF Rings
        <5>2. Rung(x, y)' = <<>> /\ First(x, y)' = First(x, y) /\ Held(x, y)' = Held(x, y)
          BY <1>1, <5>1 DEF Rung, First, Held
        <5>3. said'[y][x] >= said[y][x]
          <6>1. said[y][x] \in Nat /\ said' = said
            BY <1>1, LinesTypes
          <6> QED  BY <6>1
        <5>4. WordlessFor(x, y)
          BY <1>1, <4>1, <4>2, <5>1, <5>2, <5>3 DEF WordlessFor
        <5> QED  BY <3>1, <5>4, WordlessPair
      <4> QED  BY <4>3, <4>4
    <3> QED  BY <3>2, <3>3
  <2>2. \A x \in People : \A i \in DOMAIN shown'[x] : shown'[x][i][1] # x
    BY <1>1 DEF OrderInv
  <2> QED  BY <2>1, <2>2 DEF OrderInv
<1>9. CASE /\ wire' = Taken(p, c) /\ crossed' = crossed /\ phone[p].state = "none"
           /\ ringing[p].peer = q
           /\ ringing' = [ringing EXCEPT ![p] = [ringing[p] EXCEPT !.said =
                       IF Len(@) < RINGING_LINES THEN Append(@, line) ELSE @]]
  <2> DEFINE s == IF Len(ringing[p].said) < RINGING_LINES THEN Append(ringing[p].said, line)
                                                          ELSE ringing[p].said
  <2>1. s = Append(ringing[p].said, line) \/ s = ringing[p].said
    OBVIOUS
  <2>2. ringing' = [ringing EXCEPT ![p] = [ringing[p] EXCEPT !.said = s]]
    BY <1>9
  <2> HIDE DEF s
  <2>3. ringing[p] \in [peer : People \cup {Nobody}, said : Seq(Frames)]
    BY <1>5
  <2>4. ringing'[p] = [ringing[p] EXCEPT !.said = s]
        /\ \A x \in People : x # p => ringing'[x] = ringing[x]
    BY <1>5, <2>2
  <2>5. ringing'[p].peer = q /\ ringing'[p].said = s
    BY <1>9, <2>3, <2>4
  <2>6. Rung(p, q) = ringing[p].said
    BY <1>9 DEF Rung
  <2>7. Rings(p, q, line)
    BY <1>9, <2>1, <2>4, <2>5, <2>6 DEF Rings
  <2> QED  BY <1>8, <1>9, <2>7
<1>10. CASE /\ wire' = Taken(p, c) /\ crossed' = crossed /\ phone[p].state = "none"
            /\ ringing[p].peer = Nobody
            /\ ringing' = [ringing EXCEPT ![p] = [peer |-> q, said |-> <<line>>]]
  <2> DEFINE r == [peer |-> q, said |-> <<line>>]
  <2>1. r.peer = q /\ r.said = <<line>> /\ <<line>> = Append(<<>>, line)
    OBVIOUS
  <2>2. ringing' = [ringing EXCEPT ![p] = r]
    BY <1>10
  <2> HIDE DEF r
  <2>3. ringing'[p] = r /\ \A x \in People : x # p => ringing'[x] = ringing[x]
    BY <1>5, <2>2
  <2>4. Rung(p, q) = <<>>
    BY <1>10, CallAssumption DEF Rung
  <2>5. Rings(p, q, line)
    BY <1>10, <2>1, <2>3, <2>4 DEF Rings
  <2> QED  BY <1>8, <1>10, <2>5
<1> QED  BY <1>6, <1>7, <1>9, <1>10

-----------------------------------------------------------------------------
(***************************************************************************)
(* A connection lands, with what was held for it.                          *)
(***************************************************************************)

CrossesOlder(p, q) ==
  crossed' = IF \E old \in Between(p, q), r \in {p, q} : <<r, old>> \in holds
               THEN crossed \cup {{p, q}} ELSE crossed

\* A connection between two who hold none is the only one with a line on it.
LEMMA LandedLines ==
  ASSUME CallInv, NEW p \in People, NEW q \in People, p # q, NEW c, NEW w \in Seq(Frames),
         Landed(p, q, c, w), CrossesOlder(p, q), NEW x \in People, NEW y \in People, x # y,
         Plain(x, y)', InOrder(x, y), {x, y} = {p, q} /\ y = p => Rising(w)
  PROVE  /\ OneBetween(x, y)' /\ \A d \in Between(x, y)' : Rising(wire'[d][y])
         /\ OnItsWay(x, y)' \subseteq IF {x, y} = {p, q}
                                       THEN IF y = p THEN Numbers(w) ELSE {}
                                       ELSE OnItsWay(x, y)
<1>1. /\ c \notin Conns /\ Conns' = Conns \cup {c} /\ pair'[c] = {p, q}
      /\ \A d \in Conns : pair'[d] = pair[d] /\ wire'[d] = wire[d]
      /\ holds' = holds \cup {<<p, c>>, <<q, c>>}
      /\ \A r \in People : wire'[c][r] = IF r = p THEN w ELSE <<>>
  BY DEF Landed
<1>2. OnItsWay(x, y)' = UNION {Numbers(wire'[d][y]) : d \in Between(x, y)'}
  BY DEF OnItsWay, Numbers
<1>3. CASE {x, y} = {p, q}
  <2>1. \A d : d \in Between(x, y)' <=> d = c \/ d \in Between(x, y)
    BY <1>1, <1>3 DEF Between, Conns
  <2>2. Between(x, y) = Between(p, q)
    BY <1>3 DEF Between
  <2>3. \A d \in Between(x, y) : <<x, d>> \notin holds /\ <<y, d>> \notin holds
    <3>1. {p, q} \notin crossed'
      BY <1>3 DEF Plain
    <3>2. ~ \E old \in Between(p, q), r \in {p, q} : <<r, old>> \in holds
      BY <3>1 DEF CrossesOlder
    <3>3. x \in {p, q} /\ y \in {p, q}
      BY <1>3
    <3> QED  BY <2>2, <3>2, <3>3
  <2>4. \A d \in Between(x, y) : wire'[d][y] = <<>>
    <3> SUFFICES ASSUME NEW d \in Between(x, y), wire'[d][y] # <<>> PROVE FALSE
      OBVIOUS
    <3>1. d \in Conns /\ pair[d] = {x, y} /\ wire[d][y] # <<>>
      BY <1>1 DEF Between
    <3>2. <<x, d>> \in holds
      BY <3>1 DEF CallInv, Readable
    <3> QED  BY <2>3, <3>2
  <2>5. wire'[c][y] = IF y = p THEN w ELSE <<>>
    BY <1>1
  <2>6. \A d \in Between(x, y)' : Rising(wire'[d][y])
    <3> SUFFICES ASSUME NEW d \in Between(x, y)' PROVE Rising(wire'[d][y])
      OBVIOUS
    <3>1. wire'[d][y] = <<>> \/ (wire'[d][y] = w /\ y = p)
      BY <2>1, <2>4, <2>5
    <3>2. CASE wire'[d][y] = <<>>
      BY <3>2, NothingRises
    <3>3. CASE wire'[d][y] = w /\ y = p
      BY <1>3, <3>3
    <3> QED  BY <3>1, <3>2, <3>3
  <2>7. \A d \in Between(x, y)' : Numbers(wire'[d][y]) \subseteq IF y = p THEN Numbers(w) ELSE {}
    <3> SUFFICES ASSUME NEW d \in Between(x, y)'
                 PROVE  Numbers(wire'[d][y]) \subseteq IF y = p THEN Numbers(w) ELSE {}
      OBVIOUS
    <3>1. wire'[d][y] = <<>> \/ (wire'[d][y] = w /\ y = p)
      BY <2>1, <2>4, <2>5
    <3>2. CASE wire'[d][y] = <<>>
      <4>1. Numbers(wire'[d][y]) = {}
        BY <3>2, NothingRises
      <4> QED  BY <4>1
    <3>3. CASE wire'[d][y] = w /\ y = p
      BY <3>3
    <3> QED  BY <3>1, <3>2, <3>3
  <2>8. OneBetween(x, y)'
    <3> SUFFICES ASSUME NEW d \in Between(x, y)', {<<x, d>>, <<y, d>>} \cap holds' # {}
                 PROVE  d = c
      BY DEF OneBetween
    <3> SUFFICES ASSUME d # c PROVE FALSE
      OBVIOUS
    <3>1. d \in Between(x, y)
      BY <2>1
    <3>2. <<x, d>> \notin holds' /\ <<y, d>> \notin holds'
      BY <1>1, <2>3, <3>1
    <3> QED  BY <3>2
  <2> QED  BY <1>2, <1>3, <2>6, <2>7, <2>8
<1>4. CASE {x, y} # {p, q}
  <2>1. \A d : d \in Between(x, y)' <=> d \in Between(x, y)
    BY <1>1, <1>4 DEF Between, Conns
  <2>2. Between(x, y)' = Between(x, y) /\ \A d \in Between(x, y) : d \in Conns /\ d # c
    BY <1>1, <2>1 DEF Between
  <2>3. \A d \in Between(x, y) : wire'[d][y] = wire[d][y] /\ Rising(wire[d][y])
    BY <1>1, <2>2 DEF InOrder, Risings
  <2>4. OnItsWay(x, y)' = OnItsWay(x, y)
    BY <1>2, <2>2, <2>3 DEF OnItsWay
  <2>5. \A r, d : d # c => (<<r, d>> \in holds' <=> <<r, d>> \in holds)
    BY <1>1
  <2>6. OneBetween(x, y)'
    <3> SUFFICES ASSUME NEW d \in Between(x, y), NEW e \in Between(x, y),
                        {<<x, d>>, <<y, d>>} \cap holds' # {},
                        {<<x, e>>, <<y, e>>} \cap holds' # {}
                 PROVE  d = e
      BY <2>2 DEF OneBetween
    <3>1. d # c /\ e # c
      BY <2>2
    <3>2. {<<x, d>>, <<y, d>>} \cap holds # {} /\ {<<x, e>>, <<y, e>>} \cap holds # {}
      BY <2>5, <3>1
    <3> QED  BY <3>2 DEF InOrder, OneBetween
  <2>7. \A d \in Between(x, y)' : Rising(wire'[d][y])
    <3> SUFFICES ASSUME NEW d \in Between(x, y) PROVE Rising(wire'[d][y])
      BY <2>2
    <3>1. wire'[d][y] = wire[d][y] /\ Rising(wire[d][y])
      BY <2>3
    <3> QED  BY <3>1
  <2> QED  BY <1>4, <2>4, <2>6, <2>7
<1> QED  BY <1>3, <1>4

LEMMA LandedCalm ==
  ASSUME CallInv, CallInv', NEW p \in People, NEW q \in People, p # q, NEW c,
         NEW w \in Seq(Frames), Landed(p, q, c, w), CrossesOlder(p, q), ringing' = ringing,
         said' = said, shown' = shown,
         \A r \in People : phone'[r].peer = phone[r].peer /\ phone'[r].first = phone[r].first
                           /\ phone'[r].held \in {phone[r].held, <<>>},
         NEW x \in People, NEW y \in People, x # y, Plain(x, y)', InOrder(x, y),
         {x, y} = {p, q} /\ y = p => w = <<>>
  PROVE  InOrder(x, y)'
<1>0. {x, y} = {p, q} /\ y = p => Rising(w)
  BY NothingRises
<1>1. {x, y} = {p, q} /\ y = p => Numbers(w) = {}
  BY NothingRises
<1>2. /\ OneBetween(x, y)' /\ \A d \in Between(x, y)' : Rising(wire'[d][y])
      /\ OnItsWay(x, y)' \subseteq IF {x, y} = {p, q}
                                    THEN IF y = p THEN Numbers(w) ELSE {}
                                    ELSE OnItsWay(x, y)
  BY <1>0, LandedLines
<1>3. OnItsWay(x, y)' \subseteq OnItsWay(x, y)
  <2>1. CASE {x, y} = {p, q}
    <3>1. OnItsWay(x, y)' \subseteq {}
      BY <1>1, <1>2, <2>1
    <3> QED  BY <3>1
  <2>2. CASE {x, y} # {p, q}
    BY <1>2, <2>2
  <2> QED  BY <2>1, <2>2
<1>4. First(x, y)' = First(x, y) /\ Rung(x, y)' = Rung(x, y) /\ Held(x, y)' \in {Held(x, y), <<>>}
  BY DEF First, Rung, Held
<1>5. ringing'[x].peer = y => phone'[x].peer # y
  BY DEF InOrder
<1>6. ShownNow(x, y)' = ShownNow(x, y) /\ ShownRises(x, y)'
  BY DEF ShownNow, ShownRises, InOrder, Risings
<1>7. said'[y][x] >= said[y][x]
  <2>1. said[y][x] \in Nat /\ said' = said
    BY LinesTypes
  <2> QED  BY <2>1
<1>8. Calmer(x, y)
  BY <1>2, <1>3, <1>4, <1>5, <1>6, <1>7 DEF Calmer
<1> QED  BY <1>8, PairStill

LEMMA ReachOrder ==
  ASSUME CallInv, CallInv', OrderInv, NEW p \in People, NEW q \in People, Reach(p, q)
  PROVE  OrderInv'
<1> DEFINE c == Len(pair) + 1
<1>1. /\ {p, q} \in Contacts /\ Lands(p, q, <<>>)
      /\ UNCHANGED <<dead, strangers, poolVars, phone, ringing, asides, said, shown>>
  BY DEF Reach
<1>2. p # q /\ <<>> \in Seq(Frames) /\ NetTyped
  BY <1>1, ContactEnds DEF CallInv, CallTyped
<1>3. Landed(p, q, c, <<>>) /\ CrossesOlder(p, q)
  BY <1>1, <1>2, LandsDoes DEF Lands, CrossesOlder
<1> HIDE DEF c
<1>4. ASSUME NEW x \in People, NEW y \in People, x # y, Plain(x, y)'
      PROVE  InOrder(x, y)'
  <2>1. InOrder(x, y)
    BY <1>3, <1>4 DEF OrderInv, Plain, CrossesOlder
  <2> QED  BY <1>1, <1>2, <1>3, <1>4, <2>1, LandedCalm
<1>5. \A x \in People : \A i \in DOMAIN shown'[x] : shown'[x][i][1] # x
  BY <1>1 DEF OrderInv
<1> QED  BY <1>4, <1>5 DEF OrderInv

\* What was held goes ahead on it.
LEMMA LandedPair ==
  ASSUME CallInv, CallInv', NEW p \in People, NEW q \in People, p # q, NEW c,
         NEW w \in Seq(Frames), Landed(p, q, c, w), CrossesOlder(p, q), ringing' = ringing,
         said' = said, shown' = shown, Plain(q, p)', InOrder(q, p), Held(q, p) = w,
         First(q, p)' = First(q, p), Held(q, p)' = <<>>, phone'[q].peer = phone[q].peer
  PROVE  InOrder(q, p)'
<1>1. Rising(w)
  BY DEF InOrder, Risings
<1>2. /\ OneBetween(q, p)' /\ \A d \in Between(q, p)' : Rising(wire'[d][p])
      /\ OnItsWay(q, p)' \subseteq Numbers(w)
  <2>1. {q, p} = {p, q}
    OBVIOUS
  <2> QED  BY <1>1, <2>1, LandedLines
<1> DEFINE S == ShownNow(q, p)  W == OnItsWay(q, p)  H == Numbers(w)
           A == InHand(q, p)  W2 == OnItsWay(q, p)'  top == said[p][q]
<1>3. Ordered(S, A, W, H, top) /\ W2 \subseteq H /\ top \in Nat
  BY <1>2, LinesTypes DEF InOrder
<1>4. Rung(q, p)' = Rung(q, p)
  BY DEF Rung
<1>5. InHand(q, p)' = A
  <2>1. InHand(q, p)' = Numbers(First(q, p)') \cup Numbers(Rung(q, p)')
    BY DEF InHand, Numbers
  <2> QED  BY <1>4, <2>1 DEF InHand
<1>6. ShownNow(q, p)' = S /\ ShownRises(q, p)' /\ said'[p][q] = top
  BY DEF ShownNow, ShownRises, InOrder, Risings
<1>7. Numbers(Held(q, p))' = {}
  <2>1. Numbers(Held(q, p)') = {}
    BY NothingRises
  <2> QED  BY <2>1 DEF Numbers
<1> HIDE DEF S, A, W, H, W2, top
<1>8. Ordered(S, A, W2, {}, top)
  BY <1>3, LandedOrdered
<1>9. Ordered(ShownNow(q, p), InHand(q, p), OnItsWay(q, p), Numbers(Held(q, p)), said[p][q])'
  BY <1>5, <1>6, <1>7, <1>8 DEF Ordered, Below, W2
<1>10. Risings(q, p)'
  <2>1. /\ Rising(First(q, p)') /\ Rising(Rung(q, p)') /\ Rising(Held(q, p)')
        /\ Worded(First(q, p)') /\ Worded(Rung(q, p)')
    BY <1>4, NothingRises DEF InOrder, Risings
  <2>2. Rising(First(q, p))' /\ Rising(Rung(q, p))' /\ Rising(Held(q, p))'
    BY <2>1 DEF Rising
  <2>3. Worded(First(q, p))' /\ Worded(Rung(q, p))'
    BY <2>1 DEF Worded
  <2>4. \A d \in Between(q, p)' : Rising(wire[d][p])'
    BY <1>2 DEF Rising
  <2> QED  BY <1>6, <2>2, <2>3, <2>4 DEF Risings
<1>11. ringing'[q].peer = p => phone'[q].peer # p
  BY DEF InOrder
<1> QED  BY <1>2, <1>9, <1>10, <1>11 DEF InOrder

LEMMA DialLandsOrder ==
  ASSUME CallInv, CallInv', OrderInv, NEW p \in People, DialLands(p), NEW q, q = phone[p].peer
  PROVE  OrderInv'
<1> DEFINE c == Len(pair) + 1
           w == phone[p].held
           r == SaidAhead(p, c)
<1>1. /\ phone[p].state = "dial" /\ Lands(p, q, w) /\ phone' = [phone EXCEPT ![p] = r]
      /\ UNCHANGED <<dead, strangers, poolVars, ringing, budget, said, shown>>
  BY DEF DialLands, Dials
<1>2. /\ phone[p] \in PhoneCalls /\ q \in People /\ p # q /\ w \in Seq(Frames)
      /\ phone \in [People -> PhoneCalls] /\ NetTyped /\ {p, q} \in Contacts
  BY <1>1, CallerIs DEF CallInv, CallTyped, Phones
<1>3. Landed(p, q, c, w) /\ CrossesOlder(p, q)
  BY <1>1, <1>2, LandsDoes DEF Lands, CrossesOlder
<1>4. r.peer = q /\ r.first = phone[p].first /\ r.held = <<>>
  BY <1>2 DEF SaidAhead, PhoneCalls
<1> HIDE DEF c, r
<1>5. \A x \in People : phone'[x] = IF x = p THEN r ELSE phone[x]
  BY <1>1, <1>2
<1>6. \A x \in People : phone'[x].peer = phone[x].peer /\ phone'[x].first = phone[x].first
                        /\ phone'[x].held \in {phone[x].held, <<>>}
  BY <1>4, <1>5
<1>7. ASSUME NEW x \in People, NEW y \in People, x # y, Plain(x, y)'
      PROVE  InOrder(x, y)'
  <2>1. InOrder(x, y)
    BY <1>3, <1>7 DEF OrderInv, Plain, CrossesOlder
  <2>2. CASE x = q /\ y = p
    <3>1. Held(q, p) = w /\ Held(q, p)' = <<>> /\ First(q, p)' = First(q, p)
      BY <1>2, <1>4, <1>5, <1>6 DEF Held, First
    <3>2. Plain(q, p)' /\ InOrder(q, p)
      BY <1>7, <2>1, <2>2
    <3> HIDE DEF w
    <3>3. InOrder(q, p)'
      BY <1>1, <1>2, <1>3, <1>6, <3>1, <3>2, LandedPair
    <3> QED  BY <2>2, <3>3
  <2>3. CASE ~ (x = q /\ y = p)
    <3> HIDE DEF w
    <3>1. ~ ({x, y} = {p, q} /\ y = p)
      BY <1>7, <2>3
    <3> QED  BY ZenonT(30), <1>1, <1>2, <1>3, <1>6, <1>7, <2>1, <3>1, LandedCalm
  <2> QED  BY <2>2, <2>3
<1>8. \A x \in People : \A i \in DOMAIN shown'[x] : shown'[x][i][1] # x
  BY <1>1 DEF OrderInv
<1> QED  BY <1>7, <1>8 DEF OrderInv

-----------------------------------------------------------------------------
(***************************************************************************)
(* Lines are shown in the order they were said.                            *)
(***************************************************************************)

LEMMA InOrderFirst == Init => OrderInv
<1> SUFFICES ASSUME Init PROVE OrderInv
  OBVIOUS
<1>1. CallInv
  BY CallInit
<1>2. PICK some \in Starts :
        /\ pair = SetToSeq(some)
        /\ holds = UNION {{<<p, c>> : p \in pair[c]} : c \in DOMAIN pair}
        /\ wire = [c \in DOMAIN pair |-> Silent]
  BY DEF Init
<1>3. /\ phone = [p \in People |-> NoCall] /\ ringing = [p \in People |-> NoRing]
      /\ shown = Silent
  BY DEF Init
<1>4. NoCall.peer = Nobody /\ NoCall.first = <<>> /\ NoCall.held = <<>> /\ NoRing.peer = Nobody
      /\ NoRing.said = <<>>
  BY DEF NoCall, NoRing
<1>5. \A p \in People : shown[p] = <<>> /\ phone[p] = NoCall /\ ringing[p] = NoRing
  BY <1>3 DEF Silent
<1>6. \A c \in Conns, p \in People : wire[c][p] = <<>>
  BY <1>2 DEF Silent, Conns
<1>7. \A i, j \in DOMAIN pair : pair[i] = pair[j] => i = j
  BY <1>2, InSomeOrder, CallAssumption
<1>8. ASSUME NEW p \in People, NEW q \in People, p # q
      PROVE  InOrder(p, q)
  <2>1. First(p, q) = <<>> /\ Rung(p, q) = <<>> /\ Held(p, q) = <<>>
    BY <1>4, <1>5 DEF First, Rung, Held
  <2>2. ShownNow(p, q) = {} /\ ShownRises(p, q)
    <3>1. shown[p] = <<>>
      BY <1>5
    <3> QED  BY <3>1 DEF ShownNow, ShownRises
  <2>3. InHand(p, q) = {} /\ Numbers(Held(p, q)) = {}
    BY <2>1, NothingRises DEF InHand
  <2>4. \A c \in Between(p, q) : wire[c][q] = <<>>
    BY <1>6 DEF Between
  <2>5. \A c \in Between(p, q) : Rising(wire[c][q]) /\ Numbers(wire[c][q]) = {}
    BY <2>4, NothingRises
  <2>6. OnItsWay(p, q) = {}
    BY <2>5 DEF OnItsWay
  <2>7. OneBetween(p, q)
    BY <1>7 DEF OneBetween, Between, Conns
  <2>8. Risings(p, q)
    BY <2>1, <2>2, <2>5, NothingRises DEF Risings
  <2>9. Ordered(ShownNow(p, q), InHand(p, q), OnItsWay(p, q), Numbers(Held(p, q)), said[q][p])
    BY <2>2, <2>3, <2>6 DEF Ordered, Below
  <2>10. ringing[p].peer = q => phone[p].peer # q
    BY <1>4, <1>5, CallAssumption
  <2> QED  BY <2>7, <2>8, <2>9, <2>10 DEF InOrder
<1>9. \A p \in People : \A i \in DOMAIN shown[p] : shown[p][i][1] # p
  BY <1>5
<1> QED  BY <1>8, <1>9 DEF OrderInv

LEMMA LinesNext ==
  ASSUME LinesInv, [Next]_vars
  PROVE  LinesInv'
<1>1. CallInv /\ OrderInv
  BY DEF LinesInv
<1>2. CallInv'
  BY <1>1, CallNext
<1>3. CASE UNCHANGED vars
  <2>1. OrderInv'
    BY <1>1, <1>2, <1>3, StutterOrder
  <2> QED  BY <1>2, <2>1 DEF LinesInv
<1>4. CASE \E c \in Conns : Break(c)
  <2>1. OrderInv'
    BY <1>1, <1>2, <1>4, BreakOrder
  <2> QED  BY <1>2, <2>1 DEF LinesInv
<1>5. ASSUME NEW p \in People, Types(p)
      PROVE  OrderInv'
  <2>1. CASE Answer(p)
    BY <1>1, <1>2, <2>1, AnswerOrder
  <2>2. CASE HoldLine(p)
    BY <1>1, <1>2, <2>2, HoldLineOrder
  <2>3. CASE Say(p)
    BY <1>1, <1>2, <2>3, SayOrder
  <2>4. CASE Decline(p) \/ Bye(p) \/ \E q \in People : PlaceCall(p, q)
    BY <1>1, <1>2, <2>4, DeclineOrder, EndingOrder, PlaceCallOrder
  <2> QED  BY <1>5, <2>1, <2>2, <2>3, <2>4 DEF Types
<1>6. ASSUME NEW p \in People, Loops(p)
      PROVE  OrderInv'
  <2>1. CASE \E q \in People : SpokenTo(p, q)
    BY <1>1, <1>2, <2>1, SpokenToOrder
  <2>2. CASE Opened(p) \/ CallEnded(p) \/ \E c \in Conns : Arrives(p, c)
    BY <1>1, <1>2, <2>2, OpenedOrder, CallEndedOrder, ArrivesOrder
  <2>3. CASE \E q \in People : Lost(p, q) \/ Stopped(p, q) \/ Ignored(p, q)
    BY <1>1, <1>2, <2>3, LostOrder, HushedOrder
  <2> QED  BY <1>6, <2>1, <2>2, <2>3 DEF Loops
<1>7. ASSUME NEW p \in People, Calls(p)
      PROVE  OrderInv'
  <2>1. CASE DialLands(p)
    BY <1>1, <1>2, <2>1, DialLandsOrder
  <2>2. CASE HearFirst(p)
    BY <1>1, <1>2, <2>2, HearFirstOrder
  <2>3. CASE Hear(p)
    BY <1>1, <1>2, <2>3, HearOrder
  <2>4. CASE GiveUpDialling(p) \/ ToldItIsOver(p) \/ HungUpOn(p)
    BY <1>1, <1>2, <2>4, EndingOrder
  <2> QED  BY <1>7, <2>1, <2>2, <2>3, <2>4 DEF Calls
<1>8. ASSUME NEW p \in People,
             Stranger(p) \/ Refused(p) \/ Quit(p) \/ \E q \in People : Reach(p, q)
      PROVE  OrderInv'
  <2>1. CASE Stranger(p) \/ Refused(p) \/ Quit(p)
    BY <1>1, <1>2, <2>1, StrangersOrder, QuitOrder
  <2>2. CASE \E q \in People : Reach(p, q)
    BY <1>1, <1>2, <2>2, ReachOrder
  <2> QED  BY <1>8, <2>1, <2>2
<1>9. Next => OrderInv'
  BY <1>2, <1>4, <1>5, <1>6, <1>7, <1>8 DEF Next, LinesInv
<1> QED  BY <1>2, <1>3, <1>9 DEF LinesInv

\* Lines are shown in the order they were said and none twice, those said before
\* the answer first, whatever is dialled, rung, held, lent, lost and quit: unless
\* the two hold two connections, or one called while the other was ringing.
\* (chat.rs run, `first`; main.rs, the line that rings)
THEOREM ShownAsSaid == Spec => []ShownInOrder
<1>1. Init => LinesInv
  BY CallInit, InOrderFirst DEF LinesInv
<1>2. LinesInv => ShownInOrder
  <2> SUFFICES ASSUME LinesInv, NEW p \in People, NEW q \in People, Plain(p, q),
                      NEW i \in DOMAIN shown[p], NEW j \in DOMAIN shown[p], i < j,
                      shown[p][i][1] = q, shown[p][j][1] = q
               PROVE  shown[p][i][2] < shown[p][j][2]
    BY DEF ShownInOrder
  <2>1. p # q
    BY DEF LinesInv, OrderInv
  <2>2. ShownRises(p, q)
    BY <2>1 DEF LinesInv, OrderInv, InOrder, Risings
  <2> QED  BY <2>2 DEF ShownRises
<1> QED  BY <1>1, <1>2, LinesNext, PTL DEF Spec

-----------------------------------------------------------------------------
(***************************************************************************)
(* Nobody goes on talking to nobody.                                       *)
(***************************************************************************)

\* A connection of two.
Ours(c, p, q) == c \in Conns /\ pair[c] = {p, q}

\* What the pool knows of a call is so: with whom it is, and over which connection.
LentRight ==
  \A p \in People : /\ lent[p].to = phone[p].peer
                    /\ lent[p].conn # 0 => Ours(lent[p].conn, p, lent[p].to)

AsidesRight ==
  \A p \in People : \A i \in DOMAIN asides[p] : Ours(asides[p][i].conn, p, asides[p][i].peer)

\* A refusal waits for nobody but those to whom it is late, and what is held are lines.
NothingWaits == \A p, q \in People : Plain(p, q) => waiting[p][q] = <<>>
LinesHeld == \A p \in People : Worded(phone[p].held)

Lending == LentRight /\ AsidesRight /\ NothingWaits /\ LinesHeld

\* The last of what is on its way is a line; a refusal is on its way.
LineLast(s) == s # <<>> => s[Len(s)].t = "text"
Refuses(s) == \E i \in DOMAIN s : s[i].t # "text"

\* p has said something to q in the call over c, which is still up.
Calling(p, q, c) ==
  /\ phone[p].state = "talk" /\ phone[p].spoke /\ phone[p].peer = q /\ phone[p].conn = c
  /\ Plain(p, q) /\ c \notin dead /\ <<q, c>> \in holds

\* What p said last has not been taken, or a refusal is on its way, or q talks,
\* or p rings there.
Heeds(p, q, c) ==
  /\ LineLast(wire[c][p])
  /\ \/ wire[c][p] # <<>> \/ Refuses(wire[c][q])
     \/ phone[q].state = "talk" /\ phone[q].conn = c
     \/ ringing[q].peer = p

Heeded == \A p, q \in People : \A c \in Conns : Calling(p, q, c) => Heeds(p, q, c)

\* The inductive invariant of the theorem on those who talk.
TalkInv == LinesInv /\ Lending /\ Heeded

LEMMA CallingIs ==
  ASSUME CallInv, OrderInv, Lending, NEW p \in People, NEW q \in People, NEW c, Calling(p, q, c)
  PROVE  /\ c \in Conns /\ pair[c] = {p, q} /\ p # q /\ <<p, c>> \in holds /\ c # 0
         /\ Far(p, c) = q /\ Far(q, c) = p /\ Up(p, c) /\ Up(q, c)
         /\ Plain(q, p) /\ waiting[p][q] = <<>> /\ waiting[q][p] = <<>>
         /\ idle[p][q] = 0 /\ ringing[p].peer # q
         /\ \A d \in Conns : pair[d] = {p, q} /\ (<<p, d>> \in holds \/ <<q, d>> \in holds) => d = c
<1>1. phone[p].conn = c /\ phone[p].peer = q /\ c # 0 /\ <<q, c>> \in holds /\ c \notin dead
      /\ Plain(p, q)
  BY DEF Calling, CallInv, Phones
<1>2. /\ c \in Conns /\ pair[c] = {p, q} /\ p # q /\ Far(p, c) = q /\ <<p, c>> \in holds
  BY <1>1, CallConn
<1>3. pair[c] = {q, p} /\ {q, p} = {p, q}
  BY <1>2
<1>4. Far(q, c) = p
  BY <1>2, <1>3, FarIs
<1>5. Up(p, c) /\ Up(q, c)
  BY <1>1, <1>2, <1>4 DEF Up
<1>6. Plain(q, p)
  BY <1>1, <1>3 DEF Plain
<1>7. InOrder(p, q)
  BY <1>1, <1>2 DEF OrderInv
<1>8. \A d \in Conns : pair[d] = {p, q} /\ (<<p, d>> \in holds \/ <<q, d>> \in holds) => d = c
  <2> SUFFICES ASSUME NEW d \in Conns, pair[d] = {p, q}, <<p, d>> \in holds \/ <<q, d>> \in holds
               PROVE  d = c
    OBVIOUS
  <2>1. {<<p, c>>, <<q, c>>} \cap holds # {} /\ {<<p, d>>, <<q, d>>} \cap holds # {}
    BY <1>2
  <2>2. c \in Between(p, q) /\ d \in Between(p, q)
    BY <1>2 DEF Between
  <2> QED  BY <1>7, <2>1, <2>2 DEF InOrder, OneBetween
<1>9. idle[p][q] = 0
  <2> SUFFICES ASSUME idle[p][q] # 0 PROVE FALSE
    OBVIOUS
  <2>1. idle[p][q] \in Conns /\ pair[idle[p][q]] = {p, q} /\ <<p, idle[p][q]>> \in holds
    BY PoolConn
  <2>2. idle[p][q] # phone[p].conn
    BY IdlePlaced DEF CallInv
  <2> QED  BY <1>1, <1>8, <2>1, <2>2
<1>10. ringing[p].peer # q
  BY <1>1, <1>7 DEF InOrder
<1>11. waiting[p][q] = <<>> /\ waiting[q][p] = <<>>
  BY <1>1, <1>6 DEF Lending, NothingWaits
<1> QED  BY <1>1, <1>2, <1>4, <1>5, <1>6, <1>8, <1>9, <1>10, <1>11

\* The other side has no other connection to it than this one.
LEMMA CalledHas ==
  ASSUME CallInv, OrderInv, Lending, NEW p \in People, NEW q \in People, NEW c, Calling(p, q, c)
  PROVE  /\ idle[q][p] \in {0, c} /\ Route(q, p) \in {0, c}
         /\ phone[q].conn = c => phone[q].peer = p
         /\ ringing[q].peer = p => idle[q][p] = c /\ phone[q].peer # p
<1>1. /\ c \in Conns /\ pair[c] = {p, q} /\ p # q /\ c # 0 /\ Plain(q, p)
      /\ \A d \in Conns : pair[d] = {p, q} /\ (<<p, d>> \in holds \/ <<q, d>> \in holds) => d = c
  BY CallingIs
<1>2. {q, p} = {p, q}
  OBVIOUS
<1>3. idle[q][p] \in {0, c}
  <2> SUFFICES ASSUME idle[q][p] # 0 PROVE idle[q][p] = c
    OBVIOUS
  <2>1. idle[q][p] \in Conns /\ pair[idle[q][p]] = {q, p} /\ <<q, idle[q][p]>> \in holds
    BY PoolConn
  <2> QED  BY <1>1, <1>2, <2>1
<1>4. Route(q, p) \in {0, c}
  <2>1. CASE lent[q].to = p /\ <<q, lent[q].conn>> \in holds
    <3>1. lent[q].conn \in Conns /\ pair[lent[q].conn] = {q, p}
      <4>1. lent[q].conn # 0
        <5>1. lent[q].conn \in Conns
          BY <2>1, HeldPlaced DEF CallInv
        <5> QED  BY <5>1, ConnsNat DEF CallInv, CallTyped
      <4> QED  BY <2>1, <4>1 DEF Lending, LentRight, Ours
    <3>2. lent[q].conn = c
      BY <1>1, <1>2, <2>1, <3>1
    <3> QED  BY <2>1, <3>2 DEF Route
  <2>2. CASE ~ (lent[q].to = p /\ <<q, lent[q].conn>> \in holds)
    BY <1>3, <2>2 DEF Route
  <2> QED  BY <2>1, <2>2
<1>5. phone[q].conn = c => phone[q].peer = p
  <2> SUFFICES ASSUME phone[q].conn = c PROVE phone[q].peer = p
    OBVIOUS
  <2>1. pair[c] = {q, phone[q].peer} /\ q # phone[q].peer
    BY <1>1, CallConn
  <2> QED  BY <1>1, <2>1
<1>6. ringing[q].peer = p => idle[q][p] = c /\ phone[q].peer # p
  <2> SUFFICES ASSUME ringing[q].peer = p PROVE idle[q][p] = c /\ phone[q].peer # p
    OBVIOUS
  <2>1. InOrder(q, p)
    BY <1>1 DEF OrderInv
  <2>2. phone[q].peer # p
    BY <2>1 DEF InOrder
  <2>3. p # Nobody
    BY CallAssumption
  <2>4. idle[q][p] # 0
    BY <2>2, <2>3 DEF CallInv, RingingIsConnected
  <2> QED  BY <1>3, <2>2, <2>4
<1> QED  BY <1>3, <1>4, <1>5, <1>6

\* What a frame more, or one less, leaves of that.
LEMMA FramesMore ==
  ASSUME NEW s \in Seq(Frames), NEW f \in Frames
  PROVE  /\ s \o <<f>> # <<>> /\ (f.t = "text" => LineLast(s \o <<f>>))
         /\ Refuses(s) \/ f.t # "text" => Refuses(s \o <<f>>)
<1> DEFINE u == s \o <<f>>
<1>1. u \in Seq(Frames) /\ Len(u) = Len(s) + 1 /\ u[Len(s) + 1] = f
      /\ \A i \in 1 .. Len(s) : u[i] = s[i]
  OBVIOUS
<1>2. DOMAIN u = 1 .. Len(s) + 1 /\ DOMAIN s = 1 .. Len(s) /\ Len(s) \in Nat
  BY <1>1
<1>3. u # <<>>
  BY <1>2
<1> HIDE DEF u
<1>4. f.t = "text" => LineLast(u)
  BY <1>1 DEF LineLast
<1>5. Refuses(s) => Refuses(u)
  BY <1>1, <1>2 DEF Refuses
<1>6. f.t # "text" => Refuses(u)
  BY <1>1, <1>2 DEF Refuses
<1> QED  BY <1>3, <1>4, <1>5, <1>6 DEF u

LEMMA FramesLess ==
  ASSUME NEW s \in Seq(Frames), s # <<>>
  PROVE  /\ LineLast(s) => LineLast(Tail(s))
         /\ LineLast(s) /\ Head(s).t # "text" => Tail(s) # <<>>
         /\ Refuses(s) /\ Head(s).t = "text" => Refuses(Tail(s))
<1> DEFINE u == Tail(s)
<1>1. u \in Seq(Frames) /\ Len(u) = Len(s) - 1 /\ Len(s) \in Nat /\ Len(s) # 0 /\ Head(s) = s[1]
      /\ \A i \in 1 .. Len(u) : u[i] = s[i + 1]
  OBVIOUS
<1>2. DOMAIN u = 1 .. Len(u) /\ DOMAIN s = 1 .. Len(s) /\ Len(u) \in Nat
  BY <1>1
<1> HIDE DEF u
<1>3. LineLast(s) => LineLast(u)
  <2> SUFFICES ASSUME LineLast(s), u # <<>> PROVE u[Len(u)].t = "text"
    BY DEF LineLast
  <2>1. Len(u) # 0
    BY <1>1
  <2>2. u[Len(u)] = s[Len(s)]
    BY <1>1, <1>2, <2>1
  <2> QED  BY <2>2 DEF LineLast
<1>4. LineLast(s) /\ Head(s).t # "text" => u # <<>>
  <2> SUFFICES ASSUME LineLast(s), Head(s).t # "text", u = <<>> PROVE FALSE
    OBVIOUS
  <2>1. Len(s) = 1
    BY <1>1
  <2> QED  BY <1>1, <2>1 DEF LineLast
<1>5. Refuses(s) /\ Head(s).t = "text" => Refuses(u)
  <2> SUFFICES ASSUME NEW i \in DOMAIN s, s[i].t # "text", Head(s).t = "text" PROVE Refuses(u)
    BY DEF Refuses
  <2>1. i # 1 /\ i \in 1 .. Len(s)
    BY <1>1, <1>2
  <2>2. i - 1 \in 1 .. Len(u) /\ u[i - 1] = s[i]
    BY <1>1, <2>1
  <2> QED  BY <1>2, <2>2 DEF Refuses
<1> QED  BY <1>3, <1>4, <1>5 DEF u

\* What writing, reading and closing do to a connection, and to no other.
LEMMA WrittenThere ==
  ASSUME NEW w \in [Conns -> BothSides], NEW x \in People, NEW c \in Conns, Up(x, c), NEW frames
  PROVE  Written(w, x, c, frames)[c][x] = w[c][x] \o frames
<1>1. w[c] \in BothSides
  OBVIOUS
<1> QED  BY <1>1 DEF Written, BothSides

LEMMA WrittenBeside ==
  ASSUME NEW w \in [Conns -> BothSides], NEW x \in People, NEW d, NEW c \in Conns,
         NEW z \in People, z # x, NEW frames
  PROVE  Written(w, x, d, frames)[c][z] = w[c][z]
<1>1. w[c] \in BothSides
  OBVIOUS
<1> QED  BY <1>1 DEF Written, BothSides

LEMMA WrittenElsewhere ==
  ASSUME NEW w \in [Conns -> BothSides], NEW x, NEW d, NEW c \in Conns, c # d, NEW frames
  PROVE  Written(w, x, d, frames)[c] = w[c]
BY DEF Written

LEMMA ClosedElsewhere ==
  ASSUME NEW w \in [Conns -> BothSides], NEW x, NEW d, NEW c \in Conns, c # d
  PROVE  Unheard(w, x, d)[c] = w[c]
BY DEF Unheard

LEMMA TakenElsewhere ==
  ASSUME wire \in [Conns -> BothSides], NEW x, NEW d, NEW c \in Conns, c # d
  PROVE  Taken(x, d)[c] = wire[c]
BY DEF Taken

LEMMA NothingWritten ==
  ASSUME NEW w \in [Conns -> BothSides], NEW x \in People, NEW d
  PROVE  \A c \in Conns : Written(w, x, d, <<>>)[c] = w[c]
<1> SUFFICES ASSUME NEW c \in Conns PROVE Written(w, x, d, <<>>)[c] = w[c]
  OBVIOUS
<1>1. w[c] \in BothSides
  OBVIOUS
<1>2. w[c][x] \o <<>> = w[c][x]
  BY <1>1 DEF BothSides
<1>3. Written(w, x, d, <<>>)[c] = w[c] \/ Written(w, x, d, <<>>)[c] = [w[c] EXCEPT ![x] = @ \o <<>>]
  BY DEF Written
<1>4. [w[c] EXCEPT ![x] = @ \o <<>>] = w[c]
  BY <1>1, <1>2 DEF BothSides
<1> QED  BY <1>3, <1>4

LEMMA HeedsKept ==
  ASSUME NEW p, NEW q, NEW c, Heeds(p, q, c), wire'[c] = wire[c],
         phone[q].state = "talk" /\ phone[q].conn = c =>
           phone'[q].state = "talk" /\ phone'[q].conn = c,
         ringing[q].peer = p => ringing'[q].peer = p
  PROVE  Heeds(p, q, c)'
BY DEF Heeds, LineLast, Refuses

LEMMA HeededBy ==
  ASSUME Heeded, pair' = pair, dead \subseteq dead', holds' \subseteq holds, crossed \subseteq crossed',
         \A x \in People : phone'[x].state = "talk" /\ phone'[x].spoke =>
           /\ phone[x].state = "talk" /\ phone[x].spoke
           /\ phone[x].peer = phone'[x].peer /\ phone[x].conn = phone'[x].conn,
         \A p, q \in People : \A c \in Conns :
           Calling(p, q, c) /\ Calling(p, q, c)' /\ Heeds(p, q, c) => Heeds(p, q, c)'
  PROVE  Heeded'
<1> SUFFICES ASSUME NEW p \in People, NEW q \in People, NEW c \in Conns', Calling(p, q, c)'
             PROVE  Heeds(p, q, c)'
  BY DEF Heeded
<1>1. c \in Conns
  BY DEF Conns
<1>2. Calling(p, q, c)
  BY DEF Calling, Plain
<1>3. Heeds(p, q, c)
  BY <1>1, <1>2 DEF Heeded
<1> QED  BY <1>1, <1>2, <1>3

\* Steps that say, show and move nothing.
LEMMA StrangersHeeded ==
  ASSUME Heeded, NEW x \in People, Stranger(x) \/ Refused(x)
  PROVE  Heeded'
<1>1. UNCHANGED <<pair, holds, dead, wire, arriving, poolVars, phone, ringing, asides, historyVars>>
  BY DEF Stranger, Refused
<1>2. \A p, q \in People : \A c \in Conns : Heeds(p, q, c) => Heeds(p, q, c)'
  BY <1>1, HeedsKept
<1> QED  BY <1>1, <1>2, HeededBy DEF historyVars

LEMMA StutterHeeded ==
  ASSUME Heeded, UNCHANGED vars
  PROVE  Heeded'
<1>1. UNCHANGED <<pair, holds, dead, wire, phone, ringing, crossed>>
  BY DEF vars, netVars, historyVars
<1>2. \A p, q \in People : \A c \in Conns : Heeds(p, q, c) => Heeds(p, q, c)'
  BY <1>1, HeedsKept
<1> QED  BY <1>1, <1>2, HeededBy

\* The call of one person, of which at most its lines change.
LEMMA PhoneOf ==
  ASSUME CallInv, NEW x \in People, NEW r, phone' = [phone EXCEPT ![x] = r]
  PROVE  \A y \in People : phone'[y] = IF y = x THEN r ELSE phone[y]
BY DEF CallInv, CallTyped, LoopTyped

LEMMA LinesOfCallHeeded ==
  ASSUME CallInv, Heeded, NEW x \in People, HoldLine(x) \/ HearFirst(x)
  PROVE  Heeded'
<1>1. /\ UNCHANGED <<pair, holds, dead, wire, ringing, crossed>>
      /\ \/ \E h : phone' = [phone EXCEPT ![x].held = h]
         \/ \E f : phone' = [phone EXCEPT ![x].first = f]
  BY DEF HoldLine, HearFirst, netVars, historyVars
<1>2. phone \in [People -> PhoneCalls]
  BY DEF CallInv, CallTyped, LoopTyped
<1>3. \A y \in People : /\ phone'[y].state = phone[y].state /\ phone'[y].spoke = phone[y].spoke
                        /\ phone'[y].peer = phone[y].peer /\ phone'[y].conn = phone[y].conn
  <2>1. \A y \in People : phone[y] \in PhoneCalls
    BY <1>2
  <2>2. CASE \E h : phone' = [phone EXCEPT ![x].held = h]
    <3>1. PICK h : phone' = [phone EXCEPT ![x].held = h]
      BY <2>2
    <3>2. \A y \in People : phone'[y] = IF y = x THEN [phone[x] EXCEPT !.held = h] ELSE phone[y]
      BY <1>2, <3>1
    <3> QED  BY <2>1, <3>2 DEF PhoneCalls
  <2>3. CASE \E f : phone' = [phone EXCEPT ![x].first = f]
    <3>1. PICK f : phone' = [phone EXCEPT ![x].first = f]
      BY <2>3
    <3>2. \A y \in People : phone'[y] = IF y = x THEN [phone[x] EXCEPT !.first = f] ELSE phone[y]
      BY <1>2, <3>1
    <3> QED  BY <2>1, <3>2 DEF PhoneCalls
  <2> QED  BY <1>1, <2>2, <2>3
<1>4. \A p, q \in People : \A c \in Conns : Heeds(p, q, c) => Heeds(p, q, c)'
  BY <1>1, <1>3, HeedsKept
<1> QED  BY <1>1, <1>3, <1>4, HeededBy

LEMMA PlaceCallHeeded ==
  ASSUME CallInv, Heeded, NEW x \in People, NEW y \in People, PlaceCall(x, y)
  PROVE  Heeded'
<1> DEFINE d == idle[x][y]
           r == [NoCall EXCEPT !.state = IF d = 0 THEN "dial" ELSE "talk",
                               !.peer = y, !.conn = d, !.first = <<>>]
<1>1. /\ phone[x].state = "none" /\ phone' = [phone EXCEPT ![x] = r]
      /\ UNCHANGED <<pair, holds, dead, wire, ringing>> /\ crossed \subseteq crossed'
  BY DEF PlaceCall, Start, netVars
<1>2. r.spoke = FALSE
  BY DEF NoCall
<1> HIDE DEF r
<1>3. \A z \in People : phone'[z] = IF z = x THEN r ELSE phone[z]
  BY <1>1, PhoneOf
<1>4. \A p, q \in People : \A c \in Conns : Heeds(p, q, c) => Heeds(p, q, c)'
  BY <1>1, <1>3, HeedsKept
<1> QED  BY <1>1, <1>2, <1>3, <1>4, HeededBy

\* An answer takes the connection of whoever rings.
LEMMA AnswerHeeded ==
  ASSUME CallInv, OrderInv, Lending, Heeded, NEW x \in People, Answer(x)
  PROVE  Heeded'
<1> DEFINE y == ringing[x].peer
           d == idle[x][y]
           r == [NoCall EXCEPT !.state = IF d = 0 THEN "dial" ELSE "talk",
                               !.peer = y, !.conn = d, !.first = ringing[x].said]
<1>1. /\ phone[x].state = "none" /\ ringing' = [ringing EXCEPT ![x] = NoRing]
      /\ UNCHANGED <<pair, holds, dead, wire, crossed>>
      /\ IF Route(x, y) = 0 THEN phone' = phone ELSE phone' = [phone EXCEPT ![x] = r]
  BY DEF Answer, Start, netVars, poolVars, historyVars
<1>2. r.spoke = FALSE /\ r.conn = d /\ (d # 0 => r.state = "talk")
  BY DEF NoCall
<1> HIDE DEF r, d
<1>3. \A z \in People : z # x => phone'[z] = phone[z] /\ ringing'[z] = ringing[z]
  <2>1. ringing \in [People -> [peer : People \cup {Nobody}, said : Seq(Frames)]]
    BY DEF CallInv, CallTyped, LoopTyped
  <2> QED  BY <1>1, <2>1, PhoneOf
<1>4. phone'[x].state # "talk" \/ phone'[x].spoke = FALSE
  BY <1>1, <1>2, PhoneOf
<1>5. ASSUME NEW p \in People, NEW q \in People, NEW c \in Conns, Calling(p, q, c),
             Calling(p, q, c)', Heeds(p, q, c)
      PROVE  Heeds(p, q, c)'
  <2>1. CASE q = x /\ ringing[x].peer = p
    <3>1. idle[x][p] = c /\ c # 0
      BY <1>5, <2>1, CalledHas, CallingIs
    <3>2. lent[x].to # p
      <4>1. phone[x].peer # p
        BY <1>5, <2>1, CalledHas
      <4> QED  BY <4>1 DEF Lending, LentRight
    <3>3. Route(x, y) = c /\ d = c
      BY <2>1, <3>1, <3>2 DEF Route, d
    <3>4. phone'[x].state = "talk" /\ phone'[x].conn = c
      BY <1>1, <1>2, <3>1, <3>3, PhoneOf
    <3>5. wire' = wire
      BY <1>1
    <3> QED  BY <1>5, <2>1, <3>4, <3>5 DEF Heeds, LineLast
  <2>2. CASE ~ (q = x /\ ringing[x].peer = p)
    <3>1. phone[q].state = "talk" => phone'[q] = phone[q]
      BY <1>1, <1>3
    <3>2. ringing[q].peer = p => ringing'[q].peer = p
      BY <1>3, <2>2
    <3> QED  BY <1>1, <1>5, <3>1, <3>2, HeedsKept
  <2> QED  BY <2>1, <2>2
<1> QED  BY <1>1, <1>3, <1>4, <1>5, HeededBy

\* Whoever goes is told so, or tells, or both are cut off.
LEMMA EndingHeeded ==
  ASSUME CallInv, OrderInv, Lending, Heeded, NEW x \in People,
         GiveUpDialling(x) \/ Bye(x) \/ ToldItIsOver(x) \/ HungUpOn(x)
  PROVE  Heeded'
<1> DEFINE d == phone[x].conn
<1>1. /\ UNCHANGED <<pair, holds, dead, ringing, crossed>>
      /\ \E alive \in BOOLEAN : Over(x, alive)
  BY DEF GiveUpDialling, Bye, ToldItIsOver, HungUpOn, netVars, historyVars
<1>2. /\ \A y \in People : y # x => phone'[y] = phone[y]
      /\ phone'[x].state = "over"
  <2>1. PICK alive \in BOOLEAN : phone' = [phone EXCEPT ![x].state = "over", ![x].alive = alive]
    BY <1>1 DEF Over
  <2>2. phone \in [People -> PhoneCalls] /\ phone[x] \in PhoneCalls
    BY DEF CallInv, CallTyped, LoopTyped
  <2> QED  BY <2>1, <2>2 DEF PhoneCalls
<1>3. wire \in [Conns -> BothSides]
  BY DEF CallInv, CallTyped, NetTyped
<1>4. ASSUME NEW p \in People, NEW q \in People, NEW c \in Conns, Calling(p, q, c),
             Calling(p, q, c)', Heeds(p, q, c)
      PROVE  Heeds(p, q, c)'
  <2>1. p # x
    BY <1>2, <1>4 DEF Calling
  <2>2. /\ pair[c] = {p, q} /\ p # q /\ Far(q, c) = p /\ Up(q, c)
    BY <1>4, CallingIs
  <2>3. wire[c][p] \in Seq(Frames) /\ wire[c][q] \in Seq(Frames)
    BY <1>3 DEF BothSides
  <2>4. CASE q = x /\ d = c
    <3>1. ~ GiveUpDialling(x) /\ ~ HungUpOn(x)
      <4>1. GiveUpDialling(x) => d = 0
        BY DEF GiveUpDialling, Dials, CallInv, Phones
      <4>2. c # 0
        BY <1>4, CallingIs
      <4> QED  BY <2>2, <2>4, <4>1, <4>2 DEF HungUpOn, Ends
    <3>2. CASE Bye(x)
      <4>1. wire' = Written(wire, q, c, <<HangUp>>)
        BY <2>4, <3>2 DEF Bye
      <4>2. HangUp \in Frames /\ HangUp.t # "text"
        BY DEF HangUp, Frames
      <4>6. Up(q, c)
        BY <2>2
      <4>3. wire'[c][q] = wire[c][q] \o <<HangUp>>
        BY <1>3, <4>1, <4>6, WrittenThere
      <4>4. wire'[c][p] = wire[c][p]
        BY <1>3, <2>2, <4>1, WrittenBeside
      <4>5. Refuses(wire'[c][q])
        BY <2>3, <4>2, <4>3, FramesMore
      <4> QED  BY <1>4, <4>4, <4>5 DEF Heeds, LineLast, Refuses
    <3>3. CASE ToldItIsOver(x)
      <4> DEFINE s == wire[c][p]
      <4>1. wire' = Taken(x, d) /\ s # <<>> /\ Head(s).t # "text"
        BY <2>2, <2>4, <3>3 DEF ToldItIsOver, Comes
      <4>2. wire'[c][p] = Tail(s)
        BY <1>3, <2>2, <2>4, <4>1 DEF Taken, BothSides
      <4>3. s \in Seq(Frames) /\ LineLast(s)
        BY <1>4, <2>3 DEF Heeds
      <4> HIDE DEF s
      <4>4. LineLast(Tail(s)) /\ Tail(s) # <<>>
        BY <4>1, <4>3, FramesLess
      <4> QED  BY <4>2, <4>4 DEF Heeds, LineLast
    <3> QED  BY <3>1, <3>2, <3>3
  <2>5. CASE d # c
    <3>1. wire'[c] = wire[c]
      <4>1. wire' \in {wire, Written(wire, x, d, <<HangUp>>), Taken(x, d)}
        BY DEF GiveUpDialling, Bye, ToldItIsOver, HungUpOn, netVars
      <4> HIDE DEF d
      <4> QED  BY <1>3, <2>5, <4>1, WrittenElsewhere, TakenElsewhere
    <3>2. phone[q].state = "talk" /\ phone[q].conn = c => phone'[q] = phone[q]
      BY <1>2, <2>5
    <3> QED  BY <1>1, <1>4, <3>1, <3>2, HeedsKept
  <2>6. CASE q # x /\ d = c
    <3>1. d # 0
      BY <1>4, <2>6, CallingIs
    <3>2. x \in pair[c]
      BY <2>6, <3>1, CallConn
    <3> QED  BY <2>1, <2>2, <2>6, <3>2
  <2> QED  BY <2>4, <2>5, <2>6
<1> QED  BY <1>1, <1>2, <1>4, HeededBy

LEMMA SayHeeded ==
  ASSUME CallInv, OrderInv, Lending, Heeded, NEW x \in People, Say(x)
  PROVE  Heeded'
<1> DEFINE y == phone[x].peer
           d == phone[x].conn
           line == Text(said[x][y] + 1)
<1>1. /\ phone[x].state = "talk" /\ Says(x, y) /\ wire' = Written(wire, x, d, <<line>>)
      /\ phone' = [phone EXCEPT ![x].spoke = TRUE]
      /\ UNCHANGED <<pair, holds, dead, ringing, crossed, shown>>
  BY DEF Say, Talks
<1>2. /\ \A z \in People : /\ phone'[z].state = phone[z].state /\ phone'[z].peer = phone[z].peer
                           /\ phone'[z].conn = phone[z].conn
      /\ \A z \in People : z # x => phone'[z] = phone[z]
  <2>1. phone \in [People -> PhoneCalls]
    BY DEF CallInv, CallTyped, LoopTyped
  <2>2. phone[x] \in PhoneCalls
    BY <2>1
  <2> DEFINE r == [phone[x] EXCEPT !.spoke = TRUE]
  <2>3. r.state = phone[x].state /\ r.peer = phone[x].peer /\ r.conn = phone[x].conn
    BY <2>2 DEF PhoneCalls
  <2>4. phone' = [phone EXCEPT ![x] = r]
    BY <1>1
  <2> HIDE DEF r
  <2>5. \A z \in People : phone'[z] = IF z = x THEN r ELSE phone[z]
    BY <2>1, <2>4
  <2> QED  BY <2>3, <2>5
<1>3. wire \in [Conns -> BothSides]
  BY DEF CallInv, CallTyped, NetTyped
<1>4. line \in Frames /\ line.t = "text"
  <2>1. y \in People
    BY <1>1, CallerIs
  <2>2. line \in Frames
    BY <1>1, <2>1, SaysTyped DEF CallInv, CallTyped
  <2> QED  BY <2>2 DEF Text
<1> HIDE DEF line, d
<1> SUFFICES ASSUME NEW p \in People, NEW q \in People, NEW c \in Conns, Calling(p, q, c)'
             PROVE  Heeds(p, q, c)'
  BY <1>1 DEF Heeded, Conns
<1>5. wire[c][p] \in Seq(Frames) /\ wire[c][q] \in Seq(Frames)
  BY <1>3 DEF BothSides
<1>6. CASE p = x
  <2>1. d = c /\ y = q /\ c \notin dead /\ <<q, c>> \in holds /\ c # 0
    BY <1>1, <1>2, <1>6, ConnsNat DEF Calling, CallInv, CallTyped, d
  <2>2. Up(x, d)
    BY <2>1, CallConn DEF Up, d
  <2>5. Up(p, c) /\ wire' = Written(wire, p, c, <<line>>)
    BY <1>1, <1>6, <2>1, <2>2
  <2>3. wire'[c][p] = wire[c][p] \o <<line>>
    BY <1>3, <2>5, WrittenThere
  <2>4. LineLast(wire'[c][p]) /\ wire'[c][p] # <<>>
    BY <1>4, <1>5, <2>3, FramesMore
  <2> QED  BY <2>4 DEF Heeds, LineLast
<1>7. CASE p # x
  <2>1. Calling(p, q, c)
    BY <1>1, <1>2, <1>7 DEF Calling, Plain
  <2>2. Heeds(p, q, c)
    BY <2>1 DEF Heeded
  <2>3. wire'[c][p] = wire[c][p]
    BY <1>1, <1>3, <1>7, WrittenBeside
  <2>4. Refuses(wire[c][q]) => Refuses(wire'[c][q])
    <3>1. CASE q = x /\ d = c
      <4>1. Up(q, c)
        BY <2>1, CallingIs
      <4>3. wire' = Written(wire, q, c, <<line>>)
        BY <1>1, <3>1
      <4>2. wire'[c][q] = wire[c][q] \o <<line>>
        BY <1>3, <4>1, <4>3, WrittenThere
      <4> QED  BY <1>4, <1>5, <4>2, FramesMore
    <3>2. CASE q # x \/ d # c
      <4>1. wire'[c][q] = wire[c][q]
        <5>1. CASE d # c
          BY <1>1, <1>3, <5>1, WrittenElsewhere
        <5>2. CASE q # x
          BY <1>1, <1>3, <5>2, WrittenBeside
        <5> QED  BY <3>2, <5>1, <5>2
      <4> QED  BY <4>1
    <3> QED  BY <3>1, <3>2
  <2>5. ringing' = ringing
    BY <1>1
  <2> QED  BY <1>2, <2>2, <2>3, <2>4, <2>5 DEF Heeds, LineLast, Refuses
<1> QED  BY <1>6, <1>7

LEMMA HearHeeded ==
  ASSUME CallInv, OrderInv, Lending, Heeded, NEW x \in People, Hear(x)
  PROVE  Heeded'
<1> DEFINE d == phone[x].conn
<1>1. /\ phone[x].state = "talk" /\ Comes(x, d, "text") /\ wire' = Taken(x, d) /\ phone' = phone
      /\ UNCHANGED <<pair, holds, dead, ringing, crossed>>
  BY DEF Hear, Talks
<1>2. wire \in [Conns -> BothSides]
  BY DEF CallInv, CallTyped, NetTyped
<1>3. d # 0
  BY <1>1 DEF CallInv, Phones
<1>4. x \in pair[d] /\ d \in Conns
  BY <1>3, CallConn
<1>5. ASSUME NEW p \in People, NEW q \in People, NEW c \in Conns, Calling(p, q, c),
             Calling(p, q, c)', Heeds(p, q, c)
      PROVE  Heeds(p, q, c)'
  <2>1. /\ pair[c] = {p, q} /\ p # q /\ Far(q, c) = p /\ Far(p, c) = q
    BY <1>5, CallingIs
  <2>2. wire[c][p] \in Seq(Frames) /\ wire[c][q] \in Seq(Frames)
    BY <1>2 DEF BothSides
  <2>3. CASE d # c
    <3>1. wire'[c] = wire[c]
      BY <1>1, <1>2, <2>3, TakenElsewhere
    <3> QED  BY <1>1, <1>5, <3>1, HeedsKept
  <2>4. CASE d = c /\ x = p
    <3> DEFINE s == wire[c][q]
    <3>1. s \in Seq(Frames) /\ s # <<>> /\ Head(s).t = "text"
      BY <1>1, <2>1, <2>2, <2>4 DEF Comes
    <3>2. wire'[c][q] = Tail(s) /\ wire'[c][p] = wire[c][p]
      BY <1>1, <1>2, <2>1, <2>4 DEF Taken, BothSides
    <3> HIDE DEF s
    <3>3. Refuses(s) => Refuses(Tail(s))
      BY <3>1, FramesLess
    <3>4. Refuses(wire[c][q]) => Refuses(wire'[c][q])
      BY <3>2, <3>3 DEF s
    <3>5. ringing' = ringing /\ phone' = phone
      BY <1>1
    <3> QED  BY <1>5, <3>2, <3>4, <3>5 DEF Heeds, LineLast, Refuses
  <2>5. CASE d = c /\ x = q
    <3> DEFINE s == wire[c][p]
    <3>1. s \in Seq(Frames) /\ s # <<>> /\ LineLast(s)
      BY <1>1, <1>5, <2>1, <2>2, <2>5 DEF Comes, Heeds
    <3>2. wire'[c][p] = Tail(s)
      BY <1>1, <1>2, <2>1, <2>5 DEF Taken, BothSides
    <3> HIDE DEF s
    <3>3. LineLast(wire'[c][p])
      BY <3>1, <3>2, FramesLess
    <3>4. phone'[q].state = "talk" /\ phone'[q].conn = c
      BY <1>1, <2>5
    <3> QED  BY <3>3, <3>4 DEF Heeds, LineLast
  <2> QED  BY <1>4, <2>1, <2>3, <2>4, <2>5
<1> QED  BY <1>1, <1>5, HeededBy

\* A frame goes over a connection with whoever it is for.
LEMMA RouteIs ==
  ASSUME CallInv, Lending, NEW x \in People, NEW y \in People, Route(x, y) # 0
  PROVE  pair[Route(x, y)] = {x, y}
<1>1. CASE lent[x].to = y /\ <<x, lent[x].conn>> \in holds
  <2>1. lent[x].conn \in Conns
    BY <1>1, HeldPlaced DEF CallInv
  <2>2. lent[x].conn # 0
    BY <2>1, ConnsNat DEF CallInv, CallTyped
  <2> QED  BY <1>1, <2>2 DEF Lending, LentRight, Ours, Route
<1>2. CASE ~ (lent[x].to = y /\ <<x, lent[x].conn>> \in holds)
  <2>1. Route(x, y) = idle[x][y]
    BY <1>2 DEF Route
  <2> QED  BY <2>1, IdlePlaced DEF CallInv
<1> QED  BY <1>1, <1>2

\* Two others than p and q, at most one of whom is one of them.
Others(x, y, p, q) == {x, y} # {p, q}

LEMMA OtherTwo ==
  ASSUME NEW p, NEW q, p # q, NEW x, NEW y, ~ (x = p /\ y = q), ~ (x = q /\ y = p)
  PROVE  Others(x, y, p, q)
BY DEF Others

\* A refusal to others leaves a call alone, and one to the caller is on its way
\* to them, unless it is late.
LEMMA RefusedElsewhere ==
  ASSUME CallInv, OrderInv, Lending, NEW p \in People, NEW q \in People, NEW c, Calling(p, q, c),
         NEW x \in People, NEW y \in People, Others(x, y, p, q),
         NEW w \in [Conns -> BothSides], Sends(x, y, CallDecline, w)
  PROVE  wire'[c] = w[c]
<1>1. c \in Conns /\ pair[c] = {p, q} /\ c # 0
  BY CallingIs
<1>2. Route(x, y) # c
  BY <1>1, RouteIs DEF Others
<1>3. wire' \in {w, Written(w, x, Route(x, y), <<CallDecline>>)}
  BY DEF Sends
<1> QED  BY <1>1, <1>2, <1>3, WrittenElsewhere

LEMMA RefusedHere ==
  ASSUME CallInv, OrderInv, Lending, NEW p \in People, NEW q \in People, NEW c, Calling(p, q, c),
         NEW w \in [Conns -> BothSides], Sends(q, p, CallDecline, w), Plain(p, q)'
  PROVE  Refuses(wire'[c][q]) /\ wire'[c][p] = w[c][p]
<1>1. /\ c \in Conns /\ Up(q, c) /\ p # q /\ c # 0
  BY CallingIs
<1>2. Route(q, p) \in {0, c}
  BY CalledHas
<1>3. {q, p} \notin crossed'
  <2>1. {q, p} = {p, q}
    OBVIOUS
  <2> QED  BY <2>1 DEF Plain
<1>4. wire' = Written(w, q, c, <<CallDecline>>)
  <2>1. Route(q, p) # 0 /\ wire' = Written(w, q, Route(q, p), <<CallDecline>>)
    BY <1>3 DEF Sends
  <2> QED  BY <1>2, <2>1
<1>5. wire'[c][q] = w[c][q] \o <<CallDecline>>
  BY <1>1, <1>4, WrittenThere
<1>6. wire'[c][p] = w[c][p]
  BY <1>1, <1>4, WrittenBeside
<1>7. CallDecline \in Frames /\ CallDecline.t # "text"
  BY DEF CallDecline, Frames
<1>8. w[c][q] \in Seq(Frames)
  BY <1>1 DEF BothSides
<1>9. Refuses(wire'[c][q])
  BY <1>5, <1>7, <1>8, FramesMore
<1> QED  BY <1>6, <1>9

\* Whoever rings may stop, or be turned down.
LEMMA DeclineHeeded ==
  ASSUME CallInv, OrderInv, Lending, Heeded, NEW x \in People, Decline(x)
  PROVE  Heeded'
<1> DEFINE y == ringing[x].peer
<1>1. /\ y # Nobody /\ ringing' = [ringing EXCEPT ![x] = NoRing] /\ Sends(x, y, CallDecline, wire)
      /\ UNCHANGED <<pair, holds, dead, phone>>
  BY DEF Decline
<1>2. ringing \in [People -> [peer : People \cup {Nobody}, said : Seq(Frames)]]
      /\ wire \in [Conns -> BothSides] /\ Readable(wire, holds) /\ CallTyped
  BY DEF CallInv, CallTyped, LoopTyped, NetTyped
<1>3. y \in People
  BY <1>1, <1>2
<1>4. crossed \subseteq crossed'
  BY <1>1, <1>2, <1>3, SendsDoes
<1>5. \A z \in People : z # x => ringing'[z] = ringing[z]
  BY <1>1, <1>2
<1>6. ASSUME NEW p \in People, NEW q \in People, NEW c \in Conns, Calling(p, q, c),
             Calling(p, q, c)', Heeds(p, q, c)
      PROVE  Heeds(p, q, c)'
  <2>1. p # q /\ ringing[p].peer # q
    BY <1>6, CallingIs
  <2>2. CASE x = q /\ y = p
    <3>1. Plain(p, q)'
      BY <1>6 DEF Calling
    <3>2. Refuses(wire'[c][q]) /\ wire'[c][p] = wire[c][p]
      BY <1>1, <1>2, <1>6, <2>2, <3>1, RefusedHere
    <3> QED  BY <1>6, <3>2 DEF Heeds, LineLast, Refuses
  <2>3. CASE ~ (x = q /\ y = p)
    <3>1. ~ (x = p /\ y = q)
      BY <2>1
    <3>2. Others(x, y, p, q)
      BY <2>1, <2>3, <3>1, OtherTwo
    <3> HIDE DEF y
    <3>3. wire'[c] = wire[c]
      BY <1>1, <1>2, <1>3, <1>6, <3>2, RefusedElsewhere
    <3>4. ringing[q].peer = p => ringing'[q].peer = p
      BY <1>5, <2>3 DEF y
    <3> QED  BY <1>1, <1>6, <3>3, <3>4, HeedsKept
  <2> QED  BY <2>2, <2>3
<1> QED  BY <1>1, <1>4, <1>6, HeededBy

\* Reading from the pool's connection to somebody else, and to the caller.
LEMMA ReadElsewhere ==
  ASSUME CallInv, OrderInv, Lending, NEW p \in People, NEW q \in People, NEW c, Calling(p, q, c),
         NEW x \in People, NEW y \in People, Others(x, y, p, q), idle[x][y] # 0
  PROVE  Taken(x, idle[x][y])[c] = wire[c]
<1>1. c \in Conns /\ pair[c] = {p, q}
  BY CallingIs
<1>2. wire \in [Conns -> BothSides]
  BY DEF CallInv, CallTyped, NetTyped
<1>3. pair[idle[x][y]] = {x, y}
  BY PoolConn
<1>4. idle[x][y] # c
  BY <1>1, <1>3 DEF Others
<1> QED  BY <1>1, <1>2, <1>4, TakenElsewhere

LEMMA ReadHere ==
  ASSUME CallInv, OrderInv, Lending, NEW p \in People, NEW q \in People, NEW c, Calling(p, q, c),
         idle[q][p] # 0, NEW kind, Comes(q, idle[q][p], kind)
  PROVE  /\ wire[c][p] \in Seq(Frames) /\ wire[c][p] # <<>> /\ Head(wire[c][p]).t = kind
         /\ Taken(q, idle[q][p])[c][p] = Tail(wire[c][p])
<1>1. /\ c \in Conns /\ Far(q, c) = p
  BY CallingIs
<1>2. wire \in [Conns -> BothSides]
  BY DEF CallInv, CallTyped, NetTyped
<1>3. idle[q][p] = c
  BY CalledHas
<1>4. wire[c][p] \in Seq(Frames)
  BY <1>1, <1>2 DEF BothSides
<1>5. wire[c][p] # <<>> /\ Head(wire[c][p]).t = kind
  BY <1>1, <1>3 DEF Comes
<1>6. Taken(q, idle[q][p]) = [wire EXCEPT ![c][p] = Tail(@)]
  BY <1>1, <1>3 DEF Taken
<1>7. Taken(q, idle[q][p])[c][p] = Tail(wire[c][p])
  BY <1>1, <1>2, <1>6 DEF BothSides
<1> QED  BY <1>4, <1>5, <1>7

\* Somebody who hung up, or who refuses, is heard by the loop.
LEMMA HushedHeeded ==
  ASSUME CallInv, OrderInv, Lending, Heeded, NEW x \in People, NEW y \in People,
         Stopped(x, y) \/ Ignored(x, y)
  PROVE  Heeded'
<1> DEFINE d == idle[x][y]
<1>1. /\ d # 0 /\ wire' = Taken(x, d) /\ UNCHANGED <<pair, holds, dead, phone, crossed>>
      /\ NoLongerRinging(x, y) \/ UNCHANGED ringing
  BY DEF Stopped, Ignored, historyVars
<1>2. PICK kind \in {"hangup", "decline"} : Comes(x, d, kind)
  BY DEF Stopped, Ignored
<1>3. ringing \in [People -> [peer : People \cup {Nobody}, said : Seq(Frames)]]
  BY DEF CallInv, CallTyped, LoopTyped
<1>4. \A z \in People : ringing'[z] = ringing[z] \/ (z = x /\ ringing[z].peer = y)
  BY <1>1, <1>3 DEF NoLongerRinging
<1>5. ASSUME NEW p \in People, NEW q \in People, NEW c \in Conns, Calling(p, q, c),
             Calling(p, q, c)', Heeds(p, q, c)
      PROVE  Heeds(p, q, c)'
  <2>1. CASE x = q /\ y = p
    <3>4. /\ idle[q][p] # 0 /\ Comes(q, idle[q][p], kind) /\ wire' = Taken(q, idle[q][p])
      BY <1>1, <1>2, <2>1
    <3>5. /\ wire[c][p] \in Seq(Frames) /\ wire[c][p] # <<>> /\ Head(wire[c][p]).t = kind
          /\ Taken(q, idle[q][p])[c][p] = Tail(wire[c][p])
      BY Zenon, <1>5, <3>4, ReadHere
    <3>1. /\ wire[c][p] \in Seq(Frames) /\ wire[c][p] # <<>>
          /\ Head(wire[c][p]).t = kind /\ wire'[c][p] = Tail(wire[c][p])
      BY <3>4, <3>5
    <3>2. LineLast(wire[c][p])
      BY <1>5 DEF Heeds
    <3>3. LineLast(Tail(wire[c][p])) /\ Tail(wire[c][p]) # <<>>
      BY <1>2, <3>1, <3>2, FramesLess
    <3> QED  BY <3>1, <3>3 DEF Heeds, LineLast
  <2>2. CASE ~ (x = q /\ y = p)
    <3>3. Others(x, y, p, q)
      <4>1. p # q /\ idle[p][q] = 0
        BY <1>5, CallingIs
      <4> QED  BY <1>1, <2>2, <4>1, OtherTwo
    <3>1. wire'[c] = wire[c]
      BY <1>1, <1>5, <3>3, ReadElsewhere
    <3>2. ringing[q].peer = p => ringing'[q].peer = p
      BY <1>4, <2>2
    <3> QED  BY <1>1, <1>5, <3>1, <3>2, HeedsKept
  <2> QED  BY <2>1, <2>2
<1> QED  BY <1>1, <1>5, HeededBy

\* What is said rings, or is refused.
LEMMA SpokenToHeeded ==
  ASSUME CallInv, OrderInv, Lending, Heeded, NEW x \in People, NEW y \in People, SpokenTo(x, y)
  PROVE  Heeded'
<1> DEFINE d == idle[x][y]
           w == Taken(x, d)
           line == Head(wire[d][y])
<1>1. /\ d # 0 /\ Comes(x, d, "text") /\ UNCHANGED <<pair, holds, dead, phone>>
  BY DEF SpokenTo
<1>2. \/ /\ Sends(x, y, CallDecline, w)
         /\ \/ NoLongerRinging(x, y)
            \/ ringing[x].peer \notin {y, Nobody} /\ ringing' = ringing
      \/ /\ wire' = w /\ crossed' = crossed
         /\ \/ /\ ringing[x].peer = y
               /\ ringing' = [ringing EXCEPT ![x] = [ringing[x] EXCEPT !.said =
                    IF Len(@) < RINGING_LINES THEN Append(@, line) ELSE @]]
            \/ /\ ringing[x].peer = Nobody
               /\ ringing' = [ringing EXCEPT ![x] = [peer |-> y, said |-> <<line>>]]
  BY Zenon DEF SpokenTo, Busy
<1>3. ringing \in [People -> [peer : People \cup {Nobody}, said : Seq(Frames)]]
      /\ wire \in [Conns -> BothSides] /\ CallTyped /\ NetTyped /\ Readable(wire, holds)
  BY DEF CallInv, CallTyped, LoopTyped, NetTyped
<1>4. d \in Conns /\ Far(x, d) = y
  BY <1>1, PoolConn
<1>5. w \in [Conns -> BothSides] /\ Readable(w, holds)
  BY <1>1, <1>3, <1>4, TakenTyped, TakenReadable
<1>6. crossed \subseteq crossed'
  <2>1. CASE Sends(x, y, CallDecline, w)
    <3> HIDE DEF w
    <3> QED  BY <1>3, <1>5, <2>1, SendsDoes
  <2> QED  BY <1>2, <2>1
<1>7. \A z \in People : z # x => ringing'[z] = ringing[z]
  BY <1>2, <1>3 DEF NoLongerRinging
<1>8. ringing[x].peer \notin {y, Nobody} => ringing'[x] = ringing[x]
  BY <1>2, <1>3 DEF NoLongerRinging
<1>9. Sends(x, y, CallDecline, w) \/ (wire' = w /\ ringing'[x].peer = y)
  <2>1. CASE ringing' = [ringing EXCEPT ![x] = [peer |-> y, said |-> <<line>>]]
    <3>1. ringing'[x] = [peer |-> y, said |-> <<line>>]
      BY <1>3, <2>1
    <3> QED  BY <1>2, <2>1, <3>1
  <2>2. CASE /\ ringing[x].peer = y
             /\ ringing' = [ringing EXCEPT ![x] = [ringing[x] EXCEPT !.said =
                    IF Len(@) < RINGING_LINES THEN Append(@, line) ELSE @]]
    <3>1. ringing'[x] = [ringing[x] EXCEPT !.said =
                    IF Len(@) < RINGING_LINES THEN Append(@, line) ELSE @]
      BY <1>3, <2>2
    <3>2. ringing'[x].peer = ringing[x].peer
      BY <1>3, <3>1
    <3> QED  BY <1>2, <2>2, <3>2
  <2> QED  BY <1>2, <2>1, <2>2
<1> HIDE DEF line
<1>10. ASSUME NEW p \in People, NEW q \in People, NEW c \in Conns, Calling(p, q, c),
              Calling(p, q, c)', Heeds(p, q, c)
       PROVE  Heeds(p, q, c)'
  <2>1. CASE x = q /\ y = p
    <3>6. /\ idle[q][p] # 0 /\ Comes(q, idle[q][p], "text") /\ w = Taken(q, idle[q][p])
      BY <1>1, <2>1
    <3>7. /\ wire[c][p] \in Seq(Frames) /\ wire[c][p] # <<>>
          /\ Taken(q, idle[q][p])[c][p] = Tail(wire[c][p])
      BY Zenon, <1>10, <3>6, ReadHere
    <3>1. /\ wire[c][p] \in Seq(Frames) /\ wire[c][p] # <<>>
          /\ w[c][p] = Tail(wire[c][p])
      BY <3>6, <3>7
    <3>2. LineLast(wire[c][p])
      BY <1>10 DEF Heeds
    <3>3. LineLast(w[c][p])
      BY <3>1, <3>2, FramesLess
    <3> HIDE DEF w
    <3>4. CASE Sends(x, y, CallDecline, w)
      <4>1. Plain(p, q)'
        BY <1>10 DEF Calling
      <4>2. Refuses(wire'[c][q]) /\ wire'[c][p] = w[c][p]
        BY ZenonT(30), <1>5, <1>10, <2>1, <3>4, <4>1, RefusedHere
      <4> QED  BY <3>3, <4>2 DEF Heeds, LineLast, Refuses
    <3>5. CASE wire' = w /\ ringing'[x].peer = y
      BY <2>1, <3>3, <3>5 DEF Heeds, LineLast
    <3> QED  BY <1>9, <3>4, <3>5
  <2>2. CASE ~ (x = q /\ y = p)
    <3>4. Others(x, y, p, q)
      <4>1. p # q /\ idle[p][q] = 0
        BY <1>10, CallingIs
      <4> QED  BY <1>1, <2>2, <4>1, OtherTwo
    <3>1. w[c] = wire[c]
      BY <1>1, <1>10, <3>4, ReadElsewhere
    <3> HIDE DEF w
    <3>2. wire'[c] = w[c]
      <4>1. CASE Sends(x, y, CallDecline, w)
        BY <1>5, <1>10, <3>4, <4>1, RefusedElsewhere
      <4> QED  BY <1>9, <4>1
    <3>3. ringing[q].peer = p => ringing'[q].peer = p
      <4>1. p # Nobody
        BY CallAssumption
      <4> QED  BY <1>7, <1>8, <2>2, <4>1
    <3> QED  BY <1>1, <1>10, <3>1, <3>2, <3>3, HeedsKept
  <2> QED  BY <2>1, <2>2
<1> QED  BY <1>1, <1>6, <1>10, HeededBy

LEMMA LostHeeded ==
  ASSUME CallInv, OrderInv, Lending, Heeded, NEW x \in People, NEW y \in People, Lost(x, y)
  PROVE  Heeded'
<1>1. /\ Ends(x, idle[x][y]) /\ holds' \subseteq holds /\ NoLongerRinging(x, y)
      /\ UNCHANGED <<pair, dead, wire, phone, crossed>>
  BY DEF Lost, historyVars
<1>2. ringing \in [People -> [peer : People \cup {Nobody}, said : Seq(Frames)]]
  BY DEF CallInv, CallTyped, LoopTyped
<1>3. \A z \in People : ringing'[z] = ringing[z] \/ (z = x /\ ringing[z].peer = y)
  BY <1>1, <1>2 DEF NoLongerRinging
<1>4. ASSUME NEW p \in People, NEW q \in People, NEW c \in Conns, Calling(p, q, c),
             Calling(p, q, c)', Heeds(p, q, c)
      PROVE  Heeds(p, q, c)'
  <2>1. ringing[q].peer = p => ringing'[q].peer = p
    <3> SUFFICES ASSUME ringing[q].peer = p, x = q, y = p PROVE FALSE
      BY <1>3
    <3>1. idle[x][y] = c
      BY <1>4, CalledHas
    <3>2. Up(q, c)
      BY <1>4, CallingIs
    <3> QED  BY <1>1, <3>1, <3>2 DEF Ends
  <2> QED  BY <1>1, <1>4, <2>1, HeedsKept
<1> QED  BY <1>1, <1>4, HeededBy

\* What the pool does with a connection leaves a call alone.
LEMMA KeptElsewhere ==
  ASSUME CallInv, OrderInv, Lending, NEW p \in People, NEW q \in People, NEW c, Calling(p, q, c),
         NEW x \in People, NEW y \in People, x # y, NEW d \in Conns, pair[d] = {x, y},
         <<x, d>> \in holds, idle[x][y] # d, Keep(x, d, wire)
  PROVE  wire'[c] = wire[c]
<1> DEFINE stale == idle[x][y]
           drained == Written(wire, x, d, waiting[x][y])
<1>1. /\ c \in Conns /\ pair[c] = {p, q} /\ c # 0 /\ {p, q} \notin crossed
      /\ \A e \in Conns : pair[e] = {p, q} /\ (<<p, e>> \in holds \/ <<q, e>> \in holds) => e = c
  BY CallingIs DEF Calling, Plain
<1>2. wire \in [Conns -> BothSides]
  BY DEF CallInv, CallTyped, NetTyped
<1>3. wire' = IF stale = 0 THEN drained ELSE Unheard(drained, x, stale)
  <2>1. Far(x, d) = y
    BY FarIs
  <2> QED  BY <2>1 DEF Keep
<1>4. waiting[x][y] \in Seq(Frames)
  <2>1. waiting[x][y] \in Seq({CallDecline})
    BY DEF CallInv, CallTyped, PoolTyped
  <2> QED  BY <2>1, NoLines
<1>5. drained \in [Conns -> BothSides]
  BY <1>4, CallWrites
<1>6. drained[c] = wire[c]
  <2>1. CASE d = c
    <3>1. waiting[x][y] = <<>>
      BY <1>1, <2>1 DEF Lending, NothingWaits, Plain
    <3> QED  BY <1>1, <1>2, <3>1, NothingWritten
  <2>2. CASE d # c
    BY <1>1, <1>2, <2>2, WrittenElsewhere
  <2> QED  BY <2>1, <2>2
<1>7. stale # 0 => stale # c
  <2> SUFFICES ASSUME stale # 0, stale = c PROVE FALSE
    OBVIOUS
  <2>1. {x, y} = {p, q}
    BY <1>1, PoolConn
  <2>2. x \in {p, q} /\ pair[d] = {p, q}
    BY <2>1
  <2>3. d = c
    BY <1>1, <2>2
  <2> QED  BY <2>3
<1> HIDE DEF drained, stale
<1>8. stale # 0 => Unheard(drained, x, stale)[c] = drained[c]
  BY <1>1, <1>5, <1>7, ClosedElsewhere
<1> QED  BY <1>3, <1>6, <1>8

LEMMA ArrivesHeeded ==
  ASSUME CallInv, OrderInv, Lending, Heeded, NEW x \in People, NEW d \in Conns, Arrives(x, d)
  PROVE  Heeded'
<1>1. /\ d \in arriving[x] /\ Keep(x, d, wire) /\ holds' \subseteq holds
      /\ UNCHANGED <<pair, dead, phone, ringing, crossed>>
  BY DEF Arrives, Keep, historyVars
<1>2. <<x, d>> \in holds /\ x \in pair[d] /\ pair[d] \in Contacts
  <2>1. <<x, d>> \in holds
    BY <1>1, ComingPlaced DEF CallInv
  <2> QED  BY <2>1, HeldPlaced, PairIsContacts DEF CallInv, CallTyped
<1>3. PICK y : pair[d] = {x, y}
  <2>1. \E a, b \in People : pair[d] = {a, b}
    BY <1>2, CallAssumption
  <2>2. PICK a \in People, b \in People : pair[d] = {a, b}
    BY <2>1
  <2>3. CASE x = a
    BY <2>2, <2>3
  <2>4. CASE x = b
    BY <2>2, <2>4
  <2> QED  BY <1>2, <2>2, <2>3, <2>4
<1>4. y \in People /\ x # y
  BY <1>2, <1>3, ContactEnds
<1>5. idle[x][y] # d
  <2>1. d # 0
    BY ConnsNat DEF CallInv, CallTyped
  <2>2. idle[x][y] # 0 => idle[x][y] \notin arriving[x]
    BY <1>4, IdlePlaced DEF CallInv
  <2> QED  BY <1>1, <2>1, <2>2
<1>6. ASSUME NEW p \in People, NEW q \in People, NEW c \in Conns, Calling(p, q, c),
             Calling(p, q, c)', Heeds(p, q, c)
      PROVE  Heeds(p, q, c)'
  <2>1. wire'[c] = wire[c]
    BY <1>1, <1>2, <1>3, <1>4, <1>5, <1>6, KeptElsewhere
  <2> QED  BY <1>1, <1>6, <2>1, HeedsKept
<1> QED  BY <1>1, <1>6, HeededBy

\* The call of somebody who talked to nobody any more ends.
LEMMA CallEndedHeeded ==
  ASSUME CallInv, OrderInv, Lending, Heeded, NEW x \in People, CallEnded(x)
  PROVE  Heeded'
<1> DEFINE d == phone[x].conn
           y == phone[x].peer
<1>1. /\ phone[x].state = "over" /\ phone' = [phone EXCEPT ![x] = NoCall]
      /\ UNCHANGED <<pair, dead, crossed>>
      /\ \/ d # 0 /\ Keep(x, d, wire) /\ UNCHANGED ringing
         \/ /\ holds' = holds \ {<<x, d>>}
            /\ wire' = wire \/ wire' = Unheard(wire, x, d)
            /\ UNCHANGED ringing \/ NoLongerRinging(x, y)
  BY DEF CallEnded, historyVars
<1>2. \A z \in People : phone'[z] = IF z = x THEN NoCall ELSE phone[z]
  BY <1>1, PhoneOf
<1>3. ringing \in [People -> [peer : People \cup {Nobody}, said : Seq(Frames)]]
      /\ wire \in [Conns -> BothSides]
  BY DEF CallInv, CallTyped, LoopTyped, NetTyped
<1>4. \A z \in People : ringing'[z] = ringing[z] \/ (z = x /\ ringing[z].peer = y)
  BY <1>1, <1>3 DEF NoLongerRinging
<1>5. holds' \subseteq holds
  BY <1>1 DEF Keep
<1>6. NoCall.state = "none"
  BY DEF NoCall
<1>7. ASSUME NEW p \in People, NEW q \in People, NEW c \in Conns, Calling(p, q, c),
             Calling(p, q, c)', Heeds(p, q, c)
      PROVE  Heeds(p, q, c)'
  <2>1. /\ p # x /\ pair[c] = {p, q}
    BY <1>2, <1>6, <1>7, CallingIs DEF Calling
  <2>2. ringing[q].peer = p => ringing'[q].peer = p
    <3>1. q = x /\ ringing[q].peer = p => y # p
      BY <1>7, CalledHas
    <3> QED  BY <1>4, <3>1
  <2>3. phone[q].state = "talk" => phone'[q] = phone[q]
    BY <1>1, <1>2
  <2>4. wire'[c] = wire[c]
    <3>1. CASE d # 0 /\ Keep(x, d, wire)
      <4>1. d \in Conns /\ pair[d] = {x, y} /\ y \in People /\ x # y /\ <<x, d>> \in holds
        BY <3>1, CallConn
      <4>2. idle[x][y] # d
        BY <3>1, <4>1, IdlePlaced DEF CallInv
      <4> HIDE DEF d, y
      <4> QED  BY <1>7, <3>1, <4>1, <4>2, KeptElsewhere
    <3>2. CASE /\ holds' = holds \ {<<x, d>>}
               /\ wire' = wire \/ wire' = Unheard(wire, x, d)
      <4>1. d # c
        <5> SUFFICES ASSUME d = c PROVE FALSE
          OBVIOUS
        <5>1. c # 0
          BY <1>7, CallingIs
        <5>2. x \in pair[c]
          BY <5>1, CallConn
        <5>3. x = q
          BY <2>1, <5>2
        <5> QED  BY <1>7, <3>2, <5>3 DEF Calling
      <4> HIDE DEF d
      <4> QED  BY <1>3, <3>2, <4>1, ClosedElsewhere
    <3> QED  BY <1>1, <3>1, <3>2
  <2> QED  BY <1>7, <2>2, <2>3, <2>4, HeedsKept
<1> QED  BY <1>1, <1>2, <1>5, <1>6, <1>7, HeededBy

LEMMA OpenedHeeded ==
  ASSUME CallInv, OrderInv, Lending, Heeded, NEW x \in People, Opened(x)
  PROVE  Heeded'
<1> DEFINE it == Head(asides[x])
<1>1. /\ asides[x] # <<>> /\ UNCHANGED <<pair, holds, dead, phone, ringing, crossed>>
      /\ wire' = wire \/ wire' = Written(wire, x, it.conn, waiting[x][it.peer])
  BY DEF Opened, historyVars
<1>2. wire \in [Conns -> BothSides]
  BY DEF CallInv, CallTyped, NetTyped
<1>3. it.conn \in Conns /\ pair[it.conn] = {x, it.peer} /\ it.peer \in People
  <2>1. asides[x] \in Seq([peer : People, conn : Nat])
    BY DEF CallInv, CallTyped, LoopTyped
  <2>4. it \in [peer : People, conn : Nat]
    BY <1>1, <2>1, HeadTailProperties
  <2>5. it = asides[x][1]
    BY <1>1, <2>1
  <2>2. it = asides[x][1] /\ it \in [peer : People, conn : Nat]
    BY <2>4, <2>5
  <2>3. 1 \in DOMAIN asides[x]
    <3>1. Len(asides[x]) \in Nat /\ Len(asides[x]) # 0 /\ DOMAIN asides[x] = 1 .. Len(asides[x])
      BY <1>1, <2>1, EmptySeq
    <3> QED  BY <3>1
  <2> HIDE DEF it
  <2> QED  BY <2>2, <2>3 DEF Lending, AsidesRight, Ours
<1> HIDE DEF it
<1>4. ASSUME NEW p \in People, NEW q \in People, NEW c \in Conns, Calling(p, q, c),
             Calling(p, q, c)', Heeds(p, q, c)
      PROVE  Heeds(p, q, c)'
  <2>1. wire'[c] = wire[c]
    <3>1. CASE it.conn = c
      <4>1. pair[c] = {p, q} /\ {p, q} \notin crossed
        BY <1>4, CallingIs DEF Calling, Plain
      <4>2. waiting[x][it.peer] = <<>>
        BY <1>3, <3>1, <4>1 DEF Lending, NothingWaits, Plain
      <4> QED  BY <1>1, <1>2, <4>2, NothingWritten
    <3>2. CASE it.conn # c
      BY <1>1, <1>2, <3>2, WrittenElsewhere
    <3> QED  BY <3>1, <3>2
  <2> QED  BY <1>1, <1>4, <2>1, HeedsKept
<1> QED  BY <1>1, <1>4, HeededBy

LEMMA BreakHeeded ==
  ASSUME CallInv, Heeded, NEW d \in Conns, Break(d)
  PROVE  Heeded'
<1>1. /\ dead' = dead \cup {d} /\ \E w : wire' = [wire EXCEPT ![d] = w]
      /\ UNCHANGED <<pair, holds, phone, ringing, crossed>>
  BY DEF Break, historyVars
<1>2. wire \in [Conns -> BothSides]
  BY DEF CallInv, CallTyped, NetTyped
<1>3. ASSUME NEW p \in People, NEW q \in People, NEW c \in Conns, Calling(p, q, c),
             Calling(p, q, c)', Heeds(p, q, c)
      PROVE  Heeds(p, q, c)'
  <2>1. c # d
    BY <1>1, <1>3 DEF Calling
  <2>2. wire'[c] = wire[c]
    BY <1>1, <1>2, <2>1
  <2> QED  BY <1>1, <1>3, <2>2, HeedsKept
<1> QED  BY <1>1, <1>3, HeededBy

LEMMA QuitHeeded ==
  ASSUME CallInv, OrderInv, Lending, Heeded, NEW x \in People, Quit(x)
  PROVE  Heeded'
<1> DEFINE mine == {c \in Conns : <<x, c>> \in holds}
<1>1. /\ holds' = holds \ ({x} \X mine)
      /\ wire' = [c \in Conns |-> IF c \in mine THEN [wire[c] EXCEPT ![Far(x, c)] = <<>>]
                                                ELSE wire[c]]
      /\ phone' = [phone EXCEPT ![x] = NoCall] /\ ringing' = [ringing EXCEPT ![x] = NoRing]
      /\ UNCHANGED <<pair, dead, crossed>>
  BY DEF Quit, historyVars
<1>2. \A z \in People : phone'[z] = IF z = x THEN NoCall ELSE phone[z]
  BY <1>1, PhoneOf
<1>3. \A z \in People : z # x => ringing'[z] = ringing[z]
  BY <1>1 DEF CallInv, CallTyped, LoopTyped
<1>4. NoCall.state = "none" /\ holds' \subseteq holds
  BY <1>1 DEF NoCall
<1>5. ASSUME NEW p \in People, NEW q \in People, NEW c \in Conns, Calling(p, q, c),
             Calling(p, q, c)', Heeds(p, q, c)
      PROVE  Heeds(p, q, c)'
  <2>1. p # x /\ pair[c] = {p, q}
    BY <1>2, <1>4, <1>5, CallingIs DEF Calling
  <2>2. q # x
    <3> SUFFICES ASSUME q = x PROVE FALSE
      OBVIOUS
    <3>1. <<x, c>> \in holds /\ <<x, c>> \in holds'
      BY <1>5 DEF Calling
    <3>2. c \in mine
      BY <3>1
    <3> QED  BY <1>1, <3>1, <3>2
  <2>3. c \notin mine
    <3> SUFFICES ASSUME <<x, c>> \in holds PROVE FALSE
      OBVIOUS
    <3>1. x \in pair[c]
      BY HeldPlaced DEF CallInv
    <3> QED  BY <2>1, <2>2, <3>1
  <2>4. wire'[c] = wire[c]
    BY <1>1, <2>3
  <2> QED  BY <1>2, <1>3, <1>5, <2>2, <2>4, HeedsKept
<1> QED  BY <1>1, <1>2, <1>4, <1>5, HeededBy

\* A connection that lands is nothing to those who talk already.
LEMMA LandedStill ==
  ASSUME CallInv, Heeded, NEW x \in People, NEW y \in People, NEW d, NEW w, Landed(x, y, d, w),
         crossed \subseteq crossed', dead' = dead, ringing' = ringing,
         \A z \in People : phone[z].state = "talk" => phone'[z] = phone[z],
         NEW p \in People, NEW q \in People, NEW c, phone'[p] = phone[p], Calling(p, q, c)'
  PROVE  Heeds(p, q, c)'
<1>1. phone[p].state = "talk" /\ phone[p].spoke /\ phone[p].peer = q /\ phone[p].conn = c
  BY DEF Calling
<1>2. c \in Conns
  BY <1>1, CallConn DEF CallInv, Phones
<1>3. c # d /\ wire'[c] = wire[c]
  BY <1>2 DEF Landed
<1>4. <<q, c>> \in holds
  BY <1>3 DEF Calling, Landed
<1>5. Calling(p, q, c)
  BY <1>1, <1>4 DEF Calling, Plain
<1>6. Heeds(p, q, c)
  BY <1>2, <1>5 DEF Heeded
<1> QED  BY <1>3, <1>6, HeedsKept

LEMMA ReachHeeded ==
  ASSUME CallInv, Heeded, NEW x \in People, NEW y \in People, Reach(x, y)
  PROVE  Heeded'
<1>1. {x, y} \in Contacts /\ Lands(x, y, <<>>) /\ UNCHANGED <<dead, phone, ringing>>
  BY DEF Reach
<1>2. <<>> \in Seq(Frames) /\ NetTyped
  BY DEF CallInv, CallTyped
<1>3. Landed(x, y, Len(pair) + 1, <<>>)
  BY <1>1, <1>2, LandsDoes
<1>4. crossed \subseteq crossed'
  BY <1>1 DEF Lands
<1>5. ASSUME NEW p \in People, NEW q \in People, NEW c \in Conns', Calling(p, q, c)'
      PROVE  Heeds(p, q, c)'
  BY <1>1, <1>3, <1>4, <1>5, LandedStill
<1> QED  BY <1>5 DEF Heeded

\* What was held while dialling is said when the dial lands.
LEMMA DialLandsHeeded ==
  ASSUME CallInv, OrderInv, Lending, Heeded, NEW x \in People, DialLands(x)
  PROVE  Heeded'
<1> DEFINE d == Len(pair) + 1
           y == phone[x].peer
           held == phone[x].held
           r == SaidAhead(x, d)
<1>1. /\ phone[x].state = "dial" /\ Lands(x, y, held) /\ phone' = [phone EXCEPT ![x] = r]
      /\ UNCHANGED <<dead, ringing>>
  BY DEF DialLands, Dials
<1>2. /\ phone[x] \in PhoneCalls /\ y \in People /\ x # y /\ held \in Seq(Frames)
      /\ NetTyped /\ {x, y} \in Contacts
  BY <1>1, CallerIs DEF CallInv, CallTyped, Phones
<1>3. Landed(x, y, d, held) /\ crossed \subseteq crossed'
  BY <1>1, <1>2, LandsDoes DEF Lands
<1>4. r.conn = d /\ r.peer = y /\ r.spoke = (held # <<>>)
  BY <1>2 DEF SaidAhead, PhoneCalls
<1>5. Worded(held)
  BY DEF Lending, LinesHeld
<1> HIDE DEF r, d, held, y
<1>6. \A z \in People : phone'[z] = IF z = x THEN r ELSE phone[z]
  BY <1>1, PhoneOf
<1>7. ASSUME NEW p \in People, NEW q \in People, NEW c \in Conns', Calling(p, q, c)'
      PROVE  Heeds(p, q, c)'
  <2>1. CASE p = x
    <3>1. c = d /\ held # <<>>
      BY <1>4, <1>6, <1>7, <2>1 DEF Calling
    <3>2. wire'[c][p] = held
      BY <1>3, <2>1, <3>1 DEF Landed
    <3>3. held[Len(held)].t = "text"
      <4>1. Len(held) \in DOMAIN held
        BY <1>2, <3>1
      <4> QED  BY <1>5, <4>1 DEF Worded
    <3> QED  BY <3>1, <3>2, <3>3 DEF Heeds, LineLast
  <2>2. CASE p # x
    <3>1. phone'[p] = phone[p]
      BY <1>6, <2>2
    <3>2. \A z \in People : phone[z].state = "talk" => phone'[z] = phone[z]
      BY <1>1, <1>6
    <3> QED  BY <1>1, <1>2, <1>3, <1>7, <3>1, <3>2, LandedStill
  <2> QED  BY <2>1, <2>2
<1> QED  BY <1>7 DEF Heeded

-----------------------------------------------------------------------------
(***************************************************************************)
(* What the pool knows of a call.                                          *)
(***************************************************************************)

LEMMA LendingBy ==
  ASSUME Lending, \A c \in Conns : c \in Conns' /\ pair'[c] = pair[c], crossed \subseteq crossed',
         \A x \in People :
           \/ lent'[x] = lent[x] /\ phone'[x].peer = phone[x].peer
           \/ /\ lent'[x].to = phone'[x].peer
              /\ lent'[x].conn # 0 => Ours(lent'[x].conn, x, lent'[x].to),
         \A x \in People : \/ asides'[x] = asides[x]
                           \/ \A i \in DOMAIN asides'[x] :
                                /\ asides'[x][i].conn \in Conns'
                                /\ pair'[asides'[x][i].conn] = {x, asides'[x][i].peer},
         \A x, y \in People : \/ waiting'[x][y] = waiting[x][y] \/ waiting'[x][y] = <<>>
                              \/ ~ Plain(x, y)',
         \A x \in People : phone'[x].held = phone[x].held \/ Worded(phone'[x].held)
  PROVE  Lending'
<1>1. \A c, x, y : Ours(c, x, y) => Ours(c, x, y)'
  BY DEF Ours
<1>2. LentRight'
  BY <1>1 DEF Lending, LentRight
<1>3. AsidesRight'
  <2> SUFFICES ASSUME NEW x \in People, NEW i \in DOMAIN asides'[x]
               PROVE  /\ asides'[x][i].conn \in Conns'
                      /\ pair'[asides'[x][i].conn] = {x, asides'[x][i].peer}
    BY DEF AsidesRight, Ours
  <2>1. CASE asides'[x] = asides[x]
    <3>1. Ours(asides[x][i].conn, x, asides[x][i].peer)
      BY <2>1 DEF Lending, AsidesRight
    <3> QED  BY <2>1, <3>1 DEF Ours
  <2> QED  BY <2>1
<1>4. NothingWaits'
  BY DEF Lending, NothingWaits, Plain
<1>5. LinesHeld'
  BY DEF Lending, LinesHeld, Worded
<1> QED  BY <1>2, <1>3, <1>4, <1>5 DEF Lending

LEMMA LendingStill ==
  ASSUME Lending, UNCHANGED <<pair, lent, waiting, asides>>, crossed \subseteq crossed',
         \A x \in People : /\ phone'[x].peer = phone[x].peer
                           /\ phone'[x].held = phone[x].held \/ Worded(phone'[x].held)
  PROVE  Lending'
<1>1. \A c \in Conns : c \in Conns' /\ pair'[c] = pair[c]
  BY DEF Conns
<1> QED  BY <1>1, LendingBy

\* What lends nothing, and takes nothing back.
LEMMA LentOn ==
  ASSUME CallInv, Lending,
         \/ UNCHANGED vars \/ \E c \in Conns : Break(c)
         \/ \E x \in People : Stranger(x) \/ Refused(x) \/ Hear(x)
         \/ \E x, y \in People : Lost(x, y) \/ Stopped(x, y) \/ Ignored(x, y)
  PROVE  Lending'
<1>1. UNCHANGED <<pair, lent, waiting, asides, phone, crossed>>
  BY DEF Stranger, Refused, Lost, Stopped, Ignored, Hear, Break, vars, netVars, poolVars, historyVars
<1> QED  BY <1>1, LendingStill

\* A call goes on, or ends.
LEMMA CallLending ==
  ASSUME CallInv, Lending, NEW x \in People,
         \/ HoldLine(x) \/ HearFirst(x) \/ Say(x)
         \/ GiveUpDialling(x) \/ Bye(x) \/ ToldItIsOver(x) \/ HungUpOn(x)
  PROVE  Lending'
<1>1. UNCHANGED <<pair, lent, waiting, asides, crossed>>
  BY DEF HoldLine, HearFirst, Say, GiveUpDialling, Bye, ToldItIsOver, HungUpOn, netVars, poolVars,
     historyVars
<1>2. phone \in [People -> PhoneCalls] /\ phone[x] \in PhoneCalls /\ phone[x].held \in Seq(Frames)
  <2>1. phone \in [People -> PhoneCalls] /\ phone[x] \in PhoneCalls
    BY DEF CallInv, CallTyped, LoopTyped
  <2> QED  BY <2>1 DEF PhoneCalls
<1>3. \E r : /\ phone' = [phone EXCEPT ![x] = r] /\ r.peer = phone[x].peer
             /\ r.held = phone[x].held \/ Worded(r.held)
  <2>1. CASE HoldLine(x)
    <3> DEFINE line == Text(said[x][phone[x].peer] + 1)
               r == [phone[x] EXCEPT !.held = Append(@, line)]
    <3>1. phone' = [phone EXCEPT ![x] = r]
      BY <2>1 DEF HoldLine
    <3>2. line.t = "text"
      BY DEF Text
    <3> HIDE DEF line
    <3>3. r.peer = phone[x].peer /\ r.held = Append(phone[x].held, line)
      BY <1>2 DEF PhoneCalls
    <3>4. Worded(phone[x].held)
      BY DEF Lending, LinesHeld
    <3> DEFINE s == phone[x].held
    <3>5. \A i \in DOMAIN Append(s, line) :
            \/ i \in DOMAIN s /\ Append(s, line)[i] = s[i]
            \/ Append(s, line)[i] = line
      BY <1>2
    <3>6. Worded(Append(s, line))
      BY <3>2, <3>4, <3>5 DEF Worded
    <3> HIDE DEF r
    <3> QED  BY <3>1, <3>3, <3>6
  <2>2. CASE HearFirst(x)
    <3> DEFINE r == [phone[x] EXCEPT !.first = Tail(@)]
    <3>1. phone' = [phone EXCEPT ![x] = r] /\ r.peer = phone[x].peer /\ r.held = phone[x].held
      BY <1>2, <2>2 DEF HearFirst, PhoneCalls
    <3> QED  BY <3>1
  <2>3. CASE Say(x)
    <3> DEFINE r == [phone[x] EXCEPT !.spoke = TRUE]
    <3>1. phone' = [phone EXCEPT ![x] = r]
      BY <2>3 DEF Say
    <3>2. r.peer = phone[x].peer /\ r.held = phone[x].held
      BY <1>2 DEF PhoneCalls
    <3> QED  BY <3>1, <3>2
  <2>4. CASE GiveUpDialling(x) \/ Bye(x) \/ ToldItIsOver(x) \/ HungUpOn(x)
    <3>1. PICK alive \in BOOLEAN : Over(x, alive)
      BY <2>4 DEF GiveUpDialling, Bye, ToldItIsOver, HungUpOn
    <3> DEFINE r == [phone[x] EXCEPT !.state = "over", !.alive = alive]
    <3>2. phone' = [phone EXCEPT ![x] = r]
      BY <1>2, <3>1 DEF Over
    <3>3. r.peer = phone[x].peer /\ r.held = phone[x].held
      BY <1>2 DEF PhoneCalls
    <3> QED  BY <3>2, <3>3
  <2> QED  BY <2>1, <2>2, <2>3, <2>4
<1>4. PICK r : /\ phone' = [phone EXCEPT ![x] = r] /\ r.peer = phone[x].peer
               /\ r.held = phone[x].held \/ Worded(r.held)
  BY <1>3
<1>5. \A z \in People : phone'[z] = IF z = x THEN r ELSE phone[z]
  BY <1>4, PhoneOf
<1>6. \A z \in People : /\ phone'[z].peer = phone[z].peer
                        /\ phone'[z].held = phone[z].held \/ Worded(phone'[z].held)
  BY <1>4, <1>5
<1> QED  BY <1>1, <1>6, LendingStill

\* A refusal that waits is late.
LEMMA RefusedLending ==
  ASSUME CallInv, Lending, NEW x \in People, NEW y \in People, NEW w, Sends(x, y, CallDecline, w),
         UNCHANGED <<pair, lent, asides, phone>>
  PROVE  Lending'
<1>1. waiting \in [People -> [People -> Seq({CallDecline})]]
  BY DEF CallInv, CallTyped, PoolTyped
<1>2. CASE UNCHANGED <<waiting, crossed>>
  BY <1>2, LendingStill
<1>3. CASE /\ waiting' = [waiting EXCEPT ![x][y] =
                            IF Len(@) < WAITING THEN Append(@, CallDecline) ELSE @]
           /\ crossed' = crossed \cup {{x, y}}
  <2>1. \A a, b \in People : waiting'[a][b] = waiting[a][b] \/ (a = x /\ b = y)
    BY <1>1, <1>3
  <2>2. ~ Plain(x, y)'
    BY <1>3 DEF Plain
  <2>3. \A c \in Conns : c \in Conns' /\ pair'[c] = pair[c]
    BY DEF Conns
  <2>4. \A a, b \in People : \/ waiting'[a][b] = waiting[a][b] \/ waiting'[a][b] = <<>>
                             \/ ~ Plain(a, b)'
    BY <2>1, <2>2
  <2> QED  BY <1>3, <2>3, <2>4, LendingBy
<1> QED  BY <1>2, <1>3 DEF Sends

LEMMA AnsweringLending ==
  ASSUME CallInv, Lending, NEW x \in People, NEW y \in People, Decline(x) \/ SpokenTo(x, y)
  PROVE  Lending'
<1>1. UNCHANGED <<pair, lent, asides, phone>>
  BY DEF Decline, SpokenTo
<1>2. CASE Decline(x)
  <2> DEFINE z == ringing[x].peer
  <2>1. z \in People /\ Sends(x, z, CallDecline, wire)
    BY <1>2 DEF Decline, CallInv, CallTyped, LoopTyped
  <2> HIDE DEF z
  <2> QED  BY <1>1, <2>1, RefusedLending
<1>3. CASE SpokenTo(x, y)
  <2>1. Sends(x, y, CallDecline, Taken(x, idle[x][y])) \/ UNCHANGED <<waiting, crossed>>
    BY Zenon, <1>3 DEF SpokenTo, Busy
  <2> QED  BY <1>1, <2>1, RefusedLending, LendingStill
<1> QED  BY <1>2, <1>3

LEMMA Emptied ==
  ASSUME CallInv, NEW x, NEW y, waiting' = waiting \/ waiting' = [waiting EXCEPT ![x][y] = <<>>]
  PROVE  \A a, b \in People : waiting'[a][b] = waiting[a][b] \/ waiting'[a][b] = <<>>
<1>1. waiting \in [People -> [People -> Seq({CallDecline})]]
  BY DEF CallInv, CallTyped, PoolTyped
<1>2. CASE x \in People /\ waiting' = [waiting EXCEPT ![x][y] = <<>>]
  <2>1. \A a \in People : waiting'[a] = IF a = x THEN [waiting[x] EXCEPT ![y] = <<>>] ELSE waiting[a]
    BY <1>1, <1>2
  <2>2. \A b \in People : [waiting[x] EXCEPT ![y] = <<>>][b] \in {waiting[x][b], <<>>}
    BY <1>1, <1>2
  <2> QED  BY <2>1, <2>2
<1>3. CASE x \notin People /\ waiting' = [waiting EXCEPT ![x][y] = <<>>]
  BY <1>1, <1>3
<1> QED  BY <1>2, <1>3

\* A call begins.
LEMMA StartLending ==
  ASSUME CallInv, Lending, NEW x \in People, NEW y \in People, NEW first \in Seq(Frames),
         Start(x, y, first), UNCHANGED <<pair, asides>>, crossed \subseteq crossed'
  PROVE  Lending'
<1> DEFINE c == idle[x][y]
           r == [NoCall EXCEPT !.state = IF c = 0 THEN "dial" ELSE "talk",
                               !.peer = y, !.conn = c, !.first = first]
           l == [to |-> y, conn |-> c]
<1>1. /\ lent' = [lent EXCEPT ![x] = l] /\ phone' = [phone EXCEPT ![x] = r] /\ waiting' = waiting
  BY DEF Start
<1>2. r.peer = y /\ r.held = <<>>
  BY DEF NoCall
<1>3. l.to = y /\ l.conn = c
  OBVIOUS
<1>4. c # 0 => Ours(c, x, y)
  BY PoolConn DEF Ours
<1>5. Worded(<<>>)
  BY NothingRises
<1> HIDE DEF r, c, l
<1>6. \A z \in People : phone'[z] = IF z = x THEN r ELSE phone[z]
  BY <1>1, PhoneOf
<1>7. \A z \in People : lent'[z] = IF z = x THEN l ELSE lent[z]
  BY <1>1 DEF CallInv, CallTyped, PoolTyped
<1>8. \A d \in Conns : d \in Conns' /\ pair'[d] = pair[d]
  BY DEF Conns
<1>9. \A z \in People :
        \/ lent'[z] = lent[z] /\ phone'[z].peer = phone[z].peer
        \/ /\ lent'[z].to = phone'[z].peer
           /\ lent'[z].conn # 0 => Ours(lent'[z].conn, z, lent'[z].to)
  BY <1>2, <1>3, <1>4, <1>6, <1>7
<1>10. \A z \in People : phone'[z].held = phone[z].held \/ Worded(phone'[z].held)
  BY <1>2, <1>5, <1>6
<1> QED  BY <1>1, <1>8, <1>9, <1>10, LendingBy

LEMMA PlacingLending ==
  ASSUME CallInv, Lending, NEW x \in People, NEW y \in People, PlaceCall(x, y) \/ Answer(x)
  PROVE  Lending'
<1>1. UNCHANGED <<pair, asides>> /\ crossed \subseteq crossed'
  BY DEF PlaceCall, Answer, netVars, historyVars
<1>2. CASE PlaceCall(x, y)
  <2>1. <<>> \in Seq(Frames) /\ Start(x, y, <<>>)
    BY <1>2 DEF PlaceCall
  <2> QED  BY <1>1, <2>1, StartLending
<1>3. CASE Answer(x)
  <2> DEFINE z == ringing[x].peer  first == ringing[x].said
  <2>1. ringing[x] \in [peer : People \cup {Nobody}, said : Seq(Frames)]
    BY DEF CallInv, CallTyped, LoopTyped
  <2>2. z \in People /\ first \in Seq(Frames)
    BY <1>3, <2>1 DEF Answer
  <2>3. UNCHANGED <<lent, waiting, phone>> \/ Start(x, z, first)
    BY <1>3 DEF Answer, poolVars
  <2> HIDE DEF z, first
  <2> QED  BY <1>1, <2>2, <2>3, StartLending, LendingStill
<1> QED  BY <1>2, <1>3

\* What was dialled is lent, if the call is still with them.
LEMMA OpenedLending ==
  ASSUME CallInv, Lending, NEW x \in People, Opened(x)
  PROVE  Lending'
<1> DEFINE it == Head(asides[x])
<1>1. /\ asides[x] # <<>> /\ asides' = [asides EXCEPT ![x] = Tail(@)]
      /\ UNCHANGED <<pair, phone, crossed>>
      /\ \/ UNCHANGED <<lent, waiting>>
         \/ /\ lent[x].to = it.peer /\ lent' = [lent EXCEPT ![x].conn = it.conn]
            /\ waiting' = [waiting EXCEPT ![x][it.peer] = <<>>]
  BY DEF Opened, historyVars
<1>2. asides \in [People -> Seq([peer : People, conn : Nat])]
      /\ asides[x] \in Seq([peer : People, conn : Nat])
  BY DEF CallInv, CallTyped, LoopTyped
<1>3. it = asides[x][1] /\ 1 \in DOMAIN asides[x]
  <2>1. Len(asides[x]) \in Nat /\ Len(asides[x]) # 0 /\ DOMAIN asides[x] = 1 .. Len(asides[x])
    BY <1>1, <1>2, EmptySeq
  <2> QED  BY <1>1, <1>2, <2>1
<1> HIDE DEF it
<1>4. Ours(it.conn, x, it.peer)
  BY <1>3 DEF Lending, AsidesRight
<1>5. \A d \in Conns : d \in Conns' /\ pair'[d] = pair[d]
  BY <1>1 DEF Conns
<1>6. \A z \in People :
        \/ lent'[z] = lent[z] /\ phone'[z].peer = phone[z].peer
        \/ /\ lent'[z].to = phone'[z].peer
           /\ lent'[z].conn # 0 => Ours(lent'[z].conn, z, lent'[z].to)
  <2>1. lent \in [People -> [to : People \cup {Nobody}, conn : Nat]]
    BY DEF CallInv, CallTyped, PoolTyped
  <2>2. CASE lent' = lent
    BY <1>1, <2>2
  <2>3. CASE lent[x].to = it.peer /\ lent' = [lent EXCEPT ![x].conn = it.conn]
    <3>1. \A z \in People : z # x => lent'[z] = lent[z]
      BY <2>1, <2>3
    <3>2. lent'[x].to = it.peer /\ lent'[x].conn = it.conn
      BY <2>1, <2>3
    <3>3. lent[x].to = phone[x].peer
      BY DEF Lending, LentRight
    <3>4. lent'[x].to = phone'[x].peer /\ Ours(lent'[x].conn, x, lent'[x].to)
      BY <1>1, <1>4, <2>3, <3>2, <3>3
    <3> QED  BY <1>1, <3>1, <3>4
  <2> QED  BY <1>1, <2>2, <2>3
<1>7. \A z \in People :
        \/ asides'[z] = asides[z]
        \/ \A i \in DOMAIN asides'[z] :
             /\ asides'[z][i].conn \in Conns'
             /\ pair'[asides'[z][i].conn] = {z, asides'[z][i].peer}
  <2>1. \A z \in People : asides'[z] = IF z = x THEN Tail(asides[x]) ELSE asides[z]
    BY <1>1, <1>2
  <2>2. \A i \in DOMAIN Tail(asides[x]) :
          i + 1 \in DOMAIN asides[x] /\ Tail(asides[x])[i] = asides[x][i + 1]
    BY <1>1, <1>2, HeadTailProperties
  <2>3. ASSUME NEW i \in DOMAIN Tail(asides[x])
        PROVE  /\ Tail(asides[x])[i].conn \in Conns
               /\ pair[Tail(asides[x])[i].conn] = {x, Tail(asides[x])[i].peer}
    <3>1. Ours(asides[x][i + 1].conn, x, asides[x][i + 1].peer)
      BY <2>2 DEF Lending, AsidesRight
    <3> QED  BY <2>2, <3>1 DEF Ours
  <2>4. \A i \in DOMAIN asides'[x] :
          /\ asides'[x][i].conn \in Conns'
          /\ pair'[asides'[x][i].conn] = {x, asides'[x][i].peer}
    BY <1>1, <2>1, <2>3 DEF Conns
  <2> QED  BY <2>1, <2>4
<1>8. \A a, b \in People : waiting'[a][b] = waiting[a][b] \/ waiting'[a][b] = <<>>
  BY <1>1, Emptied
<1> QED  BY <1>1, <1>5, <1>6, <1>7, <1>8, LendingBy

LEMMA ArrivesLending ==
  ASSUME CallInv, Lending, NEW x \in People, NEW c \in Conns, Arrives(x, c)
  PROVE  Lending'
<1>1. /\ UNCHANGED <<pair, lent, phone, asides, crossed>>
      /\ waiting' = [waiting EXCEPT ![x][Far(x, c)] = <<>>]
  BY DEF Arrives, Keep, historyVars
<1>2. \A a, b \in People : waiting'[a][b] = waiting[a][b] \/ waiting'[a][b] = <<>>
  BY <1>1, Emptied
<1>3. \A d \in Conns : d \in Conns' /\ pair'[d] = pair[d]
  BY <1>1 DEF Conns
<1> QED  BY <1>1, <1>2, <1>3, LendingBy

\* A call is over, or forgotten.
LEMMA CallEndedLending ==
  ASSUME CallInv, Lending, NEW x \in People, CallEnded(x) \/ Quit(x)
  PROVE  Lending'
<1>1. /\ phone' = [phone EXCEPT ![x] = NoCall] /\ lent' = [lent EXCEPT ![x] = NotLent]
      /\ UNCHANGED <<pair, crossed>>
  BY DEF CallEnded, Quit, historyVars
<1>2. /\ NoCall.peer = Nobody /\ NoCall.held = <<>> /\ NotLent.to = Nobody /\ NotLent.conn = 0
      /\ Worded(<<>>)
  BY NothingRises DEF NoCall, NotLent
<1>3. \A z \in People : phone'[z] = IF z = x THEN NoCall ELSE phone[z]
  BY <1>1, PhoneOf
<1>4. \A z \in People : lent'[z] = IF z = x THEN NotLent ELSE lent[z]
  BY <1>1 DEF CallInv, CallTyped, PoolTyped
<1>5. \A d \in Conns : d \in Conns' /\ pair'[d] = pair[d]
  BY <1>1 DEF Conns
<1>6. \A a, b \in People : waiting'[a][b] = waiting[a][b] \/ waiting'[a][b] = <<>>
  <2>1. CASE CallEnded(x)
    <3>1. waiting' = waiting \/ waiting' = [waiting EXCEPT ![x][Far(x, phone[x].conn)] = <<>>]
      BY <2>1 DEF CallEnded, Keep
    <3> QED  BY <3>1, Emptied
  <2>2. CASE Quit(x)
    BY <2>2 DEF Quit, Silent, CallInv, CallTyped, PoolTyped
  <2> QED  BY <2>1, <2>2
<1>7. \A z \in People : asides'[z] = asides[z] \/ asides'[z] = <<>>
  BY DEF CallEnded, Quit, CallInv, CallTyped, LoopTyped
<1>8. \A z \in People :
        \/ asides'[z] = asides[z]
        \/ \A i \in DOMAIN asides'[z] :
             /\ asides'[z][i].conn \in Conns'
             /\ pair'[asides'[z][i].conn] = {z, asides'[z][i].peer}
  BY <1>7
<1>9. \A z \in People :
        \/ lent'[z] = lent[z] /\ phone'[z].peer = phone[z].peer
        \/ /\ lent'[z].to = phone'[z].peer
           /\ lent'[z].conn # 0 => Ours(lent'[z].conn, z, lent'[z].to)
  BY <1>2, <1>3, <1>4
<1>10. \A z \in People : phone'[z].held = phone[z].held \/ Worded(phone'[z].held)
  BY <1>2, <1>3
<1> QED  BY <1>1, <1>5, <1>6, <1>8, <1>9, <1>10, LendingBy

\* A connection lands.
LEMMA LandingLending ==
  ASSUME CallInv, Lending, NEW x \in People, NEW y \in People, Reach(x, y) \/ DialLands(x)
  PROVE  Lending'
<1>1. CASE Reach(x, y)
  <2>1. {x, y} \in Contacts /\ Lands(x, y, <<>>) /\ UNCHANGED <<lent, waiting, phone, asides>>
    BY <1>1 DEF Reach, poolVars
  <2>2. <<>> \in Seq(Frames) /\ NetTyped
    BY DEF CallInv, CallTyped
  <2>3. Landed(x, y, Len(pair) + 1, <<>>)
    BY <2>1, <2>2, LandsDoes
  <2>4. \A d \in Conns : d \in Conns' /\ pair'[d] = pair[d]
    BY <2>3 DEF Landed
  <2>5. crossed \subseteq crossed'
    BY <2>1 DEF Lands
  <2> QED  BY <2>1, <2>4, <2>5, LendingBy
<1>2. CASE DialLands(x)
  <2> DEFINE d == Len(pair) + 1
             z == phone[x].peer
             held == phone[x].held
             r == SaidAhead(x, d)
             it == [peer |-> z, conn |-> d]
  <2>1. /\ phone[x].state = "dial" /\ Lands(x, z, held) /\ phone' = [phone EXCEPT ![x] = r]
        /\ asides' = [asides EXCEPT ![x] = Append(@, it)] /\ UNCHANGED <<lent, waiting>>
    BY <1>2 DEF DialLands, Dials, poolVars
  <2>2. /\ phone[x] \in PhoneCalls /\ z \in People /\ held \in Seq(Frames) /\ NetTyped
        /\ {x, z} \in Contacts
    BY <2>1, CallerIs DEF CallInv, CallTyped, Phones
  <2>3. Landed(x, z, d, held) /\ crossed \subseteq crossed'
    BY <2>1, <2>2, LandsDoes DEF Lands
  <2>4. r.peer = z /\ r.held = <<>> /\ it.peer = z /\ it.conn = d
    BY <2>2 DEF SaidAhead, PhoneCalls
  <2>5. Worded(<<>>)
    BY NothingRises
  <2>6. d \in Conns' /\ pair'[d] = {x, z} /\ \A c \in Conns : c \in Conns' /\ pair'[c] = pair[c]
    BY <2>3 DEF Landed
  <2>7. d \in Nat
    BY <2>3 DEF Landed
  <2>8. it \in [peer : People, conn : Nat]
    BY <2>2, <2>7
  <2> HIDE DEF r, it, d
  <2>9. \A a \in People : phone'[a] = IF a = x THEN r ELSE phone[a]
    BY <2>1, PhoneOf
  <2>10. \A a \in People : asides'[a] = IF a = x THEN Append(asides[x], it) ELSE asides[a]
    BY <2>1 DEF CallInv, CallTyped, LoopTyped
  <2>11. asides[x] \in Seq([peer : People, conn : Nat])
    BY DEF CallInv, CallTyped, LoopTyped
  <2>12. \A i \in DOMAIN Append(asides[x], it) :
           \/ i \in DOMAIN asides[x] /\ Append(asides[x], it)[i] = asides[x][i]
           \/ Append(asides[x], it)[i] = it
    BY <2>8, <2>11, AppendProperties
  <2>13. ASSUME NEW i \in DOMAIN Append(asides[x], it)
         PROVE  /\ Append(asides[x], it)[i].conn \in Conns'
                /\ pair'[Append(asides[x], it)[i].conn] = {x, Append(asides[x], it)[i].peer}
    <3>1. CASE i \in DOMAIN asides[x] /\ Append(asides[x], it)[i] = asides[x][i]
      <4>1. Ours(asides[x][i].conn, x, asides[x][i].peer)
        BY <3>1 DEF Lending, AsidesRight
      <4> QED  BY <2>6, <3>1, <4>1 DEF Ours
    <3>2. CASE Append(asides[x], it)[i] = it
      BY <2>4, <2>6, <3>2
    <3> QED  BY <2>12, <3>1, <3>2
  <2>14. \A a \in People :
           \/ asides'[a] = asides[a]
           \/ \A i \in DOMAIN asides'[a] :
                /\ asides'[a][i].conn \in Conns'
                /\ pair'[asides'[a][i].conn] = {a, asides'[a][i].peer}
    BY <2>10, <2>13
  <2>15. \A a \in People : lent'[a] = lent[a] /\ phone'[a].peer = phone[a].peer
    BY <2>1, <2>4, <2>9
  <2>16. \A a \in People : phone'[a].held = phone[a].held \/ Worded(phone'[a].held)
    BY <2>4, <2>5, <2>9
  <2> QED  BY <2>1, <2>3, <2>6, <2>14, <2>15, <2>16, LendingBy
<1> QED  BY <1>1, <1>2

-----------------------------------------------------------------------------
(***************************************************************************)
(* All of it, from the start and by every step.                            *)
(***************************************************************************)

LEMMA TalkInit == Init => TalkInv
<1> SUFFICES ASSUME Init PROVE TalkInv
  OBVIOUS
<1>1. LinesInv
  BY CallInit, InOrderFirst DEF LinesInv
<1>2. /\ \A p \in People : phone[p] = NoCall /\ lent[p] = NotLent /\ asides[p] = <<>>
      /\ \A p, q \in People : waiting[p][q] = <<>>
  BY DEF Init, Silent
<1>3. /\ NoCall.state = "none" /\ NoCall.peer = Nobody /\ NoCall.held = <<>>
      /\ NotLent.to = Nobody /\ NotLent.conn = 0
  BY DEF NoCall, NotLent
<1>4. Lending
  <2>1. LentRight
    BY <1>2, <1>3 DEF LentRight
  <2>2. AsidesRight
    BY <1>2 DEF AsidesRight
  <2>3. NothingWaits
    BY <1>2 DEF NothingWaits
  <2>4. LinesHeld
    BY <1>2, <1>3, NothingRises DEF LinesHeld
  <2> QED  BY <2>1, <2>2, <2>3, <2>4 DEF Lending
<1>5. Heeded
  BY <1>2, <1>3 DEF Heeded, Calling
<1> QED  BY <1>1, <1>4, <1>5 DEF TalkInv

LEMMA TypesTalk ==
  ASSUME CallInv, CallInv', OrderInv, Lending, Heeded, NEW p \in People, Types(p)
  PROVE  Lending' /\ Heeded'
<1>1. CASE Answer(p)
  BY <1>1, PlacingLending, AnswerHeeded
<1>2. CASE Decline(p)
  BY <1>2, AnsweringLending, DeclineHeeded
<1>3. CASE HoldLine(p)
  BY <1>3, CallLending, LinesOfCallHeeded
<1>4. CASE Say(p)
  BY <1>4, CallLending, SayHeeded
<1>5. CASE Bye(p)
  BY <1>5, CallLending, EndingHeeded
<1>6. ASSUME NEW q \in People, PlaceCall(p, q)
      PROVE  Lending' /\ Heeded'
  BY <1>6, PlacingLending, PlaceCallHeeded
<1> QED  BY <1>1, <1>2, <1>3, <1>4, <1>5, <1>6 DEF Types

LEMMA LoopsTalk ==
  ASSUME CallInv, CallInv', OrderInv, Lending, Heeded, NEW p \in People, Loops(p)
  PROVE  Lending' /\ Heeded'
<1>1. CASE Opened(p)
  BY <1>1, OpenedLending, OpenedHeeded
<1>2. CASE CallEnded(p)
  BY <1>2, CallEndedLending, CallEndedHeeded
<1>3. ASSUME NEW c \in Conns, Arrives(p, c)
      PROVE  Lending' /\ Heeded'
  BY <1>3, ArrivesLending, ArrivesHeeded
<1>4. ASSUME NEW q \in People, SpokenTo(p, q)
      PROVE  Lending' /\ Heeded'
  BY <1>4, AnsweringLending, SpokenToHeeded
<1>5. ASSUME NEW q \in People, Lost(p, q)
      PROVE  Lending' /\ Heeded'
  <2>1. Lending'
    BY <1>5, LentOn
  <2> QED  BY <1>5, <2>1, LostHeeded
<1>6. ASSUME NEW q \in People, Stopped(p, q) \/ Ignored(p, q)
      PROVE  Lending' /\ Heeded'
  <2>1. Lending'
    BY <1>6, LentOn
  <2> QED  BY <1>6, <2>1, HushedHeeded
<1> QED  BY <1>1, <1>2, <1>3, <1>4, <1>5, <1>6 DEF Loops

LEMMA CallsTalk ==
  ASSUME CallInv, CallInv', OrderInv, Lending, Heeded, NEW p \in People, Calls(p)
  PROVE  Lending' /\ Heeded'
<1>1. CASE DialLands(p)
  BY <1>1, LandingLending, DialLandsHeeded
<1>2. CASE HearFirst(p)
  BY <1>2, CallLending, LinesOfCallHeeded
<1>3. CASE Hear(p)
  <2>1. Lending'
    BY <1>3, LentOn
  <2> QED  BY <1>3, <2>1, HearHeeded
<1>4. CASE GiveUpDialling(p) \/ ToldItIsOver(p) \/ HungUpOn(p)
  BY <1>4, CallLending, EndingHeeded
<1> QED  BY <1>1, <1>2, <1>3, <1>4 DEF Calls

LEMMA TalkNext ==
  ASSUME TalkInv, [Next]_vars
  PROVE  TalkInv'
<1>1. CallInv /\ OrderInv /\ Lending /\ Heeded /\ LinesInv' /\ CallInv'
  BY LinesNext DEF TalkInv, LinesInv
<1>2. CASE UNCHANGED vars
  <2>1. Lending'
    BY <1>1, <1>2, LentOn
  <2> QED  BY <1>1, <1>2, <2>1, StutterHeeded DEF TalkInv
<1>3. ASSUME NEW c \in Conns, Break(c)
      PROVE  Lending' /\ Heeded'
  <2>1. Lending'
    BY <1>1, <1>3, LentOn
  <2> QED  BY <1>1, <1>3, <2>1, BreakHeeded
<1>4. ASSUME NEW p \in People, Types(p) \/ Loops(p) \/ Calls(p)
      PROVE  Lending' /\ Heeded'
  BY <1>1, <1>4, TypesTalk, LoopsTalk, CallsTalk
<1>5. ASSUME NEW p \in People, Stranger(p) \/ Refused(p)
      PROVE  Lending' /\ Heeded'
  <2>1. Lending'
    BY <1>1, <1>5, LentOn
  <2> QED  BY <1>1, <1>5, <2>1, StrangersHeeded
<1>6. ASSUME NEW p \in People, Quit(p)
      PROVE  Lending' /\ Heeded'
  BY <1>1, <1>6, CallEndedLending, QuitHeeded
<1>7. ASSUME NEW p \in People, NEW q \in People, Reach(p, q)
      PROVE  Lending' /\ Heeded'
  BY <1>1, <1>7, LandingLending, ReachHeeded
<1>8. Next => Lending' /\ Heeded'
  BY <1>3, <1>4, <1>5, <1>6, <1>7 DEF Next
<1> QED  BY <1>1, <1>2, <1>8 DEF TalkInv

\* Whoever talks in a call when all is quiet is heard: the other one is in it,
\* or it rings at their phone.  Whatever was dialled, lost, declined, ended or
\* quit on the way, nobody goes on talking to nobody, however many people there
\* are: unless the two hold two connections, or one called while the other was
\* ringing, or a refusal found no connection to go out on.
\* (main.rs, the frame that opens a call; chat.rs run; pool.rs send)
THEOREM TalkersAreHeard == Spec => []NobodyTalksToNobody
<1>1. TalkInv => NobodyTalksToNobody
  <2> SUFFICES ASSUME TalkInv, Quiet, NEW p \in People, NEW q, q = phone[p].peer,
                      Talks(p), phone[p].spoke, Plain(p, q)
               PROVE  Reached(p, q)
    BY DEF NobodyTalksToNobody
  <2> DEFINE c == phone[p].conn
  <2>1. CallInv /\ OrderInv /\ Lending /\ Heeded /\ c # 0
    BY DEF TalkInv, LinesInv, CallInv, Phones, Talks
  <2>2. /\ c \in Conns /\ q \in People /\ Far(p, c) = q /\ <<p, c>> \in holds
    BY <2>1, CallConn
  <2>3. c \notin dead /\ <<q, c>> \in holds
    <3>1. \A h \in holds : Up(h[1], h[2])
      BY DEF Quiet
    <3>2. Up(p, c)
      BY <2>2, <3>1
    <3> QED  BY <2>2, <3>2 DEF Up
  <2>4. Calling(p, q, c)
    BY <2>3 DEF Calling, Talks
  <2>5. Heeds(p, q, c)
    BY <2>1, <2>2, <2>4 DEF Heeded
  <2>6. wire[c][p] = <<>> /\ wire[c][q] = <<>>
    BY <2>2 DEF Quiet, Silent
  <2>7. \/ phone[q].state = "talk" /\ phone[q].conn = c
        \/ ringing[q].peer = p
    BY <2>5, <2>6 DEF Heeds, Refuses
  <2>8. /\ phone[q].conn = c => phone[q].peer = p
        /\ ringing[q].peer = p => idle[q][p] = c
    BY <2>1, <2>2, <2>4, CalledHas
  <2> QED  BY <2>7, <2>8 DEF Reached
<1> QED  BY <1>1, TalkInit, TalkNext, PTL DEF Spec
=============================================================================
