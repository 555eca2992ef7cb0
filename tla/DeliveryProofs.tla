--------------------------- MODULE DeliveryProofs ---------------------------
(***************************************************************************)
(* That the state of Delivery keeps its type and its ceilings, and that no *)
(* message is shown twice to a recipient who did not forget its sender:    *)
(* for every number of messages, window and ceiling, and for any number of *)
(* broken connections, crashes, failed writes and deleted outboxes.  And,  *)
(* as long as files can be written and the outbox is not deleted, that no  *)
(* message is lost without a word, and none acknowledged that was not had: *)
(* but those the window gives up, overtaken by more than WINDOW later ones.*)
(* And when neither forgets the other, that they do what DeliveryPromise   *)
(* says.                                                                   *)
(***************************************************************************)
EXTENDS Delivery, SeenLemmas, SequenceTheorems

-----------------------------------------------------------------------------
(***************************************************************************)
(* Sequences over any set.                                                 *)
(***************************************************************************)
LEMMA PartOf ==
  ASSUME NEW S, NEW s \in Seq(S), NEW m \in Nat \ {0}, NEW n \in 0 .. Len(s)
  PROVE  /\ SubSeq(s, m, n) \in Seq(S)
         /\ Len(SubSeq(s, m, n)) = IF m <= n THEN n - m + 1 ELSE 0
<1>1. Len(s) \in Nat /\ \A i \in 1 .. Len(s) : s[i] \in S
  BY LenProperties, ElementOfSeq
<1>2. \A i \in m .. n : s[i] \in S
  BY <1>1
<1>3. QED
  BY <1>1, <1>2, SubSeqProperties

\* What has gone and what is left to go.
LEMMA SplitAt ==
  ASSUME NEW S, NEW s \in Seq(S), NEW n \in 0 .. Len(s)
  PROVE  SubSeq(s, 1, n) \in Seq(S) /\ SubSeq(s, n + 1, Len(s)) \in Seq(S)
<1>1. Len(s) \in Nat /\ n \in Nat
  BY LenProperties
<1>2. 1 \in Nat \ {0} /\ n + 1 \in Nat \ {0} /\ Len(s) \in 0 .. Len(s)
  BY <1>1
<1>3. SubSeq(s, 1, n) \in Seq(S)
  BY <1>2, PartOf
<1>4. SubSeq(s, n + 1, Len(s)) \in Seq(S)
  BY <1>2, PartOf
<1>5. QED
  BY <1>3, <1>4

LEMMA PrefixOf ==
  ASSUME NEW S, NEW s \in Seq(S), NEW p \in Prefixes(s)
  PROVE  p \in Seq(S)
<1>1. PICK l \in 0 .. Len(s) : p = SubSeq(s, 1, l)
  BY DEF Prefixes
<1>2. QED
  BY <1>1, PartOf

LEMMA ParkKeeps ==
  ASSUME NEW S, NEW held \in Seq(S), NEW frames \in Seq(S)
  PROVE  Park(held, frames) \in Seq(S) /\ Len(Park(held, frames)) <= WAITING
<1> DEFINE all == held \o frames
           n == IF Len(all) < WAITING THEN Len(all) ELSE WAITING
<1>1. all \in Seq(S) /\ Len(all) \in Nat
  BY ConcatProperties, LenProperties
<1>2. n \in 0 .. Len(all) /\ n <= WAITING
  BY <1>1, DeliveryAssumption
<1>3. SubSeq(all, 1, n) \in Seq(S) /\ Len(SubSeq(all, 1, n)) <= WAITING
  BY <1>1, <1>2, PartOf, DeliveryAssumption
<1>4. QED
  BY <1>3 DEF Park

\* RemoveAt at a position of the queue.
LEMMA RemoveAtKeeps ==
  ASSUME NEW S, NEW s \in Seq(S), NEW i \in 1 .. Len(s)
  PROVE  RemoveAt(s, i) \in Seq(S) /\ Len(RemoveAt(s, i)) <= Len(s)
<1> DEFINE a == SubSeq(s, 1, i - 1)
           b == SubSeq(s, i + 1, Len(s))
<1>1. Len(s) \in Nat /\ i \in Nat \ {0} /\ i <= Len(s)
  BY LenProperties
<1>2. a \in Seq(S) /\ Len(a) = i - 1
  BY <1>1, PartOf, i - 1 \in 0 .. Len(s)
<1>3. b \in Seq(S) /\ Len(b) = Len(s) - i
  BY <1>1, PartOf
<1>4. RemoveAt(s, i) = a \o b
  BY DEF RemoveAt
<1> HIDE DEF a, b
<1>5. a \o b \in Seq(S) /\ Len(a \o b) = Len(a) + Len(b)
  BY <1>2, <1>3, ConcatProperties
<1>6. Len(a) + Len(b) <= Len(s)
  BY <1>1, <1>2, <1>3
<1>7. QED
  BY <1>4, <1>5, <1>6

-----------------------------------------------------------------------------
(***************************************************************************)
(* What a frame may be: a message under the id it was given.  Everything   *)
(* the sender holds or has on the wire is of this kind.                    *)
(***************************************************************************)
Genuine(ids) == {m \in Message : ids[m.body] = m.id}

\* A fault that could strike has struck.
LEMMA SpendKeeps ==
  ASSUME NEW purse \in [FaultKinds -> Nat], NEW kind \in FaultKinds, purse[kind] > 0
  PROVE  LET spent == [purse EXCEPT ![kind] = @ - 1]
         IN  /\ spent \in [FaultKinds -> Nat]
             /\ \A k \in FaultKinds : spent[k] <= purse[k]
             /\ \A k \in FaultKinds : k # kind => spent[k] = purse[k]
             /\ spent[kind] = purse[kind] - 1
<1> DEFINE spent == [purse EXCEPT ![kind] = @ - 1]
<1>1. /\ spent = [k \in FaultKinds |-> spent[k]]
      /\ \A k \in FaultKinds : spent[k] = IF k = kind THEN purse[k] - 1 ELSE purse[k]
  OBVIOUS
<1>2. \A k \in FaultKinds : purse[k] \in Nat
  OBVIOUS
<1>3. purse[kind] - 1 \in Nat
  BY <1>2
<1> HIDE DEF spent
<1>4. \A k \in FaultKinds : spent[k] \in Nat /\ spent[k] <= purse[k]
  BY <1>1, <1>2, <1>3
<1>5. spent \in [FaultKinds -> Nat]
  BY <1>1, <1>4
<1>6. QED
  BY <1>1, <1>4, <1>5 DEF spent

\* Frames put on the connection stay what they are, whatever part of them goes.
LEMMA SendLeftKeeps ==
  ASSUME NEW S, left \in Seq(S), got \in Seq(Nat), up \in BOOLEAN,
         budget \in [FaultKinds -> Nat],
         NEW held \in Seq(S), Len(held) <= WAITING,
         NEW first \in Seq(S), NEW frames \in Seq(S),
         SendLeft(held, first, frames)
  PROVE  /\ left' \in Seq(S) /\ got' \in Seq(Nat) /\ up' \in BOOLEAN
         /\ parkedLeft' \in Seq(S) /\ Len(parkedLeft') <= WAITING
         /\ budget' \in [FaultKinds -> Nat]
         /\ budget'["forgetR"] = budget["forgetR"]
<1>1. CASE /\ up
           /\ left' = left \o first \o frames /\ got' = got
           /\ parkedLeft' = held
           /\ budget' = budget /\ UNCHANGED up
  BY <1>1, ConcatProperties
<1>2. CASE /\ up /\ budget["break"] > 0
           /\ \E n \in 0 .. Len(frames) - 1 :
                /\ left' \in Prefixes(left \o first \o SubSeq(frames, 1, n))
                /\ parkedLeft' = Park(held, SubSeq(frames, n + 1, Len(frames)))
           /\ got' \in Prefixes(got)
           /\ up' = FALSE
           /\ budget' = [budget EXCEPT !["break"] = @ - 1]
  <2>1. PICK n \in 0 .. Len(frames) - 1 :
                /\ left' \in Prefixes(left \o first \o SubSeq(frames, 1, n))
                /\ parkedLeft' = Park(held, SubSeq(frames, n + 1, Len(frames)))
    BY <1>2
  <2>2. Len(frames) \in Nat /\ n \in Nat /\ n \in 0 .. Len(frames)
    BY LenProperties
  <2>3. SubSeq(frames, 1, n) \in Seq(S) /\ SubSeq(frames, n + 1, Len(frames)) \in Seq(S)
    BY <2>2, SplitAt
  <2>4. left \o first \o SubSeq(frames, 1, n) \in Seq(S)
    BY <2>3, ConcatProperties
  <2>5. left' \in Seq(S) /\ got' \in Seq(Nat)
    BY <1>2, <2>1, <2>4, PrefixOf
  <2>6. parkedLeft' \in Seq(S) /\ Len(parkedLeft') <= WAITING
    BY <2>1, <2>3, ParkKeeps
  <2>7. budget' \in [FaultKinds -> Nat] /\ budget'["forgetR"] = budget["forgetR"]
    BY <1>2, SpendKeeps, "break" \in FaultKinds, "forgetR" \in FaultKinds DEF FaultKinds
  <2>8. QED
    BY <1>2, <2>5, <2>6, <2>7
<1>3. CASE /\ ~ up
           /\ \E n \in 0 .. Len(frames) :
                parkedLeft' = Park(held, SubSeq(frames, n + 1, Len(frames)))
           /\ got' = got
           /\ budget' = budget /\ UNCHANGED <<up, left>>
  <2>1. PICK n \in 0 .. Len(frames) :
                parkedLeft' = Park(held, SubSeq(frames, n + 1, Len(frames)))
    BY <1>3
  <2>2. Len(frames) \in Nat /\ n \in Nat
    BY LenProperties
  <2>3. SubSeq(frames, n + 1, Len(frames)) \in Seq(S)
    BY <2>2, SplitAt
  <2>4. QED
    BY <1>3, <2>1, <2>3, ParkKeeps
<1>4. QED
  BY <1>1, <1>2, <1>3 DEF SendLeft, Transmit

\* The same for acknowledgements, with what the recipient has yet to read.
LEMMA SendGotKeeps ==
  ASSUME NEW S, NEW T, NEW rest \in Seq(S), got \in Seq(T), up \in BOOLEAN,
         NEW purse \in [FaultKinds -> Nat],
         NEW held \in Seq(T), Len(held) <= WAITING,
         NEW first \in Seq(T), NEW frames \in Seq(T),
         SendGot(rest, held, first, frames, purse)
  PROVE  /\ got' \in Seq(T) /\ left' \in Seq(S) /\ up' \in BOOLEAN
         /\ parkedGot' \in Seq(T) /\ Len(parkedGot') <= WAITING
         /\ budget' \in [FaultKinds -> Nat]
         /\ budget'["forgetR"] = purse["forgetR"]
<1>1. CASE /\ up
           /\ got' = got \o first \o frames /\ left' = rest
           /\ parkedGot' = held
           /\ budget' = purse /\ UNCHANGED up
  BY <1>1, ConcatProperties
<1>2. CASE /\ up /\ purse["break"] > 0
           /\ \E n \in 0 .. Len(frames) - 1 :
                /\ got' \in Prefixes(got \o first \o SubSeq(frames, 1, n))
                /\ parkedGot' = Park(held, SubSeq(frames, n + 1, Len(frames)))
           /\ left' \in Prefixes(rest)
           /\ up' = FALSE
           /\ budget' = [purse EXCEPT !["break"] = @ - 1]
  <2>1. PICK n \in 0 .. Len(frames) - 1 :
                /\ got' \in Prefixes(got \o first \o SubSeq(frames, 1, n))
                /\ parkedGot' = Park(held, SubSeq(frames, n + 1, Len(frames)))
    BY <1>2
  <2>2. Len(frames) \in Nat /\ n \in Nat /\ n \in 0 .. Len(frames)
    BY LenProperties
  <2>3. SubSeq(frames, 1, n) \in Seq(T) /\ SubSeq(frames, n + 1, Len(frames)) \in Seq(T)
    BY <2>2, SplitAt
  <2>4. got \o first \o SubSeq(frames, 1, n) \in Seq(T)
    BY <2>3, ConcatProperties
  <2>5. got' \in Seq(T) /\ left' \in Seq(S)
    BY <1>2, <2>1, <2>4, PrefixOf
  <2>6. parkedGot' \in Seq(T) /\ Len(parkedGot') <= WAITING
    BY <2>1, <2>3, ParkKeeps
  <2>7. budget' \in [FaultKinds -> Nat] /\ budget'["forgetR"] = purse["forgetR"]
    BY <1>2, SpendKeeps, "break" \in FaultKinds, "forgetR" \in FaultKinds DEF FaultKinds
  <2>8. QED
    BY <1>2, <2>5, <2>6, <2>7
<1>3. CASE /\ ~ up
           /\ \E n \in 0 .. Len(frames) :
                parkedGot' = Park(held, SubSeq(frames, n + 1, Len(frames)))
           /\ left' = rest
           /\ budget' = purse /\ UNCHANGED <<up, got>>
  <2>1. PICK n \in 0 .. Len(frames) :
                parkedGot' = Park(held, SubSeq(frames, n + 1, Len(frames)))
    BY <1>3
  <2>2. Len(frames) \in Nat /\ n \in Nat
    BY LenProperties
  <2>3. SubSeq(frames, n + 1, Len(frames)) \in Seq(T)
    BY <2>2, SplitAt
  <2>4. QED
    BY <1>3, <2>1, <2>3, ParkKeeps
<1>4. QED
  BY <1>1, <1>2, <1>3 DEF SendGot, Transmit

-----------------------------------------------------------------------------
(***************************************************************************)
(* The inductive invariant.  WireInv: every frame anywhere is genuine, and *)
(* every queue is within its ceiling.  MarkInv: the mark on disk is never  *)
(* ahead of the one in memory, and a message the mark on disk does not     *)
(* have was shown once less than AtMostOnce allows - which is why showing  *)
(* it once more, with the mark written first, is always allowed.           *)
(***************************************************************************)
WireInv ==
  /\ outbox \in OutboxType /\ outboxFile \in OutboxType
  /\ Len(outbox.queued) <= MAX_WAITING /\ Len(outboxFile.queued) <= MAX_WAITING
  /\ outbox.queued \in Seq(Genuine(idOf)) /\ outboxFile.queued \in Seq(Genuine(idOf))
  /\ parkedLeft \in Seq(Genuine(idOf)) /\ Len(parkedLeft) <= WAITING
  /\ left \in Seq(Genuine(idOf))
  /\ parkedGot \in Seq(Nat) /\ Len(parkedGot) <= WAITING
  /\ got \in Seq(Nat)
  /\ filed \in [Sides -> BOOLEAN]
  /\ link \in [Sides -> {"none", "landed", "held"}]
  /\ up \in BOOLEAN
  /\ budget \in [FaultKinds -> Nat]
  /\ idOf \in [Bodies -> Nat \cup {NoId}]
  /\ cut \subseteq Bodies /\ givenUp \subseteq Bodies

Marked(s) == Settled(s) /\ Cardinality(s.above) <= WINDOW

FileBehind == \A n \in Nat : Has(seenFile, n) => Has(seen, n)

NotYetShown ==
  \A b \in Bodies :
    /\ b \notin Written => copies[b] = 0
    /\ b \in Written /\ ~ Has(seenFile, idOf[b]) => copies[b] <= Forgotten

MarkInv ==
  /\ copies \in [Bodies -> Nat]
  /\ Marked(seen) /\ Marked(seenFile)
  /\ FileBehind
  /\ budget["forgetR"] <= Budget["forgetR"]
  /\ NotYetShown
  /\ AtMostOnce

IInv == WireInv /\ MarkInv

\* Ids given later change nothing about the messages already on their way.
LEMMA GenuineStays ==
  ASSUME NEW ids \in [Bodies -> Nat \cup {NoId}], NEW b \in Bodies, ids[b] = NoId,
         NEW n \in Nat, NEW s \in Seq(Genuine(ids))
  PROVE  s \in Seq(Genuine([ids EXCEPT ![b] = n]))
<1>1. Genuine(ids) \subseteq Genuine([ids EXCEPT ![b] = n])
  BY DEF Genuine, Message, NoId
<1>2. QED
  BY <1>1, SeqMonotonic

\* A frame is a message, and its id is the number its body was given.
LEMMA GenuineIs ==
  ASSUME NEW ids
  PROVE  /\ Genuine(ids) \subseteq Message
         /\ \A m \in Genuine(ids) : m.id \in Nat /\ m.body \in Bodies /\ ids[m.body] = m.id
  BY DEF Genuine, Message

LEMMA BodiesOfKeeps ==
  ASSUME NEW queue \in Seq(Message)
  PROVE  BodiesOf(queue) \subseteq Bodies
<1>1. \A i \in DOMAIN queue : queue[i] \in Message
  BY LenProperties, ElementOfSeq
<1>2. QED
  BY <1>1 DEF BodiesOf, Message

LEMMA EmptyIsSeq == \A S : <<>> \in Seq(S) /\ Len(<<>>) = 0
  BY EmptySeq

\* Outbox::queue keeps the ceiling, and numbers the new message with next.
LEMMA QueueKeeps ==
  ASSUME NEW box \in OutboxType, Len(box.queued) <= MAX_WAITING,
         NEW ids \in [Bodies -> Nat \cup {NoId}], NEW b \in Bodies, ids[b] = NoId,
         box.queued \in Seq(Genuine(ids))
  PROVE  /\ Queue(box, b) \in OutboxType
         /\ Len(Queue(box, b).queued) <= MAX_WAITING
         /\ Queue(box, b).queued \in Seq(Genuine([ids EXCEPT ![b] = box.next]))
<1> DEFINE after == [ids EXCEPT ![b] = box.next]
           new == [id |-> box.next, body |-> b]
           all == Append(box.queued, new)
           over == IF Len(all) > MAX_WAITING THEN Len(all) - MAX_WAITING ELSE 0
           kept == SubSeq(all, over + 1, Len(all))
<1>1. box.next \in Nat
  BY DEF OutboxType
<1>2. new \in Genuine(after)
  BY <1>1 DEF Genuine, Message
<1>3. box.queued \in Seq(Genuine(after))
  BY <1>1, GenuineStays
<1>4. all \in Seq(Genuine(after)) /\ Len(all) \in Nat
  BY <1>2, <1>3, AppendProperties, LenProperties
<1>5. over \in Nat /\ over + 1 \in Nat \ {0}
  BY <1>4, DeliveryAssumption
<1>6. /\ kept \in Seq(Genuine(after))
      /\ Len(kept) = IF over + 1 <= Len(all) THEN Len(all) - over ELSE 0
  BY <1>4, <1>5, PartOf
<1>7. Len(kept) <= MAX_WAITING
  BY <1>4, <1>6, DeliveryAssumption
<1>8. kept \in Seq(Message)
  BY <1>6, GenuineIs, SeqMonotonic
<1>9. Queue(box, b) = [queued |-> kept, next |-> box.next + 1]
  BY DEF Queue
<1> HIDE DEF kept
<1>10. QED
  BY <1>1, <1>6, <1>7, <1>8, <1>9 DEF OutboxType

\* Outbox::delivered takes one message out, or none.
LEMMA DeliveredKeeps ==
  ASSUME NEW box \in OutboxType, Len(box.queued) <= MAX_WAITING,
         NEW ids, box.queued \in Seq(Genuine(ids)), NEW id \in Nat
  PROVE  /\ Delivered(box, id) \in OutboxType
         /\ Len(Delivered(box, id).queued) <= MAX_WAITING
         /\ Delivered(box, id).queued \in Seq(Genuine(ids))
<1>1. CASE \E i \in DOMAIN box.queued : box.queued[i].id = id
  <2> DEFINE first == PositionOf(box.queued, id)
             rest == RemoveAt(box.queued, first)
  <2>1. Len(box.queued) \in Nat /\ DOMAIN box.queued = 1 .. Len(box.queued)
    BY LenProperties
  <2>2. first \in DOMAIN box.queued
    <3> DEFINE T == {i \in DOMAIN box.queued : box.queued[i].id = id}
    <3>1. T \in SUBSET Nat /\ T # {}
      BY <1>1, <2>1
    <3>2. PICK i \in T : \A j \in T : i <= j
      BY <3>1, LeastNatural
    <3>3. \A j \in 1 .. i - 1 : box.queued[j].id # id
      BY <2>1, <3>2
    <3>4. QED
      BY <3>2, <3>3 DEF PositionOf
  <2>3. rest \in Seq(Genuine(ids)) /\ Len(rest) <= Len(box.queued)
    BY <2>1, <2>2, RemoveAtKeeps
  <2>4. rest \in Seq(Message) /\ Len(rest) \in Nat
    BY <2>3, GenuineIs, SeqMonotonic, LenProperties
  <2>5. Delivered(box, id) = [queued |-> rest, next |-> box.next]
    BY <1>1 DEF Delivered
  <2> HIDE DEF rest
  <2>6. QED
    BY <2>1, <2>3, <2>4, <2>5, DeliveryAssumption DEF OutboxType
<1>2. CASE ~ \E i \in DOMAIN box.queued : box.queued[i].id = id
  BY <1>2 DEF Delivered
<1>3. QED
  BY <1>1, <1>2

LEMMA StartMarked == Marked(StartingAt(0))
<1>1. StartingAt(0) \in SeenType /\ StartingAt(0).above = {}
  BY DEF StartingAt, SeenType
<1>2. QED
  BY <1>1, FS_EmptySet, WindowAssumption DEF Marked, Settled

LEMMA InitIInv == Init => IInv
<1> SUFFICES ASSUME Init PROVE IInv
  OBVIOUS
<1>1. outbox \in OutboxType /\ outboxFile \in OutboxType
  BY EmptyIsSeq DEF Init, OutboxType
<1>2. WireInv
  <2>1. \A S : outbox.queued \in Seq(S) /\ outboxFile.queued \in Seq(S)
                /\ parkedLeft \in Seq(S) /\ parkedGot \in Seq(S)
                /\ left \in Seq(S) /\ got \in Seq(S)
    BY EmptyIsSeq DEF Init
  <2>2. /\ Len(outbox.queued) = 0 /\ Len(outboxFile.queued) = 0
        /\ Len(parkedLeft) = 0 /\ Len(parkedGot) = 0
    BY EmptyIsSeq DEF Init
  <2>3. /\ filed \in [Sides -> BOOLEAN]
        /\ link \in [Sides -> {"none", "landed", "held"}]
        /\ up \in BOOLEAN /\ budget \in [FaultKinds -> Nat]
        /\ idOf \in [Bodies -> Nat \cup {NoId}]
        /\ cut \subseteq Bodies /\ givenUp \subseteq Bodies
    BY DeliveryAssumption DEF Init
  <2>4. QED
    BY <1>1, <2>1, <2>2, <2>3, DeliveryAssumption DEF WireInv
<1>3. Marked(seen) /\ Marked(seenFile)
  BY StartMarked DEF Init
<1>4. Forgotten = 0 /\ budget["forgetR"] <= Budget["forgetR"]
  BY DeliveryAssumption DEF Init, Forgotten, FaultKinds
<1>5. MarkInv
  BY <1>3, <1>4 DEF Init, MarkInv, FileBehind, NotYetShown, AtMostOnce
<1>6. QED
  BY <1>2, <1>5 DEF IInv

-----------------------------------------------------------------------------
(***************************************************************************)
(* Every action keeps WireInv, and only RecipientForgets spends a /forget. *)
(***************************************************************************)
\* What follows from WireInv for the frames and ids a step handles.
LEMMA WireFacts ==
  ASSUME WireInv
  PROVE  /\ Genuine(idOf) \subseteq Message
         /\ outbox.queued \in Seq(Message) /\ outbox.next \in Nat
         /\ BodiesOf(outbox.queued) \subseteq Bodies
         /\ left # <<>> => /\ Head(left) \in Genuine(idOf)
                           /\ Head(left).id \in Nat /\ Head(left).body \in Bodies
                           /\ idOf[Head(left).body] = Head(left).id
                           /\ Tail(left) \in Seq(Genuine(idOf))
         /\ got # <<>> => Head(got) \in Nat /\ Tail(got) \in Seq(Nat)
<1>1. Genuine(idOf) \subseteq Message
  BY GenuineIs
<1>2. outbox.queued \in Seq(Message) /\ outbox.next \in Nat
  BY DEF WireInv, OutboxType
<1>3. left # <<>> => Head(left) \in Genuine(idOf) /\ Tail(left) \in Seq(Genuine(idOf))
  BY HeadTailProperties DEF WireInv
<1>4. got # <<>> => Head(got) \in Nat /\ Tail(got) \in Seq(Nat)
  BY HeadTailProperties DEF WireInv
<1>5. QED
  BY <1>1, <1>2, <1>3, <1>4, GenuineIs, BodiesOfKeeps

\* The prefixes a broken connection leaves of either stream.
LEMMA RemainsOf ==
  ASSUME WireInv
  PROVE  /\ \A p \in Prefixes(left) : p \in Seq(Genuine(idOf))
         /\ \A p \in Prefixes(got) : p \in Seq(Nat)
  BY PrefixOf DEF WireInv

LEMMA StrikesKeeps ==
  ASSUME WireInv, NEW kind \in FaultKinds, Strikes(kind)
  PROVE  /\ budget' \in [FaultKinds -> Nat]
         /\ kind # "forgetR" => budget'["forgetR"] = budget["forgetR"]
         /\ kind = "forgetR" => budget'["forgetR"] = budget["forgetR"] - 1
  BY SpendKeeps, "forgetR" \in FaultKinds DEF WireInv, Strikes, Afford, Spend, FaultKinds

\* Frames dropped with the connection: nothing is parked.
LEMMA NoFrames == \A S : <<>> \in Seq(S) /\ Len(<<>>) <= WAITING
  BY EmptyIsSeq, DeliveryAssumption

LEMMA TellKeptWire ==
  ASSUME WireInv, NEW b \in Bodies, TellKept(b)
  PROVE  WireInv' /\ budget'["forgetR"] = budget["forgetR"]
<1> DEFINE box == Queue(outbox, b)
<1>1. idOf[b] = NoId /\ idOf' = [idOf EXCEPT ![b] = outbox.next]
  BY DEF TellKept, Written
<1>2. outbox.next \in Nat /\ idOf' \in [Bodies -> Nat \cup {NoId}]
  BY <1>1, WireFacts DEF WireInv
<1>3. /\ box \in OutboxType /\ Len(box.queued) <= MAX_WAITING
      /\ box.queued \in Seq(Genuine(idOf'))
  BY <1>1, QueueKeeps DEF WireInv
<1>4. parkedLeft \in Seq(Genuine(idOf')) /\ left \in Seq(Genuine(idOf'))
  BY <1>1, <1>2, GenuineStays DEF WireInv
<1>5. /\ left' \in Seq(Genuine(idOf')) /\ got' \in Seq(Nat) /\ up' \in BOOLEAN
      /\ parkedLeft' \in Seq(Genuine(idOf')) /\ Len(parkedLeft') <= WAITING
      /\ budget' \in [FaultKinds -> Nat] /\ budget'["forgetR"] = budget["forgetR"]
  <2>1. CASE link["sender"] = "held"
    <3>1. SendLeft(parkedLeft, <<>>, box.queued)
      BY <2>1 DEF TellKept
    <3>2. /\ got \in Seq(Nat) /\ up \in BOOLEAN /\ budget \in [FaultKinds -> Nat]
          /\ Len(parkedLeft) <= WAITING /\ <<>> \in Seq(Genuine(idOf'))
      BY EmptyIsSeq DEF WireInv
    <3> HIDE DEF box
    <3>3. QED
      BY <1>3, <1>4, <3>1, <3>2, SendLeftKeeps DEF SendLeft, Transmit
  <2>2. CASE link["sender"] # "held"
    BY <1>4, <2>2 DEF TellKept, WireInv
  <2>3. QED
    BY <2>1, <2>2
<1>6. givenUp' \subseteq Bodies
  BY WireFacts DEF TellKept, WireInv
<1>7. outbox' = box /\ outboxFile' = box
  BY DEF TellKept
<1>8. UNCHANGED <<parkedGot, filed, link, cut>>
  BY DEF TellKept
<1> HIDE DEF box
<1>9. QED
  BY <1>2, <1>3, <1>5, <1>6, <1>7, <1>8 DEF WireInv

LEMMA TellUnsavedWire ==
  ASSUME WireInv, NEW b \in Bodies, TellUnsaved(b)
  PROVE  WireInv' /\ budget'["forgetR"] = budget["forgetR"]
<1> DEFINE box == Queue(outbox, b)
<1>1. idOf[b] = NoId /\ idOf' = [idOf EXCEPT ![b] = outbox.next]
  BY DEF TellUnsaved, Written
<1>2. outbox.next \in Nat /\ idOf' \in [Bodies -> Nat \cup {NoId}]
  BY <1>1, WireFacts DEF WireInv
<1>3. /\ box \in OutboxType /\ Len(box.queued) <= MAX_WAITING
      /\ box.queued \in Seq(Genuine(idOf'))
  BY <1>1, QueueKeeps DEF WireInv
<1>4. /\ parkedLeft \in Seq(Genuine(idOf')) /\ left \in Seq(Genuine(idOf'))
      /\ outboxFile.queued \in Seq(Genuine(idOf'))
  BY <1>1, <1>2, GenuineStays DEF WireInv
<1>5. budget' \in [FaultKinds -> Nat] /\ budget'["forgetR"] = budget["forgetR"]
  BY StrikesKeeps DEF TellUnsaved, FaultKinds
<1>6. outbox' = box /\ givenUp' = givenUp \cup {b}
  BY DEF TellUnsaved
<1>7. UNCHANGED <<outboxFile, parkedLeft, parkedGot, filed, link, up, left, got, cut>>
  BY DEF TellUnsaved, wireVars
<1> HIDE DEF box
<1>8. QED
  BY <1>2, <1>3, <1>4, <1>5, <1>6, <1>7 DEF WireInv

LEMMA SenderKeepsWire ==
  ASSUME WireInv, SenderKeeps
  PROVE  WireInv' /\ budget'["forgetR"] = budget["forgetR"]
<1>1. SendLeft(<<>>, parkedLeft, outbox.queued)
  BY DEF SenderKeeps
<1>2. /\ left \in Seq(Genuine(idOf)) /\ got \in Seq(Nat) /\ up \in BOOLEAN
      /\ budget \in [FaultKinds -> Nat]
      /\ <<>> \in Seq(Genuine(idOf)) /\ Len(<<>>) <= WAITING
      /\ parkedLeft \in Seq(Genuine(idOf)) /\ outbox.queued \in Seq(Genuine(idOf))
  BY EmptyIsSeq, DeliveryAssumption DEF WireInv
<1>3. /\ left' \in Seq(Genuine(idOf)) /\ got' \in Seq(Nat) /\ up' \in BOOLEAN
      /\ parkedLeft' \in Seq(Genuine(idOf)) /\ Len(parkedLeft') <= WAITING
      /\ budget' \in [FaultKinds -> Nat] /\ budget'["forgetR"] = budget["forgetR"]
  BY <1>1, <1>2, SendLeftKeeps DEF SendLeft, Transmit
<1>4. link' \in [Sides -> {"none", "landed", "held"}]
  BY DEF SenderKeeps, WireInv
<1>5. UNCHANGED <<outbox, outboxFile, parkedGot, filed, idOf, cut, givenUp>>
  BY DEF SenderKeeps, senderVars, historyVars
<1>6. QED
  BY <1>3, <1>4, <1>5 DEF WireInv

LEMMA HandleGotWire ==
  ASSUME WireInv, HandleGot
  PROVE  WireInv' /\ budget'["forgetR"] = budget["forgetR"]
<1>1. Head(got) \in Nat /\ got' \in Seq(Nat)
  BY WireFacts DEF HandleGot
<1>2. /\ outbox' \in OutboxType /\ Len(outbox'.queued) <= MAX_WAITING
      /\ outbox'.queued \in Seq(Genuine(idOf))
  BY <1>1, DeliveredKeeps DEF HandleGot, WireInv
<1>3. outboxFile' = outboxFile \/ outboxFile' = outbox'
  BY DEF HandleGot
<1>4. budget' \in [FaultKinds -> Nat] /\ budget'["forgetR"] = budget["forgetR"]
  BY StrikesKeeps DEF HandleGot, WireInv, FaultKinds
<1>5. UNCHANGED <<parkedLeft, parkedGot, filed, link, up, left, idOf, cut, givenUp>>
  BY DEF HandleGot, historyVars
<1>6. QED
  BY <1>1, <1>2, <1>3, <1>4, <1>5 DEF WireInv

\* Putting acknowledgements on the wire, whoever's turn it was to be read.
LEMMA SendGotWire ==
  ASSUME WireInv, NEW rest \in Seq(Genuine(idOf)), NEW purse \in [FaultKinds -> Nat],
         NEW held \in Seq(Nat), Len(held) <= WAITING,
         NEW first \in Seq(Nat), NEW frames \in Seq(Nat),
         SendGot(rest, held, first, frames, purse),
         UNCHANGED <<outbox, outboxFile, parkedLeft, filed, idOf, cut, givenUp>>,
         link' \in [Sides -> {"none", "landed", "held"}]
  PROVE  WireInv' /\ budget'["forgetR"] = purse["forgetR"]
<1>1. got \in Seq(Nat) /\ up \in BOOLEAN
  BY DEF WireInv
<1>2. /\ got' \in Seq(Nat) /\ left' \in Seq(Genuine(idOf)) /\ up' \in BOOLEAN
      /\ parkedGot' \in Seq(Nat) /\ Len(parkedGot') <= WAITING
      /\ budget' \in [FaultKinds -> Nat] /\ budget'["forgetR"] = purse["forgetR"]
  BY <1>1, SendGotKeeps DEF SendGot, Transmit
<1>3. QED
  BY <1>2 DEF WireInv

LEMMA RecipientKeepsWire ==
  ASSUME WireInv, RecipientKeeps
  PROVE  WireInv' /\ budget'["forgetR"] = budget["forgetR"]
<1>1. SendGot(left, <<>>, parkedGot, <<>>, budget)
  BY DEF RecipientKeeps
<1>2. /\ left \in Seq(Genuine(idOf)) /\ budget \in [FaultKinds -> Nat]
      /\ <<>> \in Seq(Nat) /\ Len(<<>>) <= WAITING /\ parkedGot \in Seq(Nat)
  BY EmptyIsSeq, DeliveryAssumption DEF WireInv
<1>3. link' \in [Sides -> {"none", "landed", "held"}]
  BY DEF RecipientKeeps, WireInv
<1>4. UNCHANGED <<outbox, outboxFile, parkedLeft, filed, idOf, cut, givenUp>>
  BY DEF RecipientKeeps, senderVars, historyVars
<1>5. QED
  BY <1>1, <1>2, <1>3, <1>4, SendGotWire DEF SendGot, Transmit

\* The end of every Left from a contact.
LEMMA AcknowledgeWire ==
  ASSUME WireInv, left # <<>>, NEW purse \in [FaultKinds -> Nat], Acknowledge(purse),
         UNCHANGED <<outbox, outboxFile, parkedLeft, filed, link, idOf, cut, givenUp>>
  PROVE  WireInv' /\ budget'["forgetR"] = purse["forgetR"]
<1>1. /\ Tail(left) \in Seq(Genuine(idOf)) /\ Head(left).id \in Nat
      /\ parkedGot \in Seq(Nat) /\ Len(parkedGot) <= WAITING
      /\ <<>> \in Seq(Nat) /\ <<Head(left).id>> \in Seq(Nat)
  BY WireFacts, EmptyIsSeq DEF WireInv
<1>2. link' \in [Sides -> {"none", "landed", "held"}]
  BY DEF WireInv
<1>3. SendGot(Tail(left), parkedGot, <<>>, <<Head(left).id>>, purse)
  BY DEF Acknowledge
<1>4. QED
  BY <1>1, <1>2, <1>3, SendGotWire DEF SendGot, Transmit

LEMMA ShowLeftWire ==
  ASSUME WireInv, ShowLeft \/ RepeatLeft
  PROVE  WireInv' /\ budget'["forgetR"] = budget["forgetR"]
<1>1. left # <<>> /\ budget \in [FaultKinds -> Nat] /\ Acknowledge(budget)
  BY DEF ShowLeft, RepeatLeft, NextLeft, WireInv
<1>2. UNCHANGED <<outbox, outboxFile, parkedLeft, filed, link, idOf, cut, givenUp>>
  BY DEF ShowLeft, RepeatLeft, senderVars, historyVars
<1>3. QED
  BY <1>1, <1>2, AcknowledgeWire DEF Acknowledge, SendGot, Transmit

LEMMA FailToRecordLeftWire ==
  ASSUME WireInv, FailToRecordLeft
  PROVE  WireInv' /\ budget'["forgetR"] = budget["forgetR"]
<1>1. left # <<>> /\ Acknowledge(Spend("saveR"))
  BY DEF FailToRecordLeft, NextLeft
<1>2. /\ Spend("saveR") \in [FaultKinds -> Nat]
      /\ Spend("saveR")["forgetR"] = budget["forgetR"]
  BY SpendKeeps, "saveR" \in FaultKinds, "forgetR" \in FaultKinds
     DEF FailToRecordLeft, Afford, Spend, WireInv, FaultKinds
<1>3. UNCHANGED <<outbox, outboxFile, parkedLeft, filed, link, idOf, cut, givenUp>>
  BY DEF FailToRecordLeft, senderVars, historyVars
<1>4. QED
  BY <1>1, <1>2, <1>3, AcknowledgeWire DEF Acknowledge, SendGot, Transmit

\* Every other action that leaves the count of /forget at the recipient alone.
OtherSteps ==
  \/ TellElsewhere \/ SenderRefuses \/ SenderNotices
  \/ RecipientRefuses \/ RecipientNotices \/ StrangersLeft \/ Connect \/ Break
  \/ SenderRestarts \/ OutboxDeleted \/ RecipientRestarts \/ RecipientKilledInHand
  \/ SenderForgets \/ SenderFiles \/ RecipientFiles

LEMMA OtherWire ==
  ASSUME WireInv, OtherSteps
  PROVE  WireInv' /\ budget'["forgetR"] = budget["forgetR"]
<1> USE DEF senderVars, receiverVars, wireVars, historyVars
<1>1. CASE TellElsewhere
  <2>1. budget' \in [FaultKinds -> Nat] /\ budget'["forgetR"] = budget["forgetR"]
    BY <1>1, StrikesKeeps DEF TellElsewhere, FaultKinds
  <2>2. outbox' \in OutboxType
    BY <1>1 DEF TellElsewhere, WireInv, OutboxType
  <2>3. outbox'.queued = outbox.queued /\ outboxFile' = outbox'
    BY <1>1 DEF TellElsewhere
  <2>4. QED
    BY <1>1, <2>1, <2>2, <2>3 DEF TellElsewhere, WireInv
<1>2. CASE SenderRefuses
  BY <1>2, RemainsOf, EmptyIsSeq DEF SenderRefuses, WireInv
<1>3. CASE SenderNotices \/ RecipientNotices
  BY <1>3 DEF SenderNotices, RecipientNotices, Notice, WireInv
<1>4. CASE RecipientRefuses
  BY <1>4, RemainsOf, EmptyIsSeq DEF RecipientRefuses, WireInv
<1>5. CASE StrangersLeft
  BY <1>5, WireFacts DEF StrangersLeft, WireInv
<1>6. CASE Connect
  BY <1>6, EmptyIsSeq DEF Connect, WireInv
<1>7. CASE Break
  <2>1. budget' \in [FaultKinds -> Nat] /\ budget'["forgetR"] = budget["forgetR"]
    BY <1>7, StrikesKeeps DEF Break, FaultKinds
  <2>2. QED
    BY <1>7, <2>1, RemainsOf DEF Break, WireInv
<1>8. CASE SenderRestarts
  <2>1. budget' \in [FaultKinds -> Nat] /\ budget'["forgetR"] = budget["forgetR"]
    BY <1>8, StrikesKeeps DEF SenderRestarts, FaultKinds
  <2>2. QED
    BY <1>8, <2>1, RemainsOf, NoFrames DEF SenderRestarts, WireInv
<1>9. CASE OutboxDeleted
  <2>1. budget' \in [FaultKinds -> Nat] /\ budget'["forgetR"] = budget["forgetR"]
    BY <1>9, StrikesKeeps DEF OutboxDeleted, FaultKinds
  <2>2. /\ outbox' \in OutboxType /\ outbox'.queued = <<>> /\ outboxFile' = outbox'
        /\ \A S : outbox'.queued \in Seq(S)
        /\ Len(outbox'.queued) <= MAX_WAITING
    BY <1>9, EmptyIsSeq, DeliveryAssumption DEF OutboxDeleted, OutboxType
  <2>3. givenUp' \subseteq Bodies
    BY <1>9, WireFacts DEF OutboxDeleted, WireInv
  <2>4. QED
    BY <1>9, <2>1, <2>2, <2>3, RemainsOf, NoFrames
       DEF OutboxDeleted, WireInv
<1>10. CASE RecipientRestarts
  <2>1. budget' \in [FaultKinds -> Nat] /\ budget'["forgetR"] = budget["forgetR"]
    BY <1>10, StrikesKeeps DEF RecipientRestarts, RecipientStops, FaultKinds
  <2>2. QED
    BY <1>10, <2>1, RemainsOf, NoFrames
       DEF RecipientRestarts, RecipientStops, WireInv
<1>11. CASE RecipientKilledInHand
  <2>1. budget' \in [FaultKinds -> Nat] /\ budget'["forgetR"] = budget["forgetR"]
    BY <1>11, StrikesKeeps DEF RecipientKilledInHand, RecipientStops, FaultKinds
  <2>2. cut' \subseteq Bodies
    BY <1>11, WireFacts DEF RecipientKilledInHand, NextLeft, WireInv
  <2>3. QED
    BY <1>11, <2>1, <2>2, RemainsOf, NoFrames
       DEF RecipientKilledInHand, RecipientStops, WireInv
<1>12. CASE SenderForgets
  <2>1. budget' \in [FaultKinds -> Nat] /\ budget'["forgetR"] = budget["forgetR"]
    BY <1>12, StrikesKeeps DEF SenderForgets, FaultKinds
  <2>2. /\ outbox' \in OutboxType
        /\ \A S : outbox'.queued \in Seq(S)
        /\ Len(outbox'.queued) <= MAX_WAITING
        /\ outboxFile' = outboxFile \/ outboxFile' = outbox'
    BY <1>12, EmptyIsSeq, WireFacts, DeliveryAssumption DEF SenderForgets, OutboxType
  <2>3. givenUp' \subseteq Bodies
    BY <1>12, WireFacts DEF SenderForgets, WireInv
  <2>4. /\ link' \in [Sides -> {"none", "landed", "held"}] /\ up' \in BOOLEAN
        /\ left' \in Seq(Genuine(idOf)) /\ got' \in Seq(Nat)
    BY <1>12, RemainsOf, EmptyIsSeq DEF SenderForgets, WireInv
  <2>5. QED
    BY <1>12, <2>1, <2>2, <2>3, <2>4, NoFrames
       DEF SenderForgets, WireInv
<1>13. CASE SenderFiles \/ RecipientFiles
  BY <1>13 DEF SenderFiles, RecipientFiles, WireInv
<1>14. QED
  BY <1>1, <1>2, <1>3, <1>4, <1>5, <1>6, <1>7, <1>8, <1>9, <1>10, <1>11, <1>12, <1>13
     DEF OtherSteps

LEMMA RecipientForgetsWire ==
  ASSUME WireInv, RecipientForgets
  PROVE  WireInv' /\ budget'["forgetR"] = budget["forgetR"] - 1
<1>1. budget' \in [FaultKinds -> Nat] /\ budget'["forgetR"] = budget["forgetR"] - 1
  BY StrikesKeeps DEF RecipientForgets, FaultKinds
<1>2. /\ link' \in [Sides -> {"none", "landed", "held"}] /\ up' \in BOOLEAN
      /\ left' \in Seq(Genuine(idOf)) /\ got' \in Seq(Nat)
  BY RemainsOf, EmptyIsSeq DEF RecipientForgets, WireInv, wireVars
<1>3. QED
  BY <1>1, <1>2, NoFrames
     DEF RecipientForgets, WireInv, senderVars, historyVars

-----------------------------------------------------------------------------
(***************************************************************************)
(* Every action keeps MarkInv.                                             *)
(***************************************************************************)
LEMMA AcceptMarks ==
  ASSUME NEW s, Marked(s), NEW n \in Nat, ~ Has(s, n)
  PROVE  /\ Marked(Accept(s, n))
         /\ Has(Accept(s, n), n)
         /\ \A k \in Nat : Has(s, k) => Has(Accept(s, n), k)
  BY AcceptKeeps DEF Marked

LEMMA ForgottenIs ==
  ASSUME WireInv, MarkInv
  PROVE  /\ Forgotten \in Nat /\ Budget["forgetR"] \in Nat /\ budget["forgetR"] \in Nat
         /\ \A b \in Bodies : copies[b] \in Nat
         /\ \A b \in Written : idOf[b] \in Nat
<1>1. Budget["forgetR"] \in Nat /\ budget["forgetR"] \in Nat
  BY DeliveryAssumption DEF WireInv, FaultKinds
<1>2. Forgotten \in Nat
  BY <1>1 DEF Forgotten, MarkInv
<1>3. QED
  BY <1>1, <1>2 DEF MarkInv, WireInv, Written

\* Steps that touch neither the marks nor what was shown.
LEMMA UntouchedMarks ==
  ASSUME MarkInv, UNCHANGED <<seen, seenFile, copies, idOf>>,
         budget'["forgetR"] = budget["forgetR"]
  PROVE  MarkInv'
  BY DEF MarkInv, FileBehind, NotYetShown, AtMostOnce, Forgotten, Written

\* A message newly written was never shown.
LEMMA TellMarks ==
  ASSUME WireInv, MarkInv, NEW b \in Bodies, b \notin Written,
         idOf' = [idOf EXCEPT ![b] = outbox.next],
         UNCHANGED <<seen, seenFile, copies>>, budget'["forgetR"] = budget["forgetR"]
  PROVE  MarkInv'
<1>1. Forgotten' = Forgotten /\ Forgotten \in Nat
  BY ForgottenIs DEF Forgotten
<1>2. \A c \in Bodies : idOf'[c] = IF c = b THEN outbox.next ELSE idOf[c]
  BY DEF WireInv
<1>3. copies[b] = 0
  BY DEF MarkInv, NotYetShown
<1>4. outbox.next # NoId
  BY WireFacts DEF NoId
<1>5. NotYetShown'
  <2>1. SUFFICES ASSUME NEW c \in Bodies
                 PROVE  /\ c \notin Written' => copies[c] = 0
                        /\ c \in Written' /\ ~ Has(seenFile, idOf'[c])
                             => copies[c] <= Forgotten
    BY <1>1 DEF NotYetShown
  <2>2. CASE c = b
    BY <1>1, <1>2, <1>3, <1>4, <2>2
  <2>3. CASE c # b
    <3>1. idOf'[c] = idOf[c] /\ (c \in Written' <=> c \in Written)
      BY <1>2, <2>3 DEF Written
    <3>2. QED
      BY <3>1 DEF MarkInv, NotYetShown
  <2>4. QED
    BY <2>2, <2>3
<1>6. AtMostOnce'
  BY <1>1 DEF MarkInv, AtMostOnce
<1>7. QED
  BY <1>5, <1>6 DEF MarkInv, FileBehind

\* The heart of the matter: the message shown is genuine, so the mark on disk
\* did not have its id before and has it now.
LEMMA ShowLeftMarks ==
  ASSUME WireInv, MarkInv, ShowLeft, budget'["forgetR"] = budget["forgetR"]
  PROVE  MarkInv'
<1> DEFINE m == Head(left)
<1>1. m.id \in Nat /\ m.body \in Bodies /\ idOf[m.body] = m.id /\ ~ Has(seen, m.id)
  BY WireFacts DEF ShowLeft, NextLeft
<1>2. seen' = Accept(seen, m.id) /\ seenFile' = Accept(seen, m.id)
      /\ copies' = [copies EXCEPT ![m.body] = @ + 1] /\ idOf' = idOf
  BY DEF ShowLeft
<1>3. /\ Marked(Accept(seen, m.id)) /\ Has(Accept(seen, m.id), m.id)
      /\ \A k \in Nat : Has(seen, k) => Has(Accept(seen, m.id), k)
  BY <1>1, AcceptMarks DEF MarkInv
<1>4. Forgotten' = Forgotten
  BY DEF Forgotten
<1>5. m.body \in Written /\ ~ Has(seenFile, idOf[m.body])
  BY <1>1 DEF Written, NoId, MarkInv, FileBehind
<1>6. copies[m.body] <= Forgotten
  BY <1>1, <1>5 DEF MarkInv, NotYetShown
<1>7. \A b \in Bodies : copies'[b] = IF b = m.body THEN copies[b] + 1 ELSE copies[b]
  BY <1>2 DEF MarkInv
<1>8. copies' \in [Bodies -> Nat]
  BY <1>1, <1>2 DEF MarkInv
<1> HIDE DEF m
<1>9. AtMostOnce'
  BY <1>1, <1>4, <1>6, <1>7, ForgottenIs DEF MarkInv, AtMostOnce
<1>10. Written' = Written
  BY <1>2 DEF Written
<1>11. \A b \in Written : Has(seenFile, idOf[b]) => Has(seenFile', idOf[b])
  BY <1>2, <1>3, ForgottenIs DEF MarkInv, FileBehind
<1>12. NotYetShown'
  <2>1. SUFFICES ASSUME NEW b \in Bodies
                 PROVE  /\ b \notin Written => copies'[b] = 0
                        /\ b \in Written /\ ~ Has(seenFile', idOf[b])
                             => copies'[b] <= Forgotten
    BY <1>2, <1>4, <1>10 DEF NotYetShown
  <2>2. CASE b = m.body
    BY <1>1, <1>2, <1>3, <1>5, <2>2
  <2>3. CASE b # m.body
    BY <1>7, <1>11, <2>3 DEF MarkInv, NotYetShown
  <2>4. QED
    BY <2>2, <2>3
<1>13. FileBehind'
  BY <1>2 DEF FileBehind
<1>14. budget'["forgetR"] <= Budget["forgetR"]
  BY DEF MarkInv
<1>15. Marked(seen)' /\ Marked(seenFile)'
  BY <1>2, <1>3 DEF Marked
<1>16. QED
  BY <1>8, <1>9, <1>12, <1>13, <1>14, <1>15 DEF MarkInv

\* Recorded but neither shown nor (perhaps) written down.
LEMMA RecordMarks ==
  ASSUME WireInv, MarkInv, NEW n \in Nat, ~ Has(seen, n),
         seen' = Accept(seen, n),
         seenFile' = seenFile \/ seenFile' = Accept(seen, n),
         UNCHANGED <<copies, idOf>>, budget'["forgetR"] = budget["forgetR"]
  PROVE  MarkInv'
<1>1. /\ Marked(Accept(seen, n))
      /\ \A k \in Nat : Has(seen, k) => Has(Accept(seen, n), k)
  BY AcceptMarks DEF MarkInv
<1>2. Marked(seen)' /\ Marked(seenFile)'
  BY <1>1 DEF MarkInv, Marked
<1>3. FileBehind'
  BY <1>1 DEF MarkInv, FileBehind
<1>4. \A k \in Nat : Has(seenFile, k) => Has(seenFile', k)
  BY <1>1 DEF MarkInv, FileBehind
<1>5. Forgotten' = Forgotten /\ Written' = Written
  BY DEF Forgotten, Written
<1>6. NotYetShown' /\ AtMostOnce'
  BY <1>4, <1>5, ForgottenIs DEF MarkInv, NotYetShown, AtMostOnce
<1>7. QED
  BY <1>2, <1>3, <1>6 DEF MarkInv

\* Forgetting the sender forgets the mark, and allows one more showing.
LEMMA RecipientForgetsMarks ==
  ASSUME WireInv, MarkInv, RecipientForgets,
         budget'["forgetR"] = budget["forgetR"] - 1
  PROVE  MarkInv'
<1>1. /\ seen' = StartingAt(0) /\ seenFile' = StartingAt(0)
      /\ UNCHANGED <<copies, idOf>>
  BY DEF RecipientForgets, historyVars
<1>2. Forgotten' = Forgotten + 1 /\ Written' = Written
  BY <1>1, ForgottenIs DEF Forgotten, Written
<1>3. \A b \in Bodies : copies[b] <= Forgotten'
  BY <1>2, ForgottenIs DEF MarkInv, AtMostOnce
<1>4. AtMostOnce' /\ NotYetShown'
  BY <1>1, <1>2, <1>3, ForgottenIs DEF MarkInv, AtMostOnce, NotYetShown
<1>5. budget'["forgetR"] <= Budget["forgetR"]
  BY ForgottenIs DEF MarkInv
<1>6. Marked(seen)' /\ Marked(seenFile)'
  BY <1>1, StartMarked DEF Marked
<1>7. FileBehind'
  BY <1>1 DEF FileBehind
<1>8. QED
  BY <1>1, <1>4, <1>5, <1>6, <1>7 DEF MarkInv

-----------------------------------------------------------------------------
(***************************************************************************)
(* The invariant holds throughout.                                         *)
(***************************************************************************)
LEMMA NextIInv == IInv /\ [Next]_vars => IInv'
<1> SUFFICES ASSUME WireInv, MarkInv, [Next]_vars PROVE WireInv' /\ MarkInv'
  BY DEF IInv
<1>1. ASSUME NEW b \in Bodies, TellKept(b) PROVE WireInv' /\ MarkInv'
  <2>1. WireInv' /\ budget'["forgetR"] = budget["forgetR"]
    BY <1>1, TellKeptWire
  <2>2. b \notin Written /\ idOf' = [idOf EXCEPT ![b] = outbox.next]
        /\ UNCHANGED <<seen, seenFile, copies>>
    BY <1>1 DEF TellKept
  <2>3. QED
    BY <2>1, <2>2, TellMarks
<1>2. ASSUME NEW b \in Bodies, TellUnsaved(b) PROVE WireInv' /\ MarkInv'
  <2>1. WireInv' /\ budget'["forgetR"] = budget["forgetR"]
    BY <1>2, TellUnsavedWire
  <2>2. b \notin Written /\ idOf' = [idOf EXCEPT ![b] = outbox.next]
        /\ UNCHANGED <<seen, seenFile, copies>>
    BY <1>2 DEF TellUnsaved, receiverVars
  <2>3. QED
    BY <2>1, <2>2, TellMarks
<1>3. CASE SenderKeeps
  <2>1. UNCHANGED <<seen, seenFile, copies, idOf>>
    BY <1>3 DEF SenderKeeps, receiverVars, historyVars
  <2>2. QED
    BY <1>3, <2>1, SenderKeepsWire, UntouchedMarks
<1>4. CASE HandleGot
  <2>1. UNCHANGED <<seen, seenFile, copies, idOf>>
    BY <1>4 DEF HandleGot, receiverVars, historyVars
  <2>2. QED
    BY <1>4, <2>1, HandleGotWire, UntouchedMarks
<1>5. CASE RecipientKeeps
  <2>1. UNCHANGED <<seen, seenFile, copies, idOf>>
    BY <1>5 DEF RecipientKeeps, receiverVars, historyVars
  <2>2. QED
    BY <1>5, <2>1, RecipientKeepsWire, UntouchedMarks
<1>6. CASE ShowLeft
  BY <1>6, ShowLeftWire, ShowLeftMarks
<1>7. CASE RepeatLeft
  <2>1. UNCHANGED <<seen, seenFile, copies, idOf>>
    BY <1>7 DEF RepeatLeft, receiverVars, historyVars
  <2>2. QED
    BY <1>7, <2>1, ShowLeftWire, UntouchedMarks
<1>8. CASE FailToRecordLeft
  <2>1. /\ Head(left).id \in Nat /\ ~ Has(seen, Head(left).id)
        /\ seen' = Accept(seen, Head(left).id) /\ seenFile' = seenFile
        /\ UNCHANGED <<copies, idOf>>
    BY <1>8, WireFacts DEF FailToRecordLeft, NextLeft, historyVars
  <2>2. QED
    BY <1>8, <2>1, FailToRecordLeftWire, RecordMarks
<1>9. CASE RecipientRestarts
  <2>1. WireInv' /\ budget'["forgetR"] = budget["forgetR"]
    BY <1>9, OtherWire DEF OtherSteps
  <2>2. seen' = seenFile /\ seenFile' = seenFile /\ UNCHANGED <<copies, idOf>>
    BY <1>9 DEF RecipientRestarts, RecipientStops
  <2>3. MarkInv'
    BY <2>1, <2>2 DEF MarkInv, Marked, FileBehind, NotYetShown, AtMostOnce,
                      Forgotten, Written
  <2>4. QED
    BY <2>1, <2>3
<1>10. CASE RecipientKilledInHand
  <2>1. WireInv' /\ budget'["forgetR"] = budget["forgetR"]
    BY <1>10, OtherWire DEF OtherSteps
  <2>2. /\ Head(left).id \in Nat /\ ~ Has(seen, Head(left).id)
        /\ seen' = Accept(seen, Head(left).id) /\ seenFile' = Accept(seen, Head(left).id)
        /\ UNCHANGED <<copies, idOf>>
    BY <1>10, WireFacts DEF RecipientKilledInHand, RecipientStops, NextLeft
  <2>3. QED
    BY <2>1, <2>2, RecordMarks
<1>11. CASE RecipientForgets
  BY <1>11, RecipientForgetsWire, RecipientForgetsMarks
<1>12. ASSUME OtherSteps, ~ RecipientRestarts, ~ RecipientKilledInHand
       PROVE  WireInv' /\ MarkInv'
  <2>1. WireInv' /\ budget'["forgetR"] = budget["forgetR"]
    BY <1>12, OtherWire
  <2>2. UNCHANGED <<seen, seenFile, copies, idOf>>
    BY <1>12 DEF OtherSteps, TellElsewhere, SenderRefuses, SenderNotices,
         RecipientRefuses, RecipientNotices, Notice, StrangersLeft, Connect, Break,
         SenderRestarts, OutboxDeleted, SenderForgets, SenderFiles, RecipientFiles,
         receiverVars, historyVars
  <2>3. QED
    BY <2>1, <2>2, UntouchedMarks
<1>13. CASE UNCHANGED vars
  <2>1. WireInv'
    BY <1>13 DEF vars, WireInv
  <2>2. MarkInv'
    BY <1>13, UntouchedMarks DEF vars
  <2>3. QED
    BY <2>1, <2>2
<1>14. QED
  BY <1>1, <1>2, <1>3, <1>4, <1>5, <1>6, <1>7, <1>8, <1>9, <1>10, <1>11, <1>12, <1>13
     DEF Next, OtherSteps

LEMMA SpecIInv == Spec => []IInv
  BY InitIInv, NextIInv, PTL DEF Spec

\* Outbox, marks, parked frames and streams keep their types, and the outbox
\* and the pool their ceilings, whatever goes wrong and however often.
THEOREM DeliveryTypeCorrect == Spec => []TypeOK
<1>1. ASSUME WireInv, MarkInv PROVE TypeOK
  <2>1. parkedLeft \in Seq(Message) /\ left \in Seq(Message)
    BY <1>1, GenuineIs, SeqMonotonic DEF WireInv
  <2>2. seen \in SeenType /\ seenFile \in SeenType /\ copies \in [Bodies -> Nat]
    BY <1>1 DEF MarkInv, Marked, Settled
  <2>3. QED
    BY <1>1, <2>1, <2>2 DEF WireInv, TypeOK
<1>2. IInv => TypeOK
  BY <1>1 DEF IInv
<1>3. QED
  BY <1>2, SpecIInv, PTL

\* The promise on accept_left, "a message is shown exactly once however many
\* times the sender redelivers it", as far as "at most": once for each time the
\* sender was filed, whatever breaks, crashes, fails to be written or is deleted.
THEOREM ShownAtMostOnce == Spec => []AtMostOnce
<1>1. IInv => AtMostOnce
  BY DEF IInv, MarkInv
<1>2. QED
  BY <1>1, SpecIInv, PTL

-----------------------------------------------------------------------------
(***************************************************************************)
(* Nothing is lost without a word, and what is acknowledged was had.  The  *)
(* invariant, as long as both files could be written and the outbox was    *)
(* not deleted: files are as memory is and no id was given twice           *)
(* (Numbered); a number the mark has is that of a message which was had,   *)
(* or which the window gave up (MarksAreGone); so is every number on its   *)
(* way back (AnswersAreGone); and what left the queue was had, given up by *)
(* the window or named to its sender (KeptOrGone).                         *)
(***************************************************************************)
Gone(b) == Had(b) \/ Overtaken(b)

Answered == {idOf[b] : b \in {c \in Written : Gone(c)}}

Numbered ==
  /\ outboxFile = outbox
  /\ IsFiniteSet(Written)
  /\ \A b \in Written : idOf[b] < outbox.next
  /\ \A b, c \in Written : idOf[b] = idOf[c] => b = c

MarksAreGone ==
  /\ seenFile = seen
  /\ \A n \in Nat : Has(seen, n) => n < outbox.next
  /\ \A n \in seen.above : \E c \in Written : idOf[c] = n /\ Had(c)
  /\ \A b \in Written : Has(seen, idOf[b]) => Gone(b)

AnswersAreGone == got \in Seq(Answered) /\ parkedGot \in Seq(Answered)

KeptOrGone ==
  \A b \in Written : b \in BodiesOf(outbox.queued) \/ Gone(b) \/ b \in givenUp

PurseInv == \A k \in FaultKinds : budget[k] <= Budget[k]

SoundInv ==
  FilesSound => Numbered /\ MarksAreGone /\ AnswersAreGone /\ KeptOrGone

\* Nothing that was written or had is ever unwritten or not had.
Growing ==
  /\ \A b \in Written : b \in Written' /\ idOf'[b] = idOf[b]
  /\ \A b \in Bodies : Had(b) => Had(b)'

\* What strikes, strikes less often from then on.
LEMMA StrikesFalls ==
  ASSUME WireInv, NEW kind \in FaultKinds, Strikes(kind)
  PROVE  /\ budget' \in [FaultKinds -> Nat]
         /\ \A k \in FaultKinds : budget'[k] <= budget[k]
         /\ budget'[kind] = budget[kind] - 1
  BY SpendKeeps DEF WireInv, Strikes, Afford, Spend

\* A connection that is cut while frames are put on it is a fault like others.
CutOrNot(purse) ==
  \/ budget' = purse
  \/ purse["break"] > 0 /\ budget' = [purse EXCEPT !["break"] = @ - 1]

\* It costs one break at most.
LEMMA CutFalls ==
  ASSUME NEW purse \in [FaultKinds -> Nat], CutOrNot(purse)
  PROVE  \A k \in FaultKinds : budget'[k] <= purse[k]
<1>2. \A k \in FaultKinds : purse[k] \in Nat
  OBVIOUS
<1>3. CASE budget' = purse
  BY <1>2, <1>3
<1>4. CASE purse["break"] > 0 /\ budget' = [purse EXCEPT !["break"] = @ - 1]
  BY <1>4, SpendKeeps, "break" \in FaultKinds DEF FaultKinds
<1> QED BY <1>3, <1>4 DEF CutOrNot

\* No fault becomes possible again.
LEMMA PurseFalls ==
  ASSUME WireInv, [Next]_vars
  PROVE  \A k \in FaultKinds : budget'[k] <= budget[k]
<1>0. /\ budget \in [FaultKinds -> Nat]
      /\ \A k \in FaultKinds : budget[k] \in Nat
  BY DEF WireInv
<1>1. ASSUME CutOrNot(budget) PROVE \A k \in FaultKinds : budget'[k] <= budget[k]
  BY <1>0, <1>1, CutFalls
<1>3. ASSUME NEW kind \in FaultKinds, Strikes(kind)
      PROVE  \A k \in FaultKinds : budget'[k] <= budget[k]
  BY <1>3, StrikesFalls
<1>4. ASSUME budget' = budget PROVE \A k \in FaultKinds : budget'[k] <= budget[k]
  BY <1>0, <1>4
<1>5. ASSUME NEW b \in Bodies, TellKept(b)
      PROVE  \A k \in FaultKinds : budget'[k] <= budget[k]
  BY <1>1, <1>4, <1>5 DEF TellKept, SendLeft, Transmit, CutOrNot
<1>6. ASSUME NEW b \in Bodies, TellUnsaved(b)
      PROVE  \A k \in FaultKinds : budget'[k] <= budget[k]
  BY <1>3, <1>6, "saveS" \in FaultKinds DEF TellUnsaved, FaultKinds
<1>7. CASE SenderKeeps
  BY <1>1, <1>7 DEF SenderKeeps, SendLeft, Transmit, CutOrNot
<1>8. CASE HandleGot
  BY <1>3, <1>4, <1>8, "saveS" \in FaultKinds DEF HandleGot, FaultKinds
<1>9. CASE RecipientKeeps
  BY <1>1, <1>9 DEF RecipientKeeps, SendGot, Transmit, CutOrNot
<1>10. CASE ShowLeft \/ RepeatLeft
  BY <1>1, <1>10 DEF ShowLeft, RepeatLeft, Acknowledge, SendGot, Transmit, CutOrNot
<1>11. CASE FailToRecordLeft
  <2>1. /\ Spend("saveR") \in [FaultKinds -> Nat]
        /\ \A k \in FaultKinds : Spend("saveR")[k] <= budget[k]
    BY <1>0, <1>11, SpendKeeps, "saveR" \in FaultKinds
       DEF FailToRecordLeft, Afford, Spend, FaultKinds
  <2>2. \A k \in FaultKinds : budget'[k] <= Spend("saveR")[k]
    <3>1. CutOrNot(Spend("saveR"))
      BY <1>11 DEF FailToRecordLeft, Acknowledge, SendGot, Transmit, CutOrNot
    <3> QED BY <2>1, <3>1, CutFalls DEF CutOrNot
  <2>3. budget' \in [FaultKinds -> Nat]
    BY <1>11, FailToRecordLeftWire DEF WireInv
  <2>4. \A k \in FaultKinds : Spend("saveR")[k] \in Nat /\ budget'[k] \in Nat
    BY <2>1, <2>3
  <2> HIDE DEF Spend
  <2> QED BY <1>0, <2>1, <2>2, <2>4
<1>12. CASE RecipientForgets
  BY <1>3, <1>12 DEF RecipientForgets, FaultKinds
<1>13. CASE OtherSteps
  BY <1>3, <1>4, <1>13 DEF OtherSteps, TellElsewhere, SenderRefuses, SenderNotices,
     RecipientRefuses, RecipientNotices, Notice, StrangersLeft, Connect, Break,
     SenderRestarts, OutboxDeleted, RecipientRestarts, RecipientKilledInHand,
     RecipientStops, SenderForgets, SenderFiles, RecipientFiles, FaultKinds
<1>14. CASE UNCHANGED vars
  BY <1>4, <1>14 DEF vars
<1> QED BY <1>5, <1>6, <1>7, <1>8, <1>9, <1>10, <1>11, <1>12, <1>13, <1>14
           DEF Next, OtherSteps

\* Files that were sound up to a step were sound before it, and none of the
\* faults that FilesSound speaks of struck in it.
LEMMA SoundBefore ==
  ASSUME IInv, PurseInv, [Next]_vars
  PROVE  /\ PurseInv'
         /\ FilesSound' => /\ FilesSound
                           /\ \A k \in {"saveS", "saveR", "reset"} :
                                budget'[k] = budget[k] /\ ~ Strikes(k)
<1>1. \A k \in FaultKinds : budget'[k] <= budget[k] /\ budget[k] <= Budget[k]
  BY PurseFalls DEF PurseInv, IInv
<1>2. \A k \in FaultKinds : budget[k] \in Nat /\ Budget[k] \in Nat
  BY DeliveryAssumption DEF WireInv, IInv
<1>3. \A k \in FaultKinds : budget'[k] \in Nat
  BY NextIInv DEF IInv, WireInv
<1>4. PurseInv'
  BY <1>1, <1>2, <1>3 DEF PurseInv
<1>5. ASSUME FilesSound', NEW k \in {"saveS", "saveR", "reset"}
      PROVE  budget'[k] = budget[k] /\ budget[k] = Budget[k] /\ ~ Strikes(k)
  <2>1. k \in FaultKinds /\ budget'[k] = Budget[k]
    BY <1>5 DEF FilesSound, FaultKinds
  <2>2. budget'[k] = budget[k] /\ budget[k] = Budget[k]
    BY <1>1, <1>2, <2>1
  <2>3. Strikes(k) => budget'[k] = budget[k] - 1
    BY <2>1, StrikesFalls DEF IInv
  <2> QED BY <1>2, <2>1, <2>2, <2>3
<1> QED BY <1>4, <1>5 DEF FilesSound

\* Every step grows.
LEMMA StepGrows ==
  ASSUME IInv, [Next]_vars
  PROVE  Growing
<1>0. /\ copies \in [Bodies -> Nat] /\ idOf \in [Bodies -> Nat \cup {NoId}]
      /\ \A b \in Bodies : copies[b] \in Nat
      /\ outbox.next \in Nat
  BY WireFacts DEF IInv, WireInv, MarkInv
<1>1. ASSUME UNCHANGED <<copies, idOf>>, cut \subseteq cut' PROVE Growing
  BY <1>1 DEF Growing, Written, Had
<1>2. ASSUME NEW b \in Bodies, b \notin Written,
             idOf' = [idOf EXCEPT ![b] = outbox.next], UNCHANGED <<copies, cut>>
      PROVE  Growing
  <2>1. \A c \in Written : idOf'[c] = idOf[c] /\ c \in Bodies
    BY <1>0, <1>2 DEF Written
  <2>2. \A c \in Written : c \in Written'
    BY <2>1 DEF Written
  <2> QED BY <1>2, <2>1, <2>2 DEF Growing, Had
<1>3. ASSUME NEW b \in Bodies, TellKept(b) \/ TellUnsaved(b) PROVE Growing
  BY <1>2, <1>3 DEF TellKept, TellUnsaved
<1>4. CASE ShowLeft
  <2>1. /\ Head(left).body \in Bodies /\ UNCHANGED <<idOf, cut>>
        /\ copies' = [copies EXCEPT ![Head(left).body] = @ + 1]
    BY <1>4, WireFacts DEF IInv, ShowLeft, NextLeft
  <2>2. \A b \in Bodies : copies[b] > 0 => copies'[b] > 0
    BY <1>0, <2>1
  <2> QED BY <2>1, <2>2 DEF Growing, Written, Had
<1>5. CASE SenderKeeps \/ HandleGot \/ RecipientKeeps \/ RepeatLeft \/ FailToRecordLeft
  BY <1>1, <1>5 DEF SenderKeeps, HandleGot, RecipientKeeps, RepeatLeft, FailToRecordLeft,
                    historyVars
<1>6. CASE RecipientForgets
  BY <1>1, <1>6 DEF RecipientForgets, historyVars
<1>7. CASE OtherSteps
  <2>1. UNCHANGED <<copies, idOf>> /\ cut \subseteq cut'
    BY <1>7 DEF OtherSteps, TellElsewhere, SenderRefuses, SenderNotices,
       RecipientRefuses, RecipientNotices, Notice, StrangersLeft, Connect, Break,
       SenderRestarts, OutboxDeleted, RecipientRestarts, RecipientKilledInHand,
       RecipientStops, SenderForgets, SenderFiles, RecipientFiles, historyVars
  <2> QED BY <1>1, <2>1
<1>8. CASE UNCHANGED vars
  BY <1>1, <1>8 DEF vars
<1> QED BY <1>3, <1>4, <1>5, <1>6, <1>7, <1>8 DEF Next, OtherSteps

\* What was had or given up stays so.
LEMMA GoneStays ==
  ASSUME WireInv, Growing, IsFiniteSet(Written')
  PROVE  /\ \A b \in Written : Gone(b) => Gone(b)'
         /\ Answered \subseteq Answered'
<1>1. ASSUME NEW b \in Written, Overtaken(b) PROVE Overtaken(b)'
  <2> DEFINE L == {c \in Written : idOf[c] > idOf[b] /\ Had(c)}
  <2>1. PICK M : M = {c \in Written' : idOf'[c] > idOf'[b] /\ Had(c)'}
    OBVIOUS
  <2>2. L \subseteq M
    BY <1>1, <2>1 DEF Growing, Written
  <2>3. IsFiniteSet(M)
    BY <2>1, FS_Subset
  <2>4. IsFiniteSet(L) /\ Cardinality(L) <= Cardinality(M)
    BY <2>2, <2>3, FS_Subset
  <2>5. Cardinality(L) \in Nat /\ Cardinality(M) \in Nat /\ Cardinality(L) > WINDOW
    BY <1>1, <2>3, <2>4, FS_CardinalityType DEF Overtaken
  <2>6. Cardinality(M) > WINDOW
    BY <2>4, <2>5, WindowAssumption
  <2> QED BY <2>1, <2>6 DEF Overtaken
<1>2. ASSUME NEW b \in Written, Gone(b) PROVE Gone(b)'
  BY <1>1, <1>2 DEF Gone, Growing, Written
<1>3. Answered \subseteq Answered'
  <2>1. SUFFICES ASSUME NEW b \in Written, Gone(b) PROVE idOf[b] \in Answered'
    BY DEF Answered
  <2>2. b \in Written' /\ idOf'[b] = idOf[b] /\ Gone(b)'
    BY <1>2, <2>1 DEF Growing
  <2> QED BY <2>2 DEF Answered
<1> QED BY <1>2, <1>3

\* Steps that give no id leave the numbering as it is, however far next moves.
LEMMA NumberedStays ==
  ASSUME WireInv, Numbered, idOf' = idOf, outbox'.next \in Nat,
         outbox'.next >= outbox.next, outboxFile' = outbox'
  PROVE  Numbered'
<1>1. \A b \in Written : idOf[b] \in Nat
  BY DEF WireInv, Written
<1>2. outbox.next \in Nat
  BY WireFacts
<1> QED BY <1>1, <1>2 DEF Numbered, Written

\* A message newly written gets an id of its own.
LEMMA NumberedTells ==
  ASSUME WireInv, Numbered, NEW b \in Bodies, b \notin Written,
         idOf' = [idOf EXCEPT ![b] = outbox.next],
         outbox'.next = outbox.next + 1, outboxFile' = outbox'
  PROVE  Numbered'
<1>1. \A c \in Written : idOf[c] \in Nat
  BY DEF WireInv, Written
<1>2. outbox.next \in Nat /\ outbox.next # NoId
  BY WireFacts DEF NoId
<1>3. \A c \in Bodies : idOf'[c] = IF c = b THEN outbox.next ELSE idOf[c]
  BY DEF WireInv
<1>4. Written' = Written \cup {b}
  BY <1>2, <1>3 DEF Written
<1>5. IsFiniteSet(Written')
  BY <1>4, FS_AddElement DEF Numbered
<1>6. \A c \in Written : idOf'[c] = idOf[c] /\ idOf[c] < outbox.next
  BY <1>3 DEF Numbered, Written
<1>7. idOf'[b] = outbox.next
  BY <1>3
<1>8. \A c \in Written' : idOf'[c] < outbox'.next
  BY <1>1, <1>2, <1>4, <1>6, <1>7
<1>9. \A c, d \in Written' : idOf'[c] = idOf'[d] => c = d
  BY <1>1, <1>2, <1>4, <1>6, <1>7 DEF Numbered
<1> QED BY <1>5, <1>8, <1>9 DEF Numbered

-----------------------------------------------------------------------------
(***************************************************************************)
(* Numbers that the recipient's mark has.                                  *)
(***************************************************************************)
\* Steps that leave the mark alone, and number nothing.
LEMMA MarksStay ==
  ASSUME WireInv, Marked(seen), Numbered', MarksAreGone, Growing,
         UNCHANGED <<seen, seenFile, idOf>>,
         outbox'.next \in Nat, outbox'.next >= outbox.next
  PROVE  MarksAreGone'
<1>1. Written' = Written
  BY DEF Written
<1>2. \A b \in Written : Has(seen, idOf[b]) => Gone(b)'
  BY GoneStays DEF MarksAreGone, Numbered
<1>3. \A n \in seen.above : \E c \in Written : idOf[c] = n /\ Had(c)'
  BY DEF MarksAreGone, Growing, Written
<1>4. \A n \in Nat : Has(seen, n) => n < outbox'.next
  BY WireFacts DEF MarksAreGone
<1> QED BY <1>1, <1>2, <1>3, <1>4 DEF MarksAreGone

\* A new id is above every number that the mark has.
LEMMA MarksTold ==
  ASSUME WireInv, Marked(seen), Numbered', MarksAreGone, Growing,
         NEW b \in Bodies, b \notin Written, idOf' = [idOf EXCEPT ![b] = outbox.next],
         outbox'.next = outbox.next + 1, UNCHANGED <<seen, seenFile>>
  PROVE  MarksAreGone'
<1>1. outbox.next \in Nat
  BY WireFacts
<1>2. \A c \in Bodies : idOf'[c] = IF c = b THEN outbox.next ELSE idOf[c]
  BY DEF WireInv
<1>3. \A c \in Written' : c = b \/ c \in Written
  BY <1>2 DEF Written
<1>4. ~ Has(seen, outbox.next)
  BY <1>1 DEF MarksAreGone
<1>5. \A c \in Written : Has(seen, idOf[c]) => Gone(c)'
  BY GoneStays DEF MarksAreGone, Numbered
<1>6. \A c \in Written' : Has(seen, idOf'[c]) => Gone(c)'
  BY <1>2, <1>3, <1>4, <1>5 DEF Growing
<1>7. \A n \in seen.above : \E c \in Written' : idOf'[c] = n /\ Had(c)'
  BY DEF MarksAreGone, Growing, Written
<1>8. \A n \in Nat : Has(seen, n) => n < outbox'.next
  BY <1>1 DEF MarksAreGone
<1> QED BY <1>6, <1>7, <1>8 DEF MarksAreGone

\* More numbers than the window holds, each that of one of these messages.
LEMMA ManyLater ==
  ASSUME NEW W, IsFiniteSet(W), NEW ids, NEW k, NEW S, Cardinality(S) > WINDOW,
         \A n \in S : n > k /\ \E c \in W : ids[c] = n,
         NEW L \in SUBSET W, \A c \in W : ids[c] > k => c \in L
  PROVE  Cardinality(L) > WINDOW
<1> DEFINE f == [n \in S |-> CHOOSE c \in L : ids[c] = n]
<1>1. \A n \in S : \E c \in L : ids[c] = n
  OBVIOUS
<1>2. \A n \in S : f[n] \in L /\ ids[f[n]] = n
  BY <1>1
<1>3. f \in [S -> L]
  BY <1>2
<1>4. \A m, n \in S : f[m] = f[n] => m = n
  BY <1>2
<1> HIDE DEF f
<1>5. f \in Injection(S, L)
  BY <1>3, <1>4 DEF Injection, IsInjective
<1>6. IsFiniteSet(L)
  BY FS_Subset
<1>7. IsFiniteSet(S) /\ Cardinality(S) <= Cardinality(L)
  BY <1>5, <1>6, FS_Injection
<1>8. Cardinality(S) \in Nat /\ Cardinality(L) \in Nat /\ WINDOW \in Nat
  BY <1>6, <1>7, FS_CardinalityType, WindowAssumption
<1> QED BY <1>7, <1>8

\* A message is recorded and had: what the window gives up for it lies below
\* more than WINDOW numbers of messages that were had.
LEMMA MarksAccept ==
  ASSUME WireInv, Marked(seen), Numbered, Numbered', MarksAreGone, Growing,
         NEW m \in Genuine(idOf), ~ Has(seen, m.id),
         seen' = Accept(seen, m.id), seenFile' = seen',
         idOf' = idOf, outbox' = outbox, Had(m.body)'
  PROVE  MarksAreGone'
<1> DEFINE S0 == seen.above \cup {m.id}
<1>1. m.id \in Nat /\ m.body \in Bodies /\ idOf[m.body] = m.id
  BY DEF Genuine, Message
<1>2. m.body \in Written /\ m.id < outbox.next /\ outbox.next \in Nat
  BY <1>1, WireFacts DEF Written, NoId, Numbered
<1>3. Settled(seen) /\ Cardinality(seen.above) <= WINDOW /\ ~ Has(seen, m.id)
  BY DEF Marked
<1>4. /\ seen'.above \subseteq S0
      /\ \A k \in Nat : Has(seen', k) =>
           \/ Has(seen, k) \/ k = m.id
           \/ \E S \in SUBSET S0 : Cardinality(S) > WINDOW /\ \A n \in S : n > k
  BY <1>1, <1>3, AcceptKeeps
<1>5. \A n \in S0 : n \in Nat /\ n < outbox.next
  BY <1>1, <1>2, <1>3 DEF Settled, SeenType, MarksAreGone, Has
<1>6. Written' = Written
  BY DEF Written
<1>7. \A n \in S0 : \E c \in Written : idOf[c] = n /\ Had(c)'
  BY <1>1, <1>2 DEF MarksAreGone, Growing, Written
<1> HIDE DEF S0
<1>8. ASSUME NEW k \in Nat, Has(seen', k) PROVE k < outbox.next
  <2>1. CASE Has(seen, k) \/ k = m.id
    BY <1>2, <2>1 DEF MarksAreGone
  <2>2. CASE \E S \in SUBSET S0 : Cardinality(S) > WINDOW /\ \A n \in S : n > k
    <3>1. PICK S \in SUBSET S0 : Cardinality(S) > WINDOW /\ \A n \in S : n > k
      BY <2>2
    <3>2. S # {}
      <4>1. Cardinality({}) = 0
        BY FS_EmptySet
      <4> QED BY <3>1, <4>1, WindowAssumption
    <3>3. PICK n \in S : TRUE
      BY <3>2
    <3> QED BY <1>2, <1>5, <3>1, <3>3
  <2> QED BY <1>4, <1>8, <2>1, <2>2
<1>9. ASSUME NEW b \in Written, Has(seen', idOf[b]) PROVE Gone(b)'
  <2>0. idOf[b] \in Nat
    BY DEF WireInv, Written
  <2>1. CASE Has(seen, idOf[b])
    BY <2>1, GoneStays DEF MarksAreGone, Numbered
  <2>2. CASE idOf[b] = m.id
    <3>1. b = m.body
      BY <1>1, <1>2, <2>2 DEF Numbered
    <3> QED BY <3>1 DEF Gone
  <2>3. CASE \E S \in SUBSET S0 : Cardinality(S) > WINDOW /\ \A n \in S : n > idOf[b]
    <3>1. PICK S \in SUBSET S0 : Cardinality(S) > WINDOW /\ \A n \in S : n > idOf[b]
      BY <2>3
    <3>2. \A n \in S : n > idOf[b] /\ \E c \in Written : idOf[c] = n /\ Had(c)'
      BY <1>7, <3>1
    <3>3. PICK W, L : /\ W = {c \in Written' : Had(c)'}
                      /\ L = {c \in Written' : idOf'[c] > idOf'[b] /\ Had(c)'}
      OBVIOUS
    <3>4. IsFiniteSet(W) /\ L \in SUBSET W /\ \A c \in W : idOf[c] > idOf[b] => c \in L
      BY <3>3, FS_Subset DEF Numbered
    <3>5. \A n \in S : n > idOf[b] /\ \E c \in W : idOf[c] = n
      BY <1>6, <3>2, <3>3
    <3>6. Cardinality(L) > WINDOW
      BY <3>1, <3>4, <3>5, ManyLater
    <3>7. Overtaken(b)'
      BY <3>3, <3>6 DEF Overtaken
    <3> QED BY <3>7 DEF Gone
  <2> QED BY <1>4, <1>9, <2>0, <2>1, <2>2, <2>3
<1>10. \A n \in seen'.above : \E c \in Written : idOf[c] = n /\ Had(c)'
  BY <1>4, <1>7
<1> QED BY <1>6, <1>8, <1>9, <1>10 DEF MarksAreGone

\* A mark that starts again has nothing.
LEMMA MarksForgotten ==
  ASSUME WireInv, seen' = StartingAt(0), seenFile' = seen', UNCHANGED <<idOf, outbox>>
  PROVE  MarksAreGone'
<1>1. seen'.floor = 0 /\ seen'.above = {}
  BY DEF StartingAt
<1>2. \A n \in Nat : ~ Has(seen', n)
  BY <1>1 DEF Has
<1>3. \A b \in Written' : idOf'[b] \in Nat
  BY DEF WireInv, Written
<1> QED BY <1>1, <1>2, <1>3 DEF MarksAreGone

-----------------------------------------------------------------------------
(***************************************************************************)
(* What enters and leaves the queue.                                       *)
(***************************************************************************)
\* No message waits twice.
Once(queue) == \A i, j \in 1 .. Len(queue) : queue[i].body = queue[j].body => i = j

\* What a queue holds, by position.
LEMMA BodiesAre ==
  ASSUME NEW queue \in Seq(Message), NEW b
  PROVE  b \in BodiesOf(queue) <=> \E i \in 1 .. Len(queue) : queue[i].body = b
BY DEF BodiesOf

\* What a queue holds once one message was taken out.
LEMMA RemoveAtIs ==
  ASSUME NEW S, NEW s \in Seq(S), NEW i \in 1 .. Len(s)
  PROVE  /\ Len(RemoveAt(s, i)) = Len(s) - 1
         /\ \A j \in 1 .. Len(s) - 1 : RemoveAt(s, i)[j] = IF j < i THEN s[j] ELSE s[j + 1]
<1> DEFINE p == SubSeq(s, 1, i - 1)
           q == SubSeq(s, i + 1, Len(s))
<1>1. Len(s) \in Nat /\ i \in Nat /\ 1 <= i /\ i <= Len(s)
  BY LenProperties
<1>2. p \in Seq(S) /\ Len(p) = i - 1 /\ \A j \in 1 .. i - 1 : p[j] = s[j]
  BY <1>1
<1>3. q \in Seq(S) /\ Len(q) = Len(s) - i /\ \A j \in 1 .. Len(s) - i : q[j] = s[j + i]
  BY <1>1
<1>4. RemoveAt(s, i) = p \o q
  BY DEF RemoveAt
<1> HIDE DEF p, q
<1>5. /\ Len(p \o q) = Len(p) + Len(q)
      /\ \A j \in 1 .. Len(p) + Len(q) :
           (p \o q)[j] = IF j <= Len(p) THEN p[j] ELSE q[j - Len(p)]
  BY <1>2, <1>3, ConcatProperties
<1>6. ASSUME NEW j \in 1 .. Len(s) - 1
      PROVE  (p \o q)[j] = IF j < i THEN s[j] ELSE s[j + 1]
  <2>1. CASE j < i
    BY <1>1, <1>2, <1>3, <1>5, <2>1
  <2>2. CASE ~ (j < i)
    <3>1. j - Len(p) \in 1 .. Len(s) - i /\ (j - Len(p)) + i = j + 1
      BY <1>1, <1>2, <2>2
    <3>2. (p \o q)[j] = q[j - Len(p)]
      BY <1>1, <1>2, <1>3, <1>5, <2>2
    <3>3. q[j - Len(p)] = s[(j - Len(p)) + i]
      BY <1>3, <3>1
    <3> QED BY <2>2, <3>1, <3>2, <3>3
  <2> QED BY <2>1, <2>2
<1>7. Len(p \o q) = Len(s) - 1
  BY <1>1, <1>2, <1>3, <1>5
<1> QED BY <1>4, <1>6, <1>7

\* Outbox::queue puts the new message in and no other.
LEMMA QueueAdds ==
  ASSUME NEW box \in OutboxType, NEW b \in Bodies
  PROVE  /\ Queue(box, b).next = box.next + 1
         /\ b \in BodiesOf(Queue(box, b).queued)
         /\ BodiesOf(Queue(box, b).queued) \subseteq BodiesOf(box.queued) \cup {b}
         /\ b \notin BodiesOf(box.queued) /\ Once(box.queued)
              => Once(Queue(box, b).queued)
<1> DEFINE new == [id |-> box.next, body |-> b]
           all == Append(box.queued, new)
           over == IF Len(all) > MAX_WAITING THEN Len(all) - MAX_WAITING ELSE 0
           kept == SubSeq(all, over + 1, Len(all))
<1>1. box.queued \in Seq(Message) /\ Len(box.queued) \in Nat /\ new \in Message
  BY LenProperties DEF OutboxType, Message
<1>2. /\ all \in Seq(Message) /\ Len(all) = Len(box.queued) + 1
      /\ \A i \in 1 .. Len(box.queued) : all[i] = box.queued[i]
      /\ all[Len(all)] = new
  BY <1>1
<1>3. Queue(box, b) = [queued |-> kept, next |-> box.next + 1]
  BY DEF Queue
<1> HIDE DEF all
<1>4. over \in Nat /\ over < Len(all)
  BY <1>1, <1>2, DeliveryAssumption
<1> HIDE DEF over
<1>5. /\ kept \in Seq(Message) /\ Len(kept) = Len(all) - over
      /\ \A i \in 1 .. Len(kept) : kept[i] = all[over + i]
  BY <1>1, <1>2, <1>4
<1> HIDE DEF kept
<1>6. /\ Len(kept) \in 1 .. Len(kept) /\ kept[Len(kept)] = new
      /\ \A i \in 1 .. Len(kept) : over + i \in 1 .. Len(all)
  <2>1. Len(kept) \in Nat \ {0} /\ over + Len(kept) = Len(all)
    BY <1>1, <1>2, <1>4, <1>5
  <2>2. kept[Len(kept)] = all[over + Len(kept)]
    BY <1>5, <2>1
  <2>3. \A i \in 1 .. Len(kept) : over + i \in 1 .. Len(all)
    BY <1>4, <2>1
  <2> QED BY <1>2, <2>1, <2>2, <2>3
<1>7. b \in BodiesOf(kept)
  BY <1>5, <1>6, BodiesAre DEF new
<1>8. \A i \in 1 .. Len(all) : i \in 1 .. Len(box.queued) \/ (i = Len(all) /\ all[i] = new)
  BY <1>1, <1>2
<1>9. BodiesOf(kept) \subseteq BodiesOf(box.queued) \cup {b}
  <2>1. SUFFICES ASSUME NEW i \in 1 .. Len(kept)
                 PROVE  kept[i].body \in BodiesOf(box.queued) \cup {b}
    BY <1>5, BodiesAre
  <2>2. kept[i] = all[over + i] /\ over + i \in 1 .. Len(all)
    BY <1>5, <1>6
  <2> QED BY <1>1, <1>2, <1>8, <2>2, BodiesAre DEF new
<1>10. ASSUME b \notin BodiesOf(box.queued), Once(box.queued) PROVE Once(kept)
  <2>1. \A i \in 1 .. Len(box.queued) : box.queued[i].body # b
    BY <1>1, <1>10, BodiesAre
  <2>2. \A i, j \in 1 .. Len(all) : all[i].body = all[j].body => i = j
    <3>1. SUFFICES ASSUME NEW i \in 1 .. Len(all), NEW j \in 1 .. Len(all),
                          all[i].body = all[j].body
                   PROVE  i = j
      OBVIOUS
    <3>2. new.body = b
      OBVIOUS
    <3> HIDE DEF new
    <3>3. CASE i \in 1 .. Len(box.queued) /\ j \in 1 .. Len(box.queued)
      BY <1>2, <1>10, <3>1, <3>3 DEF Once
    <3>4. CASE i \in 1 .. Len(box.queued) /\ j = Len(all) /\ all[j] = new
      BY <1>2, <2>1, <3>1, <3>2, <3>4
    <3>5. CASE j \in 1 .. Len(box.queued) /\ i = Len(all) /\ all[i] = new
      BY <1>2, <2>1, <3>1, <3>2, <3>5
    <3> QED BY <1>8, <3>1, <3>3, <3>4, <3>5
  <2>3. \A i, j \in 1 .. Len(kept) : kept[i].body = kept[j].body => over + i = over + j
    BY <1>5, <1>6, <2>2
  <2>4. \A i, j \in 1 .. Len(kept) : over + i = over + j => i = j
    BY <1>2, <1>4, <1>5
  <2> QED BY <2>3, <2>4 DEF Once
<1> QED BY <1>3, <1>7, <1>9, <1>10

\* Outbox::delivered takes out a message with that id, and no other.
LEMMA DeliveredLeaves ==
  ASSUME NEW box \in OutboxType, NEW ids, box.queued \in Seq(Genuine(ids)),
         NEW id \in Nat
  PROVE  /\ Delivered(box, id).next = box.next
         /\ BodiesOf(Delivered(box, id).queued) \subseteq BodiesOf(box.queued)
         /\ \A b \in BodiesOf(box.queued) :
              ids[b] # id => b \in BodiesOf(Delivered(box, id).queued)
         /\ Once(box.queued) =>
              /\ Once(Delivered(box, id).queued)
              /\ Delivered(box, id) # box =>
                   \E b \in BodiesOf(box.queued) :
                     ids[b] = id /\ b \notin BodiesOf(Delivered(box, id).queued)
<1> DEFINE queue == box.queued
           first == PositionOf(queue, id)
           rest == RemoveAt(queue, first)
<1>1. CASE ~ \E i \in DOMAIN box.queued : box.queued[i].id = id
  BY <1>1 DEF Delivered
<1>2. CASE \E i \in DOMAIN box.queued : box.queued[i].id = id
  <2>1. /\ queue \in Seq(Message) /\ Len(queue) \in Nat /\ DOMAIN queue = 1 .. Len(queue)
        /\ \A i \in 1 .. Len(queue) : queue[i] \in Genuine(ids)
    BY LenProperties, ElementOfSeq DEF OutboxType
  <2>2. first \in 1 .. Len(queue) /\ queue[first].id = id
    <3> DEFINE T == {i \in DOMAIN queue : queue[i].id = id}
    <3>1. T \in SUBSET Nat /\ T # {}
      BY <1>2, <2>1
    <3>2. PICK i \in T : \A j \in T : i <= j
      BY <3>1, LeastNatural
    <3>3. \A j \in 1 .. i - 1 : queue[j].id # id
      BY <2>1, <3>2
    <3>4. \E k \in DOMAIN queue : queue[k].id = id /\ \A j \in 1 .. k - 1 : queue[j].id # id
      BY <3>2, <3>3
    <3> QED BY <2>1, <3>4 DEF PositionOf
  <2>3. Delivered(box, id) = [queued |-> rest, next |-> box.next]
    BY <1>2 DEF Delivered
  <2> HIDE DEF first
  <2>4. rest \in Seq(Message)
    BY <2>1, <2>2, RemoveAtKeeps
  <2>5. /\ Len(rest) = Len(queue) - 1
        /\ \A j \in 1 .. Len(rest) : rest[j] = IF j < first THEN queue[j] ELSE queue[j + 1]
    BY <2>1, <2>2, RemoveAtIs
  <2> HIDE DEF rest
  <2>6. /\ \A j \in 1 .. Len(rest) : j \in 1 .. Len(queue) /\ j + 1 \in 1 .. Len(queue)
        /\ \A i \in 1 .. Len(queue) :
             /\ i < first => i \in 1 .. Len(rest)
             /\ i > first => i - 1 \in 1 .. Len(rest) /\ (i - 1) + 1 = i /\ ~ (i - 1 < first)
    BY <2>1, <2>2, <2>5
  <2>7. \A i \in 1 .. Len(queue) : i # first =>
          \E j \in 1 .. Len(rest) : rest[j] = queue[i]
    <3>1. SUFFICES ASSUME NEW i \in 1 .. Len(queue), i # first
                   PROVE  \E j \in 1 .. Len(rest) : rest[j] = queue[i]
      OBVIOUS
    <3>2. CASE i < first
      BY <2>5, <2>6, <3>2
    <3>3. CASE i > first
      <4>1. i - 1 \in 1 .. Len(rest) /\ rest[i - 1] = queue[(i - 1) + 1] /\ (i - 1) + 1 = i
        BY <2>5, <2>6, <3>3
      <4> QED BY <4>1
    <3> QED BY <2>2, <3>1, <3>2, <3>3
  <2>8. \A j \in 1 .. Len(rest) : \E i \in 1 .. Len(queue) : i # first /\ rest[j] = queue[i]
    <3>1. SUFFICES ASSUME NEW j \in 1 .. Len(rest)
                   PROVE  \E i \in 1 .. Len(queue) : i # first /\ rest[j] = queue[i]
      OBVIOUS
    <3>2. CASE j < first
      BY <2>2, <2>5, <2>6, <3>2
    <3>3. CASE ~ (j < first)
      <4>1. j + 1 # first /\ rest[j] = queue[j + 1] /\ j + 1 \in 1 .. Len(queue)
        BY <2>2, <2>5, <2>6, <3>3
      <4> QED BY <4>1
    <3> QED BY <3>2, <3>3
  <2>9. BodiesOf(rest) \subseteq BodiesOf(queue)
    BY SMTT(20), <2>1, <2>4, <2>8, BodiesAre
  <2>10. queue[first].body \in BodiesOf(queue) /\ ids[queue[first].body] = id
    BY <2>1, <2>2, BodiesAre DEF Genuine
  <2>11. \A b \in BodiesOf(queue) : b # queue[first].body => b \in BodiesOf(rest)
    <3>1. SUFFICES ASSUME NEW i \in 1 .. Len(queue), queue[i].body # queue[first].body
                   PROVE  queue[i].body \in BodiesOf(rest)
      BY <2>1, BodiesAre
    <3>2. PICK j \in 1 .. Len(rest) : rest[j] = queue[i]
      BY <2>7, <3>1
    <3> QED BY <2>4, <3>2, BodiesAre
  <2>12. ASSUME Once(queue)
         PROVE  Once(rest) /\ queue[first].body \notin BodiesOf(rest)
    <3>1. \A i \in 1 .. Len(queue) : i # first => queue[i].body # queue[first].body
      BY <2>2, <2>12 DEF Once
    <3>2. queue[first].body \notin BodiesOf(rest)
      <4>1. SUFFICES ASSUME NEW j \in 1 .. Len(rest), rest[j].body = queue[first].body
                     PROVE  FALSE
        BY <2>4, BodiesAre
      <4>2. PICK i \in 1 .. Len(queue) : i # first /\ rest[j] = queue[i]
        BY <2>8
      <4> QED BY <3>1, <4>1, <4>2
    <3>3. ASSUME NEW i \in 1 .. Len(rest), NEW j \in 1 .. Len(rest),
                 rest[i].body = rest[j].body
          PROVE  i = j
      <4>1. \A k \in 1 .. Len(rest), l \in 1 .. Len(queue), m \in 1 .. Len(queue) :
              queue[l].body = queue[m].body => l = m
        BY <2>12 DEF Once
      <4>2. CASE i < first /\ j < first
        BY <2>5, <2>6, <3>3, <4>1, <4>2
      <4>3. CASE i < first /\ ~ (j < first)
        <5>1. i = j + 1
          BY <2>5, <2>6, <3>3, <4>1, <4>3
        <5> QED BY <2>2, <2>5, <4>3, <5>1
      <4>4. CASE ~ (i < first) /\ j < first
        <5>1. i + 1 = j
          BY <2>5, <2>6, <3>3, <4>1, <4>4
        <5> QED BY <2>2, <2>5, <4>4, <5>1
      <4>5. CASE ~ (i < first) /\ ~ (j < first)
        <5>1. i + 1 = j + 1
          BY <2>5, <2>6, <3>3, <4>1, <4>5
        <5> QED BY <5>1
      <4> QED BY <4>2, <4>3, <4>4, <4>5
    <3> QED BY <3>2, <3>3 DEF Once
  <2> HIDE DEF queue
  <2> QED BY <2>3, <2>9, <2>10, <2>11, <2>12 DEF queue
<1> QED BY <1>1, <1>2

-----------------------------------------------------------------------------
(***************************************************************************)
(* The steps.                                                              *)
(***************************************************************************)
\* Acknowledgements may stay on their way.
LEMMA AnswersStay ==
  ASSUME Answered \subseteq Answered', got' \in Seq(Answered), parkedGot' \in Seq(Answered)
  PROVE  AnswersAreGone'
BY SeqMonotonic DEF AnswersAreGone

\* What is left of the acknowledgements on their way.
LEMMA RemainsAnswered ==
  ASSUME AnswersAreGone
  PROVE  /\ \A p \in Prefixes(got) : p \in Seq(Answered)
         /\ got # <<>> => Head(got) \in Answered /\ Tail(got) \in Seq(Answered)
         /\ <<>> \in Seq(Answered)
<1>1. \A p \in Prefixes(got) : p \in Seq(Answered)
  BY PrefixOf DEF AnswersAreGone
<1>2. got # <<>> => Head(got) \in Answered /\ Tail(got) \in Seq(Answered)
  BY HeadTailProperties DEF AnswersAreGone
<1> QED BY <1>1, <1>2, EmptySeq

\* Acknowledging a number that is among those answered for.
LEMMA AcknowledgeAnswers ==
  ASSUME WireInv, AnswersAreGone, NEW T, Answered \subseteq T, left # <<>>,
         Head(left).id \in T, Acknowledge(budget)
  PROVE  got' \in Seq(T) /\ parkedGot' \in Seq(T)
<1>1. got \in Seq(T) /\ parkedGot \in Seq(T)
  BY SeqMonotonic DEF AnswersAreGone
<1>2. <<>> \in Seq(T) /\ <<Head(left).id>> \in Seq(T)
  BY EmptySeq
<1>3. /\ Tail(left) \in Seq(Genuine(idOf)) /\ up \in BOOLEAN
      /\ budget \in [FaultKinds -> Nat] /\ Len(parkedGot) <= WAITING
  BY WireFacts DEF WireInv
<1>4. PICK rest \in Seq(Genuine(idOf)), held \in Seq(T), first \in Seq(T),
           frames \in Seq(T), purse \in [FaultKinds -> Nat] :
        /\ rest = Tail(left) /\ held = parkedGot /\ purse = budget
        /\ first = <<>> /\ frames = <<Head(left).id>>
  BY <1>1, <1>2, <1>3
<1>5. SendGot(rest, held, first, frames, purse)
  BY <1>4 DEF Acknowledge, SendGot, Transmit
<1>6. Len(held) <= WAITING /\ got \in Seq(T) /\ up \in BOOLEAN
  BY <1>1, <1>3, <1>4
<1> QED BY <1>5, <1>6, SendGotKeeps

\* What goes from the queue is had, given up by the window or told.
LEMMA KeptStays ==
  ASSUME WireInv, KeptOrGone, Growing, IsFiniteSet(Written'), idOf' = idOf,
         BodiesOf(outbox.queued) \subseteq BodiesOf(outbox'.queued) \cup givenUp',
         givenUp \subseteq givenUp'
  PROVE  KeptOrGone'
<1>1. Written' = Written
  BY DEF Written
<1>2. \A b \in Written : Gone(b) => Gone(b)'
  BY GoneStays
<1> QED BY <1>1, <1>2 DEF KeptOrGone

\* Steps of the connection and of the books: neither queue nor mark changes, and
\* acknowledgements are at most lost.
LEMMA QuietSound ==
  ASSUME IInv, Numbered, MarksAreGone, AnswersAreGone, KeptOrGone, Growing,
         UNCHANGED <<seen, seenFile, idOf>>,
         outbox'.queued = outbox.queued, outbox'.next \in Nat,
         outbox'.next >= outbox.next, outboxFile' = outbox',
         givenUp' = givenUp, got' \in Seq(Answered), parkedGot' \in Seq(Answered)
  PROVE  Numbered' /\ MarksAreGone' /\ AnswersAreGone' /\ KeptOrGone'
<1>1. WireInv /\ Marked(seen)
  BY DEF IInv, MarkInv
<1>2. Numbered'
  BY <1>1, NumberedStays
<1>3. IsFiniteSet(Written')
  BY <1>2 DEF Numbered
<1>4. MarksAreGone'
  BY <1>1, <1>2, MarksStay
<1>5. AnswersAreGone'
  BY <1>1, <1>3, GoneStays, AnswersStay
<1>6. KeptOrGone'
  <2>1. BodiesOf(outbox.queued) \subseteq BodiesOf(outbox'.queued) \cup givenUp'
    OBVIOUS
  <2> QED BY <1>1, <1>3, <2>1, KeptStays
<1> QED BY <1>2, <1>4, <1>5, <1>6

\* /tell.
LEMMA TellKeptSound ==
  ASSUME IInv, Numbered, MarksAreGone, AnswersAreGone, KeptOrGone, Growing,
         NEW b \in Bodies, TellKept(b)
  PROVE  Numbered' /\ MarksAreGone' /\ AnswersAreGone' /\ KeptOrGone'
<1>1. WireInv /\ Marked(seen)
  BY DEF IInv, MarkInv
<1>2. /\ b \notin Written /\ idOf' = [idOf EXCEPT ![b] = outbox.next]
      /\ outbox' = Queue(outbox, b) /\ outboxFile' = outbox'
      /\ givenUp' = givenUp \cup (BodiesOf(outbox.queued) \ BodiesOf(outbox'.queued))
      /\ UNCHANGED <<seen, seenFile, parkedGot>>
  BY DEF TellKept
<1>3. outbox'.next = outbox.next + 1 /\ b \in BodiesOf(outbox'.queued)
  <2>1. outbox \in OutboxType
    BY <1>1 DEF WireInv
  <2> QED BY <1>2, <2>1, QueueAdds
<1>4. Numbered'
  BY <1>1, <1>2, <1>3, NumberedTells
<1>5. IsFiniteSet(Written')
  BY <1>4 DEF Numbered
<1>6. MarksAreGone'
  BY <1>1, <1>2, <1>3, <1>4, MarksTold
<1>7. AnswersAreGone'
  <2>1. got' = got \/ got' \in Prefixes(got)
    BY DEF TellKept, SendLeft, Transmit
  <2>2. got' \in Seq(Answered) /\ parkedGot' \in Seq(Answered)
    BY <1>2, <2>1, RemainsAnswered DEF AnswersAreGone
  <2> QED BY <1>1, <1>5, <2>2, GoneStays, AnswersStay
<1>8. KeptOrGone'
  <2>1. \A c \in Written' : c = b \/ c \in Written
    BY <1>1, <1>2 DEF Written, WireInv
  <2>2. \A c \in Written : Gone(c) => Gone(c)'
    BY <1>1, <1>5, GoneStays
  <2> QED BY <1>2, <1>3, <2>1, <2>2 DEF KeptOrGone
<1> QED BY <1>4, <1>6, <1>7, <1>8

\* An acknowledgement takes out the message it answers: ids are given once.
LEMMA HandleGotSound ==
  ASSUME IInv, Numbered, MarksAreGone, AnswersAreGone, KeptOrGone, Growing,
         HandleGot, ~ Strikes("saveS")
  PROVE  Numbered' /\ MarksAreGone' /\ AnswersAreGone' /\ KeptOrGone'
<1>1. WireInv /\ Marked(seen)
  BY DEF IInv, MarkInv
<1>2. /\ outbox' = Delivered(outbox, Head(got)) /\ outboxFile' = outbox'
      /\ got # <<>> /\ got' = Tail(got)
      /\ UNCHANGED <<seen, seenFile, idOf, parkedGot, givenUp>>
  BY DEF HandleGot, receiverVars, historyVars, Numbered
<1>3. Head(got) \in Answered /\ Tail(got) \in Seq(Answered)
  BY <1>2, RemainsAnswered
<1>4. PICK a \in Written : idOf[a] = Head(got) /\ Gone(a)
  BY <1>3 DEF Answered
<1>5. /\ outbox \in OutboxType /\ outbox.queued \in Seq(Genuine(idOf))
      /\ outbox.next \in Nat /\ Head(got) \in Nat
  BY <1>1, <1>2, WireFacts DEF WireInv
<1>6. /\ outbox'.next = outbox.next
      /\ \A b \in BodiesOf(outbox.queued) :
           idOf[b] # Head(got) => b \in BodiesOf(outbox'.queued)
  BY <1>2, <1>5, DeliveredLeaves
<1>7. Numbered'
  BY <1>1, <1>2, <1>5, <1>6, NumberedStays
<1>8. IsFiniteSet(Written')
  BY <1>7 DEF Numbered
<1>9. MarksAreGone'
  BY <1>1, <1>2, <1>5, <1>6, <1>7, MarksStay
<1>10. AnswersAreGone'
  <2>1. got' \in Seq(Answered) /\ parkedGot' \in Seq(Answered)
    BY <1>2, <1>3 DEF AnswersAreGone
  <2> QED BY <1>1, <1>8, <2>1, GoneStays, AnswersStay
<1>11. KeptOrGone'
  <2>1. Written' = Written
    BY <1>2 DEF Written
  <2>2. \A b \in Written : Gone(b) => Gone(b)'
    BY <1>1, <1>8, GoneStays
  <2>3. ASSUME NEW b \in Written, b \in BodiesOf(outbox.queued),
               b \notin BodiesOf(outbox'.queued)
        PROVE  Gone(b)
    <3>1. idOf[b] = idOf[a]
      BY <1>4, <1>6, <2>3
    <3>2. b = a
      BY <3>1 DEF Numbered
    <3> QED BY <1>4, <3>2
  <2> QED BY <1>2, <2>1, <2>2, <2>3 DEF KeptOrGone
<1> QED BY <1>7, <1>9, <1>10, <1>11

\* A message is recorded, and shown or in hand when the recipient is killed.
LEMMA RecordSound ==
  ASSUME IInv, Numbered, MarksAreGone, AnswersAreGone, KeptOrGone, Growing,
         NEW m \in Genuine(idOf), ~ Has(seen, m.id),
         seen' = Accept(seen, m.id), seenFile' = seen', Had(m.body)',
         UNCHANGED <<idOf, outbox, outboxFile, givenUp>>
  PROVE  /\ Numbered' /\ MarksAreGone' /\ KeptOrGone'
         /\ Answered \subseteq Answered' /\ m.id \in Answered'
<1>1. WireInv /\ Marked(seen)
  BY DEF IInv, MarkInv
<1>2. outbox.next \in Nat
  BY <1>1, WireFacts
<1>3. Numbered'
  BY <1>1, <1>2, NumberedStays DEF Numbered
<1>4. IsFiniteSet(Written')
  BY <1>3 DEF Numbered
<1>5. MarksAreGone'
  BY <1>1, <1>3, MarksAccept
<1>6. KeptOrGone'
  <2>1. BodiesOf(outbox.queued) \subseteq BodiesOf(outbox'.queued) \cup givenUp'
    OBVIOUS
  <2> QED BY <1>1, <1>4, <2>1, KeptStays
<1>7. m.body \in Written' /\ idOf'[m.body] = m.id /\ Gone(m.body)'
  BY DEF Genuine, Message, Written, NoId, Gone
<1>8. m.id \in Answered'
  BY <1>7 DEF Answered
<1> QED BY <1>1, <1>3, <1>4, <1>5, <1>6, <1>8, GoneStays

\* A message is shown, and acknowledged as had.
LEMMA ShowLeftSound ==
  ASSUME IInv, Numbered, MarksAreGone, AnswersAreGone, KeptOrGone, Growing, ShowLeft
  PROVE  Numbered' /\ MarksAreGone' /\ AnswersAreGone' /\ KeptOrGone'
<1>1. PICK m \in Genuine(idOf) : m = Head(left)
  BY WireFacts DEF IInv, ShowLeft, NextLeft
<1>2. /\ ~ Has(seen, m.id) /\ seen' = Accept(seen, m.id) /\ seenFile' = seen'
      /\ copies' = [copies EXCEPT ![m.body] = @ + 1]
      /\ UNCHANGED <<idOf, outbox, outboxFile, givenUp>>
      /\ left # <<>> /\ Acknowledge(budget)
  BY <1>1 DEF ShowLeft, NextLeft, senderVars
<1>3. Had(m.body)'
  <2>1. m.body \in Bodies /\ copies \in [Bodies -> Nat]
    BY DEF Genuine, Message, IInv, MarkInv
  <2>2. copies'[m.body] > 0
    BY <1>2, <2>1
  <2> QED BY <2>2 DEF Had
<1>4. /\ Numbered' /\ MarksAreGone' /\ KeptOrGone'
      /\ Answered \subseteq Answered' /\ m.id \in Answered'
  BY <1>2, <1>3, RecordSound
<1>5. PICK T : T = Answered'
  OBVIOUS
<1>6. got' \in Seq(T) /\ parkedGot' \in Seq(T)
  BY <1>1, <1>2, <1>4, <1>5, AcknowledgeAnswers DEF IInv
<1> QED BY <1>4, <1>5, <1>6 DEF AnswersAreGone

\* A number that the mark has is acknowledged again.
LEMMA RepeatLeftSound ==
  ASSUME IInv, Numbered, MarksAreGone, AnswersAreGone, KeptOrGone, Growing, RepeatLeft
  PROVE  Numbered' /\ MarksAreGone' /\ AnswersAreGone' /\ KeptOrGone'
<1>1. PICK m \in Genuine(idOf) : m = Head(left)
  BY WireFacts DEF IInv, RepeatLeft, NextLeft
<1>2. /\ Has(seen, m.id) /\ left # <<>> /\ Acknowledge(budget)
      /\ UNCHANGED <<outbox, outboxFile, seen, seenFile, idOf, givenUp>>
  BY <1>1 DEF RepeatLeft, NextLeft, senderVars, receiverVars, historyVars
<1>3. m.id \in Answered
  <2>1. m.body \in Written /\ idOf[m.body] = m.id
    BY DEF Genuine, Message, Written, NoId
  <2> QED BY <1>2, <2>1 DEF MarksAreGone, Answered
<1>4. PICK T : T = Answered
  OBVIOUS
<1>5. got' \in Seq(T) /\ parkedGot' \in Seq(T)
  BY <1>1, <1>2, <1>3, <1>4, AcknowledgeAnswers DEF IInv
<1>6. outbox.next \in Nat
  BY WireFacts DEF IInv
<1> QED BY <1>2, <1>4, <1>5, <1>6, QuietSound DEF Numbered

\* The invariant is inductive.
LEMMA SoundStep ==
  ASSUME IInv, PurseInv, SoundInv, [Next]_vars
  PROVE  SoundInv'
<1> SUFFICES ASSUME FilesSound'
             PROVE  Numbered' /\ MarksAreGone' /\ AnswersAreGone' /\ KeptOrGone'
  BY DEF SoundInv
<1>1. FilesSound /\ \A k \in {"saveS", "saveR", "reset"} : ~ Strikes(k) /\ budget'[k] = budget[k]
  BY SoundBefore
<1>2. Numbered /\ MarksAreGone /\ AnswersAreGone /\ KeptOrGone
  BY <1>1 DEF SoundInv
<1>3. Growing
  BY StepGrows
<1>4. WireInv /\ outbox.next \in Nat
  BY WireFacts DEF IInv
<1>5. /\ got \in Seq(Answered) /\ parkedGot \in Seq(Answered) /\ <<>> \in Seq(Answered)
      /\ \A p \in Prefixes(got) : p \in Seq(Answered)
  BY <1>2, RemainsAnswered DEF AnswersAreGone
<1>6. ASSUME UNCHANGED <<seen, seenFile, idOf>>,
             outbox'.queued = outbox.queued, outbox'.next \in Nat,
             outbox'.next >= outbox.next, outboxFile' = outbox',
             givenUp' = givenUp, got' \in Seq(Answered), parkedGot' \in Seq(Answered)
      PROVE  Numbered' /\ MarksAreGone' /\ AnswersAreGone' /\ KeptOrGone'
  BY <1>2, <1>3, <1>6, QuietSound
<1>7. ASSUME UNCHANGED <<seen, seenFile, idOf, outbox, outboxFile, givenUp>>,
             got' \in Seq(Answered), parkedGot' \in Seq(Answered)
      PROVE  Numbered' /\ MarksAreGone' /\ AnswersAreGone' /\ KeptOrGone'
  BY <1>2, <1>4, <1>6, <1>7 DEF Numbered
<1>8. ASSUME NEW b \in Bodies, TellKept(b)
      PROVE  Numbered' /\ MarksAreGone' /\ AnswersAreGone' /\ KeptOrGone'
  BY <1>2, <1>3, <1>8, TellKeptSound
<1>9. ASSUME NEW b \in Bodies, TellUnsaved(b)
      PROVE  Numbered' /\ MarksAreGone' /\ AnswersAreGone' /\ KeptOrGone'
  BY <1>1, <1>9 DEF TellUnsaved
<1>10. CASE TellElsewhere
  <2>1. /\ outbox'.queued = outbox.queued /\ outbox'.next = outbox.next + 1
        /\ outboxFile' = outbox'
        /\ UNCHANGED <<seen, seenFile, idOf, givenUp, got, parkedGot>>
    BY <1>10 DEF TellElsewhere, receiverVars, wireVars, historyVars
  <2> QED BY <1>4, <1>5, <1>6, <2>1
<1>11. CASE SenderKeeps
  <2>1. got' = got \/ got' \in Prefixes(got)
    BY <1>11 DEF SenderKeeps, SendLeft, Transmit
  <2>2. UNCHANGED <<seen, seenFile, idOf, outbox, outboxFile, givenUp, parkedGot>>
    BY <1>11 DEF SenderKeeps, senderVars, receiverVars, historyVars
  <2> QED BY <1>5, <1>7, <2>1, <2>2
<1>12. CASE HandleGot
  BY <1>1, <1>2, <1>3, <1>12, HandleGotSound
<1>13. CASE RecipientKeeps
  <2>1. SendGot(left, <<>>, parkedGot, <<>>, budget)
    BY <1>13 DEF RecipientKeeps
  <2>2. PICK T : T = Answered
    OBVIOUS
  <2>3. PICK rest \in Seq(Genuine(idOf)), held \in Seq(T), first \in Seq(T),
             frames \in Seq(T), purse \in [FaultKinds -> Nat] :
          /\ rest = left /\ held = <<>> /\ purse = budget
          /\ first = parkedGot /\ frames = <<>>
    BY <1>4, <1>5, <2>2 DEF WireInv
  <2>4. SendGot(rest, held, first, frames, purse)
    BY <2>1, <2>3 DEF SendGot, Transmit
  <2>5. Len(held) <= WAITING /\ got \in Seq(T) /\ up \in BOOLEAN
    BY <1>4, <1>5, <2>2, <2>3, DeliveryAssumption DEF WireInv
  <2>6. got' \in Seq(T) /\ parkedGot' \in Seq(T)
    BY <2>4, <2>5, SendGotKeeps
  <2>7. UNCHANGED <<seen, seenFile, idOf, outbox, outboxFile, givenUp>>
    BY <1>13 DEF RecipientKeeps, senderVars, receiverVars, historyVars
  <2> QED BY <1>7, <2>2, <2>6, <2>7
<1>14. CASE ShowLeft
  BY <1>2, <1>3, <1>14, ShowLeftSound
<1>15. CASE RepeatLeft
  BY <1>2, <1>3, <1>15, RepeatLeftSound
<1>16. CASE FailToRecordLeft
  <2>1. budget["saveR"] \in Nat /\ Spend("saveR")["saveR"] = budget["saveR"] - 1
        /\ Spend("saveR") \in [FaultKinds -> Nat]
    BY <1>4, <1>16, SpendKeeps, "saveR" \in FaultKinds
       DEF WireInv, FailToRecordLeft, Afford, Spend, FaultKinds
  <2>2. CutOrNot(Spend("saveR"))
    BY <1>16 DEF FailToRecordLeft, Acknowledge, SendGot, Transmit, CutOrNot
  <2>3. budget'["saveR"] <= Spend("saveR")["saveR"]
    BY <2>1, <2>2, CutFalls, "saveR" \in FaultKinds DEF CutOrNot, FaultKinds
  <2>4. budget'["saveR"] = budget["saveR"]
    BY <1>1
  <2> HIDE DEF Spend
  <2> QED BY <2>1, <2>3, <2>4
<1>17. CASE SenderRestarts
  <2>1. /\ outbox' = outboxFile /\ outboxFile' = outboxFile /\ got' = <<>>
        /\ UNCHANGED <<seen, seenFile, idOf, givenUp, parkedGot>>
    BY <1>17 DEF SenderRestarts, receiverVars, historyVars
  <2>2. outbox' = outbox
    BY <1>2, <2>1 DEF Numbered
  <2> QED BY <1>5, <1>7, <2>1, <2>2
<1>18. CASE OutboxDeleted
  BY <1>1, <1>18 DEF OutboxDeleted
<1>19. CASE RecipientRestarts
  <2>1. /\ seen' = seenFile /\ seenFile' = seenFile /\ parkedGot' = <<>>
        /\ got' \in Prefixes(got)
        /\ UNCHANGED <<outbox, outboxFile, idOf, givenUp>>
    BY <1>19 DEF RecipientRestarts, RecipientStops, senderVars
  <2>2. seen' = seen
    BY <1>2, <2>1 DEF MarksAreGone
  <2> QED BY <1>5, <1>7, <2>1, <2>2
<1>20. CASE RecipientKilledInHand
  <2>1. PICK m \in Genuine(idOf) : m = Head(left)
    BY <1>4, <1>20, WireFacts DEF RecipientKilledInHand, NextLeft
  <2>2. /\ ~ Has(seen, m.id) /\ seen' = Accept(seen, m.id) /\ seenFile' = seen'
        /\ cut' = cut \cup {m.body} /\ parkedGot' = <<>> /\ got' \in Prefixes(got)
        /\ UNCHANGED <<idOf, outbox, outboxFile, givenUp>>
    BY <1>20, <2>1 DEF RecipientKilledInHand, RecipientStops, senderVars
  <2>3. Had(m.body)'
    BY <2>2 DEF Had
  <2>4. /\ Numbered' /\ MarksAreGone' /\ KeptOrGone'
        /\ Answered \subseteq Answered'
    BY <1>2, <1>3, <2>2, <2>3, RecordSound
  <2>5. AnswersAreGone'
    BY <1>5, <2>2, <2>4, AnswersStay
  <2> QED BY <2>4, <2>5
<1>21. CASE SenderForgets
  <2>1. /\ outbox'.queued = <<>> /\ outbox'.next = outbox.next
        /\ outboxFile' = outbox'
        /\ givenUp' = givenUp \cup BodiesOf(outbox.queued)
        /\ UNCHANGED <<seen, seenFile, idOf, parkedGot>>
    BY <1>2, <1>21 DEF SenderForgets, receiverVars, Numbered
  <2>2. got' = got \/ got' = <<>>
    BY <1>21 DEF SenderForgets, wireVars
  <2>3. Numbered'
    BY <1>2, <1>4, <2>1, NumberedStays
  <2>4. IsFiniteSet(Written')
    BY <2>3 DEF Numbered
  <2>5. MarksAreGone'
    BY <1>2, <1>3, <1>4, <2>1, <2>3, MarksStay DEF IInv, MarkInv
  <2>6. AnswersAreGone'
    BY <1>3, <1>4, <1>5, <2>1, <2>2, <2>4, GoneStays, AnswersStay
  <2>7. KeptOrGone'
    <3>1. /\ BodiesOf(outbox.queued) \subseteq BodiesOf(outbox'.queued) \cup givenUp'
          /\ givenUp \subseteq givenUp'
      BY <2>1
    <3> QED BY <1>2, <1>3, <1>4, <2>1, <2>4, <3>1, KeptStays
  <2> QED BY <2>3, <2>5, <2>6, <2>7
<1>22. CASE RecipientForgets
  <2>1. /\ seen' = StartingAt(0) /\ seenFile' = seen' /\ parkedGot' = <<>>
        /\ UNCHANGED <<outbox, outboxFile, idOf, givenUp>>
        /\ got' = got \/ got' \in Prefixes(got)
    BY <1>22 DEF RecipientForgets, senderVars, historyVars, wireVars
  <2>2. Numbered'
    BY <1>2, <1>4, <2>1, NumberedStays DEF Numbered
  <2>3. IsFiniteSet(Written')
    BY <2>2 DEF Numbered
  <2>4. MarksAreGone'
    BY <1>4, <2>1, MarksForgotten
  <2>5. AnswersAreGone'
    BY <1>3, <1>4, <1>5, <2>1, <2>3, GoneStays, AnswersStay
  <2>6. KeptOrGone'
    BY <1>2, <1>3, <1>4, <2>1, <2>3, KeptStays
  <2> QED BY <2>2, <2>4, <2>5, <2>6
<1>23. CASE \/ SenderRefuses \/ SenderNotices \/ RecipientRefuses \/ RecipientNotices
            \/ StrangersLeft \/ Connect \/ Break \/ SenderFiles \/ RecipientFiles
  <2>1. /\ UNCHANGED <<seen, seenFile, idOf, outbox, outboxFile, givenUp, parkedGot>>
        /\ got' = got \/ got' = <<>> \/ got' \in Prefixes(got)
    BY <1>23 DEF SenderRefuses, SenderNotices, RecipientRefuses, RecipientNotices, Notice,
       StrangersLeft, Connect, Break, SenderFiles, RecipientFiles,
       senderVars, receiverVars, wireVars, historyVars
  <2> QED BY <1>5, <1>7, <2>1
<1>24. CASE UNCHANGED vars
  <2>1. UNCHANGED <<seen, seenFile, idOf, outbox, outboxFile, givenUp, got, parkedGot>>
    BY <1>24 DEF vars
  <2> QED BY <1>5, <1>7, <2>1
<1> QED
  BY <1>8, <1>9, <1>10, <1>11, <1>12, <1>13, <1>14, <1>15, <1>16, <1>17, <1>18, <1>19,
     <1>20, <1>21, <1>22, <1>23, <1>24 DEF Next

\* It holds of a sender and a recipient who never met.
LEMMA InitSound == Init => PurseInv /\ SoundInv
<1> SUFFICES ASSUME Init PROVE PurseInv /\ SoundInv
  OBVIOUS
<1>1. PurseInv
  BY DeliveryAssumption DEF Init, PurseInv
<1>2. Written = {}
  BY DEF Init, Written
<1>3. IsFiniteSet(Written)
  BY <1>2, FS_EmptySet
<1>4. \A n \in Nat : ~ Has(seen, n)
  BY DEF Init, StartingAt, Has
<1>5. seen.above = {}
  BY DEF Init, StartingAt
<1>6. got = <<>> /\ parkedGot = <<>> /\ outboxFile = outbox /\ seenFile = seen
  BY DEF Init
<1>7. AnswersAreGone
  BY <1>6, EmptySeq DEF AnswersAreGone
<1> QED BY <1>1, <1>2, <1>3, <1>4, <1>5, <1>6, <1>7
           DEF SoundInv, Numbered, MarksAreGone, KeptOrGone

LEMMA SpecSound == Spec => [](IInv /\ PurseInv /\ SoundInv)
<1>1. Init => IInv /\ PurseInv /\ SoundInv
  BY InitIInv, InitSound
<1>2. (IInv /\ PurseInv /\ SoundInv) /\ [Next]_vars => (IInv /\ PurseInv /\ SoundInv)'
  BY NextIInv, SoundBefore, SoundStep
<1> QED BY <1>1, <1>2, PTL DEF Spec

\* A message that was written is in the sender's file until it was had, or its
\* sender was told that it will not go, or the recipient's window gave it up:
\* whatever breaks, crashes and is forgotten, as long as both could write their
\* files. (main.rs deliver, outbox.rs delivered)
THEOREM NothingLostSilently == Spec => []NoSilentLoss
<1>1. SoundInv => NoSilentLoss
  BY DEF SoundInv, NoSilentLoss, Numbered, KeptOrGone, Gone
<1> QED BY <1>1, SpecSound, PTL

\* Every acknowledgement on its way is for a message that was had, or that
\* the window gave up. (contacts.rs accept_left, main.rs)
THEOREM AcknowledgedIsHad == Spec => []AckedIsHad
<1>1. SoundInv => AckedIsHad
  <2> SUFFICES ASSUME got \in Seq(Answered), NEW i \in DOMAIN got
               PROVE  \E b \in Written : idOf[b] = got[i] /\ (Had(b) \/ Overtaken(b))
    BY DEF SoundInv, AckedIsHad, AnswersAreGone
  <2>1. got[i] \in Answered
    BY LenProperties, ElementOfSeq
  <2> QED BY <2>1 DEF Answered, Gone
<1> QED BY <1>1, SpecSound, PTL

-----------------------------------------------------------------------------
(***************************************************************************)
(* Delivery implements DeliveryPromise, as long as files can be written,   *)
(* the outbox is not deleted, neither side forgets the other and the       *)
(* window gives nothing up.  The refinement is from `kept` to what the     *)
(* sender's file holds: /tell writes, an acknowledgement releases.  It     *)
(* needs of every message that it waits once, and that the mark has the    *)
(* number of what was had.                                                 *)
(***************************************************************************)
Remembered == budget["forgetR"] = Budget["forgetR"]

HadIsMarked == \A b \in Bodies : Had(b) => b \in Written /\ Has(seen, idOf[b])

PromiseInv ==
  FilesSound => Once(outbox.queued) /\ (Remembered => HadIsMarked)

Gentle ==
  /\ FilesSound /\ Remembered
  /\ budget["forgetS"] = Budget["forgetS"]
  /\ \A b \in Written : Overtaken(b) => Had(b)

\* A purse that is still full was full before.
LEMMA RememberedBefore ==
  ASSUME IInv, PurseInv, [Next]_vars, NEW k \in FaultKinds, budget'[k] = Budget[k]
  PROVE  budget[k] = Budget[k] /\ ~ Strikes(k)
<1>1. budget'[k] <= budget[k] /\ budget[k] <= Budget[k]
  BY PurseFalls DEF PurseInv, IInv
<1>2. budget[k] \in Nat /\ Budget[k] \in Nat
  BY DeliveryAssumption DEF WireInv, IInv
<1>3. Strikes(k) => budget'[k] = budget[k] - 1
  BY StrikesFalls DEF IInv
<1> QED BY <1>1, <1>2, <1>3

\* What waits was given a number.
LEMMA KeptIsWritten ==
  ASSUME NEW ids, NEW queue \in Seq(Genuine(ids))
  PROVE  \A b \in BodiesOf(queue) : ids[b] \in Nat /\ b \in Bodies
<1>1. \A i \in 1 .. Len(queue) : queue[i] \in Genuine(ids)
  BY ElementOfSeq
<1>2. queue \in Seq(Message)
  BY GenuineIs, SeqMonotonic
<1>3. \A i \in 1 .. Len(queue) : ids[queue[i].body] \in Nat /\ queue[i].body \in Bodies
  BY <1>1 DEF Genuine, Message
<1> QED BY <1>2, <1>3, BodiesAre

\* No message comes to wait twice.
LEMMA OnceStep ==
  ASSUME IInv, PurseInv, SoundInv, FilesSound', Once(outbox.queued), [Next]_vars
  PROVE  Once(outbox'.queued)
<1>1. FilesSound /\ ~ Strikes("saveS") /\ ~ Strikes("reset")
  BY SoundBefore
<1>2. outboxFile = outbox /\ WireInv
  BY <1>1 DEF SoundInv, Numbered, IInv
<1>3. outbox \in OutboxType /\ outbox.queued \in Seq(Genuine(idOf))
  BY <1>2 DEF WireInv
<1>4. ASSUME outbox'.queued = outbox.queued PROVE Once(outbox'.queued)
  BY <1>4
<1>5. ASSUME NEW b \in Bodies, TellKept(b) PROVE Once(outbox'.queued)
  <2>1. b \notin BodiesOf(outbox.queued)
    <3>1. idOf[b] \notin Nat
      BY <1>5 DEF TellKept, Written, NoId
    <3> QED BY <1>3, <3>1, KeptIsWritten
  <2>2. outbox' = Queue(outbox, b)
    BY <1>5 DEF TellKept
  <2> QED BY <1>3, <2>1, <2>2, QueueAdds
<1>6. ASSUME NEW b \in Bodies, TellUnsaved(b) PROVE FALSE
  BY <1>1, <1>6 DEF TellUnsaved
<1>7. CASE HandleGot
  <2>1. outbox' = Delivered(outbox, Head(got)) /\ Head(got) \in Nat
    BY <1>2, <1>7, WireFacts DEF HandleGot
  <2> QED BY <1>3, <2>1, DeliveredLeaves
<1>8. CASE \/ SenderKeeps \/ SenderRefuses \/ SenderNotices
           \/ RecipientKeeps \/ RecipientRefuses \/ RecipientNotices
           \/ ShowLeft \/ FailToRecordLeft \/ RepeatLeft \/ StrangersLeft
           \/ Connect \/ Break \/ RecipientRestarts \/ RecipientKilledInHand
           \/ SenderFiles \/ RecipientForgets \/ RecipientFiles
  BY <1>4, <1>8 DEF SenderKeeps, SenderRefuses, SenderNotices, Notice,
     RecipientKeeps, RecipientRefuses, RecipientNotices, ShowLeft, FailToRecordLeft,
     RepeatLeft, StrangersLeft, Connect, Break, RecipientRestarts, RecipientStops,
     RecipientKilledInHand, SenderFiles, RecipientForgets, RecipientFiles, senderVars
<1>9. CASE TellElsewhere \/ SenderRestarts
  BY <1>2, <1>4, <1>9 DEF TellElsewhere, SenderRestarts
<1>10. CASE OutboxDeleted
  BY <1>1, <1>10 DEF OutboxDeleted
<1>11. CASE SenderForgets
  <2>1. outbox'.queued = <<>>
    BY <1>11 DEF SenderForgets
  <2> QED BY <2>1, EmptySeq DEF Once
<1>12. CASE UNCHANGED vars
  BY <1>4, <1>12 DEF vars
<1> QED BY <1>5, <1>6, <1>7, <1>8, <1>9, <1>10, <1>11, <1>12 DEF Next

\* A message is recorded in the same step as it is had.
LEMMA HadStep ==
  ASSUME IInv, PurseInv, SoundInv, FilesSound', Remembered', HadIsMarked, [Next]_vars
  PROVE  HadIsMarked'
<1>1. FilesSound /\ ~ Strikes("saveR") /\ ~ Strikes("forgetR")
  BY SoundBefore, RememberedBefore, "forgetR" \in FaultKinds DEF Remembered, FaultKinds
<1>2. seenFile = seen /\ WireInv /\ Marked(seen) /\ Growing
  BY <1>1, StepGrows DEF SoundInv, MarksAreGone, IInv, MarkInv
<1>3. /\ idOf \in [Bodies -> Nat \cup {NoId}]
      /\ \A b \in Written : b \in Written' /\ idOf'[b] = idOf[b] /\ idOf[b] \in Nat
  BY <1>2 DEF Growing, WireInv, Written
<1>4. ASSUME UNCHANGED <<copies, cut>>, seen' = seen PROVE HadIsMarked'
  BY <1>3, <1>4 DEF HadIsMarked, Had
<1>5. ASSUME NEW b \in Bodies, TellKept(b) \/ TellUnsaved(b) PROVE HadIsMarked'
  BY <1>4, <1>5 DEF TellKept, TellUnsaved, receiverVars
<1>6. ASSUME NextLeft, ~ Has(seen, Head(left).id), seen' = Accept(seen, Head(left).id),
             idOf' = idOf, \A b \in Bodies : Had(b)' => Had(b) \/ b = Head(left).body
      PROVE  HadIsMarked'
  <2>1. /\ Head(left).id \in Nat /\ Head(left).body \in Bodies
        /\ idOf[Head(left).body] = Head(left).id
    BY <1>2, <1>6, WireFacts DEF NextLeft
  <2>2. /\ Has(seen', Head(left).id)
        /\ \A k \in Nat : Has(seen, k) => Has(seen', k)
    BY <1>2, <1>6, <2>1, AcceptMarks
  <2>3. Head(left).body \in Written
    BY <2>1 DEF Written, NoId
  <2> QED BY <1>3, <1>6, <2>1, <2>2, <2>3 DEF HadIsMarked
<1>7. CASE ShowLeft
  <2>1. copies \in [Bodies -> Nat]
    BY DEF IInv, MarkInv
  <2>2. \A b \in Bodies : Had(b)' => Had(b) \/ b = Head(left).body
    BY <1>7, <2>1 DEF ShowLeft, Had
  <2> QED BY <1>6, <1>7, <2>2 DEF ShowLeft
<1>8. CASE RecipientKilledInHand
  <2>1. \A b \in Bodies : Had(b)' => Had(b) \/ b = Head(left).body
    BY <1>8 DEF RecipientKilledInHand, RecipientStops, Had
  <2> QED BY <1>6, <1>8, <2>1 DEF RecipientKilledInHand, RecipientStops
<1>9. CASE FailToRecordLeft
  <2>1. \A b \in Bodies : Had(b)' => Had(b) \/ b = Head(left).body
    BY <1>9 DEF FailToRecordLeft, historyVars, Had
  <2> QED BY <1>6, <1>9, <2>1 DEF FailToRecordLeft, historyVars
<1>10. CASE RecipientForgets
  BY <1>1, <1>10 DEF RecipientForgets
<1>11. CASE \/ TellElsewhere \/ SenderKeeps \/ SenderRefuses \/ HandleGot \/ SenderNotices
            \/ RecipientKeeps \/ RecipientRefuses \/ RecipientNotices
            \/ RepeatLeft \/ StrangersLeft \/ Connect \/ Break
            \/ SenderRestarts \/ OutboxDeleted
            \/ SenderForgets \/ SenderFiles \/ RecipientFiles
  BY <1>4, <1>11 DEF TellElsewhere, SenderKeeps, SenderRefuses, HandleGot, SenderNotices,
     Notice, RecipientKeeps, RecipientRefuses, RecipientNotices, RepeatLeft,
     StrangersLeft, Connect, Break, SenderRestarts, OutboxDeleted, SenderForgets,
     SenderFiles, RecipientFiles, receiverVars, historyVars
<1>12. CASE RecipientRestarts
  BY <1>2, <1>4, <1>12 DEF RecipientRestarts, RecipientStops
<1>13. CASE UNCHANGED vars
  BY <1>4, <1>13 DEF vars
<1> QED BY <1>5, <1>7, <1>8, <1>9, <1>10, <1>11, <1>12, <1>13 DEF Next

\* So it is at all times.
LEMMA SpecPromiseInv == Spec => [](IInv /\ PurseInv /\ SoundInv /\ PromiseInv)
<1>1. Init => PromiseInv
  <2> SUFFICES ASSUME Init PROVE PromiseInv
    OBVIOUS
  <2>1. outbox.queued = <<>> /\ \A b \in Bodies : ~ Had(b)
    BY DEF Init, Had
  <2> QED BY <2>1, EmptySeq DEF PromiseInv, Once, HadIsMarked
<1>2. IInv /\ PurseInv /\ SoundInv /\ PromiseInv /\ [Next]_vars => PromiseInv'
  <2> SUFFICES ASSUME IInv, PurseInv, SoundInv, PromiseInv, [Next]_vars, FilesSound'
               PROVE  Once(outbox.queued)' /\ (Remembered' => HadIsMarked')
    BY DEF PromiseInv
  <2>1. Once(outbox.queued)
    BY SoundBefore DEF PromiseInv
  <2>2. Once(outbox.queued)'
    BY <2>1, OnceStep DEF Once
  <2>3. ASSUME Remembered' PROVE HadIsMarked'
    <3>1. FilesSound /\ Remembered
      BY <2>3, SoundBefore, RememberedBefore, "forgetR" \in FaultKinds
         DEF Remembered, FaultKinds
    <3> QED BY <2>3, <3>1, HadStep DEF PromiseInv
  <2> QED BY <2>2, <2>3
<1> QED BY <1>1, <1>2, SpecSound, PTL DEF Spec

\* Each step is one of the promise's, or none.
LEMMA PromiseStep ==
  ASSUME IInv, PurseInv, SoundInv, PromiseInv, Gentle, Gentle', [Next]_vars
  PROVE  [Promise!Next]_(Promise!vars)
<1>1. /\ Numbered /\ AnswersAreGone /\ WireInv /\ Once(outbox.queued) /\ HadIsMarked
      /\ outboxFile = outbox
  BY DEF Gentle, SoundInv, PromiseInv, IInv, Numbered
<1>2. \A k \in {"saveS", "saveR", "reset", "forgetS", "forgetR"} : ~ Strikes(k)
  <2>1. /\ "forgetS" \in FaultKinds /\ "forgetR" \in FaultKinds
        /\ budget'["forgetS"] = Budget["forgetS"] /\ budget'["forgetR"] = Budget["forgetR"]
    BY DEF Gentle, Remembered, FaultKinds
  <2>2. ~ Strikes("forgetS") /\ ~ Strikes("forgetR")
    BY <2>1, RememberedBefore
  <2>3. FilesSound'
    BY DEF Gentle
  <2> QED BY <2>2, <2>3, SoundBefore
<1>3. /\ outbox \in OutboxType /\ outbox.queued \in Seq(Genuine(idOf))
      /\ copies \in [Bodies -> Nat] /\ idOf \in [Bodies -> Nat \cup {NoId}]
  BY <1>1 DEF WireInv, IInv, MarkInv
<1>4. ASSUME UNCHANGED <<idOf, outboxFile, copies, cut, givenUp>>
      PROVE  UNCHANGED Promise!vars
  BY <1>4 DEF Promise!vars, Written
<1>5. ASSUME NEW b \in Bodies, TellKept(b) PROVE Promise!Write(b)
  <2> DEFINE room == BodiesOf(outbox.queued) \ BodiesOf(outbox'.queued)
  <2>1. /\ b \notin Written /\ idOf' = [idOf EXCEPT ![b] = outbox.next]
        /\ outbox' = Queue(outbox, b) /\ outboxFile' = outbox'
        /\ givenUp' = givenUp \cup room
        /\ UNCHANGED <<copies, cut>>
    BY <1>5 DEF TellKept
  <2>2. outbox.next \in Nat
    BY <1>1, WireFacts
  <2>3. Written' = Written \cup {b}
    BY <1>3, <2>1, <2>2 DEF Written, NoId
  <2>4. /\ b \in BodiesOf(outbox'.queued)
        /\ BodiesOf(outbox'.queued) \subseteq BodiesOf(outbox.queued) \cup {b}
    BY <1>3, <2>1, QueueAdds
  <2>5. PICK kept, kept2 : kept = BodiesOf(outbox.queued) /\ kept2 = BodiesOf(outbox'.queued)
    OBVIOUS
  <2>6. /\ room \in SUBSET kept /\ kept2 = (kept \ room) \cup {b}
        /\ kept = BodiesOf(outboxFile.queued) /\ kept2 = BodiesOf(outboxFile'.queued)
    BY <1>1, <2>1, <2>4, <2>5
  <2> QED BY <2>1, <2>3, <2>6 DEF Promise!Write
<1>6. ASSUME NEW b \in Bodies, TellUnsaved(b) PROVE FALSE
  BY <1>2, <1>6 DEF TellUnsaved
<1>7. ASSUME NextLeft, ~ Has(seen, Head(left).id)
      PROVE  /\ Head(left).body \in Written /\ Head(left).body \in Bodies
             /\ ~ Had(Head(left).body)
  <2>1. /\ Head(left).id \in Nat /\ Head(left).body \in Bodies
        /\ idOf[Head(left).body] = Head(left).id
    BY <1>1, <1>7, WireFacts DEF NextLeft
  <2> QED BY <1>1, <1>7, <2>1 DEF HadIsMarked, Written, NoId
<1>8. CASE ShowLeft
  <2>1. /\ Head(left).body \in Written /\ Head(left).body \in Bodies
        /\ ~ Had(Head(left).body)
    BY <1>7, <1>8 DEF ShowLeft
  <2>2. /\ copies' = [copies EXCEPT ![Head(left).body] = @ + 1]
        /\ UNCHANGED <<idOf, outboxFile, cut, givenUp>>
    BY <1>8 DEF ShowLeft, senderVars
  <2>3. PICK b \in Bodies : b = Head(left).body
    BY <2>1
  <2>4. copies[b] = 0
    BY <1>3, <2>1, <2>3 DEF Had
  <2>5. copies' = [copies EXCEPT ![b] = 1]
    BY <1>3, <2>2, <2>3, <2>4
  <2>6. Promise!Show(b)
    BY <2>1, <2>2, <2>3, <2>5 DEF Promise!Show, Promise!Had, Had, Written
  <2> QED BY <2>6 DEF Promise!Next
<1>9. CASE RecipientKilledInHand
  <2>1. /\ Head(left).body \in Written /\ Head(left).body \in Bodies
        /\ ~ Had(Head(left).body)
    BY <1>7, <1>9 DEF RecipientKilledInHand
  <2>2. /\ cut' = cut \cup {Head(left).body}
        /\ UNCHANGED <<idOf, outboxFile, copies, givenUp>>
    BY <1>9 DEF RecipientKilledInHand, RecipientStops, senderVars
  <2>3. PICK b \in Bodies : b = Head(left).body
    BY <2>1
  <2>4. Promise!Miss(b)
    BY <2>1, <2>2, <2>3 DEF Promise!Miss, Promise!Had, Had, Written
  <2> QED BY <2>4 DEF Promise!Next
<1>10. CASE HandleGot
  <2>1. /\ outbox' = Delivered(outbox, Head(got)) /\ outboxFile' = outbox'
        /\ got # <<>>
        /\ UNCHANGED <<idOf, copies, cut, givenUp>>
    BY <1>1, <1>2, <1>10 DEF HandleGot, historyVars
  <2>2. Head(got) \in Nat /\ Head(got) \in Answered
    BY <1>1, <2>1, WireFacts, RemainsAnswered
  <2>3. PICK a \in Written : idOf[a] = Head(got) /\ Gone(a)
    BY <2>2 DEF Answered
  <2>4. Had(a)
    BY <2>3 DEF Gone, Gentle
  <2>5. CASE outbox' = outbox
    BY <1>1, <1>4, <2>1, <2>5
  <2>6. CASE outbox' # outbox
    <3> DEFINE kept == BodiesOf(outbox.queued)
               kept2 == BodiesOf(outbox'.queued)
    <3>1. /\ \A c \in kept2 : c \in kept
          /\ \A c \in kept : idOf[c] # Head(got) => c \in kept2
          /\ \E b \in kept : idOf[b] = Head(got) /\ b \notin kept2
      <4>1. PICK id \in Nat, box \in OutboxType, ids \in {idOf} :
              id = Head(got) /\ box = outbox /\ ids = idOf
        BY <1>3, <2>2
      <4>2. Once(box.queued) /\ box.queued \in Seq(Genuine(ids)) /\ Delivered(box, id) # box
        BY <1>1, <1>3, <2>1, <2>6, <4>1
      <4>3. BodiesOf(Delivered(box, id).queued) \subseteq BodiesOf(box.queued)
        BY <4>1, <4>2, DeliveredLeaves
      <4>4. \A c \in BodiesOf(box.queued) :
              ids[c] # id => c \in BodiesOf(Delivered(box, id).queued)
        BY <4>1, <4>2, DeliveredLeaves
      <4>5. \E c \in BodiesOf(box.queued) :
              ids[c] = id /\ c \notin BodiesOf(Delivered(box, id).queued)
        BY <4>1, <4>2, DeliveredLeaves
      <4> QED BY <2>1, <4>1, <4>3, <4>4, <4>5
    <3>2. PICK b \in kept : idOf[b] = Head(got) /\ b \notin kept2
      BY <3>1
    <3>3. kept \subseteq Written
      <4>1. \A c \in kept : idOf[c] \in Nat /\ c \in Bodies
        BY <1>1, <1>3, KeptIsWritten
      <4> QED BY <4>1 DEF Written, NoId
    <3>4. b = a /\ kept2 = kept \ {b}
      <4>1. \A c \in kept : idOf[c] = Head(got) => c = a
        BY <1>1, <2>3, <3>3 DEF Numbered
      <4> QED BY <3>1, <3>2, <4>1
    <3>5. Promise!Release(b)
      BY <1>1, <2>1, <2>4, <3>2, <3>4 DEF Promise!Release, Promise!Had, Had, Written
    <3> QED BY <3>3, <3>2, <3>5 DEF Promise!Next, Written
  <2> QED BY <2>5, <2>6
<1>11. CASE \/ SenderKeeps \/ SenderRefuses \/ SenderNotices
            \/ RecipientKeeps \/ RecipientRefuses \/ RecipientNotices
            \/ RepeatLeft \/ StrangersLeft \/ Connect \/ Break
            \/ RecipientRestarts \/ SenderFiles \/ RecipientFiles \/ SenderRestarts
  BY <1>4, <1>11 DEF SenderKeeps, SenderRefuses, SenderNotices, Notice, RecipientKeeps,
     RecipientRefuses, RecipientNotices, RepeatLeft, StrangersLeft, Connect, Break,
     RecipientRestarts, RecipientStops, SenderFiles, RecipientFiles, SenderRestarts,
     senderVars, historyVars
<1>12. CASE TellElsewhere
  <2>1. /\ outboxFile'.queued = outboxFile.queued
        /\ UNCHANGED <<idOf, copies, cut, givenUp>>
    BY <1>1, <1>12 DEF TellElsewhere, historyVars
  <2> QED BY <2>1 DEF Promise!vars, Written
<1>13. CASE FailToRecordLeft
  <2>1. budget'["saveR"] = Budget["saveR"] /\ "saveR" \in FaultKinds
    BY DEF Gentle, FilesSound, FaultKinds
  <2>2. budget["saveR"] = Budget["saveR"] /\ budget["saveR"] \in Nat
    BY <1>1, <2>1, RememberedBefore DEF WireInv
  <2>3. budget["saveR"] > 0 /\ Spend("saveR")["saveR"] = budget["saveR"] - 1
        /\ Spend("saveR") \in [FaultKinds -> Nat]
    BY <1>1, <1>13, <2>1, SpendKeeps DEF WireInv, FailToRecordLeft, Afford, Spend
  <2>4. CutOrNot(Spend("saveR"))
    BY <1>13 DEF FailToRecordLeft, Acknowledge, SendGot, Transmit, CutOrNot
  <2>5. budget'["saveR"] <= Spend("saveR")["saveR"]
    BY <2>1, <2>3, <2>4, CutFalls DEF CutOrNot
  <2> HIDE DEF Spend
  <2> QED BY <2>1, <2>2, <2>3, <2>5
<1>14. CASE OutboxDeleted \/ SenderForgets \/ RecipientForgets
  BY <1>2, <1>14 DEF OutboxDeleted, SenderForgets, RecipientForgets
<1>15. CASE UNCHANGED vars
  BY <1>4, <1>15 DEF vars
<1>16. ASSUME NEW b \in Bodies, TellKept(b) PROVE [Promise!Next]_(Promise!vars)
  BY <1>5, <1>16 DEF Promise!Next
<1> QED BY <1>6, <1>8, <1>9, <1>10, <1>11, <1>12, <1>13, <1>14, <1>15, <1>16 DEF Next

\* Whatever breaks and however often either side is killed, the two machines do
\* what /tell promises: a message is kept until it was had, shown once at most
\* and let go of once had.  (outbox.rs, contacts.rs accept_left, main.rs)
THEOREM KeepsThePromise == Spec /\ []Gentle => Promise!Spec
<1>1. Init => Promise!Init
  BY DEF Init, Promise!Init, Written, BodiesOf
<1>2. /\ IInv /\ PurseInv /\ SoundInv /\ PromiseInv /\ Gentle /\ Gentle' /\ [Next]_vars
      => [Promise!Next]_(Promise!vars)
  BY PromiseStep
<1> QED BY <1>1, <1>2, SpecPromiseInv, PTL DEF Spec, Promise!Spec

\* It is so, for one, when no such fault can strike and no more messages are
\* written than the window has numbers: a condition on the constants alone.
THEOREM KeepsThePromiseWithinTheWindow ==
  ASSUME \A k \in {"saveS", "saveR", "reset", "forgetS", "forgetR"} : Budget[k] = 0,
         IsFiniteSet(Bodies), Cardinality(Bodies) <= WINDOW
  PROVE  Spec => Promise!Spec
<1>1. IInv /\ PurseInv => Gentle
  <2> SUFFICES ASSUME IInv, PurseInv PROVE Gentle
    OBVIOUS
  <2>1. \A k \in {"saveS", "saveR", "reset", "forgetS", "forgetR"} : budget[k] = Budget[k]
    BY DEF IInv, WireInv, PurseInv, FaultKinds
  <2>2. ASSUME NEW b \in Written PROVE ~ Overtaken(b)
    <3> DEFINE later == {c \in Written : idOf[c] > idOf[b] /\ Had(c)}
    <3>1. later \subseteq Bodies
      BY DEF Written
    <3>2. Cardinality(later) <= Cardinality(Bodies) /\ IsFiniteSet(later)
      BY <3>1, FS_Subset
    <3>3. Cardinality(later) \in Nat /\ Cardinality(Bodies) \in Nat
      BY <3>2, FS_CardinalityType
    <3> HIDE DEF later
    <3>4. ~ (Cardinality(later) > WINDOW)
      BY <3>2, <3>3, WindowAssumption
    <3> QED BY <3>4 DEF later, Overtaken
  <2> QED BY <2>1, <2>2 DEF Gentle, FilesSound, Remembered
<1>2. Spec => []Gentle
  BY <1>1, SpecSound, PTL
<1> QED BY <1>2, KeepsThePromise, PTL
=============================================================================
