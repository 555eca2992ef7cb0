------------------------------ MODULE Delivery ------------------------------
(***************************************************************************)
(* Leaving a message with /tell: the sender's sealed outbox (outbox.rs),   *)
(* the recipient's mark of what it has (contacts.rs accept_left over       *)
(* seen.rs), and the connection between them as the idle loop of main.rs   *)
(* and the pool (pool.rs) use it.                                          *)
(*                                                                         *)
(* One sender writes to one recipient.  Both may crash and restart, the    *)
(* connection may go at any moment with a part of what was on it, either   *)
(* side may fail to write its file, and either may /forget the other.      *)
(***************************************************************************)
EXTENDS Seen, SequencesExt

CONSTANTS
  Bodies,        \* the messages the sender may write
  MAX_WAITING,   \* undelivered messages kept for one contact (64)
  WAITING,       \* frames the pool holds for a missing connection (4)
  Budget         \* how often each kind of fault may strike

FaultKinds == {"break", "crash", "saveS", "saveR", "forgetS", "forgetR",
               "elsewhere", "reset"}

ASSUME DeliveryAssumption ==
  /\ MAX_WAITING \in Nat \ {0}
  /\ WAITING \in Nat
  /\ Budget \in [FaultKinds -> Nat]

VARIABLES
  \* the sender
  outbox,        \* Outbox in memory: what is queued, the next id
  outboxFile,    \* outbox.sealed, as last written
  parkedLeft,    \* Pool::waiting at the sender: frames for the next connection
  \* the recipient
  seen,          \* Contact::seen in memory
  seenFile,      \* the same in contacts.sealed, as last written
  parkedGot,     \* Pool::waiting at the recipient
  \* both
  filed,         \* is the other side in the contacts book?
  link,          \* what each side has of the connection
  up,            \* does the connection still carry frames?
  left,          \* Left frames written by the sender, not yet handled
  got,           \* Got frames written by the recipient, not yet handled
  budget,        \* what remains of Budget
  \* history, for the properties
  idOf,          \* the id each message was given, NoId before it is written
  copies,        \* how many times each message was put on screen
  cut,           \* messages in hand when the recipient was killed
  givenUp        \* messages the sender was told will not go

senderVars == <<outbox, outboxFile>>
receiverVars == <<seen, seenFile>>
wireVars == <<up, left, got>>
historyVars == <<idOf, copies, cut, givenUp>>
vars == <<outbox, outboxFile, parkedLeft, seen, seenFile, parkedGot, filed,
          link, up, left, got, budget, idOf, copies, cut, givenUp>>

Sides == {"sender", "recipient"}
NoId == -1
Message == [id : Nat, body : Bodies]
OutboxType == [queued : Seq(Message), next : Nat]

BodiesOf(queue) == {m.body : m \in {queue[i] : i \in DOMAIN queue}}

Written == {b \in Bodies : idOf[b] # NoId}

\* Pool::send with no connection to send on: held up to WAITING, then dropped.
Park(held, frames) ==
  LET all == held \o frames
  IN  SubSeq(all, 1, IF Len(all) < WAITING THEN Len(all) ELSE WAITING)

\* A fault of this kind strikes: it could, and may do so once less.
Afford(kind) == budget[kind] > 0
Spend(kind) == [budget EXCEPT ![kind] = @ - 1]
Strikes(kind) == Afford(kind) /\ budget' = Spend(kind)

Init ==
  /\ outbox = [queued |-> <<>>, next |-> 0] /\ outboxFile = outbox
  /\ seen = StartingAt(0) /\ seenFile = seen
  /\ parkedLeft = <<>> /\ parkedGot = <<>>
  /\ filed = [s \in Sides |-> TRUE]
  /\ link = [s \in Sides |-> "none"] /\ up = FALSE
  /\ left = <<>> /\ got = <<>>
  /\ budget = Budget
  /\ idOf = [b \in Bodies |-> NoId] /\ copies = [b \in Bodies |-> 0]
  /\ cut = {} /\ givenUp = {}

-----------------------------------------------------------------------------
(***************************************************************************)
(* Putting frames on a connection.                                         *)
(***************************************************************************)

\* One side writes to the connection: `out` is the stream it writes, `back`
\* the stream it reads and `rest` what it has yet to read of it, `parked` its
\* Pool::waiting.  Frames `first` go unconditionally (Pool::keep drains what
\* was parked), then Pool::send takes `frames` one by one.  Over a live
\* connection all of them go, or its queue stays full for STUCK and it is cut:
\* that frame and the later ones are parked.  Over one that died unnoticed the
\* writer may still swallow some; the rest are parked.
Transmit(out, back, rest, parked, held, first, frames, purse) ==
  \/ /\ up
     /\ out' = out \o first \o frames /\ back' = rest
     /\ parked' = held
     /\ budget' = purse /\ UNCHANGED up
  \/ /\ up /\ purse["break"] > 0
     /\ \E n \in 0 .. Len(frames) - 1 :
          /\ out' \in Prefixes(out \o first \o SubSeq(frames, 1, n))
          /\ parked' = Park(held, SubSeq(frames, n + 1, Len(frames)))
     /\ back' \in Prefixes(rest)
     /\ up' = FALSE
     /\ budget' = [purse EXCEPT !["break"] = @ - 1]
  \/ /\ ~ up
     /\ \E n \in 0 .. Len(frames) :
          parked' = Park(held, SubSeq(frames, n + 1, Len(frames)))
     /\ back' = rest
     /\ budget' = purse /\ UNCHANGED <<up, out>>

\* The sender puts Left frames on the wire; the recipient acknowledgements.
SendLeft(held, first, frames) ==
  Transmit(left, got, got, parkedLeft, held, first, frames, budget)

SendGot(rest, held, first, frames, purse) ==
  Transmit(got, left, rest, parkedGot, held, first, frames, purse)

-----------------------------------------------------------------------------
(***************************************************************************)
(* The sender.                                                             *)
(***************************************************************************)

\* Mutant: no ceiling.
QueueAll(box, b) ==
  [queued |-> Append(box.queued, [id |-> box.next, body |-> b]),
   next |-> box.next + 1]

\* Outbox::queue up to its save: the new message at the end, the oldest
\* dropped past MAX_WAITING.
Queue(box, b) ==
  LET all == Append(box.queued, [id |-> box.next, body |-> b])
      over == IF Len(all) > MAX_WAITING THEN Len(all) - MAX_WAITING ELSE 0
  IN  [queued |-> SubSeq(all, over + 1, Len(all)), next |-> box.next + 1]

\* /tell, written to disk: the sender is told what was dropped, and the whole
\* queue is put on the connection if there is one.
TellKept(b) ==
  LET box == Queue(outbox, b)
  IN  /\ filed["sender"] /\ b \notin Written
      /\ outbox' = box
      /\ outboxFile' = box
      /\ idOf' = [idOf EXCEPT ![b] = outbox.next]
      /\ givenUp' = givenUp \cup (BodiesOf(outbox.queued) \ BodiesOf(box.queued))
      /\ IF link["sender"] = "held"
           THEN SendLeft(parkedLeft, <<>>, box.queued)
           ELSE UNCHANGED <<parkedLeft, up, left, got, budget>>
      /\ UNCHANGED <<seen, seenFile, parkedGot, filed, link, copies, cut>>

\* /tell when the file cannot be written: an error on screen and nothing sent,
\* but the queue in memory has changed and stays changed.
TellUnsaved(b) ==
  /\ filed["sender"] /\ b \notin Written
  /\ Strikes("saveS")
  /\ outbox' = Queue(outbox, b)
  /\ idOf' = [idOf EXCEPT ![b] = outbox.next]
  /\ givenUp' = givenUp \cup {b}
  /\ UNCHANGED <<outboxFile, parkedLeft, receiverVars, parkedGot, filed, link,
                 wireVars, copies, cut>>

\* /tell to somebody else: one counter numbers all messages.
TellElsewhere ==
  /\ Strikes("elsewhere")
  /\ outbox' = [queued |-> outbox.queued, next |-> outbox.next + 1]
  /\ outboxFile' = outbox'
  /\ UNCHANGED <<parkedLeft, receiverVars, parkedGot, filed, link, wireVars,
                 historyVars>>

\* A connection the sender opened or took is put in the pool: what was parked
\* goes first, then everything queued (Pool::keep, then deliver).
SenderKeeps ==
  /\ link["sender"] = "landed"
  /\ link' = [link EXCEPT !["sender"] = "held"]
  /\ SendLeft(<<>>, parkedLeft, outbox.queued)
  /\ UNCHANGED <<senderVars, receiverVars, parkedGot, filed, historyVars>>

\* Mutant: an acknowledgement is taken to be for the oldest.
DeliveredOldest(box, id) ==
  [queued |-> SubSeq(box.queued, 2, Len(box.queued)), next |-> box.next]

\* Where in the queue the message with this id waits, the first if several do.
PositionOf(queue, id) ==
  CHOOSE i \in DOMAIN queue :
    queue[i].id = id /\ \A j \in 1 .. i - 1 : queue[j].id # id

\* Outbox::delivered: the acknowledged message, and only that, leaves the queue.
Delivered(box, id) ==
  IF \E i \in DOMAIN box.queued : box.queued[i].id = id
    THEN [queued |-> RemoveAt(box.queued, PositionOf(box.queued, id)),
          next |-> box.next]
    ELSE box

\* A Got arrives.  Nothing is written for an id that is not queued; a failed
\* write leaves the message in the file and out of memory.
HandleGot ==
  /\ link["sender"] = "held" /\ got # <<>>
  /\ got' = Tail(got)
  /\ outbox' = Delivered(outbox, Head(got))
  /\ \/ /\ outboxFile' = IF outbox' = outbox THEN outboxFile ELSE outbox'
        /\ UNCHANGED budget
     \/ /\ outbox' # outbox
        /\ Strikes("saveS")
        /\ UNCHANGED outboxFile
  /\ UNCHANGED <<parkedLeft, receiverVars, parkedGot, filed, link, up, left,
                 historyVars>>

\* Contacts::admits: a connection taken from somebody no longer filed is closed
\* (unless the book is empty; one we dialled ourselves is kept unasked).
SenderRefuses ==
  /\ link["sender"] = "landed" /\ ~ filed["sender"]
  /\ link' = [link EXCEPT !["sender"] = "none"]
  /\ up' = FALSE /\ left' \in Prefixes(left) /\ got' = <<>>
  /\ UNCHANGED <<senderVars, parkedLeft, receiverVars, parkedGot, filed, budget,
                 historyVars>>

-----------------------------------------------------------------------------
(***************************************************************************)
(* The recipient.                                                          *)
(***************************************************************************)

RecipientKeeps ==
  /\ link["recipient"] = "landed"
  /\ link' = [link EXCEPT !["recipient"] = "held"]
  /\ SendGot(left, <<>>, parkedGot, <<>>, budget)
  /\ UNCHANGED <<senderVars, parkedLeft, receiverVars, filed, historyVars>>

\* The same at this side.
RecipientRefuses ==
  /\ link["recipient"] = "landed" /\ ~ filed["recipient"]
  /\ link' = [link EXCEPT !["recipient"] = "none"]
  /\ up' = FALSE /\ left' = <<>> /\ got' \in Prefixes(got)
  /\ UNCHANGED <<senderVars, parkedLeft, receiverVars, parkedGot, filed, budget,
                 historyVars>>

\* The Left at the head of the inbox, when its sender is in the book.
NextLeft == link["recipient"] = "held" /\ left # <<>> /\ filed["recipient"]

\* What ends the handling of every Left from a contact: Got, sent "either way".
Acknowledge(purse) ==
  SendGot(Tail(left), parkedGot, <<>>, <<Head(left).id>>, purse)

\* Mutant: what was recorded is not written down.
ShowLeftUnsaved ==
  /\ NextLeft /\ ~ Has(seen, Head(left).id)
  /\ seen' = Accept(seen, Head(left).id)
  /\ copies' = [copies EXCEPT ![Head(left).body] = @ + 1]
  /\ Acknowledge(budget)
  /\ UNCHANGED <<senderVars, parkedLeft, seenFile, filed, link, idOf, cut, givenUp>>

\* A message not seen yet: recorded, written down, shown, acknowledged.
ShowLeft ==
  /\ NextLeft /\ ~ Has(seen, Head(left).id)
  /\ seen' = Accept(seen, Head(left).id)
  /\ seenFile' = seen'
  /\ copies' = [copies EXCEPT ![Head(left).body] = @ + 1]
  /\ Acknowledge(budget)
  /\ UNCHANGED <<senderVars, parkedLeft, filed, link, idOf, cut, givenUp>>

\* The same when contacts.sealed cannot be written: recorded in memory, an
\* error on screen instead of the message, and acknowledged all the same.
FailToRecordLeft ==
  /\ NextLeft /\ ~ Has(seen, Head(left).id)
  /\ Afford("saveR")
  /\ seen' = Accept(seen, Head(left).id)
  /\ Acknowledge(Spend("saveR"))
  /\ UNCHANGED <<senderVars, parkedLeft, seenFile, filed, link, historyVars>>

\* Mutant: a redelivery is not acknowledged.
RepeatLeftSilently ==
  /\ NextLeft /\ Has(seen, Head(left).id)
  /\ left' = Tail(left)
  /\ UNCHANGED <<senderVars, parkedLeft, receiverVars, parkedGot, filed, link,
                 up, got, budget, historyVars>>

\* A redelivery: nothing to show, acknowledged again.
RepeatLeft ==
  /\ NextLeft /\ Has(seen, Head(left).id)
  /\ Acknowledge(budget)
  /\ UNCHANGED <<senderVars, parkedLeft, receiverVars, filed, link, historyVars>>

\* From somebody no longer in the book: dropped, and not acknowledged.
StrangersLeft ==
  /\ link["recipient"] = "held" /\ left # <<>> /\ ~ filed["recipient"]
  /\ left' = Tail(left)
  /\ UNCHANGED <<senderVars, parkedLeft, receiverVars, parkedGot, filed, link,
                 up, got, budget, historyVars>>

-----------------------------------------------------------------------------
(***************************************************************************)
(* The connection.                                                         *)
(***************************************************************************)

\* A dial and its handshake succeed.  Whatever either side still held of an
\* earlier connection is stale and goes, with the frames it had not read.
Connect ==
  /\ ~ up /\ \A s \in Sides : filed[s]
  /\ up' = TRUE /\ left' = <<>> /\ got' = <<>>
  /\ link' = [s \in Sides |-> "landed"]
  /\ UNCHANGED <<senderVars, parkedLeft, receiverVars, parkedGot, filed, budget,
                 historyVars>>

\* The circuit dies, with any part of what was on its way.
Break ==
  /\ up /\ Strikes("break")
  /\ up' = FALSE
  /\ left' \in Prefixes(left) /\ got' \in Prefixes(got)
  /\ UNCHANGED <<senderVars, parkedLeft, receiverVars, parkedGot, filed, link,
                 historyVars>>

\* A side notices, after the last frame it was sent: the end is queued behind
\* the frames already read.
Notice(s, inbox) ==
  /\ ~ up /\ link[s] = "held" /\ inbox = <<>>
  /\ link' = [link EXCEPT ![s] = "none"]
  /\ UNCHANGED <<senderVars, parkedLeft, receiverVars, parkedGot, filed,
                 wireVars, budget, historyVars>>

SenderNotices == Notice("sender", got)
RecipientNotices == Notice("recipient", left)

-----------------------------------------------------------------------------
(***************************************************************************)
(* Crashes, and contacts forgotten.                                        *)
(***************************************************************************)

\* Killed and started again: the file is what it comes back with.
SenderRestarts ==
  /\ Strikes("crash")
  /\ outbox' = outboxFile
  /\ parkedLeft' = <<>>
  /\ link' = [link EXCEPT !["sender"] = "none"]
  /\ up' = FALSE /\ left' \in Prefixes(left) /\ got' = <<>>
  /\ UNCHANGED <<outboxFile, receiverVars, parkedGot, filed, historyVars>>

\* Restarted without the file, as Outbox::open asks when it cannot read it.
OutboxDeleted ==
  /\ Strikes("reset")
  /\ outbox' = [queued |-> <<>>, next |-> 0] /\ outboxFile' = outbox'
  /\ givenUp' = givenUp \cup BodiesOf(outbox.queued)
  /\ parkedLeft' = <<>>
  /\ link' = [link EXCEPT !["sender"] = "none"]
  /\ up' = FALSE /\ left' \in Prefixes(left) /\ got' = <<>>
  /\ UNCHANGED <<receiverVars, parkedGot, filed, idOf, copies, cut>>

RecipientStops ==
  /\ Strikes("crash")
  /\ parkedGot' = <<>>
  /\ link' = [link EXCEPT !["recipient"] = "none"]
  /\ up' = FALSE /\ left' = <<>> /\ got' \in Prefixes(got)
  /\ UNCHANGED <<senderVars, parkedLeft, filed, idOf, copies, givenUp>>

RecipientRestarts ==
  /\ RecipientStops
  /\ seen' = seenFile
  /\ UNCHANGED <<seenFile, cut>>

\* Killed in the middle of ShowLeft: written down, not yet on screen.
RecipientKilledInHand ==
  /\ NextLeft /\ ~ Has(seen, Head(left).id)
  /\ seenFile' = Accept(seen, Head(left).id) /\ seen' = seenFile'
  /\ cut' = cut \cup {Head(left).body}
  /\ RecipientStops

\* /forget at the sender: what was written goes with the contact, and the
\* connection is closed once what is queued on it is out.
SenderForgets ==
  /\ filed["sender"] /\ Strikes("forgetS")
  /\ filed' = [filed EXCEPT !["sender"] = FALSE]
  /\ outbox' = [queued |-> <<>>, next |-> outbox.next]
  /\ outboxFile' = IF outbox' = outbox THEN outboxFile ELSE outbox'
  /\ givenUp' = givenUp \cup BodiesOf(outbox.queued)
  /\ parkedLeft' = <<>>
  /\ IF link["sender"] = "held"
       THEN /\ link' = [link EXCEPT !["sender"] = "none"]
            /\ up' = FALSE /\ left' \in Prefixes(left) /\ got' = <<>>
       ELSE UNCHANGED <<link, wireVars>>
  /\ UNCHANGED <<receiverVars, parkedGot, idOf, copies, cut>>

SenderFiles ==
  /\ ~ filed["sender"]
  /\ filed' = [filed EXCEPT !["sender"] = TRUE]
  /\ UNCHANGED <<senderVars, parkedLeft, receiverVars, parkedGot, link,
                 wireVars, budget, historyVars>>

\* /forget at the recipient: the mark of what was received goes with the
\* contact; /add starts a new one at zero.
RecipientForgets ==
  /\ filed["recipient"] /\ Strikes("forgetR")
  /\ filed' = [filed EXCEPT !["recipient"] = FALSE]
  /\ seen' = StartingAt(0) /\ seenFile' = seen'
  /\ parkedGot' = <<>>
  /\ IF link["recipient"] = "held"
       THEN /\ link' = [link EXCEPT !["recipient"] = "none"]
            /\ up' = FALSE /\ left' = <<>> /\ got' \in Prefixes(got)
       ELSE UNCHANGED <<link, wireVars>>
  /\ UNCHANGED <<senderVars, parkedLeft, historyVars>>

RecipientFiles ==
  /\ ~ filed["recipient"]
  /\ filed' = [filed EXCEPT !["recipient"] = TRUE]
  /\ UNCHANGED <<senderVars, parkedLeft, receiverVars, parkedGot, link,
                 wireVars, budget, historyVars>>

-----------------------------------------------------------------------------
Next ==
  \/ \E b \in Bodies : TellKept(b) \/ TellUnsaved(b)
  \/ TellElsewhere \/ SenderKeeps \/ SenderRefuses \/ HandleGot \/ SenderNotices
  \/ RecipientKeeps \/ RecipientRefuses \/ RecipientNotices
  \/ ShowLeft \/ FailToRecordLeft \/ RepeatLeft \/ StrangersLeft
  \/ Connect \/ Break
  \/ SenderRestarts \/ OutboxDeleted \/ RecipientRestarts \/ RecipientKilledInHand
  \/ SenderForgets \/ SenderFiles \/ RecipientForgets \/ RecipientFiles

Spec == Init /\ [][Next]_vars

\* The idle loop takes up every event that is ready (select!), and with presence
\* agreed the sweep dials a missing contact every minute, so both come back to
\* each other as long as both run.  Nobody has to write, fail or crash.
Fairness ==
  /\ WF_vars(Connect)
  /\ WF_vars(SenderKeeps) /\ WF_vars(RecipientKeeps)
  /\ WF_vars(SenderNotices) /\ WF_vars(RecipientNotices)
  /\ WF_vars(HandleGot)
  /\ WF_vars(ShowLeft \/ RepeatLeft)

FairSpec == Spec /\ Fairness

-----------------------------------------------------------------------------
\* The types, every queue within its ceiling.
TypeOK ==
  /\ outbox \in OutboxType /\ outboxFile \in OutboxType
  /\ seen \in SeenType /\ seenFile \in SeenType
  /\ Len(outbox.queued) <= MAX_WAITING /\ Len(outboxFile.queued) <= MAX_WAITING
  /\ parkedLeft \in Seq(Message) /\ parkedGot \in Seq(Nat)
  /\ Len(parkedLeft) <= WAITING /\ Len(parkedGot) <= WAITING
  /\ filed \in [Sides -> BOOLEAN]
  /\ link \in [Sides -> {"none", "landed", "held"}]
  /\ up \in BOOLEAN
  /\ left \in Seq(Message) /\ got \in Seq(Nat)
  /\ budget \in [FaultKinds -> Nat]
  /\ idOf \in [Bodies -> Nat \cup {NoId}]
  /\ copies \in [Bodies -> Nat]
  /\ cut \subseteq Bodies /\ givenUp \subseteq Bodies

\* How often the recipient forgot the sender.
Forgotten == Budget["forgetR"] - budget["forgetR"]

\* "A redelivery is never a duplicate on screen": whatever is lost, repeated,
\* restarted or not written, a message is shown at most once for each time its
\* sender was filed.
AtMostOnce == \A b \in Bodies : copies[b] <= 1 + Forgotten

\* A message that was had: shown, or in hand when the recipient was killed.
Had(b) == copies[b] > 0 \/ b \in cut

\* Both sides could write their files, and the outbox was never deleted: a new
\* one numbers from 0, among ids that were settled long ago.
FilesSound == \A kind \in {"saveS", "saveR", "reset"} : budget[kind] = Budget[kind]

\* Given up for lost: a message that more than WINDOW later ones have overtaken.
\* Its number is below the floor by then and reads as seen.
Overtaken(b) ==
  Cardinality({c \in Written : idOf[c] > idOf[b] /\ Had(c)}) > WINDOW

\* No message vanishes without a word: until it was had, it is in the sender's
\* file, or the sender was told.  What is excepted is what the window gives up.
NoSilentLoss ==
  FilesSound => \A b \in Written :
    \/ b \in BodiesOf(outboxFile.queued) \/ Had(b) \/ b \in givenUp
    \/ Overtaken(b)

\* What is acknowledged was had: no Got is on its way for an id whose message
\* never reached the screen, unless it came too late to be told from one that
\* had.  A message that could not be recorded is acknowledged and not shown.
AckedIsHad ==
  FilesSound => \A i \in DOMAIN got :
    \E b \in Written : idOf[b] = got[i] /\ (Had(b) \/ Overtaken(b))

\* Files, connections, crashes and acknowledgements implement the promise.
Promise == INSTANCE DeliveryPromise
             WITH written <- Written,
                  kept <- BodiesOf(outboxFile.queued),
                  missed <- cut,
                  excused <- givenUp

\* The promise is kept: no message is shown that was not written, or shown twice,
\* and as long as both sides come back to each other each one is had.
KeepsPromiseFairly == Promise!FairSpec

\* The sender's queue empties: every message had is acknowledged in the end,
\* whichever Got was lost.
EventuallyReleased ==
  \A b \in Bodies :
    b \in BodiesOf(outbox.queued) ~> b \notin BodiesOf(outbox.queued)
=============================================================================
