------------------------------ MODULE Session ------------------------------
(***************************************************************************)
(* One connection: the handshake that says who is there (proto.rs), the    *)
(* two ratchets it seeds (ratchet.rs), and the two tasks of a Link that    *)
(* turn a stream into frames and back (link.rs), until it is closed, cut,  *)
(* or its circuit dies.                                                    *)
(***************************************************************************)
EXTENDS Ratchet, Integers, SequencesExt, FiniteSets

CONSTANTS
  Names,         \* addresses
  Address,       \* the one each side has
  OUTBOX,        \* frames that queue on the way out (32)
  INBOX,         \* frames that queue on the way in (32)
  Budget         \* how often each kind of event may happen

Sides == {"caller", "answerer"}
Other(s) == IF s = "caller" THEN "answerer" ELSE "caller"

EventKinds == {"say", "beat", "event"}

ASSUME SessionAssumption ==
  /\ Address \in [Sides -> Names]
  /\ OUTBOX \in Nat \ {0} /\ INBOX \in Nat \ {0}
  /\ Budget \in [EventKinds -> Nat]

VARIABLES
  speaks,        \* what each side speaks
  dialled,       \* the address the caller asked for
  claims,        \* the address each side says is its own
  phase,         \* how far each side is
  known,         \* who each side takes the other for, and the key it was given
  ratchet,
  wire,          \* what each side wrote and the other has not read
  end,           \* how that stream ends
  outbox,        \* frames queued for the writing task
  sealed,        \* the frame it has sealed and not yet written
  writing,       \* the writing task
  reading,       \* the reading task
  inbox,         \* what it handed up
  clones,        \* does an upload hold a sender of the outbox?
  budget,
  \* history, for the properties
  said, heard,   \* frames queued and taken, in order
  made,          \* key pairs made
  used           \* frame keys, and how many frames were sealed

linkVars == <<outbox, sealed, writing, reading, inbox, clones>>
envVars == <<speaks, dialled, claims>>
historyVars == <<said, heard, used>>
vars == <<speaks, dialled, claims, phase, known, ratchet, wire, end, outbox, sealed,
          writing, reading, inbox, clones, budget, said, heard, made, used>>

Nobody == [name |-> "nobody", key |-> <<>>]
NoFrame == [msg |-> 0, lock |-> <<>>]
Ping == 0

\* The last part of what is in an inbox.
Fault == -1
Closed == -2
Refused == -3

Speaks == {"this version", "another version", "something else", "nothing"}
Murmure(s) == speaks[s] \in {"this version", "another version"}

Opening(s) == phase[s] \in {"head", "rest", "proof"}

Strikes(kind) == budget[kind] > 0 /\ budget' = [budget EXCEPT ![kind] = @ - 1]

Ephemeral(s) == <<s, 0>>
Fresh(s) == <<s, made[s]>>

\* What a side says first.
Hello(s) ==
  <<[kind |-> "head", speaks |-> speaks[s]]>> \o
  IF Murmure(s) THEN <<[kind |-> "rest", name |-> claims[s], nonce |-> s,
                        key |-> Ephemeral(s)]>> ELSE <<>>

\* How it proves it: signed over its role, both addresses, the other's
\* challenge and its own key, with the key of the address `by`.
Challenge(role, signer, verifier, nonce, key) == <<role, signer, verifier, nonce, key>>

Proof(s, by, role, theirs) ==
  [kind |-> "proof", by |-> by,
   words |-> Challenge(role, claims[s], theirs.name, theirs.nonce, Ephemeral(s))]

\* A side signs with the one key it has.  Whoever is there may claim an address
\* that is not theirs, and may then have a signature of its owner too: one
\* given over another connection, where the owner was at the other end.
Proofs(s, theirs) ==
  {Proof(s, Address[s], s, theirs)}
    \cup IF claims[s] = Address[s] THEN {} ELSE {Proof(s, claims[s], Other(s), theirs)}

Init ==
  /\ speaks \in [Sides -> Speaks]
  /\ speaks["caller"] = "this version"
  /\ dialled \in Names
  /\ claims \in [Sides -> Names]
  /\ phase = [s \in Sides |-> IF Murmure(s) THEN "head" ELSE "deaf"]
  /\ known = [s \in Sides |-> Nobody]
  /\ ratchet = [s \in Sides |-> <<>>]
  /\ wire = [s \in Sides |-> IF speaks[s] = "nothing" THEN <<>> ELSE Hello(s)]
  /\ end = [s \in Sides |-> "open"]
  /\ outbox = [s \in Sides |-> <<>>] /\ inbox = outbox
  /\ sealed = [s \in Sides |-> NoFrame]
  /\ writing = [s \in Sides |-> "no"] /\ reading = writing
  /\ clones = {}
  /\ budget = Budget
  /\ said = [s \in Sides |-> 0] /\ heard = [s \in Sides |-> <<>>]
  /\ made = [s \in Sides |-> 1]
  /\ used = [keys |-> {}, frames |-> 0]

-----------------------------------------------------------------------------
(***************************************************************************)
(* The handshake.                                                          *)
(***************************************************************************)

Arrives(s, kind) == wire[Other(s)] # <<>> /\ Head(wire[Other(s)]).kind = kind
Rest(s) == [wire EXCEPT ![Other(s)] = Tail(@)]

\* A stream let go by one side: what that side wrote still arrives, and the
\* other writes to nobody.
Ended(how) == [s \in Sides |-> IF end[s] = "open" THEN how[s] ELSE end[s]]
Dropped == Ended([s \in Sides |-> "clean"])

Fails(s) ==
  /\ phase' = [phase EXCEPT ![s] = "failed"]
  /\ end' = Dropped
  /\ UNCHANGED <<known, ratchet, made>>

\* Nine bytes say what the other side speaks.
ReadHead(s) ==
  /\ phase[s] = "head" /\ Arrives(s, "head")
  /\ wire' = Rest(s)
  /\ IF Head(wire[Other(s)]).speaks = speaks[s]
       THEN /\ phase' = [phase EXCEPT ![s] = "rest"]
            /\ UNCHANGED <<known, ratchet, made, end>>
       ELSE Fails(s)
  /\ UNCHANGED <<envVars, linkVars, budget, historyVars>>

AsDialled(s, name) == s = "caller" => name = dialled

\* Who they claim to be; the caller signs for nobody but whom it dialled.
ReadRest(s) ==
  /\ phase[s] = "rest" /\ Arrives(s, "rest")
  /\ LET theirs == Head(wire[Other(s)])
     IN  IF ~ AsDialled(s, theirs.name)
           THEN Fails(s) /\ wire' = Rest(s)
           ELSE /\ phase' = [phase EXCEPT ![s] = "proof"]
                /\ known' = [known EXCEPT ![s] = [name |-> theirs.name, key |-> theirs.key]]
                /\ \E proof \in Proofs(s, theirs) :
                     wire' = [Rest(s) EXCEPT ![s] =
                                IF end[s] # "open" THEN @ ELSE Append(@, proof)]
                /\ UNCHANGED <<ratchet, made, end>>
  /\ UNCHANGED <<envVars, linkVars, budget, historyVars>>

\* Mutant: the answerer expects to be proved to by an answerer.
ExpectedOfAnswerer(s) ==
  Challenge("answerer", known[s].name, claims[s], s, known[s].key)

\* What s waits to see signed.
Expected(s) ==
  Challenge(Other(s), known[s].name, claims[s], s, known[s].key)

\* Mutant: whose signature it is is not looked at.
GenuineOfAnybody(s, m) == m.words = Expected(s)

\* Signed by the address that is claimed.
Genuine(s, m) == m.by = known[s].name /\ m.words = Expected(s)

Root(s) == <<{Ephemeral(s), known[s].key}>>

\* Their proof holds: the connection is theirs, and the ratchet is seeded.
ReadProof(s) ==
  /\ phase[s] = "proof" /\ Arrives(s, "proof")
  /\ wire' = Rest(s)
  /\ IF ~ Genuine(s, Head(wire[Other(s)]))
       THEN Fails(s) /\ UNCHANGED <<writing, reading>>
       ELSE /\ phase' = [phase EXCEPT ![s] = "open"]
            /\ ratchet' = [ratchet EXCEPT ![s] =
                 IF s = "caller" THEN Caller(Root(s), Fresh(s), known[s].key)
                                 ELSE Answerer(Root(s), Ephemeral(s), known[s].key)]
            /\ made' = [made EXCEPT ![s] = IF s = "caller" THEN @ + 1 ELSE @]
            /\ writing' = [writing EXCEPT ![s] = "runs"]
            /\ reading' = [reading EXCEPT ![s] = "runs"]
            /\ UNCHANGED <<known, end>>
  /\ UNCHANGED <<envVars, outbox, sealed, inbox, clones, budget, historyVars>>

\* HANDSHAKE_TIMEOUT, or the stream ended before all of it was read.
HandshakeTimeout(s) ==
  /\ Opening(s) /\ wire[Other(s)] = <<>>
  /\ \/ end[Other(s)] # "open" /\ UNCHANGED budget
     \/ phase[Other(s)] = "deaf" /\ UNCHANGED budget
     \/ Strikes("event")
  /\ Fails(s)
  /\ UNCHANGED <<envVars, wire, linkVars, historyVars>>

-----------------------------------------------------------------------------
(***************************************************************************)
(* The writing task.                                                       *)
(***************************************************************************)

Open(s) == phase[s] = "open"

\* Something is queued by whoever holds the link, or by an upload in the
\* background, which outlives the holder's interest.
Queue(s) ==
  /\ writing[s] = "runs" /\ Len(outbox[s]) < OUTBOX
  /\ Open(s) \/ s \in clones
  /\ Strikes("say")
  /\ said' = [said EXCEPT ![s] = @ + 1]
  /\ outbox' = [outbox EXCEPT ![s] = Append(@, said[s] + 1)]
  /\ UNCHANGED <<envVars, phase, known, ratchet, wire, end, sealed, writing,
                 reading, inbox, clones, heard, made, used>>

\* Seal `msg`, or find the chain at its end: the task stops with an error.
Seal(s, msg) ==
  /\ ratchet' = [ratchet EXCEPT ![s] = AfterSeal(@)]
  /\ IF Exhausted(ratchet[s])
       THEN writing' = [writing EXCEPT ![s] = "failed"] /\ UNCHANGED <<sealed, used>>
       ELSE /\ sealed' = [sealed EXCEPT ![s] = [msg |-> msg, lock |-> Sealed(ratchet[s])]]
            /\ used' = [keys |-> used.keys \cup {ratchet[s].sending},
                        frames |-> used.frames + 1]
            /\ UNCHANGED writing

Idle(s) == writing[s] = "runs" /\ sealed[s] = NoFrame

\* The next queued frame is sealed, under the lock both tasks share.
SealNext(s) ==
  /\ Idle(s) /\ outbox[s] # <<>>
  /\ Seal(s, Head(outbox[s]))
  /\ outbox' = [outbox EXCEPT ![s] = Tail(@)]
  /\ UNCHANGED <<envVars, phase, known, wire, end, reading, inbox, clones, budget,
                 said, heard, made>>

\* Nothing was sent for a while: a Ping.
Beat(s) ==
  /\ Idle(s) /\ outbox[s] = <<>> /\ Strikes("beat")
  /\ Open(s) \/ s \in clones
  /\ Seal(s, Ping)
  /\ UNCHANGED <<envVars, phase, known, wire, end, outbox, reading, inbox, clones,
                 said, heard, made>>

\* The sealed frame goes out, after the lock was let go.  A stream that has
\* ended takes it without a word, or makes the task fail.
Write(s) ==
  /\ writing[s] = "runs" /\ sealed[s] # NoFrame
  /\ sealed' = [sealed EXCEPT ![s] = NoFrame]
  /\ \/ /\ end[s] = "open"
        /\ wire' = [wire EXCEPT ![s] = Append(@,
             [kind |-> "frame", msg |-> sealed[s].msg, lock |-> sealed[s].lock])]
        /\ UNCHANGED writing
     \/ /\ end[s] # "open"
        /\ \E after \in {"runs", "failed"} :
             writing' = [writing EXCEPT ![s] = after]
        /\ UNCHANGED wire
  /\ UNCHANGED <<envVars, phase, known, ratchet, end, outbox, reading, inbox, clones,
                 budget, historyVars, made>>

\* A peer that takes nothing for SILENCE: write_or_give_up gives up.
GiveUpWriting(s) ==
  /\ writing[s] = "runs" /\ sealed[s] # NoFrame /\ Strikes("event")
  /\ sealed' = [sealed EXCEPT ![s] = NoFrame]
  /\ writing' = [writing EXCEPT ![s] = "failed"]
  /\ UNCHANGED <<envVars, phase, known, ratchet, wire, end, outbox, reading, inbox,
                 clones, historyVars, made>>

-----------------------------------------------------------------------------
(***************************************************************************)
(* The reading task.                                                       *)
(***************************************************************************)

\* The reader stops, and says why behind what it has read.
Stops(s, why) ==
  /\ reading' = [reading EXCEPT ![s] = "done"]
  /\ inbox' = [inbox EXCEPT ![s] = Append(@, why)]

Reads(s) == reading[s] = "runs" /\ Len(inbox[s]) < INBOX

\* The next frame is opened; a Ping goes no further.  One that does not open
\* ends the connection.
Read(s) ==
  /\ Reads(s) /\ Arrives(s, "frame")
  /\ wire' = Rest(s)
  /\ LET frame == Head(wire[Other(s)])
         opens == Opens(ratchet[s], frame.lock, Fresh(s))
     IN  /\ ratchet' = [ratchet EXCEPT ![s] =
              IF opens THEN AfterOpen(@, frame.lock, Fresh(s)) ELSE @]
         /\ made' = [made EXCEPT ![s] =
              IF Turned(ratchet[s], frame.lock) THEN @ + 1 ELSE @]
         /\ CASE ~ opens -> Stops(s, Refused)
              [] opens /\ frame.msg = Ping -> UNCHANGED <<reading, inbox>>
              [] OTHER -> /\ inbox' = [inbox EXCEPT ![s] = Append(@, frame.msg)]
                          /\ UNCHANGED reading
  /\ UNCHANGED <<envVars, phase, known, end, outbox, sealed, writing, clones, budget,
                 historyVars>>

\* The stream ends, between two frames or inside one.
ReadEnd(s) ==
  /\ Reads(s) /\ wire[Other(s)] = <<>> /\ end[Other(s)] # "open"
  /\ Stops(s, IF end[Other(s)] = "clean" THEN Closed ELSE Fault)
  /\ UNCHANGED <<envVars, phase, known, ratchet, wire, end, outbox, sealed, writing,
                 clones, budget, historyVars, made>>

\* Mutant: only a circuit that dies is noticed.
SilenceUnnoticed(s) == FALSE

\* Nothing was heard for SILENCE, from a side that no longer writes or on a
\* circuit that does not deliver.
Silence(s) ==
  /\ Reads(s) /\ wire[Other(s)] = <<>>
  /\ \/ writing[Other(s)] = "failed" /\ UNCHANGED budget
     \/ Strikes("event")
  /\ Stops(s, Fault)
  /\ UNCHANGED <<envVars, phase, known, ratchet, wire, end, outbox, sealed, writing,
                 clones, historyVars, made>>

-----------------------------------------------------------------------------
(***************************************************************************)
(* Whoever holds the link.                                                 *)
(***************************************************************************)

Hears(s, what) ==
  heard' = [heard EXCEPT ![s] = Append(@, what)]

\* A frame is taken from the inbox; the word that it has ended makes the
\* holder let the link go, its queue still to be written.
Take(s) ==
  /\ Open(s) /\ inbox[s] # <<>>
  /\ Hears(s, Head(inbox[s]))
  /\ inbox' = [inbox EXCEPT ![s] = Tail(@)]
  /\ phase' = [phase EXCEPT ![s] = IF Head(inbox[s]) > 0 THEN @ ELSE "closing"]
  /\ UNCHANGED <<envVars, known, ratchet, wire, end, outbox, sealed, writing, reading,
                 clones, budget, said, made, used>>

\* Link::close: the reader is stopped, and our sender dropped.
Close(s) ==
  /\ Open(s)
  /\ phase' = [phase EXCEPT ![s] = "closing"]
  /\ reading' = [reading EXCEPT ![s] = "done"]
  /\ inbox' = [inbox EXCEPT ![s] = <<>>]
  /\ UNCHANGED <<envVars, known, ratchet, wire, end, outbox, sealed, writing, clones,
                 budget, historyVars, made>>

\* Mutant: the queue is not waited for.
CloseReturnsAtOnce(s) ==
  /\ phase[s] = "closing"
  /\ phase' = [phase EXCEPT ![s] = "gone"]
  /\ end' = Dropped
  /\ wire' = [wire EXCEPT ![Other(s)] = <<>>]
  /\ outbox' = [outbox EXCEPT ![s] = <<>>] /\ sealed' = [sealed EXCEPT ![s] = NoFrame]
  /\ writing' = [writing EXCEPT ![s] = "done"]
  /\ UNCHANGED <<envVars, known, ratchet, reading, inbox, clones, budget, historyVars,
                 made>>

\* The writer runs dry with every sender gone, or had failed: the stream is
\* let go, and what the other side wrote with it.
CloseReturns(s) ==
  /\ phase[s] = "closing"
  /\ \/ writing[s] = "runs" /\ outbox[s] = <<>> /\ sealed[s] = NoFrame /\ s \notin clones
     \/ writing[s] = "failed"
  /\ phase' = [phase EXCEPT ![s] = "gone"]
  /\ end' = Dropped
  /\ wire' = [wire EXCEPT ![Other(s)] = <<>>]
  /\ outbox' = [outbox EXCEPT ![s] = <<>>]
  /\ writing' = [writing EXCEPT ![s] = IF @ = "runs" THEN "done" ELSE @]
  /\ UNCHANGED <<envVars, known, ratchet, sealed, reading, inbox, clones, budget,
                 historyVars, made>>

\* Link::cut, for a peer that stopped reading: both tasks end where they are,
\* and the inbox with them.
Cut(s) ==
  /\ Open(s) /\ writing[s] = "runs" /\ reading[s] = "runs" /\ Strikes("event")
  /\ writing' = [writing EXCEPT ![s] = "failed"]
  /\ Stops(s, Closed)
  /\ sealed' = [sealed EXCEPT ![s] = NoFrame]
  /\ outbox' = [outbox EXCEPT ![s] = <<>>]
  /\ end' = Ended([t \in Sides |-> IF sealed[s] = NoFrame THEN "clean" ELSE "torn"])
  /\ wire' = [wire EXCEPT ![Other(s)] = <<>>]
  /\ UNCHANGED <<envVars, phase, known, ratchet, clones, historyVars, made>>

\* A file starts, and stops, going out in the background over this link.
Upload(s) ==
  /\ Open(s) /\ s \notin clones /\ Strikes("event")
  /\ clones' = clones \cup {s}
  /\ UNCHANGED <<envVars, phase, known, ratchet, wire, end, outbox, sealed, writing,
                 reading, inbox, historyVars, made>>

UploadEnds(s) ==
  /\ s \in clones
  /\ clones' = clones \ {s}
  /\ UNCHANGED <<envVars, phase, known, ratchet, wire, end, outbox, sealed, writing,
                 reading, inbox, budget, historyVars, made>>

\* The circuit dies, between two frames or inside one.
Break ==
  /\ \E s \in Sides : end[s] = "open"
  /\ Strikes("event")
  /\ \E how \in {"clean", "torn"} : end' = Ended([s \in Sides |-> how])
  /\ wire' \in {w \in [Sides -> UNION {Prefixes(wire[s]) : s \in Sides}] :
                 \A s \in Sides : w[s] \in Prefixes(wire[s])}
  /\ UNCHANGED <<envVars, phase, known, ratchet, linkVars, historyVars, made>>

-----------------------------------------------------------------------------

Over(s) == phase[s] \in {"failed", "deaf", "gone"}

\* Both sides are done with the connection.
Rests == (\A s \in Sides : Over(s) /\ s \notin clones) /\ UNCHANGED vars

Handshakes(s) == ReadHead(s) \/ ReadRest(s) \/ ReadProof(s) \/ HandshakeTimeout(s)
Writes(s) == SealNext(s) \/ Write(s)
ReaderSteps(s) == Read(s) \/ ReadEnd(s) \/ Silence(s)

Next ==
  \/ \E s \in Sides :
       \/ Handshakes(s) \/ Writes(s) \/ ReaderSteps(s)
       \/ Take(s) \/ CloseReturns(s) \/ UploadEnds(s)
       \/ Queue(s) \/ Beat(s) \/ GiveUpWriting(s)
       \/ Close(s) \/ Cut(s) \/ Upload(s)
  \/ Break \/ Rests

Spec == Init /\ [][Next]_vars

\* Both tasks and whoever holds the link get to run, a handshake does not
\* wait for ever, and an upload comes to its end.
Fairness ==
  \A s \in Sides :
    /\ WF_vars(Handshakes(s) \/ Writes(s) \/ CloseReturns(s))
    /\ WF_vars(ReaderSteps(s)) /\ WF_vars(Take(s)) /\ WF_vars(UploadEnds(s))

FairSpec == Spec /\ Fairness

-----------------------------------------------------------------------------
(***************************************************************************)
(* What makes it correct.                                                  *)
(***************************************************************************)

Opened(s) == ratchet[s] # <<>>

\* Whatever address is claimed, a side that takes a connection for opened knows
\* who is there.  The name it has is the address the other side holds the key of,
\* and the one that was dialled; the ratchet is seeded with the key the other side
\* made for this connection; and the other side's build speaks as its own does.
\* (proto.rs handshake)
Acquainted ==
  \A s \in Sides : Opened(s) =>
    /\ known[s] = [name |-> Address[Other(s)], key |-> Ephemeral(Other(s))]
    /\ speaks[Other(s)] = speaks[s]
    /\ s = "caller" => known[s].name = dialled

\* However frames and turns cross on the wire, every frame opens with the
\* key the reader has come to, and is the one it waits for: no frame is
\* refused.  (ratchet.rs open, dh_step)
NeverRefused ==
  \A s \in Sides : \A i \in DOMAIN inbox[s] : inbox[s][i] # Refused

\* No key seals two frames, on either side or across the two, for each is used
\* with the same nonce; nor does a chain go past its end, where its counter
\* would start again.  (ratchet.rs seal)
OneKeyOneFrame ==
  /\ Cardinality(used.keys) = used.frames
  /\ \A s \in Sides : Opened(s) => ratchet[s].nr <= CHAIN /\ ratchet[s].ns <= CHAIN

NothingStruck == budget["event"] = Budget["event"]

\* What one side takes is what the other queued, in order and with nothing
\* missing; what ended the connection comes behind it; and a side that is told
\* of a clean end when nothing went wrong has taken all that was queued before
\* the other closed.  (Link::open, Link::close)
HeardInOrder ==
  \A s \in Sides :
    /\ \A i \in DOMAIN heard[s] :
         \/ heard[s][i] = i /\ i <= said[Other(s)]
         \/ heard[s][i] < 0 /\ i = Len(heard[s])
    /\ NothingStruck /\ heard[s] # <<>> /\ Last(heard[s]) = Closed
         /\ writing[Other(s)] # "failed"
       => Len(heard[s]) - 1 = said[Other(s)]

Suited ==
  /\ \A s \in Sides : speaks[s] = "this version" /\ claims[s] = Address[s]
  /\ dialled = Address["answerer"]

\* Two builds of one version, under their own addresses, at the one that was
\* dialled, on a circuit that holds, come to an open connection.  (proto.rs handshake)
HandshakeCompletes ==
  [](Suited => <>((\A s \in Sides : Opened(s)) \/ ~ NothingStruck
                   \/ \E s \in Sides : phase[s] = "closing"))

Waiting(s) == Opening(s) \/ phase[s] = "closing" \/ (Open(s) /\ writing[s] = "failed")

\* Nobody waits for ever.  A handshake comes to an end whoever is there; a
\* link that is being closed is closed, and whoever awaits it, the idle loop
\* among them, goes on; and a side whose writer has given up does not keep its
\* connection for good, since the other hears nothing and lets go.
\* (HANDSHAKE_TIMEOUT, Link::close, SILENCE)
NobodyWaitsForEver == \A s \in Sides : Waiting(s) ~> ~ Waiting(s)
=============================================================================
