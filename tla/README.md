# murmure in TLA+

murmure is a messenger for the terminal. Two people who have each other's
`.onion` address talk over one authenticated connection per pair; there is no
server. These specifications model the parts of it whose correctness depends on
the order in which things happen: one connection and its keys, calls and the files
sent in them, messages left for somebody who is away, the agreement to see each
other online, rooms of several people and their files, and what one person keeps
on disk, through lost connections, crashes and writes that fail.

Paths below are relative to the repository; `src/` there is the Rust crate.

## The system

One process per person. Nearly everything runs on one task, the **idle loop** of
`src/main.rs`, which takes one event at a time with `tokio::select!` and handles
it to the end before it takes the next. Beside it run: one reader and one writer
task per connection (`link.rs`), dials and handshakes in the background, a call
(`chat.rs`) as a task of its own, and file transfers.

| part | state it keeps | operations | talks to |
|---|---|---|---|
| `seen.rs` duplicate detection | a floor and the numbers seen above it | `has`, `accept` | contacts, room |
| `outbox.rs` messages left with `/tell` | per address a queue, the next id; sealed on disk | `queue`, `frames_for`, `delivered`, `discard` | idle loop, store |
| `contacts.rs` the book | names, addresses, presence state, what was received; sealed on disk | `add`, `remove`, `set_presence`, `accept_left`, `admits`, `set_objection` | idle loop, seen, store |
| `pool.rs` connections outside a call | idle links, the lent one, dials, frames waiting for a connection | `keep`, `lend`, `give_back`, `opened`, `reach`, `send`, `forget`, `ready`, `close_all` | link, idle loop, chat |
| `link.rs` one connection | a writer queue and an inbox, a cut flag | `open`, `cut`, `close`, keepalive, silence timeout | proto, ratchet |
| `proto.rs` wire protocol | none | message kinds, handshake, sealed framing, checks | link |
| `ratchet.rs` frame keys | DH key pair, root and chain keys, three counters | `seal`, `open` | proto |
| `main.rs` idle loop | the ringing caller, the call, handshakes under way | one arm per event, one branch per command | all |
| `chat.rs` a call | offers out and in, transfers, the direct task | line and frame handling, the ends of a call | link, files, direct, idle loop |
| `room.rs` group conversation | roster, invitations, claims, last number per key | `create`, `invite`, `join`, `decline`, `leave`, `say`, `receive`, `lost` | idle loop, seen |
| `roomfiles.rs` files in a room | what is announced, downloads and who waits for them | `share`, `get`, `fetch`, `chunk`, `done`, `refused`, `lost` | room, files |
| `files.rs` | partial files, the quota | naming, hashing, resuming, finishing | chat, roomfiles |
| `history.rs` the kept record | lines, on or off; sealed on disk | `set`, `note`, `forget` | idle loop, store |
| `store.rs` sealed files | none | `write_sealed`, `read_sealed` | outbox, contacts, history |
| `identity.rs` | the seed, plain or under a passphrase | create, load, encrypt, recover | start-up |
| `transport/tor.rs`, `transport/direct.rs` | arti's client; one QUIC listener | dial, listen, accept | main, chat |
| `onion.rs`, `image.rs`, `ui.rs` | the screen | checks, drawing, keys | all |

What is hard here:

- **Delivery across connections.** A frame given to a connection that has died
  and is not yet noticed is gone without an error. `/tell` therefore keeps a
  message until a `Got` for it comes back, and the recipient keeps a mark of what
  it has; either process may be killed between any two saves.
- **Two people changing one agreement.** `/presence` is a small state machine at
  each end and three frames between them. Both ends move at once, a frame may
  wait in memory, travel through a call, or be lost.
- **Two channels into one loop.** A frame read in a call reaches the idle loop
  through `asides`, one read outside through the pool; `select!` orders neither.
- **Saves that fail.** Several operations change the memory, then save; the
  error goes to the screen and the memory stays changed.
- **Ceilings.** 64 messages per contact, 4 frames per missing connection, a window of
  256 ids, 16 members of a room.
- **Frames that belong to something over.** A line that crosses a hang-up, a chunk for
  an offer withdrawn, a `CallDecline` for the call before.

- **Keys that move.** Both ends turn the ratchet whenever the conversation changes
  direction, while frames of the turn before are still on their way.
- **Two routes for one file.** A direct transfer and the call's own connection, a task
  that outlives what it was started for, and outcomes that arrive after the next begins.
- **Half a save.** A file is replaced in steps, and the machine may stop between any two.

`PROJECT.json` lists every such place under `hazards`, at its line, with the
properties that would catch it.

What makes each part correct: `seen` answers "new" once per number and forgets
only what is far too late; `outbox` loses nothing without saying so and reuses no id;
`contacts` shows a message once and keeps an agreement only while both have it;
`pool` puts every frame on the one connection there is or holds it for the next;
`link` and `ratchet` deliver a prefix of what was written, in order, each frame
under a key of its own; a call rings once and ends at both ends; a room shows a signed line
once to whoever stays in it, whatever path it took, and its roster is the host's; a file ends
either whole and checked or as a partial that resumes; a record that was
turned off is gone.

## Modules

| module | what it is |
|---|---|
| `Ratchet` | `ratchet.rs` as operators on one side's state, with keys as terms |
| `Session` | one connection: the handshake, the two ratchets, the two tasks of a `Link`, its ways to end |
| `SessionProofs` | which frames may be on their way between two ratchets that face each other; who is there, no frame refused, no key used twice, heard as said: for every bound |
| `Call` | several people, their pools and phones: dialling, ringing, answering, declining, talking, hanging up |
| `CallProofs` | whoever rings can be answered, lines are shown in the order they were said, and nobody goes on talking to nobody, for every bound |
| `Transfer` | the files of one call, over the call and over direct links |
| `Seen` | `seen.rs` as operators on a value: `Has`, `Accept`, in closed form |
| `SeenWindow` | one such value fed numbers in any order; its properties |
| `SeenLemmas`, `SeenProofs` | what `Accept` keeps and adds; the theorems of `SeenWindow` |
| `Delivery` | `/tell` end to end: outbox, files, connection, marks, acknowledgements, crashes, `/forget` |
| `DeliveryPromise` | what leaving a message promises, without files or connections; `Delivery` implements it |
| `DeliveryProofs` | of `Delivery`, for every bound: type, at most once, no silent loss, no false acknowledgement, and that it implements `DeliveryPromise` |
| `Presence` | the agreement, its frames, the pool's waiting frames, calls, crashes, `/forget` |
| `PresenceProofs` | of `Presence`, for every bound: consent is mutual, at rest both have agreed or neither, what an agreement dialled is kept under one; type |
| `Links` | the connections among several people, one per pair of contacts, as the pool shows them |
| `Room` | a room over `Links`: invitations, the roster, claims, lines and their relay; uses `Seen` |
| `RoomProofs` | places taken and promised fit the room, invitations are answered, a line is shown once, and members have the list of their host, for every bound |
| `RoomFiles` | the files of a room: announced, fetched, relayed by the host, resumed, given up |
| `Store` | one file replaced whole, step by step, and what a crash may leave of it |
| `Keeping` | one person's seed, book and record over `Store`, and a contact who may object to the record |
| `KeepingProofs` | the four properties of `Keeping`, for every bound |
| `MC...` | the instances TLC checks, one per module above that has a `Spec` |

`Session` is a connection by itself. The modules above it take what it shows, two
ordered streams that may end at any point and lose their last part, for granted.
`Room` and `Links`, `Delivery` and `Seen`, `Room` and `Seen`, `Keeping` and `Store`,
`Session` and `Ratchet` are compositions: the first of each is built on the operators of the second.

Definitions introduced by a "Mutant:" comment are not part of the behaviour: they are
plausible mistakes, each of which makes one property fail when it replaces the
definition below it. `AcceptLoop` and its like in `MCSeenWindow` are the source's
loops written as loops, compared with the closed forms.

### How `Session` and `Ratchet` correspond to the code

| code | `Session`, `Ratchet` |
|---|---|
| `handshake`, `challenge` | `Hello`, `ReadHead`, `ReadRest` (`AsDialled`), `ReadProof` (`Expected`, `Root`), `HandshakeTimeout` |
| `Ratchet::caller`, `answerer`, `seal`, `open`, `dh_step` | `Caller`, `Answerer`, `Exhausted` with `Sealed` and `AfterSeal`, `Accounted` with `Opens` and `AfterOpen`, `Turn` |
| `root_step`, `chain_step`, `first_chain` | `RootStep` with `ChainOf`, `Step`, `FirstChain` |
| the writing task of `Link::open`, `write_or_give_up` | `SealNext`, `Beat`, `Write`, `GiveUpWriting` |
| the reading task, `SILENCE` | `Read`, `ReadEnd`, `Silence` |
| `Link::inbox`, `close`, `cut`; an upload that holds `Link::outbox` | `Take`, `Close` and `CloseReturns`, `Cut`, `Upload` and `UploadEnds` |

A key pair is a name, an agreement the set of two of them, a root the sequence of
agreements mixed into it and a chain key its root with the number of steps taken: a
term can be computed only from what the code computes it from, and two that
differ in any input differ. That is the assumption on the primitives. The far end may
be this program, another version of it, another program or silent. `claims` is the address
each side says is its own, which need not be one it holds the key of: it comes then with a
signature of its own key, or with one that the owner of the address gave in the other role
(`Proofs`), and `Genuine` is what the code verifies of either.

### How `Call` corresponds to the code

| code | `Call` |
|---|---|
| the `select!` of `serve`: an arrival, `Heard`, an `Aside`, the end of a call | `Arrives` (`Stranger`, `Refused`), `SpokenTo`, `Stopped`, `Ignored`, `Lost`, `Opened`, `CallEnded` |
| `/call`, a line before the dial lands, `/answer`, `/decline`, `/bye`, `/quit` | `PlaceCall` (`Start`), `HoldLine`, `Answer`, `Decline`, `Bye`, `Quit` |
| `dial_out`, `dial_retrying` | `Dials`, `DialLands`, `GiveUpDialling` |
| `chat::run` from its first line to its end | `HearFirst`, `Hear`, `Say`, `ToldItIsOver`, `HungUpOn`, `Over` |
| `Pool::lend`, `opened`, `give_back`, `keep`, `send`, `reach`, `ready` | `Start`, `Opened`, `CallEnded`, `Keep`, `Sends`, `Reach`, `Comes` with `Ends` |

A pair may hold more than one connection, as in the code: both may dial at once.
`crossed` notes the pairs to whom that happened while one was calling the other.

### How `Transfer` corresponds to the code

One record per side, `at[p]`, is what `chat::run` keeps in its local variables; every
branch of its `select!` is an action that ends in `Turn`, which does what follows the
`select!` on every turn: the standing `/accept all` (`Standing`), the offer taken off the queue
(`Newest`), and leaving once nothing is going (`Leaves`, all of it in `Settled`). A `HangUp` and
the end of the stream skip that, as the code's `continue` does. The direct task runs beside the loop
on another thread, so an outcome may come after the turn has looked for one (`Passes`: such a turn goes
on without it, the next does not, as `select!` is `biased`) and the task may be finished by the time
the turn asks whether it runs (`FinishedSince`). `down` tells a stream that was closed from one
whose circuit died, which may end in an error and is not waited for. `HearsAndFails` are the writes of
the disk that end the call. `Pumps` is one chunk of
`pump`; `Pull`, `Push` and their failures are the tasks of a direct transfer, `Listening`,
`Answers` and `LinkUp` the listener and the dial; `Quiet` is `DRAIN_QUIET`. `disk` and the
partials on it outlive the offer: `Resume` is `resume_offset`, `Finished` is `finish`.

### How `RoomFiles` corresponds to the code

`at[p].s` is `Transfers`, `at[p].disk` the two directories. `Share`, `Get`, `Leave` are the
commands; `Fetch`, `Chunk`, `Done` (`Landed`), `Refused` what is done with each frame; `SendFile`
one step of `send_file`; `Start` (`MayStart`, `Fits`, `Resume`), `Fail` and `FailEach`, `Lost` and
`Reset` the helpers by the same names; `Comes`, `Back` and `Break` the connection. Who
belongs to the room is `Room`'s business.

### How `Keeping` and `Store` correspond to the code

`todo` is what the handler that runs has still to do, in order, and `at` the steps of the
save at its head that are done: so a crash may come between any two steps, and a refused
step leads to the error branch of that handler. `Store` says what is read back and what a
crash would leave after each step of `write_sealed` (`Beside`) and of `Identity::create`
(`InPlace`): a rename that is not yet flushed may or may not survive. `History::set`, `note`,
`forget`, `set_our_objection`, `declare_history`, the start-up and the two tools that rewrite the seed
are operators or actions named after them.

### How `Delivery` corresponds to the code

| code | `Delivery` |
|---|---|
| `Outbox::queue` and `/tell` in `main.rs` | `Queue`; `TellKept`, `TellUnsaved` (its save fails), `TellElsewhere` (one counter serves all contacts) |
| `Pool::keep`, then `deliver` | `SenderKeeps`, `RecipientKeeps` |
| `Pool::send` | `Transmit`: goes, is swallowed by a dead link, or waits (`Park`, at most `WAITING`) |
| `Left` in the idle loop, `Contacts::accept_left` | `ShowLeft`, `RepeatLeft`, `FailToRecordLeft`, `StrangersLeft`, `RecipientKilledInHand` |
| `Got`, `Outbox::delivered` | `HandleGot`, `Delivered` |
| `Contacts::admits` | `SenderRefuses`, `RecipientRefuses` |
| `/forget`, `/add` | `SenderForgets`, `RecipientForgets`, `SenderFiles`, `RecipientFiles` |
| a dead circuit, `Heard::Lost` | `Break`, `SenderNotices`, `RecipientNotices` |
| process killed, `open` on start | `SenderRestarts`, `RecipientRestarts`, `OutboxDeleted` |

`outboxFile` and `seenFile` are what is on disk; a save is atomic because
`store::write_sealed` writes beside the old file and renames. `idOf`, `copies`,
`cut` and `givenUp` are history: no action reads them, except that `TellKept`
writes each body once.

### How `Presence` corresponds to the code

| code | `Presence` |
|---|---|
| `Presence::step` | `To` (the next state), `Reply` (the frame) |
| `presence` in `main.rs` with `set_presence` | `Stored`, `NotStored` (the save failed) |
| `Pool::send`, then `Pool::forget` | `Send`, `Held` |
| `/presence`, `/presence off`, `/forget`, `/add` | `Ask`, `Stop`, `Forget`, `Add` |
| a frame on an idle link; during a call; out of `asides` | `Hear`; `HandOver`; `HearAside` |
| `Pool::reach` and the sweep; a landed dial or a connection taken | `Reach`; `Keep`, `Refuse` |
| `Pool::lend`, `Pool::opened`, `Pool::give_back` and `shelve` | `Lend`, `CallDials`, `GiveBack` |
| a dead circuit, `Heard::Lost`; restart | `Break`, `Notice`; `Restart` |

A run may start with a connection already in the pool: an earlier call leaves it there.

### How `Room` corresponds to the code

| code | `Room`, `Links` |
|---|---|
| `Room::new`, `targets`, `broadcast_roster`, `settle_claims` | `NewRoom`, `Targets`, `Roster` with `ToEach`, `SettleClaims` |
| `/room new`, `invite`, `join`, `decline`, `leave`, `say` and `send` | `Create`, `InviteTo`, `Join`, `Decline`, `Leave`, `Say` |
| `Rooms::receive`: `invited`, `joined`, `left`, `roster` | `HearInvite` (`Refusal`), `HearJoin`, `HearLeave`, `HearRoster` (`Listed`) |
| ... `RoomDecline`, `RoomHello` | `HearDecline`, `HearHello` |
| ... `heard` | `HearLine` (`HeardOnce`, `PassOn`), `HearDropped`, `IgnoreLine` |
| `Rooms::lost` | `Loses`, `Without`; on `Heard::Lost`: `Notice` |
| `INVITE_TTL` | `Expire` at the host, `Forget` at whoever was asked; an entry past it is absent |
| `apply_room`: `Pool::send`, `Pool::reach` | `Becomes`, `Send`, `Held`; `Connects` |
| a dead circuit; `Pool::forget`; a kill | `Breaks`, `LetsGo`, `Crash` |

A room key stands for whom it was made by, so signatures are always good; a tag is
the person. The order of the roster, which only the screen shows, is left out.
`shown` (what was shown since entering the room one is in), `twice` and `due` are history.

## What is checked

Every passing run is exhaustive for its bounds; deadlock is not checked where all that
was to be said may have been said. (`session` checks it: whoever is not done can go on.)

| run | instance | shows |
|---|---|---|
| `seen_window` | ten numbers, a window of 3; 512 states | "new" once per number; only the late are refused unseen; bounded; the closed form is the loop |
| `session` | three addresses, either side may claim any of them, 2 lines, a keepalive and one thing that goes wrong, chains of 2, queues of 1, fair; 126,433 states | a connection is opened with whom the other side holds the key of, and the one dialled; no frame is refused, no key used twice; heard as said; the handshake completes, nobody waits for ever |
| `call` | a chain of three people, 2 calls, 2 lines, one break, restart or stranger; room for one handshake, one waiting frame, one held line; 2,125,789 states | nobody talks to nobody; who rings can be answered; lines once and in order |
| `transfer` | two files, one of two chunks, of one owner or of each; 2 offers, a cancel, a `/bye`, a break, a write the disk refuses or a vanished file, an early quiet spell, at most two of those, and nothing after both trouble and a `/bye`; 781,214 states | no crossing is taken for a fault; `/bye` waits for what is going, and what it misses is whole on disk; a partial is a beginning |
| `delivery` | up to 3 messages over a ceiling of 2 and a window of 1, any three kinds of fault with two messages, any two with three; 273,999 states up to the symmetry of messages | at most once whatever fails; no silent loss, no false acknowledgement unless a file failed or the window gave the message up |
| `delivery_fair` | 2 messages, 2 breaks, 1 crash; 15,874 states | released in the end; implements `DeliveryPromise` with its fairness, so had in the end |
| `presence` | six requests, withdrawals or calls, a fault counting as two, fair; 104,751 states | nobody is agreed for; when nothing failed, at rest both or neither, an agreement completes or ends, dialled links only under one |
| `room` | three contacts of each other, 3 invitations, a line, a leaving, a fault (the third invitation and the fault not together); one waiting frame; 254,305 states | shown once; unless a fault came, heard by all listed, who is on the host's list has that list, and who came in once is in |
| `room_places` | a host's two contacts do not know each other; rooms of 2, 2 opened, 3 invitations, a leaving, an expiry, a fault; 427,312 states | places promised and taken fit the room; unless a fault came, a place is held for somebody who can answer |
| `roomfiles` | a host, two members who know only the host, two files, a quota of two chunks; 3 fetches, a stall, a trouble, a way back; 1,080,276 states | whoever waits is answered; a partial is a beginning; the quota holds for what is there and what is coming |
| `keeping` | no seed, one, or one of the first format; 3 commands, 2 lines, one refused or interrupted step, 2 connections; 3,162,305 states | what started once starts again; off is off; nothing of an objector; whoever is recorded was told |

The bounds let the interesting cases happen. Three messages against a ceiling of two
overflow the queue, also after a redelivery, and overtake each other past a window of one; two breaks let an acknowledgement be lost
twice; requests and withdrawals are enough for both sides to cross each other and for more
frames than the pool may hold. A connection carries two frames each way over chains of
two, so that both ends turn, cross, and meet the end of a chain. Two calls among three
people let both call each other, a third ring in between, and a refusal arrive in the
call after. A file of two chunks can be stopped in the middle and resumed, the other
takes its place meanwhile. (Without its last restriction `transfer` has 1,437,238 states and
passes as well; it takes longer than is worth a run.) A line can reach a third member directly, through
the host, or both; `room` lets one frame wait where the code lets four, so that the
ceiling is met; with three invitations and two rooms of two places, an invitation is
superseded, answered late and met by somebody already in a room. What is said of
larger bounds is what is proved below, or nothing.

Where a property begins with a condition (`FilesSound`, `Smooth`, `~ astray`, `~ doubled`,
`behind`, `quiet`), the condition leaves out exactly what the next section lists: behaviour
in which the code does not do what the property says, found by checking the property without it.

### A run that refutes a sentence of the repository

`room_rejoin` stops at a counterexample: a member who left and is asked in again is
not greeted again, and sees contacts as strangers. `PROJECT.json` quotes the sentence
under `findings`.

### What the conditions leave out

Each of these was a counterexample of a property without its condition.

`Delivery` (`FilesSound`):

- The recipient's save fails: the message is not shown and is acknowledged all the same
  (`contacts.rs:396`, `main.rs:625`), though `main.rs:627` says "we do" have it.
- A full queue and a failed save: the oldest message is dropped and the early return
  hides it from its writer (`outbox.rs:142`).
- A message whose save failed goes out, a crash brings the counter back, the next
  message has its id and looks old (`outbox.rs:130`).
- The outbox deleted, as the error of `Outbox::open` proposes, starts at id 0: later
  messages look old, and a late `Got` lets go of a new one (`outbox.rs:92`).
- `/forget` discards what waits for the contact, though the doc of `Outbox` says that
  forgetting and adding again does not strand it (`main.rs:1240`, `outbox.rs:68`). Not a
  condition: the writer is told, and it counts as given up.
- Frames that a dead connection swallows are sent again, behind later ones that were parked
  (`pool.rs`, `send` and `keep`), and a recipient that forgot the sender starts a new mark. A message that more
  than `WINDOW` (256) later ones have overtaken is below the floor when it comes: it reads as a
  redelivery, is not shown and is acknowledged (`seen.rs:54`, `contacts.rs:391`). This is
  `Overtaken`, which `NoSilentLoss` and `AckedIsHad` except; `delivery` has a window of one so that it happens.

`Presence` (`Smooth`):

- A withdrawal typed without a connection is removed by the `Pool::forget` that follows
  (`main.rs:1111`, `pool.rs:301`), though `README.md:262` says that "the other is told".
- A request handed over by a call is heard behind what follows it: its own withdrawal, say, and the
  agreement is one-sided (`main.rs:455`).
- `/presence off` during a call lets go of nothing, since the connection is lent; a request typed next crosses
  the other's `PresenceNo`, and one side stays on for good.
- A lost `PresenceYes` or a request waiting at a restart is never said again
  (`main.rs:1098`, `pool.rs:268`); a withdrawal typed again after a failed save returns early and is not
  saved (`contacts.rs:344`).
- A dial under way when the agreement ends is kept when it lands (`pool.rs:357`): hence
  `HeldWhileAgreed` only until somebody stops or forgets the other (and not `Smooth`, under which
  nobody dials).

`Call` (`crossed`):

- Both call each other at once and hold two connections; each may decline, or be spoken to, over the
  one the other does not listen to, though the comment at `main.rs:677` says otherwise.
- Calling back somebody who rings keeps their ring beside our call.
- A `CallDecline` that waited in the pool is drained onto our own later call; a refusal read late
  ends the call after it (`chat.rs:616`).
- `Lost` is raised although a newer connection is held (`main.rs:774`); a ring may outlive its
  `HangUp` when the line came behind it.

`Transfer` (not a condition but the second case of `NothingCutShort`):

- The outcome of a direct transfer can come between the look at its channel (`chat.rs:588`) and the look at
  its task, on a `HangUp` or the end of the stream (`chat.rs:620`, `657`) or at the end of the turn
  (`chat.rs:739`). The task is then finished, the call ends, and the outcome is dropped with it: the file is whole on
  disk and is neither checked nor named, although `chat.rs:585` says that a peer hanging up "cannot take the outcome down
  with it" and `README.md:396` that "`/bye` during a
  transfer waits for the file to finish rather than truncating it". Offered again, the file is found on disk and
  starts from nothing (`files.rs:308`).

`Transfer` (`astray`):

- The keyboard's turn comes before the outcome of a direct transfer (`/bye`, `/accept`, `/refuse`):
  the outcome is lost, or clears the handle of the next transfer (`chat.rs:588`).
- `/cancel` of a direct transfer before its link is up crosses `DirectFailed`, and the chunks that follow end
  the call as a fault. So do a `FileReject` of an earlier offer of the same file, and one file offered over the
  call and directly (`chat.rs:980`).
- `DRAIN_QUIET` given up early lets old chunks into a new partial; a handle is overwritten when a
  second direct accept arrives; `Listener::accept` has no deadline.
- A file that is gone between offer and accept ends the call; an offer refused for the quota is dropped
  without a `FileReject`.

`RoomFiles` (`doubled`, `forgotten`, `replaced`):

- Everything of a file came except `RoomDone`, and it is asked for again: `resume_offset` says 0, the
  partial is opened for appending and not truncated (`roomfiles.rs:274`; `chat.rs` truncates), so the file is
  written behind itself and discarded. `files.rs:311` says that it "starts again from nothing".
- A stalled download asked for again while its old stream still comes writes chunks twice (`roomfiles.rs:213`).
- A stalled download that is refused by the quota when asked for again forgets who waited (`roomfiles.rs:215`).
- A link replaced before its end was heard takes requests with it.
- A copy of a relayed file is not counted (`roomfiles.rs:250`): `QuotaHeld` speaks of the rest.

`Room` (`Unbroken`, `PoolSuffices`, `Budget["say"] <= WINDOW`; who is listed and how often they came in):

- A host that leaves tells those in the room and not those it has invited (`room.rs:405`), and ignores a join
  for a room it is no longer in (`room.rs:587`): who accepts then is in a room without a host, alone, and nobody says so,
  though `room.rs:398` says of leaving "For the host, that ends it for everyone" and `room.rs:591` "Anybody else is
  told, or they would sit in a room of one". So `OneList` speaks of those who find their own key on the list.
- A `RoomLeave` names the room and not the join it answers (`room.rs:621`). With four invitations a refusal can cross the next one
  and end the membership that it led to: the host goes on listing somebody who is not there, and takes their next join
  for a repetition, though `README.md:308` says that "`/room` lists who is there". So `NewcomersAreIn` speaks
  of those who made one room value only. The first version of both held by the bounds of `room` alone; the attempt
  to prove it led to these two.

- A frame lost with its connection is not said again, rosters and invitations included; so what is said
  of a room at rest is said of rooms nothing broke into.
- More frames than the pool holds for a contact who is not connected: the newest is dropped
  (`pool.rs`, `send`), and its place stays promised until `INVITE_TTL` is over.
- A line that comes through the host while more than `WINDOW` later ones come from its author directly is
  below the floor of its key, and not shown.

`Keeping` (`quiet`, `behind`):

- A connection dialled by a call is not declared (`main.rs:1759`): the one called is not told of the record,
  though `README.md:457` says "told again on every future connection" and `proto.rs:512` "whenever a
  connection opens while it is on".
- `/history ok` sends `Recording(false)`: the peer reads that the record stopped, and keeps the objection
  it had noted (`main.rs:1380`).
- `/history on` whose save fails shows an error, and records in memory without telling anybody;
  `/history off` whose save fails comes back on after a restart.
- `DontRecord` whose save of the book fails erases nothing until it is heard again; `forget` repeated after a
  failed save finds nothing to remove and does not save; a crash between the save of the book and the erasing leaves
  the lines of a forgotten contact for good.
- `/forget` that cannot write the keys of the service, the outbox or its erasing returns before `pool.forget`
  (`main.rs:1230`, `1240`, `1244`; `ForgetFails`, `SaveFails`): the connection stays. An objection heard
  on it is dropped, as nobody in the book sent it, and if they are added again on the same connection, lines are kept
  though they objected; nor are they told of the record. `behind` has "objection" from then on, until something of theirs
  is erased. The bounds of `keeping` do not reach it: the proof of `NothingOfAnObjector` did.

### Fairness

`Delivery!Fairness` and `Presence!Fairness` are weak fairness of what the idle
loop does of itself: it takes every event that is ready (`select!` picks among
the ready ones at random, so none is passed over for ever), a connection in
hand is kept, an ended one is noticed. `Connect` and `Reach` are weakly fair
because the sweep dials again every minute (`main.rs`, `PRESENCE_SWEEP`) for a
contact with whom presence is agreed; without that agreement nobody dials for
the outbox alone, and `EventuallyReleased` and `KeepsPromiseFairly` say nothing about
such a contact until one of them connects. A call ends (`GiveBack`).

`Session!Fairness` is weak fairness of the two tasks of a link, of whoever holds it
taking what came, and of an upload coming to its end: tasks of one runtime, none of
which waits for anything but what the model says it waits for. A handshake that gets no
answer is given up (`HANDSHAKE_TIMEOUT`), and a side that no longer writes is noticed
(`SILENCE`), since every wait has its deadline in the code.

Nobody has to type, fail, break or crash, anywhere.

## What is proved

TLAPS checks the following for every value of the constants allowed by the named
assumptions (`NumbersAssumption`, `WindowAssumption`, `DeliveryAssumption`,
`PresenceAssumption`, `LinksAssumption`, `RoomAssumption`, `InviteAssumption`, `RatchetAssumption`,
`SessionAssumption`, `CallAssumption`, `StoreAssumption`, `KeepingAssumption`).

- `SeenProofs`: `AcceptedOnce`, `LossIsLate`, `WindowHolds`, `TypeCorrect` for any window
  and any start. The strengthening says that what lies below the floor was taken or
  overtaken by more than `WINDOW` larger numbers, which the plain
  statements do not carry across a fold. `SeenLemmas` holds the facts about
  `Accept` (what it keeps, what it adds, that one eviction is enough) and is
  used by `DeliveryProofs` too.
- `DeliveryProofs`: `DeliveryTypeCorrect` and `ShownAtMostOnce`, with every fault
  of the model in any number: lost connections, crashes, failed writes, deleted
  outboxes, `/forget` at either end. The inductive invariant is
  `WireInv /\ MarkInv`: every frame and queued message is one that was written
  and carries its own id (ids of different messages may coincide after a deleted
  outbox, and that is allowed for), and every message
  shown since its sender was last filed is marked in memory, and on disk, where
  the disk may lag behind memory only by ids that were not shown. `AtMostOnce`
  alone is not inductive: it says nothing of the mark that refuses the second copy.

  `NothingLostSilently` and `AcknowledgedIsHad` prove `NoSilentLoss` and `AckedIsHad`,
  with any number of breaks, crashes and forgotten contacts, while files are sound
  (`SoundInv`). Neither is inductive. That a message released was
  had rests on the acknowledgement being for it, so the numbers in use are each given once
  and below `next` (`Numbered`); on every number on its way back being that of a
  message had or overtaken (`AnswersAreGone`); and, since a redelivery is acknowledged because the mark
  has its number, on the mark having no other (`MarksAreGone`). A number
  becomes marked without its message when the window folds: the numbers above the floor are
  then more than `WINDOW`, all of messages that were had, which is what
  `Overtaken` says.

  `KeepsThePromise` is the refinement: every behaviour that is always `Gentle` (sound files, nobody
  forgets the other, nothing overtaken before it was had) is one of
  `DeliveryPromise`, step by step. `TellKept` is `Write`, `ShowLeft` is `Show`, being killed with a message in
  hand is `Miss`, a `Got` that empties a place in the queue is `Release`, all else stutters.
  It needs two facts more, `PromiseInv`: no message waits twice, so that one `Got` releases all there
  is of it, and the mark has the number of what was had, so that nothing is shown
  again. `KeepsThePromiseWithinTheWindow` gives it from the constants, for a `Budget` without those faults
  and no more messages than `WINDOW`.
- `PresenceProofs`: `ConsentIsMutual` and `PresenceTypeCorrect`, with no bound on
  anything typed or failing. The invariant `Backed` gives every state in memory,
  every state on disk and every frame anywhere (on the wire, waiting, in
  `asides`) the words it needs behind it, so that it survives reordering, loss and
  restarts without a case for each.

  `AgreedByBoth` proves `MutualAtRest`, for any number of requests, withdrawals and calls. As long as nothing
  failed, both are in each other's book and what is in memory is in the file (`Filed`), and there are only a few ways
  things can stand. Before anybody stopped, and on the connection that carries frames, who asked has at least `WeAsked`,
  and who has agreed has the other's agreement too or a frame under way that will bring it (`Talking`,
  where `UnderWay` is what is on the wire, in `asides` or waiting, in any order). While the connection is up
  nothing waits for another one, and what a call reads is in `asides` (`Joined`). Once it was let go, the last
  frame under way to either is the withdrawal (`Parted`), so that whoever has not heard it will. `MutualAtRest` by
  itself says nothing before all is quiet.

  `KeptUnderAgreement` proves the action property `HeldWhileAgreed`, through any number of breaks, crashes, failed
  saves and calls: while nobody stopped or forgot the other no withdrawal is anywhere (`NoneEnds`), so a dial under
  way is under an agreement, which also outlives a restart (`DialledIfAgreed`). The property had been
  stated under `Smooth`, where nobody dials and it says nothing; it has now the weakest condition it holds under.

- `RoomProofs`: `PlacesAlwaysHeld`. The invariant `RoomsFit` is about rooms of one's
  own only: a member's room takes whatever roster its host sends, which is safe because
  a roster is heard from another person (`LinksAssumption`: nobody is a contact
  of themselves). A join takes exactly the place its invitation held.

  `LinesShownOnce` proves `ShownOnce`, for any number of people, rooms, lines, leavings and
  faults. `ShownOnce` is not inductive: it says nothing of why the second copy of a line is
  refused. What refuses it is the last number kept for its author's key (`AllHeardGood`, with
  `Window` of `Seen`), and a roster drops that number with the key. So a line could be shown
  twice if a key left a member's list and came back to it, and most of the proof is that
  none does (`Steady`): the rosters on one way, read in the order they were
  sent and after the list already held, never name a key again once one of
  them has left it out. That rests on three things: a link keeps its order, and a
  new connection drops what the old one still carried; only the host's list makes rosters, and
  it gains a key only when `RoomJoin` brings it; and a key is
  made for one join, which is sent once (`AsksOnce`, `AsksFresh`). `Stream` is what is
  on the way to somebody, the frames waiting for a connection included.

  The attempt to prove it showed that the property had held only by the bound of its run. With two
  invitations nobody could be asked in again while a line was still on its way; with three, a member
  who leaves and comes back is shown a line a second time that the host passes on late. The code is
  meant to do that, as a `Room` starts with nothing heard (`Room::new`), so the history now begins
  anew with the room, and the run has the third invitation.

  `InvitesGetAnswered` proves `InvitesAnswered`. The invariant `AnswerInv` follows a promised place from the
  invitation on its way, through the one that waits, to the join or the refusal on its way back
  (`Pending`). For a place to be lost there would have to be a frame nobody gets or an answer nobody takes.
  Without a fault a connection carries what is put into it and there is nothing on a wire without one (`Whole`), and everybody in a
  room is connected to its host and to those they know in it (`Openly`), so that the only frames ever given to the pool
  are invitations and one greeting a room (`FewWait`), which is where `PoolSuffices` comes from. A host answers a join of
  somebody it knows to be in the room by nothing; so that this never meets an invitation, nobody is both asked in and in
  (`Tidy`), and that needs the host to bind names from joins alone: a key told by `RoomHello` never goes to the host of its
  room (`ToldByMembers`).

  `ListsAgree` proves `ListedAreIn`, both halves (`OneList`, `NewcomersAreIn`). Neither says anything before all has arrived, so the
  invariant `ListInv` speaks of every two contacts, the room of one and what is on its way between them in both directions
  (`PairGood`). A member who finds their own key on a list, or will hear a list that has it, is on the host's
  list under that key, or there is a leave on its way to them (`Credible`); whoever is on it has said nothing of leaving, and the
  last list on its way, or the one they have when there is none, is the host's (`Current`). Leaving and coming back
  would break this if a leave could arrive after the join that follows it: it was said before, on a link that keeps its order
  (`AsksAfter`), and the key in that join is new. Somebody who made one key has been in one room, so a leave from them
  is of that room and behind the join (`AsksFirst`), and as long as they are listed or ask they are in (`Newcomer`).
  A host refuses a join by a leave, which is harmless only because it asks and is answered once (`AsksOnce`). A list without one's
  own key, once one was on it, is the end of the room, and that the host does not list the key any more then
  comes from the proof of `ShownOnce` (`Steady`). The host itself lists who it knows by the key they joined with and nobody else (`OwnGood`).

- `SessionProofs`: `AcquaintedAlways`, `NobodyRefused`, `KeysUsedOnce`, `HeardAsSaid` and `TypeCorrect`, for
  any length of chain and any number of messages and beats. At any moment exactly one end is ahead: it turned last
  and the other has opened nothing of that turn. The frames on their way to the other end
  are what remains of the chain it sent on before, as many as `pn` says, and then those of
  the new one, each with the next number and the next key (`Facing`, `LockIs`
  and `InStep`). Sealing adds one such frame, opening the first of
  a turn makes the other end the one ahead. `NeverRefused` alone is not inductive, because
  it says nothing of what is still on the wire. A key is used once because the chains of
  the two ends differ in the parity of the agreements in their root, and every key used is
  behind what its side seals with next (`Spent`). A side whose handshake is not over counts
  as having the ratchet it will start from, so that the side that is ready first may
  send. `Acquainted` follows from what stands on the wire of the handshake (`Honest`, `Met`): what comes first
  names the address its sender claims, truly or not, and a proof that comes after it is signed by the
  sender's own key, or by the address claimed but in the verifier's own role, so that only the first kind,
  from somebody who claims what they hold, is `Genuine`. TLC
  checked the invariant on the instance of `MCSession` before it was proved.

  `HeardAsSaid` proves `HeardInOrder`, by a second invariant, `OrderInv`, over the first. What a side
  has taken and has waiting is numbered without a gap (`Numbered`); what is on the way to it
  carries on from there (`Carries`, which skips Pings and the handshake), and what its
  writer still holds carries on from that (`Leaves`), as long as the stream is whole. A stream
  that ended when nothing was struck was let go by the writer's own side, with an
  empty queue and no frame in hand (`OnItsWay`), so whoever is told of a clean end has all of it (`EndTold`). A
  failed handshake ends the stream as well: then nothing had been said.

- `KeepingProofs`: `FilesAlwaysOpen`, `RecordStaysOff`, `NothingIsKept` and `TheyAreAlwaysTold`, with any number of
  saves, refused steps, crashes, connections and commands, any `Cap`, and lines of any
  length. The invariant has four parts. `StoredInv` follows each save step by step
  (`Progress`: at the rename the new contents are whole and flushed beside the old; `SeedKept`: what a crash leaves of
  the seed has the identity the program ran under, also while its format is rewritten), and ties the
  record on disk to the one in memory whenever it is not being saved (`RecordInv`). `WireInv` says that only a running
  program has connections. `ObjectionInv` follows an objection from the frame on its way to the mark in the book and the
  erasing that is still to do: what is erased is of one who objects or who is being forgotten, and then their
  connection is closed after it, which is why a handler that fails halfway had to be told apart. `ToldInv` speaks of the
  last frame about the record under way, or heard. None of the four properties is inductive: the first two say nothing of a save
  that is half done, the last two nothing of what is on the wires. TLC checked the invariant on larger
  instances than the run's before it was proved.

- `CallProofs`: `RingingCanBeAnswered`, `ShownAsSaid` and `TalkersAreHeard`, for any number of people, calls, lines, dials and faults.
  `RingingIsConnected` needs to know where connections are (`CallInv`): what the pool, the call or a handshake on its
  way names is a connection of those two which that person holds, and in one of those places only (`Placed`), so that
  closing one, or lending it, never takes another from under a ring; and a call that is dialling has
  none yet (`Phones`).

  `ShownAsSaid` proves `ShownInOrder`. The invariant `OrderInv` follows the lines of one person to another through
  everything that holds them (`Ordered`): what was shown, then what is in hand (rung, or kept for the call that
  answered), then what is on the wire, then what is held until a dial lands, each below the next and all below
  the next number. That is so while the two hold one connection at most (`OneBetween`), so every way a connection is made or
  kept has to be shown not to leave a second one to two people who have not `crossed`; and while nobody has both a ring
  and a call of the same person, which is what a call placed while the other rings would bring. What an action does to lines
  it does not touch is one lemma (`Wordless`, `WordlessPair`): frames go missing, calls end and rings stop, and the order
  stands. A line on a connection that its reader let go is gone (`Readable`), so when the next dial lands nothing of
  the old one can come late.

  `TalkersAreHeard` proves `NobodyTalksToNobody`. That property speaks of the moments when nothing is on its way, and says
  nothing of how they come about; the invariant `Heeded` says, of everyone who has spoken in a call whose connection is
  up, what the other side has of it at every moment: a line it has not taken, a call over that connection, a ring, or else
  a refusal is on its way back. What was said last is a line (`LineLast`), so a hang-up or a refusal of an earlier call is
  never what is left of it. It needs what the pool knows (`Lending`): `Pool::lent` names the call's own person, and its
  connection, like each that waits in `asides`, is one of those two's (`LentRight`, `AsidesRight`), so that `Route` takes
  a refusal over the connection the caller listens on; a refusal waits only for those to whom it is late
  (`NothingWaits`); and what is held while dialling are lines. It builds on `OrderInv`: one connection between the two,
  and never a ring and a call of the same person.

Model-checked only: liveness, and with it the fairness of `DeliveryPromise`; `HeardAtRest` of `Room`;
everything said of `Transfer` and `RoomFiles`. Liveness and what a
loop computes (`AcceptIsTheLoop`) are beyond the prover; some of the rest is planned below.

## What the modules leave out

- One connection between the two at a time. Both ends may dial at once in the
  code, and the second connection replaces the first (`Pool::keep`); a
  replacement is modelled as the loss of what was unread on the old one.
- A `Left` or `Got` read during a call is handed to the idle loop like any other;
  in `Delivery` calls do not exist, in `Presence` they do.
- The failing save inside `/forget` at the sender of `Delivery`; the mode of
  `admits` with an empty book; what `Pool::keep` drains into a link that is already dead is
  dropped in `Delivery` and may be lost in `Presence` as well.
- In `Presence` a book that could not be written stays behind until a later
  write for the same contact; in the code a write for another contact brings
  the file up to date as well.
- A queue that stays full for `STUCK` and is cut is a `Break` followed by a
  frame given to a dead link.
- Times are not measured: a timeout is a step that may happen at any moment at
  which it could.
- Bodies are model values; too long a message is refused before anything changes.
- In `Room` a handshake and `Pool::keep` at both ends are one step, a replaced
  connection takes its unread frames with it, and calls do not exist, so frames
  are not reordered by `asides`. No host lies: what a dishonest one could do is not a
  question these specifications ask. A line said before the first roster goes
  to nobody, as in the code; it is owed to nobody in `HeardAtRest`.
- In `Session` a peer says what the protocol lets it say: it may claim any address and show any signature
  it can have, but nobody forges one or reads a key. A proof that was given in the right role is bound to a
  challenge that is drawn once, so there is no old one to show. Time is a choice: which of two deadlines comes first is not asked.
- In `Transfer` the frames of a transfer that was broken off and reach the next call are
  left out: a call starts with a link on which nothing is under way. A chunk is written whole or not at all;
  the disk may refuse it, and the other writes of `handle` (`HearsAndFails`), but not the files opened when
  an offer is taken. An `outbox.send` to a link whose writer has ended
  ends the call at once (`chat.rs:516`); here the call goes on until it reads the end.
- In `RoomFiles` the disk takes every chunk, and `MAX_FILES` is not reached.
- `Keeping` has one program at a time on a directory and the right passphrase; the
  permissions of its files are not modelled.
- Not modelled at all, and why: `onion` is a pure check of a string, `image` and `ui` draw,
  `patches/saturating-time` is somebody else's arithmetic; the service side of
  `transport/tor` is arti's; of `transport/direct` the sockets and certificates are the
  system's and the library's; cleaning names, hashing and encodings are sequential, and the
  unit tests of `files.rs`, `proto.rs` and `room.rs` cover them. `MAX_OPENING` against slow
  strangers (`main.rs:473`) is a question of clocks.

## Plan

What is left, the most telling first.

1. `HeardAtRest` of `Room`, on the lists that `ListsAgree` gives.
2. `PartialIsPrefix` of `Transfer` and `RoomFiles`.
3. A module with clocks for `MAX_OPENING` and for `SILENCE` against the keepalive's interval.
