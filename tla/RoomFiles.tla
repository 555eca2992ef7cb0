----------------------------- MODULE RoomFiles -----------------------------
(***************************************************************************)
(* The files of one room (roomfiles.rs, and what main.rs does with them).  *)
(* A file is announced to everybody and fetched by those who want it: from *)
(* its author if they are connected, else from the host, who fetches it    *)
(* first and passes it on.                                                 *)
(*                                                                         *)
(* Who is in the room is Room's business: here somebody is in it until     *)
(* they leave, lose the host, or are dropped by it.                        *)
(***************************************************************************)
EXTENDS Naturals, SequencesExt, FiniteSetsExt

CONSTANTS
  People, Host,
  Links,     \* who is connected to whom: all to the host
  Files,
  Author,    \* of each file
  Size,      \* of each file, in chunks
  Quota,     \* what incoming/ and relay/ may hold together
  Budget,    \* how often each kind of event may happen
  None

Kinds == {"get", "stall", "trouble", "back"}
Dirs == {"incoming", "relay"}

ASSUME RoomFilesAssumption ==
  /\ Host \in People /\ Links \subseteq {{p, q} : p, q \in People}
  /\ \A p \in People \ {Host} : {p, Host} \in Links
  /\ Author \in [Files -> People]
  /\ Size \in [Files -> Nat \ {0}] /\ Quota \in Nat
  /\ Budget \in [Kinds -> Nat]

VARIABLES
  at,         \* the files, at each person: see NoRoom
  wire,       \* wire[p][q]: frames p wrote that q has not read
  waiting,    \* waiting[p][q]: frames p has for q when they are connected again
  broken,     \* links that died
  unheard,    \* unheard[p]: whose connection died without p having heard
  dropped,    \* members the host took off the roster
  budget,
  \* history, for the properties
  replaced,   \* links replaced before a side had heard of their end
  doubled,    \* a file was asked for in a way that can write a chunk of it twice
  forgotten   \* those who waited for a download given up for want of quota

netVars == <<wire, waiting, broken, unheard, dropped>>
historyVars == <<replaced, doubled, forgotten>>
vars == <<at, netVars, budget, historyVars>>

Strikes(kind) == budget[kind] > 0 /\ budget' = [budget EXCEPT ![kind] = @ - 1]

RoomFetch(f, offset) == [t |-> "fetch", file |-> f, n |-> offset]
RoomChunk(f, i) == [t |-> "chunk", file |-> f, n |-> i]
RoomDone(f) == [t |-> "done", file |-> f, n |-> 0]
RoomNoFile(f) == [t |-> "nofile", file |-> f, n |-> 0]

Chunks(f) == [i \in 1..Size[f] |-> <<f, i>>]
NoFiles == [d \in Dirs |-> [f \in Files |-> <<>>]]
NoCopies == [f \in Files |-> 0]

\* Nothing known, nothing coming, nothing going.
NoRoom ==
  [in |-> FALSE, known |-> {}, path |-> [f \in Files |-> FALSE],
   down |-> [f \in Files |-> None],
   uploads |-> [q \in People |-> [f \in Files |-> None]]]

\* The disk: partials, files received, copies of relayed ones, relayed ones.
Disk == [part |-> NoFiles, saved |-> NoCopies, copied |-> NoCopies, relayed |-> {}]

Init ==
  /\ at = [p \in People |-> [s |-> [NoRoom EXCEPT !.in = TRUE], disk |-> Disk]]
  /\ wire = [p \in People |-> [q \in People |-> <<>>]]
  /\ waiting = wire
  /\ broken = {} /\ dropped = {}
  /\ unheard = [p \in People |-> {}]
  /\ budget = Budget
  /\ replaced = {} /\ doubled = FALSE /\ forgotten = {}

Up(p, q) == {p, q} \in Links \ broken

-----------------------------------------------------------------------------
(***************************************************************************)
(* One person's files.  An operator gives a turn: the record after it, the *)
(* frames it sends, as <<to, frame>>, and the uploads it starts.           *)
(***************************************************************************)

Nothing(a) == [a |-> a, send |-> <<>>, up |-> <<>>]

\* Who is asked for a file.
Source(p, f) == IF {p, Author[f]} \in Links THEN Author[f] ELSE Host

\* What is on disk, and what the downloads have yet to write.
OnDisk(a) ==
  MapThenSumSet(LAMBDA f : Size[f] * (a.disk.saved[f] + a.disk.copied[f]
                             + IF f \in a.disk.relayed THEN 1 ELSE 0)
                           + Len(a.disk.part["incoming"][f]) + Len(a.disk.part["relay"][f]),
                Files)
Coming(a) ==
  MapThenSumSet(LAMBDA f : IF a.s.down[f] = None THEN 0 ELSE Size[f] - a.s.down[f].written,
                Files)

Resume(a, dir, f) ==
  LET n == Len(a.disk.part[dir][f]) IN IF n < Size[f] THEN n ELSE 0

\* Mutant: what is coming does not count.
FitsNow(a, f, offset) == OnDisk(a) + Size[f] - offset <= Quota

Fits(a, f, offset) == OnDisk(a) + Coming(a) + Size[f] - offset <= Quota

\* Mutant: asked for from its beginning, and appended to what is there.
StartFromZero(p, a, f, mine, waiters) ==
  LET dir == IF mine THEN "incoming" ELSE "relay"
      offset == Resume(a, dir, f)
      from == Source(p, f)
  IN  [a |-> [a EXCEPT !.s.down[f] =
                [from |-> from, dir |-> dir, written |-> offset, mine |-> mine,
                 waiters |-> waiters, stalled |-> FALSE]],
       send |-> <<<<from, RoomFetch(f, 0)>>>>, up |-> <<>>]

\* Open the partial and ask for the rest.
Start(p, a, f, mine, waiters) ==
  LET dir == IF mine THEN "incoming" ELSE "relay"
      offset == Resume(a, dir, f)
      from == Source(p, f)
  IN  [a |-> [a EXCEPT !.s.down[f] =
                [from |-> from, dir |-> dir, written |-> offset, mine |-> mine,
                 waiters |-> waiters, stalled |-> FALSE]],
       send |-> <<<<from, RoomFetch(f, offset)>>>>, up |-> <<>>]

MayStart(a, f, mine) ==
  Fits(a, f, Resume(a, IF mine THEN "incoming" ELSE "relay", f))

\* Give up on downloads, and tell whoever was waiting on them.
FailEach(a, fs, corrupt) ==
  LET each == SetToSeq(fs)
      goes(d, f) == f \in fs /\ a.s.down[f].dir = d /\ (corrupt \/ ~ a.s.down[f].mine)
      told(f) == [j \in DOMAIN a.s.down[f].waiters |->
                    <<a.s.down[f].waiters[j][1], RoomNoFile(f)>>]
  IN  [a |-> [a EXCEPT !.s.down = [f \in Files |-> IF f \in fs THEN None ELSE @[f]],
                       !.disk.part = [d \in Dirs |-> [f \in Files |->
                                        IF goes(d, f) THEN <<>> ELSE @[d][f]]]],
       send |-> FlattenSeq([i \in DOMAIN each |-> told(each[i])]), up |-> <<>>]

\* Mutant: those who waited are left to wait.
FailUntold(a, f, corrupt) == Nothing(FailEach(a, {f}, corrupt).a)

Fail(a, f, corrupt) == FailEach(a, {f}, corrupt)

\* Nothing carries over from one room to none: relayed copies go, the
\* partials of what we asked for stay.
Reset(a) ==
  [s |-> NoRoom,
   disk |-> [a.disk EXCEPT !.part["relay"] = [f \in Files |-> <<>>], !.relayed = {}]]

\* A stream that can still add to a file p asks q for again.
StillComing(p, q, f) ==
  LET coming == wire[q][p] \o waiting[q][p]  asked == wire[p][q] \o waiting[p][q]
  IN  \/ \E i \in DOMAIN coming : coming[i].file = f
      \/ \E i \in DOMAIN asked : asked[i].t = "fetch" /\ asked[i].file = f
      \/ at[q].s.uploads[p][f] # None
      \/ at[q].s.down[f] # None /\ \E i \in DOMAIN at[q].s.down[f].waiters :
           at[q].s.down[f].waiters[i][1] = p

\* A partial as long as the file, without its end: asked for from the
\* beginning, and not emptied.
Atop(a, f) ==
  LET down == a.s.down[f] IN down.written < Len(a.disk.part[down.dir][f])

\* The turn is done: what it came to is sent, over the connections that are
\* there, or kept; over one that died unnoticed it may be lost.  Uploads
\* start only towards somebody connected, each in place of an earlier one.
Turn(p, r, heard) ==
  LET to(q) == LET mine == SelectSeq(r.send, LAMBDA m : m[1] = q)
               IN  [i \in DOMAIN mine |-> mine[i][2]]
      ups == {i \in DOMAIN r.up : Up(p, r.up[i].to)}
      upload(q, f) == LET its == {i \in ups : r.up[i].to = q /\ r.up[i].file = f}
                      IN  IF its = {} THEN r.a.s.uploads[q][f]
                                      ELSE [next |-> r.up[Max(its)].offset + 1]
  IN  /\ at' = [at EXCEPT ![p] = [r.a EXCEPT !.s.uploads =
                  [q \in People |-> [f \in Files |-> upload(q, f)]]]]
      /\ wire' = [a \in People |-> [b \in People |->
                    CASE a = p /\ Up(p, b) -> wire[a][b] \o to(b)
                      [] b = p /\ a = heard -> Tail(wire[a][b])
                      [] OTHER -> wire[a][b]]]
      /\ \E lost \in SUBSET unheard[p] :
           waiting' = [waiting EXCEPT ![p] = [q \in People |->
             IF Up(p, q) \/ q \in lost THEN @[q] ELSE @[q] \o to(q)]]
      /\ doubled' = (doubled \/ \E i \in DOMAIN r.send :
                       /\ r.send[i][2].t = "fetch"
                       /\ \/ StillComing(p, r.send[i][1], r.send[i][2].file)
                          \/ Atop(r.a, r.send[i][2].file))
      /\ UNCHANGED <<broken, replaced>>

-----------------------------------------------------------------------------
(***************************************************************************)
(* The keyboard.                                                           *)
(***************************************************************************)

\* share: the author has it already.
Share(p, f) ==
  /\ at[p].s.in /\ Author[f] = p /\ f \notin at[p].s.known
  /\ at' = [at EXCEPT ![p].s.known = @ \cup {f}, ![p].s.path[f] = TRUE]
  /\ UNCHANGED <<netVars, budget, historyVars>>

\* announced: by a line of the room.
Announced(p, f) ==
  /\ at[p].s.in /\ Author[f] # p /\ f \notin at[p].s.known
  /\ f \in at[Author[f]].s.known
  /\ at' = [at EXCEPT ![p].s.known = @ \cup {f}]
  /\ UNCHANGED <<netVars, budget, historyVars>>

\* get: what is already coming to relay is kept too; what stalled is asked
\* for again from where the partial stops; what was relayed is copied; else
\* it is fetched.
Get(p, f) ==
  LET a == at[p]
      down == a.s.down[f]
      without == [a EXCEPT !.s.down[f] = None]
  IN  /\ f \in a.s.known /\ Author[f] # p /\ Strikes("get")
      /\ \/ /\ down # None /\ ~ down.mine
            /\ Turn(p, Nothing([a EXCEPT !.s.down[f].mine = TRUE]), None)
            /\ UNCHANGED forgotten
         \/ /\ down # None /\ down.mine /\ down.stalled /\ MayStart(without, f, TRUE)
            /\ Turn(p, Start(p, without, f, TRUE, down.waiters), None)
            /\ UNCHANGED forgotten
         \/ /\ down # None /\ down.mine /\ down.stalled /\ ~ MayStart(without, f, TRUE)
            /\ Turn(p, Nothing(without), None)
            /\ forgotten' = forgotten \cup
                 {<<down.waiters[i][1], f>> : i \in DOMAIN down.waiters}
         \/ /\ down = None /\ a.s.path[f]
            /\ Turn(p, Nothing([a EXCEPT !.disk.copied[f] = @ + 1]), None)
            /\ UNCHANGED forgotten
         \/ /\ down = None /\ ~ a.s.path[f] /\ MayStart(a, f, TRUE)
            /\ Turn(p, Start(p, a, f, TRUE, <<>>), None)
            /\ UNCHANGED forgotten
      /\ UNCHANGED <<unheard, dropped>>

\* STALLED has passed without a byte.
Stalls(p, f) ==
  /\ at[p].s.down[f] # None /\ ~ at[p].s.down[f].stalled /\ Strikes("stall")
  /\ at' = [at EXCEPT ![p].s.down[f].stalled = TRUE]
  /\ UNCHANGED <<netVars, historyVars>>

\* /room leave: the others hear of it from the room.
Leave(p) ==
  /\ at[p].s.in /\ Strikes("trouble")
  /\ at' = [at EXCEPT ![p] = Reset(@)]
  /\ dropped' = dropped \cup ({p} \ {Host})
  /\ UNCHANGED <<wire, waiting, broken, unheard, historyVars>>

\* The host left, or dropped us, and the room says so.
Over(p) ==
  /\ p # Host /\ at[p].s.in /\ Up(p, Host)
  /\ p \in dropped \/ ~ at[Host].s.in
  /\ at' = [at EXCEPT ![p] = Reset(@)]
  /\ UNCHANGED <<netVars, budget, historyVars>>

-----------------------------------------------------------------------------
(***************************************************************************)
(* What comes.                                                             *)
(***************************************************************************)

Comes(p, q, kind) == wire[q][p] # <<>> /\ Head(wire[q][p]).t = kind
Frame(p, q) == Head(wire[q][p])

\* Is q shown to be in the room p is in?
Holds(p, q) == at[p].s.in /\ {p, q} \in Links /\ (p = Host => q \notin dropped)

Hears(p, q, r) == Turn(p, r, q) /\ UNCHANGED <<unheard, dropped, budget, forgotten>>

\* fetch: sent if it is here, else promised for when it has come.
Fetch(p, q) ==
  LET f == Frame(p, q).file  n == Frame(p, q).n
      a == at[p]
      no == [Nothing(a) EXCEPT !.send = <<<<q, RoomNoFile(f)>>>>]
  IN  /\ Comes(p, q, "fetch")
      /\ CASE ~ Holds(p, q) -> Hears(p, q, Nothing(a))
           [] Holds(p, q) /\ (f \notin a.s.known \/ n >= Size[f]) -> Hears(p, q, no)
           [] Holds(p, q) /\ f \in a.s.known /\ n < Size[f] /\ a.s.path[f] ->
                Hears(p, q, [Nothing(a) EXCEPT !.up = <<[to |-> q, file |-> f, offset |-> n]>>])
           [] OTHER ->
                IF a.s.down[f] # None
                  THEN Hears(p, q, Nothing([a EXCEPT !.s.down[f].waiters = Append(@, <<q, n>>)]))
                  ELSE Hears(p, q, IF MayStart(a, f, FALSE)
                                     THEN Start(p, a, f, FALSE, <<<<q, n>>>>) ELSE no)

Expected(p, q, f) == at[p].s.down[f] # None /\ at[p].s.down[f].from = q

\* chunk: only from the one we asked.
Chunk(p, q) ==
  LET f == Frame(p, q).file
      a == at[p]
      down == a.s.down[f]
  IN  /\ Comes(p, q, "chunk")
      /\ CASE ~ Expected(p, q, f) -> Hears(p, q, Nothing(a))
           [] Expected(p, q, f) /\ down.written = Size[f] -> Hears(p, q, Fail(a, f, TRUE))
           [] OTHER ->
                Hears(p, q, Nothing([a EXCEPT
                  !.s.down[f].written = @ + 1, !.s.down[f].stalled = FALSE,
                  !.disk.part[down.dir][f] = Append(@, <<f, Frame(p, q).n>>)]))

\* finish, or keep_relayed and save_copy.
Landed(a, f) ==
  LET down == a.s.down[f]
      checked == [a EXCEPT !.s.down[f] = None, !.s.path[f] = TRUE,
                           !.disk.part[down.dir][f] = <<>>]
  IN  IF down.dir = "incoming" THEN [checked EXCEPT !.disk.saved[f] = @ + 1]
        ELSE [checked EXCEPT !.disk.relayed = @ \cup {f},
                             !.disk.copied[f] = IF down.mine THEN @ + 1 ELSE @]

\* done: checked, kept, and handed on.
Done(p, q) ==
  LET f == Frame(p, q).file
      a == at[p]
      down == a.s.down[f]
      whole == down.written = Size[f] /\ a.disk.part[down.dir][f] = Chunks(f)
  IN  /\ Comes(p, q, "done")
      /\ CASE ~ Expected(p, q, f) -> Hears(p, q, Nothing(a))
           [] Expected(p, q, f) /\ ~ whole -> Hears(p, q, Fail(a, f, TRUE))
           [] OTHER ->
                Hears(p, q, [Nothing(Landed(a, f)) EXCEPT !.up =
                  [i \in DOMAIN down.waiters |->
                     [to |-> down.waiters[i][1], file |-> f, offset |-> down.waiters[i][2]]]])

\* refused: the one we asked cannot give it.
Refused(p, q) ==
  LET f == Frame(p, q).file
  IN  /\ Comes(p, q, "nofile")
      /\ Hears(p, q, IF Expected(p, q, f) THEN Fail(at[p], f, FALSE) ELSE Nothing(at[p]))

\* Heard::Lost: the room first, and then each file that was coming from them.
Lost(p, q) ==
  /\ q \in unheard[p] /\ wire[q][p] = <<>>
  /\ LET a == IF q = Host THEN Reset(at[p]) ELSE at[p]
         gone == {f \in Files : a.s.down[f] # None /\ a.s.down[f].from = q}
     IN  Turn(p, FailEach(a, gone, FALSE), None)
  /\ unheard' = [unheard EXCEPT ![p] = @ \ {q}]
  /\ dropped' = IF p = Host THEN dropped \cup {q} ELSE dropped
  /\ UNCHANGED <<budget, forgotten>>

-----------------------------------------------------------------------------
(***************************************************************************)
(* The tasks of uploads, and what befalls the links.                       *)
(***************************************************************************)

\* send_file: a chunk after another, then the end; or, when it cannot be
\* read, a refusal.
SendFile(p, q, f) ==
  LET up == at[p].s.uploads[q][f]
      ends(frame) == /\ at' = [at EXCEPT ![p].s.uploads[q][f] = None]
                     /\ wire' = [wire EXCEPT ![p][q] = Append(@, frame)]
  IN  /\ up # None
      /\ \/ /\ up.next <= Size[f]
            /\ at' = [at EXCEPT ![p].s.uploads[q][f].next = @ + 1]
            /\ wire' = [wire EXCEPT ![p][q] = Append(@, RoomChunk(f, up.next))]
            /\ UNCHANGED budget
         \/ up.next > Size[f] /\ ends(RoomDone(f)) /\ UNCHANGED budget
         \/ Strikes("trouble") /\ ends(RoomNoFile(f))
      /\ UNCHANGED <<waiting, broken, unheard, dropped, historyVars>>

\* A link dies with any part of what was on its way, and the tasks that
\* wrote to it end.
Break(p, q) ==
  /\ Up(p, q) /\ Strikes("trouble")
  /\ broken' = broken \cup {{p, q}}
  /\ unheard' = [unheard EXCEPT ![p] = @ \cup {q}, ![q] = @ \cup {p}]
  /\ \E there \in Prefixes(wire[p][q]), back \in Prefixes(wire[q][p]) :
       wire' = [wire EXCEPT ![p][q] = there, ![q][p] = back]
  /\ at' = [at EXCEPT ![p].s.uploads[q] = NoRoom.uploads[q],
                      ![q].s.uploads[p] = NoRoom.uploads[p]]
  /\ UNCHANGED <<waiting, dropped, historyVars>>

\* They are connected again; a side that had not heard of the end of the old
\* link never does.
Back(p, q) ==
  /\ {p, q} \in broken /\ Strikes("back")
  /\ broken' = broken \ {{p, q}}
  /\ unheard' = [unheard EXCEPT ![p] = @ \ {q}, ![q] = @ \ {p}]
  /\ wire' = [wire EXCEPT ![p][q] = waiting[p][q], ![q][p] = waiting[q][p]]
  /\ waiting' = [waiting EXCEPT ![p][q] = <<>>, ![q][p] = <<>>]
  /\ replaced' = IF p \in unheard[q] \/ q \in unheard[p]
                   THEN replaced \cup {{p, q}} ELSE replaced
  /\ UNCHANGED <<at, dropped, doubled, forgotten>>

-----------------------------------------------------------------------------

Types(p) ==
  \/ Leave(p)
  \/ \E f \in Files : Share(p, f) \/ Get(p, f)

HearsFrom(p, q) ==
  Fetch(p, q) \/ Chunk(p, q) \/ Done(p, q) \/ Refused(p, q) \/ Lost(p, q)

Next ==
  \/ \E p \in People :
       \/ Types(p) \/ Over(p)
       \/ \E f \in Files : Announced(p, f) \/ Stalls(p, f)
       \/ \E q \in People : HearsFrom(p, q) \/ \E f \in Files : SendFile(p, q, f)
  \/ \E p, q \in People : Break(p, q) \/ Back(p, q)

Spec == Init /\ [][Next]_vars

-----------------------------------------------------------------------------
(***************************************************************************)
(* What makes it correct.                                                  *)
(***************************************************************************)

\* Nothing is on its way and every end of a link has been heard.
AtRest ==
  /\ \A p \in People : unheard[p] = {} /\ at[p].s.uploads = NoRoom.uploads
  /\ \A p, q \in People : wire[p][q] = <<>>

\* Whoever is asked answers: when everything has come to rest, a file that is
\* still awaited from somebody in the room is one they await themselves, and
\* they know who they owe it to.  Not so when frames vanished with a link
\* replaced before its end was heard, or when a stalled download is given up
\* for want of quota, which tells nobody.  (roomfiles.rs fail, done, get)
WaitersAnswered ==
  AtRest => \A p \in People, f \in Files :
    LET down == at[p].s.down[f]
        q == down.from
    IN  down # None /\ Up(p, q) /\ at[q].s.in /\ {p, q} \notin replaced
          /\ <<p, f>> \notin forgotten
        => /\ at[q].s.down[f] # None
           /\ \E i \in DOMAIN at[q].s.down[f].waiters : at[q].s.down[f].waiters[i][1] = p

\* What is on disk under a file is its beginning, whatever stopped it and
\* whoever asked first, so that asking again adds the rest; unless it was
\* asked for again while the last stream could still come, or all of it had
\* come except the word that it had.
\* (roomfiles.rs start, lost, fail; files.rs, the partial's name)
PartialIsPrefix ==
  ~ doubled => \A p \in People, d \in Dirs, f \in Files :
    IsPrefix(at[p].disk.part[d][f], Chunks(f))

\* What was received, what is relayed and what is still coming fit the quota
\* together; a copy of a relayed file is not asked about.  (roomfiles.rs start)
QuotaHeld ==
  \A p \in People :
    LET a == [at[p] EXCEPT !.disk.copied = NoCopies] IN OnDisk(a) + Coming(a) <= Quota
=============================================================================
