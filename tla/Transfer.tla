------------------------------ MODULE Transfer ------------------------------
(***************************************************************************)
(* The files of one call: offered, taken, refused, cancelled, sent over    *)
(* the call's connection or over a direct link beside it, and resumed from *)
(* what an earlier attempt left on disk (chat.rs, files.rs, transport/     *)
(* direct.rs).                                                             *)
(*                                                                         *)
(* A file is its chunks.  What a call knows is one record per side, at[p]; *)
(* each operator below gives that record after one turn of the call's loop,*)
(* with the frames the turn wrote in its field "out".                      *)
(***************************************************************************)
EXTENDS Naturals, SequencesExt, FiniteSetsExt

CONSTANTS
  People,    \* the two of them
  Files,
  Owners,    \* whose the files may be
  Size,      \* of each file, in chunks
  Quota,     \* what the incoming directory may hold
  Budget,    \* how often each kind of event may happen
  None

Upsets == {"cancel", "bye", "trouble"}
Kinds == Upsets \cup {"offer", "quiet", "upset"}    \* upset: how many of those in all

ASSUME TransferAssumption ==
  /\ Cardinality(People) = 2
  /\ Owners \subseteq [Files -> People]
  /\ Size \in [Files -> Nat \ {0}] /\ Quota \in Nat
  /\ Budget \in [Kinds -> Nat]

VARIABLES
  owner,     \* whose each file is
  at,        \* the call, at each side
  wire,      \* frames each side wrote that the other has not read
  down,      \* is the connection closed, or its circuit dead?
  vanished,  \* files whose owner moved or cut them short
  budget,
  \* history, for the properties
  started,   \* files whose owner began to send them
  excused,   \* files somebody cancelled
  forced,    \* somebody left without waiting for a file
  astray     \* see Strays

vars == <<owner, at, wire, down, vanished, budget, started, excused, forced, astray>>

Other(p) == CHOOSE q \in People : q # p
\* Offers are counted file by file.
Costs(kind, n) == budget[kind] >= n /\ budget' = [budget EXCEPT ![kind] = @ - n]
Strikes(kind) ==
  LET spent == IF kind \in Upsets THEN {kind, "upset"} ELSE {kind}
  IN  /\ \A k \in spent : budget[k] > 0
      /\ budget' = [k \in Kinds |-> IF k \in spent THEN budget[k] - 1 ELSE budget[k]]

Offer(files, direct) == [t |-> "offer", files |-> files, n |-> 0, direct |-> IF direct THEN 1 ELSE 0]
FileAccept(f, offset, token) ==
  [t |-> "accept", files |-> <<f>>, n |-> offset, direct |-> token]
FileReject(f) == [t |-> "reject", files |-> <<f>>, n |-> 0, direct |-> 0]
FileChunk(f, i) == [t |-> "chunk", files |-> <<f>>, n |-> i, direct |-> 0]
FileDone == [t |-> "done", files |-> <<>>, n |-> 0, direct |-> 0]
DirectFailed == [t |-> "failed", files |-> <<>>, n |-> 0, direct |-> 0]
HangUp == [t |-> "hangup", files |-> <<>>, n |-> 0, direct |-> 0]

Chunks(f) == [i \in 1..Size[f] |-> <<f, i>>]

\* What waits for our answer, what waits for theirs, what goes out and what
\* comes in; and a direct transfer, by whether it comes in and its number.
Offered(f, batch, direct) == [file |-> f, batch |-> batch, direct |-> direct]
Outgoing(f, direct) == [file |-> f, direct |-> direct]
Sending(f, offset) == [file |-> f, sent |-> offset]
Receiving(f, offset) ==
  [file |-> f, written |-> offset, cancelled |-> FALSE, quiet |-> FALSE]
DirectTask(in, i) == [in |-> in, i |-> i]

InCall ==
  [sending |-> None, receiving |-> None, pending |-> <<>>, batch |-> 0, offered |-> <<>>,
   all |-> FALSE, leaving |-> "no", gone |-> FALSE, direct |-> None, done |-> <<>>,
   passed |-> FALSE,
   pulls |-> <<>>, pushes |-> <<>>, partial |-> [f \in Files |-> <<>>],
   kept |-> [f \in Files |-> 0], over |-> "no", out |-> <<>>]

Init ==
  /\ owner \in Owners
  /\ at = [p \in People |-> InCall]
  /\ wire = [p \in People |-> <<>>]
  /\ down = "no"
  /\ vanished = {} /\ started = {} /\ excused = {}
  /\ forced = FALSE /\ astray = FALSE
  /\ budget = Budget

-----------------------------------------------------------------------------
(***************************************************************************)
(* One side of the call.                                                   *)
(***************************************************************************)

\* A direct transfer runs in a task of its own, on a thread of its own, which
\* the call knows by a handle: DirectTask.  One that is told has reported its
\* end in `done`, and its task is finished a moment later.
Moving == {"listening", "pulling", "pushing"}
TaskOf(s, h) == IF h.in THEN s.pulls[h.i] ELSE s.pushes[h.i]
Running(s) == s.direct # None /\ TaskOf(s, s.direct).st \in Moving \cup {"told"}

Aborted(s) ==
  IF s.direct.in THEN [s EXCEPT !.pulls[s.direct.i].st = "aborted", !.direct = None]
                 ELSE [s EXCEPT !.pushes[s.direct.i].st = "aborted", !.direct = None]

\* Mutant: a transfer beside the call is none of its business.
BusyHere(s) ==
  \/ s.sending # None
  \/ s.receiving # None /\ ~ s.receiving.cancelled

\* Is there a file we should not walk out on?
Busy(s) ==
  \/ s.sending # None
  \/ s.receiving # None /\ ~ s.receiving.cancelled
  \/ Running(s)

\* What is left of the call when it is over: its tasks, the disk, and an
\* outcome that it did not hear.
Ended(s, how) ==
  [s EXCEPT !.over = how, !.sending = None, !.receiving = None, !.pending = <<>>,
            !.offered = <<>>, !.all = FALSE, !.leaving = "no", !.direct = None,
            !.batch = 0, !.gone = FALSE,
            !.out = IF how = "bye" THEN Append(@, HangUp) ELSE @]

\* resume_offset, open_partial and dir_size.
Resume(s, f) == IF Len(s.partial[f]) < Size[f] THEN Len(s.partial[f]) ELSE 0

Reopened(s, f, offset) ==
  [s EXCEPT !.partial[f] = IF offset = 0 THEN <<>> ELSE @,
            !.receiving = Receiving(f, offset)]

Used(s) == MapThenSumSet(LAMBDA f : Len(s.partial[f]) + s.kept[f] * Size[f], Files)

Fits(s, f, offset) == Used(s) + Size[f] - offset <= Quota

\* A socket of its own for one file: the token is the number of the link.
Listening(s, f) ==
  [s EXCEPT !.pulls = Append(@, [file |-> f, st |-> "listening"]),
            !.direct = DirectTask(TRUE, Len(s.pulls) + 1)]

\* free_path: a file is kept beside those that are there, never over one.
KeptBeside(s, f) == [s.kept EXCEPT ![f] = @ + 1]

\* files::finish: kept if the hash agrees, thrown away if not.
Finished(s, f) ==
  [s EXCEPT !.partial[f] = <<>>,
            !.kept = IF s.partial[f] = Chunks(f) THEN KeptBeside(s, f) ELSE @]

\* take_pending, without a number: the newest message, its first file.
Newest(s) ==
  LET last == Max({s.pending[i].batch : i \in DOMAIN s.pending})
  IN  Min({i \in DOMAIN s.pending : s.pending[i].batch = last})

\* Mutant: a cancelled file makes room at once.
DrainedAtOnce(s) ==
  IF s.receiving # None /\ s.receiving.cancelled THEN [s EXCEPT !.receiving = None] ELSE s

\* A cancelled file makes room when its FileDone comes, or after a quiet spell.
Drained(s) ==
  IF s.receiving # None /\ s.receiving.cancelled /\ s.receiving.quiet
    THEN [s EXCEPT !.receiving = None] ELSE s

\* accept, once there is room for it: the offer is taken out of the list
\* even if the quota then refuses it.  No direct link for what resumes.
Taking(s, i, listens) ==
  LET it == s.pending[i]
      f == it.file
      offset == Resume(s, f)
      token == Len(s.pulls) + 1
      taken == [s EXCEPT !.pending = RemoveAt(@, i)]
  IN  CASE ~ Fits(s, f, offset) -> taken
        [] Fits(s, f, offset) /\ it.direct /\ offset = 0 /\ listens ->
             [Listening(taken, f) EXCEPT !.out = Append(@, FileAccept(f, 0, token))]
        [] OTHER ->
             [Reopened(taken, f, offset) EXCEPT !.out = Append(@, FileAccept(f, offset, 0))]

Accepting(s, i, listens) ==
  LET d == Drained(s)
  IN  IF d.receiving = None /\ ~ Running(d) THEN Taking(d, i, listens) ELSE d

\* What ends every turn of the loop: /accept all goes on to the next file, and
\* a call that waited for its file to leave leaves.
Standing(s, listens) ==
  LET next == Accepting(s, Newest(s), listens)
      went == IF s.all /\ ~ Busy(s) /\ s.pending # <<>>
                THEN [next EXCEPT !.all = next.out # s.out] ELSE s
  IN  IF went.pending = <<>> THEN [went EXCEPT !.all = FALSE] ELSE went

\* A task that has told may be finished when the call looks at it again.
FinishedSince(s) ==
  IF s.direct = None \/ TaskOf(s, s.direct).st # "told" THEN s
    ELSE IF s.direct.in THEN [s EXCEPT !.pulls[s.direct.i].st = "ended"]
                        ELSE [s EXCEPT !.pushes[s.direct.i].st = "ended"]

Leaves(s) ==
  IF s.over = "no" /\ s.leaving # "no" /\ ~ Busy(s) THEN Ended(s, s.leaving) ELSE s

\* The ways a turn may end.
Settled(s) ==
  UNION {{Leaves(t), Leaves(FinishedSince(t))} : t \in {Standing(s, listens) : listens \in BOOLEAN}}

\* A task nobody has a handle to.
Loose(s) ==
  \/ \E i \in DOMAIN s.pulls :
       s.pulls[i].st \in Moving /\ s.direct # DirectTask(TRUE, i)
  \/ \E i \in DOMAIN s.pushes :
       s.pushes[i].st \in Moving /\ s.direct # DirectTask(FALSE, i)

\* The turn is done: what it wrote goes out, and a connection the call broke
\* off, or the program quit with, is closed.  An outcome that came after the
\* turn had looked for one will be there when the next one looks.
Turn(p, s, read) ==
  LET q == Other(p)
      heard == IF read THEN [wire EXCEPT ![q] = Tail(@)] ELSE wire
      over == s.over # "no"
  IN  /\ at' = [at EXCEPT ![p] = [s EXCEPT !.out = <<>>, !.passed = ~ over /\ s.done # <<>>]]
      /\ wire' = [heard EXCEPT
                    ![p] = IF at[q].over # "no" THEN <<>> ELSE IF down # "no" THEN @ ELSE @ \o s.out,
                    ![q] = IF over THEN <<>> ELSE @]
      /\ down' = IF down = "no" /\ s.over \in {"fault", "unread", "route", "disk", "quit", "gone"}
                   THEN "closed" ELSE down

\* What the properties do not speak of.  A direct transfer the call loses
\* track of: its task is let go of while it runs, or its outcome waits while
\* the call goes on to another file.  A drain given up too early.  And, in the
\* actions, a direct transfer cancelled before its link is up, and a
\* cancellation that takes back a new offer of the file.
Untracked(p, s) ==
  /\ s.over = "no"
  /\ IF at[p].done = <<>> THEN Loose(s)
       ELSE s.receiving # at[p].receiving \/ s.direct # at[p].direct

Early(p, s) ==
  LET r == at[p].receiving  q == Other(p)
  IN  /\ r # None /\ r.cancelled /\ r.quiet /\ s.receiving # r /\ s.over = "no"
      /\ \/ at[q].sending # None
         \/ \E i \in DOMAIN wire'[q] : wire'[q][i].t \in {"chunk", "done"}
         \/ \E i \in DOMAIN wire[p] : wire[p][i].t = "accept"

Strays(p, s, also) == astray' = (astray \/ also \/ Untracked(p, s) \/ Early(p, s))

Unmoved == UNCHANGED <<owner, vanished>>

-----------------------------------------------------------------------------
(***************************************************************************)
(* The keyboard.                                                           *)
(***************************************************************************)

Open(p) == at[p].over = "no"

\* A message with files in it, and /send: described, noted and offered.
Offers(p, files, direct) ==
  LET s == at[p]
  IN  /\ Open(p) /\ Costs("offer", Len(files))
      /\ \A i \in DOMAIN files : owner[files[i]] = p /\ files[i] \notin vanished
      /\ LET mine == [i \in DOMAIN files |-> Outgoing(files[i], direct)]
         IN  Turn(p, [s EXCEPT !.offered = @ \o mine,
                               !.out = <<Offer(files, direct)>>], FALSE)
      /\ UNCHANGED <<started, excused, forced, astray>> /\ Unmoved

\* start_sending: a file is not offered twice.
Send(p, f, direct) ==
  /\ ~ \E i \in DOMAIN at[p].offered : at[p].offered[i].file = f
  /\ Offers(p, <<f>>, direct)

\* /accept, /accept n and /accept all.
Accepts(p, i, every, listens) ==
  LET s == [at[p] EXCEPT !.all = every]
  IN  /\ Open(p) /\ i \in DOMAIN s.pending
      /\ every => i = Newest(s)
      /\ \E t \in Settled(Accepting(s, i, listens)) :
           t # at[p] /\ Turn(p, t, FALSE) /\ Strays(p, t, FALSE)
      /\ UNCHANGED <<budget, started, excused, forced>> /\ Unmoved

\* /refuse, /refuse n and /refuse all.
Refuses(p, which) ==
  LET s == at[p]
      refused == [i \in 1..Cardinality(which) |->
                    FileReject(s.pending[SetToSortSeq(which, <)[i]].file)]
      kept == SetToSortSeq(DOMAIN s.pending \ which, <)
      rest == [s EXCEPT !.pending = [i \in 1..Len(kept) |-> s.pending[kept[i]]],
                        !.all = @ /\ which # DOMAIN s.pending,
                        !.out = refused]
  IN  /\ Open(p) /\ Strikes("cancel")
      /\ \E t \in Settled(rest) :
           Turn(p, t, FALSE) /\ Strays(p, t, FALSE)
      /\ UNCHANGED <<started, excused, forced>> /\ Unmoved

\* Mutant: a cancelled file is forgotten at once.
CancelsAtOnce(p) ==
  LET s == at[p]  q == Other(p)
      f == IF s.receiving # None THEN s.receiving.file ELSE TaskOf(s, s.direct).file
      stopped == IF s.receiving # None THEN [s EXCEPT !.receiving = None] ELSE Aborted(s)
  IN  /\ Open(p) /\ Strikes("cancel")
      /\ \/ s.receiving # None /\ ~ s.receiving.cancelled
         \/ s.receiving = None /\ Running(s) /\ s.direct.in
      /\ \E t \in Settled([stopped EXCEPT !.out = <<FileReject(f)>>]) :
           /\ Turn(p, t, FALSE)
           /\ Strays(p, t, s.receiving = None /\ ~ \E i \in DOMAIN at[q].pushes :
                                at[q].pushes[i].token = s.direct.i)
      /\ excused' = excused \cup {f}
      /\ UNCHANGED <<started, forced>> /\ Unmoved

\* /cancel: a file coming in drains until its sender says it is done; a
\* direct one is just stopped.
Cancels(p) ==
  LET s == at[p]  q == Other(p)
      r == s.receiving
      tor == r # None /\ ~ r.cancelled
      f == IF tor THEN r.file ELSE TaskOf(s, s.direct).file
      stopped == IF tor THEN [s EXCEPT !.receiving.cancelled = TRUE] ELSE Aborted(s)
  IN  /\ Open(p) /\ Strikes("cancel")
      /\ tor \/ (Running(s) /\ s.direct.in)
      /\ \E t \in Settled([stopped EXCEPT !.out = <<FileReject(f)>>]) :
           /\ Turn(p, t, FALSE)
           /\ Strays(p, t, ~ tor /\ ~ \E i \in DOMAIN at[q].pushes :
                                at[q].pushes[i].token = s.direct.i)
      /\ excused' = excused \cup {f}
      /\ UNCHANGED <<started, forced>> /\ Unmoved

\* /bye and /quit: after the file, or at once if asked twice.
HangsUp(p, how) ==
  LET s == at[p]
      goes == ~ Busy(s) \/ s.leaving # "no"
  IN  /\ Open(p) /\ Strikes("bye")
      /\ Turn(p, IF goes THEN Ended(s, how) ELSE [s EXCEPT !.leaving = how], FALSE)
      /\ forced' = (forced \/ (goes /\ Busy(s)))
      /\ IF goes THEN Strays(p, Ended(s, how), FALSE) ELSE UNCHANGED astray
      /\ UNCHANGED <<started, excused>> /\ Unmoved

\* DRAIN_QUIET has passed without a chunk.
Quiet(p) ==
  /\ Open(p) /\ at[p].receiving # None /\ at[p].receiving.cancelled
  /\ ~ at[p].receiving.quiet /\ Strikes("quiet")
  /\ at' = [at EXCEPT ![p].receiving.quiet = TRUE]
  /\ UNCHANGED <<wire, down, started, excused, forced, astray>> /\ Unmoved

-----------------------------------------------------------------------------
(***************************************************************************)
(* What comes from the other side.                                         *)
(***************************************************************************)

\* The outcome of a direct transfer is looked for before the next frame, and
\* may come between the two looks: one turn passes it, and no other.
Passes(p) == Open(p) /\ (at[p].done = <<>> \/ ~ at[p].passed)

Comes(p, t) ==
  /\ Passes(p) /\ ~ at[p].gone
  /\ wire[Other(p)] # <<>> /\ Head(wire[Other(p)]).t = t

Frame(p) == Head(wire[Other(p)])

Reads(p, s) == \E t \in Settled(s) : Turn(p, t, TRUE) /\ Strays(p, t, FALSE)

Hears(p, s) ==
  /\ Reads(p, s)
  /\ UNCHANGED <<budget, started, excused, forced>> /\ Unmoved

\* One offered file, as it is listed for the operator.
TakeOffer(s, offer, i) == Offered(offer.files[i], s.batch + 1, offer.direct = 1)

HearsOffer(p) ==
  LET s == at[p]
      new == [i \in DOMAIN Frame(p).files |->
                TakeOffer(s, Frame(p), i)]
  IN  /\ Comes(p, "offer")
      /\ Hears(p, [s EXCEPT !.pending = @ \o new, !.batch = @ + 1])

\* Somebody is there to answer the dial, and it may still fail.
Answers(p, token) == at[p].pulls[token].st = "listening"

\* FileAccept: the file goes, over the link they opened if it can be reached;
\* else they are told and it goes over the call.  A transfer already going,
\* a file not on offer or one that is no longer there ends the call, and so
\* does a link for what was (first) offered over the call.
HearsAccept(p) ==
  LET s == at[p]
      f == Frame(p).files[1]
      token == Frame(p).direct
      asked == {i \in DOMAIN s.offered : s.offered[i].file = f}
      first == [s EXCEPT !.offered = RemoveAt(@, Min(asked))]
      sent == [first EXCEPT !.sending = Sending(f, Frame(p).n)]
      pushed == [first EXCEPT !.direct = DirectTask(FALSE, Len(s.pushes) + 1),
                              !.pushes = Append(@, [token |-> token, file |-> f,
                                                    st |-> "pushing"])]
  IN  /\ Comes(p, "accept")
      /\ \/ /\ asked = {} \/ s.sending # None
            /\ Turn(p, Ended(s, "fault"), TRUE) /\ UNCHANGED <<started, astray>>
         \/ /\ asked # {} /\ s.sending = None /\ f \in vanished
            /\ Turn(p, Ended(s, "unread"), TRUE) /\ UNCHANGED <<started, astray>>
         \/ /\ asked # {} /\ s.sending = None /\ f \notin vanished
            /\ token # 0 /\ ~ s.offered[Min(asked)].direct
            /\ Turn(p, Ended(s, "route"), TRUE) /\ UNCHANGED <<started, astray>>
         \/ /\ asked # {} /\ s.sending = None /\ f \notin vanished
            /\ token # 0 => s.offered[Min(asked)].direct
            /\ started' = started \cup {f}
            /\ \/ /\ token = 0 /\ Reads(p, sent)
               \/ /\ token # 0 /\ Answers(Other(p), token)
                  /\ Turn(p, pushed, TRUE) /\ Strays(p, pushed, FALSE)
               \/ token # 0 /\ Reads(p, [sent EXCEPT !.out = <<DirectFailed>>])
      /\ UNCHANGED <<budget, excused, forced>> /\ Unmoved

\* FileReject: of an offer, of what is going out over the call, whose end is
\* then marked, or of what goes over a direct link.
HearsReject(p) ==
  LET s == at[p]
      f == Frame(p).files[1]
      asked == {i \in DOMAIN s.offered : s.offered[i].file = f}
      t == CASE asked # {} -> [s EXCEPT !.offered = RemoveAt(@, Min(asked))]
             [] asked = {} /\ s.sending # None /\ s.sending.file = f ->
                  [s EXCEPT !.sending = None, !.out = <<FileDone>>]
             [] asked = {} /\ (s.sending # None => s.sending.file # f)
                  /\ Running(s) /\ TaskOf(s, s.direct).file = f -> Aborted(s)
             [] OTHER -> s
  IN  /\ Comes(p, "reject")
      /\ \E u \in Settled(t) :
           Turn(p, u, TRUE) /\ Strays(p, u, asked # {} /\ f \in excused)
      /\ UNCHANGED <<budget, started, excused, forced>> /\ Unmoved

\* DirectFailed: stop listening, and take it over the call, from its start.
HearsDirectFailed(p) ==
  LET s == at[p]
  IN  /\ Comes(p, "failed")
      /\ Hears(p, IF s.direct = None THEN s
                    ELSE IF s.direct.in
                      THEN Reopened(Aborted(s), TaskOf(s, s.direct).file, 0) ELSE Aborted(s))

HearsChunk(p) ==
  LET s == at[p]  r == s.receiving  f == r.file
  IN  /\ Comes(p, "chunk")
      /\ CASE r = None -> Hears(p, Ended(s, "fault"))
           [] r # None /\ r.cancelled -> Hears(p, [s EXCEPT !.receiving.quiet = FALSE])
           [] r # None /\ ~ r.cancelled /\ r.written = Size[f] -> Hears(p, Ended(s, "fault"))
           [] OTHER -> Hears(p, [s EXCEPT !.receiving.written = @ + 1,
                                          !.partial[f] = Append(@, <<Frame(p).files[1],
                                                                     Frame(p).n>>)])

HearsDone(p) ==
  LET s == at[p]  r == s.receiving  rest == [s EXCEPT !.receiving = None]
  IN  /\ Comes(p, "done")
      /\ CASE r = None -> Hears(p, Ended(s, "fault"))
           [] r # None /\ r.cancelled -> Hears(p, rest)
           [] OTHER -> Hears(p, Finished(rest, r.file))

\* The disk refuses a chunk, the last of a file, or to open the partial anew,
\* and the error ends the call.
HearsAndFails(p) ==
  LET s == at[p]  r == s.receiving
      t == IF r = None THEN Aborted(s) ELSE s
  IN  /\ \/ r # None /\ ~ r.cancelled /\ (Comes(p, "done")
                                        \/ (Comes(p, "chunk") /\ r.written < Size[r.file]))
         \/ r = None /\ s.direct # None /\ s.direct.in /\ Comes(p, "failed")
      /\ Strikes("trouble")
      /\ Turn(p, Ended(t, "disk"), TRUE)
      /\ UNCHANGED <<started, excused, forced, astray>> /\ Unmoved

\* They left, or closed the connection; a direct transfer that still runs is
\* waited for.  A circuit that died may end in an error, which waits for nothing.
LeftWith(s, how) == IF s.leaving = "no" THEN [s EXCEPT !.leaving = how] ELSE s

HearsHangUp(p) ==
  /\ Comes(p, "hangup")
  /\ Turn(p, IF Running(at[p]) THEN LeftWith(at[p], "left") ELSE Ended(at[p], "left"), TRUE)
  /\ UNCHANGED <<budget, started, excused, forced, astray>> /\ Unmoved

HearsEnd(p) ==
  LET s == at[p]
      waits == LeftWith([s EXCEPT !.gone = TRUE], "gone")
  IN  /\ Passes(p) /\ ~ s.gone /\ down # "no" /\ wire[Other(p)] = <<>>
      /\ \/ Turn(p, IF Running(s) THEN waits ELSE Ended(s, "gone"), FALSE)
         \/ down = "broken" /\ Turn(p, Ended(s, "gone"), FALSE)
      /\ UNCHANGED <<budget, started, excused, forced, astray>> /\ Unmoved

\* A direct transfer has ended, one way or another: whichever it was, the
\* call now has none.
HearsOutcome(p) ==
  LET s == at[p]
      it == Head(s.done)
      none == [s EXCEPT !.done = Tail(@), !.direct = None]
  IN  /\ Open(p) /\ s.done # <<>>
      /\ \E t \in Settled(IF it.what = "received" THEN Finished(none, it.file) ELSE none) :
           /\ Turn(p, t, FALSE)
           /\ astray' = (astray \/ Loose(none) \/ Early(p, t))
      /\ UNCHANGED <<budget, started, excused, forced>> /\ Unmoved

\* A chunk goes out, or the end of the file; a file cut short is let go of,
\* without a word.
Pumps(p) ==
  LET s == at[p]  f == s.sending.file  n == s.sending.sent
      next == CASE n = Size[f] -> [s EXCEPT !.sending = None, !.out = <<FileDone>>]
                [] n # Size[f] /\ f \in vanished -> [s EXCEPT !.sending = None]
                [] OTHER -> [s EXCEPT !.sending.sent = n + 1, !.out = <<FileChunk(f, n + 1)>>]
  IN  /\ Passes(p) /\ s.sending # None
      /\ \E t \in Settled(next) : Turn(p, t, FALSE) /\ Strays(p, t, FALSE)
      /\ UNCHANGED <<budget, started, excused, forced>> /\ Unmoved

-----------------------------------------------------------------------------
(***************************************************************************)
(* The tasks of direct transfers, and the link between two of them.        *)
(***************************************************************************)

TasksOnly == UNCHANGED <<wire, down, started, excused, forced, astray>> /\ Unmoved
Outcome(what, f) == [what |-> what, file |-> f]
Tells(p, what, f) ==
  IF Open(p) THEN Append(at[p].done, Outcome(what, f)) ELSE at[p].done

\* There is room for one outcome, and nobody left to hear it of a call that is over.
MayTell(p) == Open(p) => at[p].done = <<>>

\* Who pushes to the i-th link p opened.
Pusher(p, i) == {k \in DOMAIN at[Other(p)].pushes : at[Other(p)].pushes[k].token = i}

\* Who came brought the token, which only the other side was told.
LinkUp(p, i) == \E k \in Pusher(p, i) : at[Other(p)].pushes[k].st # "aborted"

\* The partial is emptied, and filled chunk by chunk.
Pull(p, i) ==
  LET it == at[p].pulls[i]  f == it.file
  IN  /\ LinkUp(p, i)
      /\ \/ /\ it.st = "listening"
            /\ at' = [at EXCEPT ![p].pulls[i].st = "pulling", ![p].partial[f] = <<>>]
         \/ /\ it.st = "pulling" /\ Len(at[p].partial[f]) < Size[f]
            /\ at' = [at EXCEPT ![p].partial[f] = Append(@, <<f, Len(@) + 1>>)]
         \/ /\ it.st = "pulling" /\ Len(at[p].partial[f]) = Size[f] /\ MayTell(p)
            /\ at' = [at EXCEPT ![p].pulls[i].st = "told", ![p].done = Tells(p, "received", f)]
      /\ UNCHANGED budget /\ TasksOnly

\* It fails, on its own or because the other side stopped.
PullFails(p, i) ==
  LET it == at[p].pulls[i]
  IN  /\ it.st = "pulling" /\ MayTell(p)
      /\ \/ Strikes("trouble")
         \/ (\A k \in Pusher(p, i) : at[Other(p)].pushes[k].st = "aborted") /\ UNCHANGED budget
      /\ at' = [at EXCEPT ![p].pulls[i].st = "told", ![p].done = Tells(p, "failed", it.file)]
      /\ TasksOnly

\* All was taken by the other end, or the link died after the last byte; or
\* it died before, or the file was cut short.
Push(p, k) ==
  LET it == at[p].pushes[k]
      far == at[Other(p)].pulls[it.token].st
  IN  /\ it.st = "pushing" /\ MayTell(p)
      /\ \/ far # "listening" /\ UNCHANGED budget
            /\ at' = [at EXCEPT ![p].pushes[k].st = "told",
                                ![p].done = Tells(p, "sent", it.file)]
         \/ /\ \/ Strikes("trouble")
               \/ (far = "aborted" \/ it.file \in vanished) /\ UNCHANGED budget
            /\ at' = [at EXCEPT ![p].pushes[k].st = "aborted",
                                ![p].done = Tells(p, "failed", it.file)]
      /\ TasksOnly

\* What has reported is finished a moment later; only the handle can tell.
Finishes(p) ==
  /\ FinishedSince(at[p]) # at[p]
  /\ at' = [at EXCEPT ![p] = FinishedSince(@)]
  /\ UNCHANGED budget /\ TasksOnly

-----------------------------------------------------------------------------

\* The circuit dies under the call, with any part of what was on its way.
Break ==
  /\ down = "no" /\ (\E p \in People : Open(p)) /\ Strikes("trouble")
  /\ down' = "broken"
  /\ wire' \in {w \in [People -> UNION {Prefixes(wire[p]) : p \in People}] :
                  \A p \in People : w[p] \in Prefixes(wire[p])}
  /\ UNCHANGED <<at, started, excused, forced, astray>> /\ Unmoved

\* A file on offer is moved, or cut short.
Vanish(f) ==
  /\ f \notin vanished /\ Strikes("trouble")
  /\ \E p \in People : \/ \E i \in DOMAIN at[p].offered : at[p].offered[i].file = f
                        \/ (at[p].sending # None /\ at[p].sending.file = f)
                        \/ (Running(at[p]) /\ ~ at[p].direct.in)
  /\ vanished' = vanished \cup {f}
  /\ UNCHANGED <<owner, at, wire, down, started, excused, forced, astray>>

Types(p) ==
  \/ \E direct \in BOOLEAN, f \in Files : Send(p, f, direct) \/ Offers(p, <<f>>, direct)
  \/ \E direct \in BOOLEAN, f, g \in Files : f # g /\ Offers(p, <<f, g>>, direct)
  \/ \E i \in DOMAIN at[p].pending, every, listens \in BOOLEAN : Accepts(p, i, every, listens)
  \/ \E i \in DOMAIN at[p].pending : Refuses(p, {i}) \/ Refuses(p, DOMAIN at[p].pending)
  \/ Cancels(p) \/ Quiet(p)
  \/ \E how \in {"bye", "quit"} : HangsUp(p, how)

HearsFrame(p) ==
  \/ HearsOffer(p) \/ HearsAccept(p) \/ HearsReject(p) \/ HearsDirectFailed(p)
  \/ HearsChunk(p) \/ HearsDone(p) \/ HearsHangUp(p) \/ HearsEnd(p) \/ HearsOutcome(p)
  \/ HearsAndFails(p)

Next ==
  \/ \E p \in People :
       \/ Types(p) \/ HearsFrame(p) \/ Pumps(p) \/ Finishes(p)
       \/ \E i \in DOMAIN at[p].pulls : Pull(p, i) \/ PullFails(p, i)
       \/ \E k \in DOMAIN at[p].pushes : Push(p, k)
  \/ Break
  \/ \E f \in Files : Vanish(f)

Spec == Init /\ [][Next]_vars

-----------------------------------------------------------------------------
(***************************************************************************)
(* What makes it correct.                                                  *)
(***************************************************************************)

\* No frame of a file ends the call as a fault of the protocol, whatever is
\* offered, taken, refused, cancelled and answered crosswise - as long as no
\* direct transfer went astray, and no file was on offer by both routes at
\* once.  (chat.rs handle, FileAccept, FileChunk, FileDone)
NoFault == ~ astray => \A p \in People : at[p].over # "fault"

\* /bye waits for the file: when the call is over on both sides, every file
\* that began to go is there, unless it was cancelled, somebody left without
\* waiting, something broke, or a direct transfer went astray.  What came over
\* a direct link at the very end, when the call had not heard yet that it was
\* there, is whole on disk and has no name.  (chat.rs busy, `leaving`,
\* direct_done)
NothingCutShort ==
  /\ \A p \in People : at[p].over # "no"
  /\ ~ forced /\ ~ astray /\ budget["trouble"] = Budget["trouble"]
  => \A f \in started \ excused :
       LET s == at[Other(owner[f])]
       IN  \/ s.kept[f] > 0
           \/ s.done = <<Outcome("received", f)>> /\ s.partial[f] = Chunks(f)

\* What is on disk under a file's hash is the beginning of that file, so that
\* it can be resumed: nothing of another file, nothing twice, nothing
\* missing - as long as no direct transfer went astray and no drain was given
\* up early.  (files.rs, "Why the partial file is named after the hash")
PartialIsPrefix ==
  ~ astray => \A p \in People, f \in Files : IsPrefix(at[p].partial[f], Chunks(f))
=============================================================================
