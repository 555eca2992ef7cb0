------------------------------ MODULE Keeping ------------------------------
(***************************************************************************)
(* What one person keeps on disk: the seed, the book, and the record of    *)
(* what was said with a contact who may object to it (identity.rs,         *)
(* history.rs, contacts.rs, store.rs, and what main.rs does with them).    *)
(* The idle loop does one thing at a time, and a save is several steps;    *)
(* the machine may stop between any two.                                   *)
(*                                                                         *)
(* The contact's own program is only what it says: whether it objects, and *)
(* what it has heard of our record.                                        *)
(***************************************************************************)
EXTENDS Store, SequencesExt, FiniteSetsExt

CONSTANTS
  Found, Fresh,   \* the identity there may be, and the one that may be made
  Cap,            \* how many lines the record holds
  Budget          \* how often each kind of event may happen

Kinds == {"typed", "said", "fault", "link"}
Files == {"seed", "book", "history"}

\* What each of them holds.
Who == {"them", "other"}
SeedContents == [key : {Found, Fresh}, as : {"raw", "v1", "v2"}]
BookContents ==
  [key : {Found, Fresh}, filed : BOOLEAN, objects : BOOLEAN, ours : BOOLEAN]
HistoryContents == [key : {Found, Fresh}, on : BOOLEAN, lines : Seq(Who)]

ASSUME KeepingAssumption ==
  /\ Found # Fresh /\ Cap \in Nat \ {0} /\ Budget \in [Kinds -> Nat]
  /\ {Absent, Torn} \cap (SeedContents \cup BookContents) = {}
  /\ Absent \notin HistoryContents /\ Torn \notin HistoryContents

VARIABLES
  disk,      \* the files
  mode,      \* "down", "tool", "starting" or "up"
  mem,       \* what the program holds in memory
  todo,      \* what the handler that is running has still to do
  at,        \* steps of the save at the head of todo that are done
  link,      \* to the contact: "none", "idle" or "call"
  in, out,   \* frames on their way from them and to them
  aside,     \* what the call's task has handed to the idle loop
  kept,      \* frames for them until they are connected
  them,      \* the contact: objects, told, and frames kept until we are
  budget,
  \* history, for the properties
  used,      \* the identities the program has run under
  said,      \* the last the operator was told of the record: "on", "off",
             \* or "failed" when it could not be turned
  behind,    \* files whose last save failed or was not made durable; the
             \* seed, once it was not; "objection" while nothing has been
             \* erased, or a connection not closed, because a save failed
  quiet      \* who says nothing of the record on this connection; "us"
             \* also once we have withdrawn an objection over it

wires == <<link, in, out, aside, kept, them>>
historyVars == <<used, said, behind, quiet>>
vars == <<disk, mode, mem, todo, at, wires, budget, historyVars>>

Strikes(kind) == budget[kind] > 0 /\ budget' = [budget EXCEPT ![kind] = @ - 1]

\* Nothing kept; History::default and an empty book.
Blank == [key |-> Absent, on |-> FALSE, lines |-> <<>>,
          filed |-> FALSE, objects |-> FALSE, ours |-> FALSE]

Init ==
  /\ disk \in {[f \in Files |-> Holding(IF f = "seed" THEN s ELSE Absent)] :
                 s \in {Absent, [key |-> Found, as |-> "raw"], [key |-> Found, as |-> "v1"]}}
  /\ mode = "down" /\ mem = Blank /\ todo = <<>> /\ at = 0
  /\ link = "none" /\ in = <<>> /\ out = <<>> /\ aside = <<>> /\ kept = <<>>
  /\ them = [objects |-> FALSE, told |-> FALSE, kept |-> <<>>]
  /\ budget = Budget
  /\ used = {} /\ said = "off" /\ behind = {} /\ quiet = {}

\* What a save writes of the memory, sealed under the seed.
SealedBook ==
  [key |-> mem.key, filed |-> mem.filed, objects |-> mem.objects, ours |-> mem.ours]

Sealed(file) ==
  IF file = "book" THEN SealedBook
                   ELSE [key |-> mem.key, on |-> mem.on, lines |-> mem.lines]

Recording(on) == [t |-> "recording", on |-> on]
DontRecord == [t |-> "dont", on |-> FALSE]
Line == [t |-> "line", on |-> FALSE]

Save(file) == [do |-> "save", file |-> file, value |-> Absent]
WriteSeed(key, as) == [do |-> "seed", file |-> "seed", value |-> [key |-> key, as |-> as]]
CreateSeed == [WriteSeed(Fresh, "raw") EXCEPT !.do = "create"]
Tell(on) == [do |-> "tell", file |-> "", value |-> Recording(on)]
Say(frame) == [do |-> "say", file |-> "", value |-> frame]
Erase == [do |-> "erase", file |-> "", value |-> Absent]
Close == [do |-> "close", file |-> "", value |-> Absent]

\* A mark on a contact is saved when it changes.
Marks(changes) == IF changes THEN <<Save("book")>> ELSE <<>>

-----------------------------------------------------------------------------
(***************************************************************************)
(* A handler at work.                                                      *)
(***************************************************************************)

Steps(item) == IF item.do = "create" THEN InPlace ELSE Beside
Value(item) == IF item.do = "save" THEN Sealed(item.file) ELSE item.value

Saving == todo # <<>> /\ Head(todo).do \in {"save", "seed", "create"}

\* write_sealed, write_seed_bytes, create: one step.
SaveStep ==
  LET item == Head(todo)  f == item.file
      step == Steps(item)[at + 1]
      last == step = "sync"
  IN  /\ Saving
      /\ disk' = [disk EXCEPT ![f] = Written(@, step, Value(item))]
      /\ at' = IF last THEN 0 ELSE at + 1
      /\ todo' = IF last THEN Tail(todo) ELSE todo
      /\ behind' = IF last /\ f # "seed" THEN behind \ {f} ELSE behind
      /\ UNCHANGED <<mode, mem, wires, budget, used, said, quiet>>

\* A step fails: the handler ends there, and shows the error.  Starting, an
\* old format that could not be rewritten is left as it is, and a seed that
\* could not be made is the end.  That the directory was not flushed is
\* logged, and nothing more.
SaveFails ==
  LET item == Head(todo)  f == item.file
      step == Steps(item)[at + 1]
      last == step = "sync"
  IN  /\ Saving /\ Strikes("fault")
      /\ at' = 0
      /\ todo' = IF last THEN Tail(todo) ELSE <<>>
      /\ behind' = behind
           \cup (IF f # "seed" \/ step \in {"settle", "sync"} THEN {f} ELSE {})
           \cup (IF ~ last /\ {Erase, Close} \cap ToSet(todo) # {} THEN {"objection"} ELSE {})
      /\ said' = IF ~ last /\ \E i \in DOMAIN todo : todo[i].do = "tell" THEN "failed" ELSE said
      /\ mode' = IF item.do = "create" /\ ~ last THEN "down" ELSE mode
      /\ UNCHANGED <<disk, mem, wires, used, quiet>>

Sent(frame) ==
  /\ out' = IF link # "none" THEN Append(out, frame) ELSE out
  /\ kept' = IF link = "none" THEN Append(kept, frame) ELSE kept

\* forget: the lines of somebody else, as many as there were.
Others(lines) ==
  [i \in 1 .. Cardinality({j \in DOMAIN lines : lines[j] # "them"}) |-> "other"]

\* What else a handler does: it erases what is kept of them, tells them of
\* the record if they are connected, sends, or closes their connection.
Proceeds ==
  LET item == Head(todo)  left == Others(mem.lines)
  IN  /\ todo # <<>> /\ ~ Saving
      /\ CASE item.do = "erase" ->
                /\ mem' = [mem EXCEPT !.lines = left]
                /\ todo' = IF left = mem.lines THEN Tail(todo)
                                               ELSE <<Save("history")>> \o Tail(todo)
                /\ behind' = behind \ {"objection"}
                /\ UNCHANGED <<wires, said, quiet>>
           [] item.do = "tell" ->
                /\ out' = IF link # "none" /\ mem.filed /\ ~ (item.value.on /\ mem.objects)
                            THEN Append(out, item.value) ELSE out
                /\ said' = IF item.value.on THEN "on" ELSE "off"
                /\ todo' = Tail(todo)
                /\ UNCHANGED <<mem, link, in, aside, kept, them, quiet, behind>>
           [] item.do = "say" ->
                /\ Sent(item.value)
                /\ quiet' = IF item.value = Recording(FALSE) THEN quiet \cup {"us"} ELSE quiet
                /\ todo' = Tail(todo)
                /\ UNCHANGED <<mem, link, in, aside, them, said, behind>>
           [] item.do = "close" ->
                /\ link' = "none" /\ in' = <<>> /\ out' = <<>> /\ kept' = <<>>
                /\ todo' = Tail(todo)
                /\ UNCHANGED <<mem, aside, them, said, quiet, behind>>
      /\ UNCHANGED <<disk, mode, at, budget, used>>

Idle == mode = "up" /\ todo = <<>>

\* A handler that changes the memory and then does the rest.
Handles(m, rest) ==
  /\ Idle /\ mem' = m /\ todo' = rest
  /\ UNCHANGED <<disk, mode, at, historyVars>>

-----------------------------------------------------------------------------
(***************************************************************************)
(* The record.                                                             *)
(***************************************************************************)

\* Mutant: turned off, and left where it is.
SetLeaves(on) == [mem EXCEPT !.on = on]

\* set: turned off is erased.
Set(on) == [mem EXCEPT !.on = on, !.lines = IF on THEN @ ELSE <<>>]

\* trim: the oldest go.
Trim(lines) == IF Len(lines) > Cap THEN Tail(lines) ELSE lines

\* Somebody not in the book objects.
Objects(who) == who = "them" /\ (~ mem.filed \/ mem.objects)

\* recording, then note.
Noted(who) ==
  IF mem.on /\ ~ Objects(who)
    THEN Handles([mem EXCEPT !.lines = Trim(Append(@, who))], <<Save("history")>>)
    ELSE Handles(mem, <<>>)

\* /history on, /history off.
HistoryOn == Strikes("typed") /\ Handles(Set(TRUE), <<Save("history"), Tell(TRUE)>>) /\ UNCHANGED wires
HistoryOff == Strikes("typed") /\ Handles(Set(FALSE), <<Save("history"), Tell(FALSE)>>) /\ UNCHANGED wires

\* /history no, /history ok: our side of their record.
HistoryNo(objecting) ==
  /\ mem.filed /\ Strikes("typed")
  /\ Handles([mem EXCEPT !.ours = objecting],
             Marks(mem.ours # objecting)
               \o <<Say(IF objecting THEN DontRecord ELSE Recording(FALSE))>>)
  /\ UNCHANGED wires

\* Said with somebody else.
Elsewhere == Strikes("said") /\ mem.on /\ Noted("other") /\ UNCHANGED wires

\* A line of ours: from the call's task, or left for them.
WeSay ==
  /\ Strikes("said") /\ mem.filed /\ Idle
  /\ \/ /\ link = "call" /\ aside' = Append(aside, Line)
        /\ UNCHANGED <<disk, mode, mem, todo, at, link, in, out, kept, them, historyVars>>
     \/ link # "call" /\ Noted("them") /\ UNCHANGED wires

\* /add and /forget.
Add ==
  /\ ~ mem.filed /\ Strikes("typed")
  /\ Handles([mem EXCEPT !.filed = TRUE], <<Save("book")>>) /\ UNCHANGED wires

Forget ==
  /\ mem.filed /\ link # "call" /\ Strikes("typed")
  /\ Handles([mem EXCEPT !.filed = FALSE, !.objects = FALSE, !.ours = FALSE],
             <<Save("book"), Erase, Close>>)
  /\ UNCHANGED wires

\* The book is saved, and the keys of the service or the outbox are not:
\* resync and discard come before the erasing, and their error ends it.
ForgetFails ==
  /\ todo = <<Erase, Close>> /\ Strikes("fault")
  /\ todo' = <<>> /\ behind' = behind \cup {"objection"}
  /\ UNCHANGED <<disk, mode, mem, at, wires, used, said, quiet>>

\* Mutant: erased when it is news, and not again.
ObjectedOnce ==
  Handles([mem EXCEPT !.objects = TRUE],
          IF mem.objects THEN <<>> ELSE <<Save("book"), Erase>>)

\* DontRecord: honoured backwards as well as forwards.
Objected ==
  Handles([mem EXCEPT !.objects = TRUE],
          Marks(~ mem.objects) \o <<Erase>>)

\* What has come reaches the idle loop: by itself, or handed on by the call.
Heeds(frame) ==
  CASE frame.t = "dont" /\ mem.filed -> Objected
    [] frame.t = "line" -> Noted("them")
    [] OTHER -> Handles(mem, <<>>)

Hears ==
  /\ link = "idle" /\ in # <<>> /\ Heeds(Head(in))
  /\ in' = Tail(in)
  /\ UNCHANGED <<link, out, aside, kept, them, budget>>

HearsAside ==
  /\ aside # <<>> /\ Heeds(Head(aside))
  /\ aside' = Tail(aside)
  /\ UNCHANGED <<link, in, out, kept, them, budget>>

\* The call's task passes it on.
CallHears ==
  /\ link = "call" /\ in # <<>>
  /\ in' = Tail(in) /\ aside' = Append(aside, Head(in))
  /\ UNCHANGED <<disk, mode, mem, todo, at, link, out, kept, them, budget, historyVars>>

-----------------------------------------------------------------------------
(***************************************************************************)
(* The connection, and the contact.                                        *)
(***************************************************************************)

\* Mutant: the objection only.
DeclaresObjection == IF mem.ours THEN <<DontRecord>> ELSE <<>>

\* declare_history.
Declares ==
  (IF mem.on /\ ~ mem.objects THEN <<Recording(TRUE)>> ELSE <<>>)
    \o (IF mem.ours THEN <<DontRecord>> ELSE <<>>)

\* A connection opens, and each side says what a fresh one has to be told:
\* but not the one who opened it by calling.
Connect(caller) ==
  /\ Idle /\ link = "none" /\ mem.filed /\ Strikes("link")
  /\ link' = IF caller = "us" THEN "call" ELSE "idle"
  /\ out' = kept \o (IF caller = "us" THEN <<>> ELSE Declares)
  /\ in' = them.kept \o (IF them.objects /\ caller # "them" THEN <<DontRecord>> ELSE <<>>)
  /\ kept' = <<>>
  /\ them' = [them EXCEPT !.told = FALSE, !.kept = <<>>]
  /\ quiet' = ({caller} \ {"nobody"})
       \cup (IF Recording(FALSE) \in ToSet(kept) THEN {"us"} ELSE {})
  /\ UNCHANGED <<disk, mode, mem, todo, at, aside, used, said, behind>>

\* The call is taken up, and is over.
Call ==
  /\ Idle /\ link = "idle" /\ link' = "call"
  /\ UNCHANGED <<disk, mode, mem, todo, at, in, out, aside, kept, them, budget, historyVars>>
CallEnds ==
  /\ Idle /\ link = "call" /\ link' = "idle"
  /\ UNCHANGED <<disk, mode, mem, todo, at, in, out, aside, kept, them, budget, historyVars>>

\* It dies, with what was on its way.
Break ==
  /\ link # "none" /\ Strikes("link")
  /\ link' = "none" /\ in' = <<>> /\ out' = <<>>
  /\ UNCHANGED <<disk, mode, mem, todo, at, aside, kept, them, historyVars>>

TheyHear ==
  /\ out # <<>> /\ out' = Tail(out)
  /\ them' = IF Head(out).t = "recording" THEN [them EXCEPT !.told = Head(out).on] ELSE them
  /\ UNCHANGED <<disk, mode, mem, todo, at, link, in, aside, kept, budget, historyVars>>

\* /history no, at their end.
TheyObject ==
  /\ ~ them.objects /\ Strikes("typed")
  /\ in' = IF link # "none" THEN Append(in, DontRecord) ELSE in
  /\ them' = [them EXCEPT !.objects = TRUE,
                          !.kept = IF link = "none" THEN Append(@, DontRecord) ELSE @]
  /\ UNCHANGED <<disk, mode, mem, todo, at, link, out, aside, kept, historyVars>>

TheySay ==
  /\ link # "none" /\ Strikes("said") /\ in' = Append(in, Line)
  /\ UNCHANGED <<disk, mode, mem, todo, at, link, out, aside, kept, them, historyVars>>

-----------------------------------------------------------------------------
(***************************************************************************)
(* The program starts and stops.                                           *)
(***************************************************************************)

Seed == disk["seed"].is
Opens(file) ==
  LET v == disk[file].is IN IF v \in {Absent, Torn} THEN v = Absent ELSE v.key = Seed.key

\* load_or_create: a seed is made, or read; the first format is rewritten.
\* One that is cut short is refused, and its owner told to delete it.
Start ==
  /\ mode = "down" /\ Seed # Torn
  /\ mode' = "starting"
  /\ todo' = IF Seed = Absent THEN <<CreateSeed>>
               ELSE IF Seed.as = "v1" THEN <<WriteSeed(Seed.key, "v2")>> ELSE <<>>
  /\ UNCHANGED <<disk, mem, at, wires, budget, historyVars>>

\* Contacts::open: the seed's own book, or an empty one.
WithBook(book) ==
  IF book = Absent THEN [Blank EXCEPT !.key = Seed.key]
    ELSE [Blank EXCEPT !.key = Seed.key, !.filed = book.filed,
                       !.objects = book.objects, !.ours = book.ours]

\* History::open, after it.
Open ==
  LET history == disk["history"].is  withBook == WithBook(disk["book"].is)
  IN  /\ mode = "starting" /\ todo = <<>>
      /\ Opens("book") /\ Opens("history")
      /\ mode' = "up"
      /\ mem' = IF history = Absent THEN withBook
                  ELSE [withBook EXCEPT !.on = history.on, !.lines = history.lines]
      /\ used' = used \cup {Seed.key}
      /\ said' = IF mem'.on THEN "on" ELSE "off"
      /\ behind' = behind \ {f \in {"book", "history"} : disk[f].after = {disk[f].is}}
      /\ UNCHANGED <<disk, todo, at, wires, budget, quiet>>

\* The program rewrites the seed, and ends.
Rewrites(seed) ==
  /\ mode = "down" /\ Strikes("typed")
  /\ mode' = "tool" /\ todo' = <<seed>>
  /\ UNCHANGED <<disk, mem, at, wires, historyVars>>

\* encrypt_at_rest, decrypt_at_rest; restore_from_mnemonic where there is none.
Encrypt == Seed \notin {Absent, Torn} /\ Seed.as = "raw" /\ Rewrites(WriteSeed(Seed.key, "v2"))
Decrypt == Seed \notin {Absent, Torn} /\ Seed.as # "raw" /\ Rewrites(WriteSeed(Seed.key, "raw"))
Restore == Seed = Absent /\ Rewrites(WriteSeed(Found, "raw"))

ToolEnds ==
  /\ mode = "tool" /\ todo = <<>> /\ mode' = "down"
  /\ UNCHANGED <<disk, mem, todo, at, wires, budget, historyVars>>

\* The program stops, or the machine, with what the disk may then hold.
Crash ==
  /\ mode # "down" /\ Strikes("fault")
  /\ \E left \in [Files -> UNION {Crashed(disk[f]) : f \in Files}] :
       /\ \A f \in Files : left[f] \in Crashed(disk[f])
       /\ disk' = left
  /\ mode' = "down" /\ mem' = Blank /\ todo' = <<>> /\ at' = 0
  /\ link' = "none" /\ in' = <<>> /\ out' = <<>> /\ aside' = <<>> /\ kept' = <<>>
  /\ UNCHANGED <<them, historyVars>>

\* As it was told to.
Delete ==
  /\ mode = "down" /\ Seed = Torn
  /\ disk' = [disk EXCEPT !["seed"] = Holding(Absent)]
  /\ UNCHANGED <<mode, mem, todo, at, wires, budget, historyVars>>

-----------------------------------------------------------------------------

Types ==
  \/ HistoryOn \/ HistoryOff \/ Add \/ Forget \/ WeSay \/ Elsewhere
  \/ \E objecting \in BOOLEAN : HistoryNo(objecting)

Next ==
  \/ SaveStep \/ SaveFails \/ ForgetFails \/ Proceeds
  \/ Types \/ Hears \/ HearsAside \/ CallHears
  \/ (\E caller \in {"us", "them", "nobody"} : Connect(caller)) \/ Call \/ CallEnds \/ Break
  \/ TheyHear \/ TheyObject \/ TheySay
  \/ Start \/ Open \/ Encrypt \/ Decrypt \/ Restore \/ ToolEnds \/ Crash \/ Delete

Spec == Init /\ [][Next]_vars

-----------------------------------------------------------------------------
(***************************************************************************)
(* What makes it correct.                                                  *)
(***************************************************************************)

\* Once it has run, whatever step the machine stops at leaves the seed it ran
\* under, in some format, and a book and a record that are whole and open
\* under it, an earlier one if the disk would not make the last durable.
\* (store.rs write_sealed, identity.rs write_seed_bytes and create)
AlwaysOpens ==
  used # {} /\ "seed" \notin behind =>
    /\ Cardinality(used) = 1
    /\ \A file \in Files : \A v \in disk[file].after :
         IF v \in {Absent, Torn} THEN v = Absent /\ file # "seed" ELSE v.key \in used

\* Once the operator has been told that the record is off, no crash brings
\* any of it back, nor turns it on; unless the disk refused to make it
\* durable.  (history.rs set, main.rs /history off)
OffIsOff ==
  said = "off" /\ "history" \notin behind /\ mode = "up" /\ todo = <<>> =>
    \A v \in disk["history"].after : v = Absent \/ (~ v.on /\ v.lines = <<>>)

AtRest == Idle /\ link # "none" /\ in = <<>> /\ out = <<>> /\ aside = <<>>

\* When everything said has been heard, nothing with a contact who objects is
\* kept, in memory or on disk, whatever crashed in between; unless a save
\* failed on the way, or they opened this connection by calling, which
\* says nothing.  (main.rs DontRecord, recording, declare_history)
NothingOfAnObjector ==
  AtRest /\ them.objects /\ mem.filed /\ "them" \notin quiet /\ "objection" \notin behind =>
    /\ "them" \notin ToSet(mem.lines)
    /\ "history" \notin behind =>
         \A v \in disk["history"].after : v = Absent \/ "them" \notin ToSet(v.lines)

\* When everything said has been heard, a contact with whom a record is kept
\* has been told of it on this connection; unless we opened it by calling, or
\* withdrew an objection over it, or the record could not be turned on and is
\* kept all the same, or they could not be forgotten and are added again.  (main.rs declare_history, /history on)
TheyAreTold ==
  AtRest /\ mem.on /\ mem.filed /\ ~ mem.objects /\ said = "on" /\ "us" \notin quiet
      /\ "objection" \notin behind
    => them.told

=============================================================================
