--------------------------- MODULE KeepingProofs ----------------------------
(***************************************************************************)
(* What Keeping promises, whatever is typed, said, broken and crashed.     *)
(*                                                                         *)
(* One invariant of four parts carries the four theorems at the end.       *)
(* StoredInv says what each file may hold at each step of a save, and how  *)
(* it differs from the memory; WireInv, that a connection needs a program; *)
(* ObjectionInv, where an objection is until it has been heeded; ToldInv,  *)
(* that the last thing said of the record is the truth.                    *)
(***************************************************************************)
EXTENDS Keeping, SequenceTheorems, FiniteSetTheorems, TLAPS

-----------------------------------------------------------------------------
(***************************************************************************)
(* Sequences, and what is in them.                                         *)
(***************************************************************************)

LEMMA InSeq ==
  ASSUME NEW S, NEW s \in Seq(S)
  PROVE  /\ Len(s) \in Nat /\ DOMAIN s = 1 .. Len(s)
         /\ \A i \in 1 .. Len(s) : s[i] \in S
         /\ ToSet(s) = {s[i] : i \in 1 .. Len(s)} /\ ToSet(s) \subseteq S
         /\ s = <<>> <=> Len(s) = 0
         /\ s = <<>> <=> ToSet(s) = {}
<1>1. Len(s) \in Nat /\ DOMAIN s = 1 .. Len(s)
  BY LenProperties
<1>2. \A i \in 1 .. Len(s) : s[i] \in S
  BY ElementOfSeq
<1>3. ToSet(s) = {s[i] : i \in 1 .. Len(s)}
  BY <1>1 DEF ToSet
<1>4. s = <<>> <=> Len(s) = 0
  BY EmptySeq, SMT
<1>5. Len(s) # 0 => s[1] \in ToSet(s)
  BY <1>1, <1>3
<1>6. Len(s) = 0 => ToSet(s) = {}
  BY <1>1, <1>3
<1>7. QED
  BY <1>1, <1>2, <1>3, <1>4, <1>5, <1>6

\* A sequence is its first and the rest.
LEMMA Ends ==
  ASSUME NEW S, NEW s \in Seq(S), s # <<>>
  PROVE  /\ Head(s) \in S /\ Tail(s) \in Seq(S) /\ Head(s) = s[1]
         /\ Len(Tail(s)) = Len(s) - 1 /\ Len(s) \in Nat \ {0}
         /\ \A i \in 1 .. Len(Tail(s)) : Tail(s)[i] = s[i + 1]
         /\ Head(s) \in ToSet(s)
         /\ ToSet(Tail(s)) \subseteq ToSet(s)
         /\ \A x \in ToSet(s) : x = Head(s) \/ x \in ToSet(Tail(s))
<1>1. /\ Len(s) \in Nat \ {0} /\ Len(Tail(s)) = Len(s) - 1 /\ Tail(s) \in Seq(S)
      /\ Head(s) = s[1] /\ \A i \in 1 .. Len(Tail(s)) : Tail(s)[i] = s[i + 1]
      /\ Head(s) \in S
  BY InSeq, HeadTailProperties
<1>2. ToSet(s) = {s[i] : i \in 1 .. Len(s)}
  BY InSeq
<1>3. ToSet(Tail(s)) = {Tail(s)[i] : i \in 1 .. Len(Tail(s))}
  BY <1>1, InSeq
<1>4. Head(s) \in ToSet(s)
  BY <1>1, <1>2
<1>5. ASSUME NEW x \in ToSet(Tail(s)) PROVE x \in ToSet(s)
  <2>1. PICK i \in 1 .. Len(Tail(s)) : x = Tail(s)[i]
    BY <1>3
  <2>2. x = s[i + 1] /\ i + 1 \in 1 .. Len(s)
    BY <2>1, <1>1
  <2>3. QED
    BY <2>2, <1>2
<1>6. ASSUME NEW x \in ToSet(s), x # Head(s) PROVE x \in ToSet(Tail(s))
  <2>1. PICK i \in 1 .. Len(s) : x = s[i]
    BY <1>2
  <2>2. i - 1 \in 1 .. Len(Tail(s)) /\ Tail(s)[i - 1] = x
    <3>1. i # 1
      BY <2>1, <1>6, <1>1
    <3>2. i - 1 \in 1 .. Len(Tail(s))
      BY <3>1, <1>1
    <3>3. Tail(s)[i - 1] = s[(i - 1) + 1]
      BY <3>2, <1>1
    <3>4. (i - 1) + 1 = i
      OBVIOUS
    <3>5. QED
      BY <3>2, <3>3, <3>4, <2>1
  <2>3. QED
    BY <2>2, <1>3
<1>7. QED
  BY <1>1, <1>4, <1>5, <1>6

LEMMA Added ==
  ASSUME NEW S, NEW s \in Seq(S), NEW x \in S
  PROVE  /\ Append(s, x) \in Seq(S) /\ Append(s, x) # <<>>
         /\ Len(Append(s, x)) = Len(s) + 1
         /\ \A i \in 1 .. Len(s) : Append(s, x)[i] = s[i]
         /\ Append(s, x)[Len(s) + 1] = x
         /\ \A y : y \in ToSet(Append(s, x)) <=> y \in ToSet(s) \/ y = x
<1> DEFINE t == Append(s, x)
<1>1. Len(s) \in Nat /\ ToSet(s) = {s[i] : i \in 1 .. Len(s)}
  BY InSeq
<1>2. /\ t \in Seq(S) /\ Len(t) = Len(s) + 1 /\ t[Len(s) + 1] = x
      /\ \A i \in 1 .. Len(s) : t[i] = s[i]
  BY AppendProperties
<1> HIDE DEF t
<1>3. ToSet(t) = {t[i] : i \in 1 .. Len(t)} /\ t # <<>>
  BY <1>1, <1>2, InSeq
<1>4. ASSUME NEW y \in ToSet(t) PROVE y \in ToSet(s) \/ y = x
  <2>1. PICK i \in 1 .. Len(t) : y = t[i]
    BY <1>3
  <2>2. i \in 1 .. Len(s) \/ i = Len(s) + 1
    BY <1>1, <1>2
  <2>3. QED
    BY <2>1, <2>2, <1>1, <1>2
<1>5. ASSUME NEW y \in ToSet(s) PROVE y \in ToSet(t)
  <2>1. PICK i \in 1 .. Len(s) : y = s[i]
    BY <1>1
  <2>2. i \in 1 .. Len(t) /\ t[i] = y
    BY <2>1, <1>1, <1>2
  <2>3. QED
    BY <2>2, <1>3
<1>6. x \in ToSet(t)
  <2>1. Len(s) + 1 \in 1 .. Len(t)
    BY <1>1, <1>2
  <2>2. QED
    BY <2>1, <1>2, <1>3
<1>7. QED
  BY <1>2, <1>3, <1>4, <1>5, <1>6 DEF t

LEMMA Joined ==
  ASSUME NEW S, NEW s \in Seq(S), NEW t \in Seq(S)
  PROVE  /\ s \o t \in Seq(S) /\ Len(s \o t) = Len(s) + Len(t)
         /\ \A i \in 1 .. Len(s) : (s \o t)[i] = s[i]
         /\ \A i \in 1 .. Len(t) : (s \o t)[Len(s) + i] = t[i]
         /\ \A y : y \in ToSet(s \o t) <=> y \in ToSet(s) \/ y \in ToSet(t)
<1> DEFINE u == s \o t
<1>1. /\ Len(s) \in Nat /\ ToSet(s) = {s[i] : i \in 1 .. Len(s)}
      /\ Len(t) \in Nat /\ ToSet(t) = {t[i] : i \in 1 .. Len(t)}
  BY InSeq
<1>2. /\ u \in Seq(S) /\ Len(u) = Len(s) + Len(t)
      /\ \A i \in 1 .. Len(u) : u[i] = IF i <= Len(s) THEN s[i] ELSE t[i - Len(s)]
  BY ConcatProperties
<1> HIDE DEF u
<1>3. ToSet(u) = {u[i] : i \in 1 .. Len(u)}
  BY <1>2, InSeq
<1>4. \A i \in 1 .. Len(s) : i \in 1 .. Len(u) /\ u[i] = s[i]
  BY <1>1, <1>2
<1>5. \A i \in 1 .. Len(t) : Len(s) + i \in 1 .. Len(u) /\ u[Len(s) + i] = t[i]
  <2>1. SUFFICES ASSUME NEW i \in 1 .. Len(t)
                 PROVE  Len(s) + i \in 1 .. Len(u) /\ u[Len(s) + i] = t[i]
    OBVIOUS
  <2>2. Len(s) + i \in 1 .. Len(u) /\ ~ (Len(s) + i <= Len(s)) /\ (Len(s) + i) - Len(s) = i
    BY <1>1, <1>2
  <2>3. QED
    BY <1>2, <2>2
<1>6. ASSUME NEW y \in ToSet(u) PROVE y \in ToSet(s) \/ y \in ToSet(t)
  <2>1. PICK i \in 1 .. Len(u) : y = u[i]
    BY <1>3
  <2>2. CASE i <= Len(s)
    BY <2>1, <2>2, <1>1, <1>2
  <2>3. CASE ~ (i <= Len(s))
    <3>1. i - Len(s) \in 1 .. Len(t)
      BY <2>3, <1>1, <1>2
    <3>2. QED
      BY <2>1, <2>3, <3>1, <1>1, <1>2
  <2>4. QED
    BY <2>2, <2>3
<1>7. ASSUME NEW y \in ToSet(s) PROVE y \in ToSet(u)
  <2>1. PICK i \in 1 .. Len(s) : y = s[i]
    BY <1>1
  <2>2. i \in 1 .. Len(u) /\ u[i] = y
    BY <2>1, <1>4
  <2>3. QED
    BY <2>2, <1>3
<1>8. ASSUME NEW y \in ToSet(t) PROVE y \in ToSet(u)
  <2>1. PICK i \in 1 .. Len(t) : y = t[i]
    BY <1>1
  <2>2. Len(s) + i \in 1 .. Len(u) /\ u[Len(s) + i] = y
    BY <2>1, <1>5
  <2>3. QED
    BY <2>2, <1>3
<1>9. QED
  BY <1>2, <1>4, <1>5, <1>6, <1>7, <1>8 DEF u

LEMMA OneOf ==
  ASSUME NEW S, NEW x \in S
  PROVE  /\ <<x>> \in Seq(S) /\ <<x>> # <<>> /\ Len(<<x>>) = 1 /\ <<x>>[1] = x
         /\ Head(<<x>>) = x /\ Tail(<<x>>) = <<>>
         /\ \A y : y \in ToSet(<<x>>) <=> y = x
<1>1. <<x>> \in Seq(S) /\ Len(<<x>>) = 1 /\ <<x>>[1] = x
  OBVIOUS
<1>2. ToSet(<<x>>) = {<<x>>[i] : i \in 1 .. 1}
  BY <1>1, InSeq
<1>3. QED
  BY <1>1, <1>2

LEMMA NoneOf == \A S : <<>> \in Seq(S) /\ ToSet(<<>>) = {}
<1>1. \A S : <<>> \in Seq(S)
  BY EmptySeq
<1>2. QED
  BY <1>1, InSeq

\* One put before the others.
LEMMA Pushed ==
  ASSUME NEW S, NEW x \in S, NEW s \in Seq(S)
  PROVE  /\ <<x>> \o s \in Seq(S) /\ <<x>> \o s # <<>>
         /\ Head(<<x>> \o s) = x /\ Tail(<<x>> \o s) = s
         /\ \A y : y \in ToSet(<<x>> \o s) <=> y = x \/ y \in ToSet(s)
<1> DEFINE u == <<x>> \o s
<1>1. <<x>> \in Seq(S) /\ Len(<<x>>) = 1 /\ <<x>>[1] = x /\ \A y : y \in ToSet(<<x>>) <=> y = x
  BY OneOf
<1>2. Len(s) \in Nat /\ s \in Seq(S)
  BY InSeq
<1> DEFINE w == <<x>>
<1> HIDE DEF w
<1>3. /\ w \o s \in Seq(S) /\ Len(w \o s) = Len(w) + Len(s)
      /\ \A i \in 1 .. Len(w) : (w \o s)[i] = w[i]
      /\ \A i \in 1 .. Len(s) : (w \o s)[Len(w) + i] = s[i]
      /\ \A y : y \in ToSet(w \o s) <=> y \in ToSet(w) \/ y \in ToSet(s)
  BY <1>1, Joined DEF w
<1> DEFINE v == w \o s
<1>4. /\ v \in Seq(S) /\ Len(v) = 1 + Len(s) /\ v[1] = x
      /\ \A i \in 1 .. Len(s) : v[1 + i] = s[i]
      /\ \A y : y \in ToSet(v) <=> y = x \/ y \in ToSet(s)
  BY <1>1, <1>2, <1>3 DEF w
<1>5. v = u
  BY DEF w
<1> HIDE DEF v, u
<1>6. v # <<>>
  BY <1>2, <1>4, InSeq
<1>7. Head(v) = x /\ Tail(v) \in Seq(S) /\ Len(Tail(v)) = Len(s)
      /\ \A i \in 1 .. Len(s) : Tail(v)[i] = s[i]
  BY <1>2, <1>4, <1>6, Ends
<1>8. Tail(v) = s
  BY <1>2, <1>7, SeqEqual
<1>9. QED
  BY <1>4, <1>5, <1>6, <1>7, <1>8 DEF u

-----------------------------------------------------------------------------
(***************************************************************************)
(* The lines of the record.                                                *)
(***************************************************************************)

\* What is left of them holds nothing of the one forgotten. (forget)
LEMMA OthersLeft ==
  ASSUME NEW lines \in Seq(Who)
  PROVE  /\ Others(lines) \in Seq(Who) /\ "them" \notin ToSet(Others(lines))
         /\ lines = <<>> => Others(lines) = <<>>
<1> DEFINE K == {j \in DOMAIN lines : lines[j] # "them"}
           left == Others(lines)
<1>1. Len(lines) \in Nat /\ DOMAIN lines = 1 .. Len(lines) /\ (lines = <<>> <=> Len(lines) = 0)
  BY InSeq
<1>2. IsFiniteSet(K)
  <2>1. IsFiniteSet(1 .. Len(lines)) /\ K \subseteq 1 .. Len(lines)
    BY <1>1, FS_Interval
  <2>2. QED
    BY <2>1, FS_Subset
<1>3. Cardinality(K) \in Nat
  BY <1>2, FS_CardinalityType
<1>4. left = [i \in 1 .. Cardinality(K) |-> "other"]
  BY DEF Others
<1>5. left \in Seq(Who)
  BY <1>3, <1>4, IsASeq DEF Who
<1>6. "them" \notin ToSet(left)
  <2>1. \A i \in DOMAIN left : left[i] = "other"
    BY <1>4
  <2>2. QED
    BY <2>1 DEF ToSet
<1>7. ASSUME lines = <<>> PROVE left = <<>>
  <2>1. K = {}
    BY <1>1, <1>7
  <2>2. Cardinality(K) = 0
    BY <2>1, FS_EmptySet
  <2>3. Len(left) = 0
    BY <2>2, <1>4, <1>3, LenProperties, <1>5
  <2>4. QED
    BY <2>3, <1>5, InSeq
<1>8. QED
  BY <1>5, <1>6, <1>7

\* A line is added at the end, and the oldest may go. (note, trim)
LEMMA Trimmed ==
  ASSUME NEW lines \in Seq(Who), NEW who \in Who
  PROVE  /\ Trim(Append(lines, who)) \in Seq(Who)
         /\ \A w \in ToSet(Trim(Append(lines, who))) : w \in ToSet(lines) \/ w = who
<1>1. /\ Append(lines, who) \in Seq(Who) /\ Append(lines, who) # <<>>
      /\ \A y : y \in ToSet(Append(lines, who)) <=> y \in ToSet(lines) \/ y = who
  BY Added
<1>2. /\ Tail(Append(lines, who)) \in Seq(Who)
      /\ ToSet(Tail(Append(lines, who))) \subseteq ToSet(Append(lines, who))
  BY <1>1, Ends
<1>3. QED
  BY <1>1, <1>2 DEF Trim

-----------------------------------------------------------------------------
(***************************************************************************)
(* The inductive invariant.                                                *)
(***************************************************************************)
Keys == {Found, Fresh}

\* A record that is turned off holds no line.
RecordContents == {v \in HistoryContents : ~ v.on => v.lines = <<>>}

Anything == SeedContents \cup BookContents \cup HistoryContents \cup {Absent, Torn}
FileType == [is : Anything, beside : Anything, flushed : BOOLEAN, after : SUBSET Anything]

MemType == [key : Keys \cup {Absent}, on : BOOLEAN, lines : Seq(Who),
            filed : BOOLEAN, objects : BOOLEAN, ours : BOOLEAN]

Frames == {Recording(TRUE), Recording(FALSE), DontRecord, Line}
ThemType == [objects : BOOLEAN, told : BOOLEAN, kept : Seq(Frames)]

\* What a handler may have to do: once at most, first, a save.
Saves == {Save("book"), Save("history")}
Calm == {Tell(TRUE), Tell(FALSE), Say(DontRecord), Say(Recording(FALSE)), Erase, Close}
Rewriting == [do : {"seed"}, file : {"seed"}, value : SeedContents]

\* The book and the record are whole in whatever a crash leaves, and what is
\* read is among that.
DiskInv ==
  /\ disk \in [Files -> FileType]
  /\ \A f \in Files : disk[f].is \in disk[f].after
  /\ disk["seed"].after \subseteq SeedContents \cup {Absent, Torn}
  /\ disk["book"].after \subseteq BookContents \cup {Absent}
  /\ disk["history"].after \subseteq RecordContents \cup {Absent}

MemInv ==
  /\ mem \in MemType /\ (~ mem.on => mem.lines = <<>>)
  /\ used \subseteq Keys /\ (mode = "up" => mem.key \in used)

\* Only the program running saves the book and the record, and only one
\* starting or rewriting it writes the seed.
TodoInv ==
  /\ mode \in {"down", "tool", "starting", "up"}
  /\ mode = "up" => /\ todo \in Seq(Saves \cup Calm)
                    /\ todo # <<>> => Tail(todo) \in Seq(Calm)
  /\ mode = "down" => todo = <<>>
  /\ mode = "tool" => todo = <<>> \/ \E s \in Rewriting : todo = <<s>>
  /\ mode = "starting" => todo = <<>> \/ \E s \in Rewriting \cup {CreateSeed} : todo = <<s>>
  /\ ~ Saving => at = 0
  /\ mode # "up" => \A f \in {"book", "history"} : disk[f].after = {disk[f].is}

\* How far a save has come.
Progress(item) ==
  LET f == disk[item.file]  v == Value(item)
  IN  IF item.do = "create"
        THEN /\ at \in 0 .. 3
             /\ at \in {2, 3} => f.is = v
        ELSE /\ at \in 0 .. 4
             /\ at \in {2, 3} => f.beside = v
             /\ at = 3 => f.flushed
             /\ at = 4 => f.is = v

SavingInv == Saving => Progress(Head(todo))

WritesSeed == Saving /\ Head(todo).file = "seed"

\* Of the seed: there is one to start from, or one is being made.
SeedInv ==
  /\ mode = "starting" => Seed \in SeedContents \/ (todo # <<>> /\ Head(todo) = CreateSeed)
  /\ WritesSeed /\ Head(todo).do = "seed" => Seed # Torn
  /\ WritesSeed /\ Head(todo).do = "create" /\ at = 1 => Seed = Torn

\* And if it was always made durable: a crash leaves the one it was, or the
\* one it becomes, of the same identity once the program has run under it.
SeedKept ==
  LET after == disk["seed"].after  item == Head(todo)
  IN  "seed" \notin behind =>
        /\ ~ WritesSeed => after = {Seed} \/ (Seed = Torn /\ mode = "down")
        /\ used # {} => \E k \in Keys : used = {k} /\ \A v \in after : v \in SeedContents /\ v.key = k
        /\ WritesSeed =>
             /\ used # {} => item.do = "seed" /\ item.value.key \in used
             /\ item.do = "seed" => Torn \notin after /\ (at < 4 => after = {Seed})
             /\ item.do = "create" => (at = 0 => after = {Seed}) /\ (at = 3 => Torn \notin after)

\* The book and the record are of an identity the program has run under.
SealedInv ==
  "seed" \notin behind =>
    \A f \in {"book", "history"} : \A v \in disk[f].after : v = Absent \/ v.key \in used

\* The record on disk is the one in memory, unless it is being saved, and the
\* operator was told what it is, unless they are about to be.
Matches(v) ==
  IF v = Absent THEN ~ mem.on /\ mem.lines = <<>> ELSE v.on = mem.on /\ v.lines = mem.lines

RecordInv ==
  mode = "up" =>
    /\ "history" \notin behind /\ ~ (todo # <<>> /\ Head(todo) = Save("history")) =>
         \A v \in disk["history"].after : Matches(v)
    /\ Tell(~ mem.on) \notin ToSet(todo)
    /\ Tell(mem.on) \notin ToSet(todo) => (said = "off" => ~ mem.on) /\ (said = "on" => mem.on)

\* The wires: nothing is on its way where there is no connection, and there is
\* none but where the program runs.
WireInv ==
  /\ link \in {"none", "idle", "call"} /\ them \in ThemType
  /\ in \in Seq(Frames) /\ out \in Seq(Frames) /\ aside \in Seq(Frames) /\ kept \in Seq(Frames)
  /\ link = "none" => in = <<>> /\ out = <<>>
  /\ mode # "up" => link = "none"

\* An objection is on its way, or it is known, and nothing of them is kept or
\* it is about to be erased.
Heeded == mem.objects /\ ("them" \notin ToSet(mem.lines) \/ Erase \in ToSet(todo))

\* Somebody is connected, unless their connection is about to be closed.
ClosedInv == link # "none" => mem.filed \/ "objection" \in behind \/ Close \in ToSet(todo)
ClosingInv == Close \in ToSet(todo) => ~ mem.filed

\* What is erased is of one who objects, or of one who is forgotten, and their
\* connection is closed after it.
ErasingInv ==
  \A i \in 1 .. Len(todo) : todo[i] = Erase =>
    IF mem.filed THEN mem.objects ELSE \E j \in 1 .. Len(todo) : j > i /\ todo[j] = Close

HeardInv ==
  link # "none" /\ them.objects /\ mem.filed /\ "them" \notin quiet /\ "objection" \notin behind =>
    DontRecord \in ToSet(in) \/ DontRecord \in ToSet(aside) \/ Heeded

ObjectionInv == ClosedInv /\ ClosingInv /\ ErasingInv /\ HeardInv

\* The last said of the record on its way to them, or if none is the last
\* they heard, is that it is kept.
Says(frames, told) ==
  \/ \E i \in 1 .. Len(frames) :
       frames[i] = Recording(TRUE) /\ \A j \in 1 .. Len(frames) : j > i => frames[j].t # "recording"
  \/ told /\ \A j \in 1 .. Len(frames) : frames[j].t # "recording"

ToldInv ==
  link # "none" /\ mem.on /\ mem.filed /\ ~ mem.objects /\ said = "on" /\ "us" \notin quiet
      /\ "objection" \notin behind
    => Says(out, them.told)

StoredInv == DiskInv /\ MemInv /\ TodoInv /\ SavingInv /\ SeedInv /\ SeedKept /\ SealedInv /\ RecordInv
IInv == StoredInv /\ WireInv /\ ObjectionInv /\ ToldInv

-----------------------------------------------------------------------------
(***************************************************************************)
(* What a handler has to do.                                               *)
(***************************************************************************)

LEMMA Items ==
  /\ \A x \in Calm : x.do \in {"tell", "say", "erase", "close"}
  /\ \A x \in Saves : x.do = "save" /\ x.file \in {"book", "history"} /\ x = Save(x.file)
  /\ \A x \in Rewriting : x.do = "seed" /\ x.file = "seed" /\ x.value \in SeedContents
  /\ CreateSeed.do = "create" /\ CreateSeed.file = "seed" /\ CreateSeed.value \in SeedContents
  /\ Save("book") # Save("history")
<1>1. \A x \in Calm : x.do \in {"tell", "say", "erase", "close"}
  <2>1. \A on \in BOOLEAN : Tell(on).do = "tell"
    BY DEF Tell
  <2>2. \A frame : Say(frame).do = "say"
    BY DEF Say
  <2>3. Erase.do = "erase" /\ Close.do = "close"
    BY DEF Erase, Close
  <2>4. QED
    BY <2>1, <2>2, <2>3 DEF Calm
<1>2. \A x \in Saves : x.do = "save" /\ x.file \in {"book", "history"} /\ x = Save(x.file)
  BY DEF Saves, Save
<1>3. \A x \in Rewriting : x.do = "seed" /\ x.file = "seed" /\ x.value \in SeedContents
  BY DEF Rewriting
<1>4. CreateSeed.do = "create" /\ CreateSeed.file = "seed" /\ CreateSeed.value \in SeedContents
  BY DEF CreateSeed, WriteSeed, SeedContents
<1>5. Save("book") # Save("history")
  BY DEF Save
<1>6. QED
  BY <1>1, <1>2, <1>3, <1>4, <1>5

\* Of two things a handler may have to do, either is one of these.
LEMMA CalmItems ==
  /\ Tell(TRUE) # Tell(FALSE) /\ Erase # Close
  /\ \A on \in BOOLEAN : Tell(on).do = "tell" /\ Tell(on).value.on = on /\ Tell(on).value = Recording(on)
  /\ Erase.do = "erase" /\ Close.do = "close"
  /\ \A frame : Say(frame).do = "say" /\ Say(frame).value = frame
  /\ \A x \in Calm : /\ x.do = "tell" => x = Tell(TRUE) \/ x = Tell(FALSE)
                     /\ x.do = "say" => x = Say(DontRecord) \/ x = Say(Recording(FALSE))
                     /\ x.do = "erase" => x = Erase
                     /\ x.do = "close" => x = Close
<1>1. Tell(TRUE) # Tell(FALSE) /\ Erase # Close
  BY DEF Tell, Recording, Erase, Close
<1>2. \A on \in BOOLEAN : Tell(on).do = "tell" /\ Tell(on).value.on = on /\ Tell(on).value = Recording(on)
  BY DEF Tell, Recording
<1>3. Erase.do = "erase" /\ Close.do = "close"
  BY DEF Erase, Close
<1>4. \A frame : Say(frame).do = "say" /\ Say(frame).value = frame
  BY DEF Say
<1>5. ASSUME NEW x \in Calm
      PROVE  /\ x.do = "tell" => x = Tell(TRUE) \/ x = Tell(FALSE)
             /\ x.do = "say" => x = Say(DontRecord) \/ x = Say(Recording(FALSE))
             /\ x.do = "erase" => x = Erase
             /\ x.do = "close" => x = Close
  BY <1>2, <1>3, <1>4 DEF Calm
<1>6. QED
  BY <1>1, <1>2, <1>3, <1>4, <1>5

\* Who saves what.
LEMMA SavingIs ==
  ASSUME TodoInv, Saving
  PROVE  /\ todo # <<>> /\ Head(todo).file \in Files
         /\ \/ /\ mode = "up" /\ Head(todo) \in Saves /\ Tail(todo) \in Seq(Calm)
               /\ todo \in Seq(Saves \cup Calm)
            \/ mode \in {"tool", "starting"} /\ Head(todo) \in Rewriting /\ Tail(todo) = <<>>
            \/ mode = "starting" /\ Head(todo) = CreateSeed /\ Tail(todo) = <<>>
<1>1. todo # <<>> /\ Head(todo).do \in {"save", "seed", "create"}
  BY DEF Saving
<1>2. CASE mode = "up"
  <2>1. todo \in Seq(Saves \cup Calm) /\ Tail(todo) \in Seq(Calm)
    BY <1>1, <1>2 DEF TodoInv
  <2>2. Head(todo) \in Saves \cup Calm
    BY <2>1, <1>1, Ends
  <2>3. Head(todo) \in Saves
    BY <2>2, <1>1, Items
  <2>4. QED
    BY <1>1, <1>2, <2>1, <2>3, Items DEF Files
<1>3. CASE mode # "up"
  <2>1. mode \in {"tool", "starting"}
    BY <1>1, <1>3 DEF TodoInv
  <2>2. PICK s \in Rewriting \cup {CreateSeed} : todo = <<s>> /\ (s = CreateSeed => mode = "starting")
    <3>1. CASE mode = "tool"
      <4>1. PICK s \in Rewriting : todo = <<s>>
        BY <1>1, <3>1 DEF TodoInv
      <4>2. s # CreateSeed
        BY Items
      <4>3. QED
        BY <4>1, <4>2
    <3>2. CASE mode = "starting"
      BY <1>1, <3>2 DEF TodoInv
    <3>3. QED
      BY <2>1, <3>1, <3>2
  <2>3. Head(todo) = s /\ Tail(todo) = <<>>
    BY <2>2, OneOf
  <2>4. QED
    BY <1>1, <2>1, <2>2, <2>3, Items DEF Files
<1>4. QED
  BY <1>2, <1>3

\* What is saved is what the file should hold. (seal, encrypt_seed_bytes)
LEMMA SavedIs ==
  ASSUME TodoInv, MemInv, Saving
  PROVE  LET item == Head(todo)  v == Value(item)
         IN  /\ item.file = "seed" => v \in SeedContents /\ v = item.value
             /\ item.file = "book" => v \in BookContents /\ v.key \in used
             /\ item.file = "history" => v \in RecordContents /\ v.key \in used /\ Matches(v)
             /\ v \notin {Absent, Torn} /\ v \in Anything
<1> DEFINE item == Head(todo)
           v == Value(item)
<1>1. KeepingAssumption /\ StoreAssumption
  BY KeepingAssumption, StoreAssumption DEF KeepingAssumption, StoreAssumption
<1>2. CASE item \in Saves /\ mode = "up"
  <2>1. item.do = "save" /\ item.file \in {"book", "history"} /\ v = Sealed(item.file)
    BY <1>2, Items DEF Value
  <2>2. mem.key \in used /\ mem.key \in Keys /\ mem \in MemType /\ (~ mem.on => mem.lines = <<>>)
    BY <1>2 DEF MemInv
  <2>3. CASE item.file = "book"
    <3>1. v = SealedBook
      BY <2>1, <2>3 DEF Sealed
    <3>2. v \in BookContents /\ v.key \in used
      BY <3>1, <2>2 DEF SealedBook, BookContents, MemType, Keys
    <3>3. QED
      BY <3>2, <2>3, <1>1 DEF Anything, KeepingAssumption
  <2>4. CASE item.file = "history"
    <3>1. v = [key |-> mem.key, on |-> mem.on, lines |-> mem.lines]
      BY <2>1, <2>4 DEF Sealed
    <3>2. v \in RecordContents /\ v.key \in used
      BY <3>1, <2>2 DEF RecordContents, HistoryContents, MemType, Keys
    <3>3. v \notin {Absent, Torn} /\ v \in Anything
      BY <3>2, <1>1 DEF RecordContents, Anything, KeepingAssumption
    <3>4. Matches(v)
      BY <3>1, <3>3 DEF Matches
    <3>5. QED
      BY <3>2, <3>3, <3>4, <2>4
  <2>5. QED
    BY <2>1, <2>3, <2>4
<1>3. CASE item \in Rewriting \cup {CreateSeed}
  <2>1. item.file = "seed" /\ v = item.value /\ v \in SeedContents
    BY <1>3, Items DEF Value
  <2>2. QED
    BY <2>1, <1>1 DEF Anything, KeepingAssumption
<1>4. QED
  BY <1>2, <1>3, SavingIs

-----------------------------------------------------------------------------
(***************************************************************************)
(* A step of a save.                                                       *)
(***************************************************************************)

\* What the steps of a save are, and which is the last.
LEMMA StepNames ==
  /\ Beside[1] = "open" /\ Beside[2] = "write" /\ Beside[3] = "flush" /\ Beside[4] = "rename"
  /\ Beside[5] = "sync"
  /\ InPlace[1] = "create" /\ InPlace[2] = "fill" /\ InPlace[3] = "settle" /\ InPlace[4] = "sync"
BY DEF Beside, InPlace

\* What each makes of the file. (write_sealed, write_seed_bytes, create)
MovedBeside(k, old, new, v) ==
  /\ k = 0 => new.is = old.is /\ new.after = old.after
  /\ k = 1 => new.is = old.is /\ new.after = old.after /\ new.beside = v
  /\ k = 2 => /\ new.is = old.is /\ new.after = old.after \ {Torn}
             /\ new.beside = old.beside /\ new.flushed
  /\ k = 3 => new.is = v /\ new.after = old.after \cup {v}
  /\ k = 4 => new.is = old.is /\ new.after = old.after \cap {old.is, Torn}

MovedInPlace(k, old, new, v) ==
  /\ k = 0 => new.is = Torn /\ new.after = old.after \cup {Torn}
  /\ k = 1 => new.is = v /\ new.after = old.after \cup {v}
  /\ k = 2 => new.is = old.is /\ new.after = old.after \ {Torn}
  /\ k = 3 => new.is = old.is /\ new.after = old.after \cap {old.is, Torn}

LEMMA WrittenIs ==
  ASSUME NEW old \in FileType, NEW v \in Anything, NEW k \in 0 .. 4
  PROVE  /\ LET new == Written(old, Beside[k + 1], v)
            IN  (k = 3 => old.beside = v /\ old.flushed) => new \in FileType /\ MovedBeside(k, old, new, v)
         /\ LET new == Written(old, InPlace[k + 1], v)
            IN  k < 4 => new \in FileType /\ MovedInPlace(k, old, new, v)
<1>1. Torn \in Anything /\ Absent \in Anything
  BY DEF Anything
<1>2. /\ old.is \in Anything /\ old.beside \in Anything /\ old.flushed \in BOOLEAN
      /\ old.after \subseteq Anything
      /\ old = [is |-> old.is, beside |-> old.beside, flushed |-> old.flushed, after |-> old.after]
  BY DEF FileType
<1>3. CASE k = 0
  <2>1. k + 1 = 1
    BY <1>3
  <2>2. Written(old, "open", v) =
          [is |-> old.is, beside |-> Torn, flushed |-> FALSE,
           after |-> old.after]
    BY <1>2 DEF Written
  <2>3. Written(old, "open", v) \in FileType
    <3>1. \A b \in BOOLEAN : [is |-> old.is, beside |-> Torn, flushed |-> b,
                             after |-> old.after] \in FileType
      BY <1>1, <1>2 DEF FileType
    <3>2. QED
      BY <3>1, <2>2
  <2>4. MovedBeside(k, old, Written(old, "open", v), v)
    BY <1>3, <2>2 DEF MovedBeside
  <2>5. Written(old, Beside[k + 1], v) = Written(old, "open", v)
    BY <2>1, StepNames
  <2>6. Written(old, "create", v) =
          [is |-> Torn, beside |-> old.beside, flushed |-> old.flushed,
           after |-> old.after \cup {Torn}]
    BY <1>2 DEF Written
  <2>7. Written(old, "create", v) \in FileType
    BY <1>1, <1>2, <2>6 DEF FileType
  <2>8. MovedInPlace(k, old, Written(old, "create", v), v)
    BY <1>3, <2>6 DEF MovedInPlace
  <2>9. Written(old, InPlace[k + 1], v) = Written(old, "create", v)
    BY <2>1, StepNames
  <2>10. QED
    BY <1>3, <2>3, <2>4, <2>5, <2>7, <2>8, <2>9
<1>4. CASE k = 1
  <2>1. k + 1 = 2
    BY <1>4
  <2>2. Written(old, "write", v) =
          [is |-> old.is, beside |-> v, flushed |-> old.flushed,
           after |-> old.after]
    BY <1>2 DEF Written
  <2>3. Written(old, "write", v) \in FileType
    BY <1>1, <1>2, <2>2 DEF FileType
  <2>4. MovedBeside(k, old, Written(old, "write", v), v)
    BY <1>4, <2>2 DEF MovedBeside
  <2>5. Written(old, Beside[k + 1], v) = Written(old, "write", v)
    BY <2>1, StepNames
  <2>6. Written(old, "fill", v) =
          [is |-> v, beside |-> old.beside, flushed |-> old.flushed,
           after |-> old.after \cup {v}]
    BY <1>2 DEF Written
  <2>7. Written(old, "fill", v) \in FileType
    BY <1>1, <1>2, <2>6 DEF FileType
  <2>8. MovedInPlace(k, old, Written(old, "fill", v), v)
    BY <1>4, <2>6 DEF MovedInPlace
  <2>9. Written(old, InPlace[k + 1], v) = Written(old, "fill", v)
    BY <2>1, StepNames
  <2>10. QED
    BY <1>4, <2>3, <2>4, <2>5, <2>7, <2>8, <2>9
<1>5. CASE k = 2
  <2>1. k + 1 = 3
    BY <1>5
  <2>2. Written(old, "flush", v) =
          [is |-> old.is, beside |-> old.beside, flushed |-> TRUE,
           after |-> old.after \ {Torn}]
    BY <1>2 DEF Written
  <2>3. Written(old, "flush", v) \in FileType
    <3>1. \A b \in BOOLEAN : [is |-> old.is, beside |-> old.beside, flushed |-> b,
                             after |-> old.after \ {Torn}] \in FileType
      BY <1>1, <1>2 DEF FileType
    <3>2. QED
      BY <3>1, <2>2
  <2>4. MovedBeside(k, old, Written(old, "flush", v), v)
    BY <1>5, <2>2 DEF MovedBeside
  <2>5. Written(old, Beside[k + 1], v) = Written(old, "flush", v)
    BY <2>1, StepNames
  <2>6. Written(old, "settle", v) =
          [is |-> old.is, beside |-> old.beside, flushed |-> old.flushed,
           after |-> old.after \ {Torn}]
    BY <1>2 DEF Written
  <2>7. Written(old, "settle", v) \in FileType
    BY <1>1, <1>2, <2>6 DEF FileType
  <2>8. MovedInPlace(k, old, Written(old, "settle", v), v)
    BY <1>5, <2>6 DEF MovedInPlace
  <2>9. Written(old, InPlace[k + 1], v) = Written(old, "settle", v)
    BY <2>1, StepNames
  <2>10. QED
    BY <1>5, <2>3, <2>4, <2>5, <2>7, <2>8, <2>9
<1>6. CASE k = 3
  <2>1. k + 1 = 4
    BY <1>6
  <2>2. Written(old, "rename", v) =
          [is |-> old.beside, beside |-> Absent, flushed |-> old.flushed,
           after |-> old.after \cup {old.beside} \cup (IF old.flushed THEN {} ELSE {Torn})]
    BY <1>2 DEF Written
  <2>3. (k = 3 => old.beside = v /\ old.flushed) => Written(old, "rename", v) \in FileType
    BY <1>1, <1>2, <2>2 DEF FileType
  <2>4. (k = 3 => old.beside = v /\ old.flushed) => MovedBeside(k, old, Written(old, "rename", v), v)
    BY <1>6, <2>2 DEF MovedBeside
  <2>5. Written(old, Beside[k + 1], v) = Written(old, "rename", v)
    BY <2>1, StepNames
  <2>6. Written(old, "sync", v) =
          [is |-> old.is, beside |-> old.beside, flushed |-> old.flushed,
           after |-> old.after \cap {old.is, Torn}]
    BY <1>2 DEF Written
  <2>7. Written(old, "sync", v) \in FileType
    BY <1>1, <1>2, <2>6 DEF FileType
  <2>8. MovedInPlace(k, old, Written(old, "sync", v), v)
    BY <1>6, <2>6 DEF MovedInPlace
  <2>9. Written(old, InPlace[k + 1], v) = Written(old, "sync", v)
    BY <2>1, StepNames
  <2>10. QED
    BY <1>6, <2>3, <2>4, <2>5, <2>7, <2>8, <2>9
<1>7. CASE k = 4
  <2>1. k + 1 = 5
    BY <1>7
  <2>2. Written(old, "sync", v) =
          [is |-> old.is, beside |-> old.beside, flushed |-> old.flushed,
           after |-> old.after \cap {old.is, Torn}]
    BY <1>2 DEF Written
  <2>3. Written(old, "sync", v) \in FileType
    BY <1>1, <1>2, <2>2 DEF FileType
  <2>4. MovedBeside(k, old, Written(old, "sync", v), v)
    BY <1>7, <2>2 DEF MovedBeside
  <2>5. Written(old, Beside[k + 1], v) = Written(old, "sync", v)
    BY <2>1, StepNames
  <2>6. QED
    BY <1>7, <2>3, <2>4, <2>5
<1>8. QED
  BY <1>3, <1>4, <1>5, <1>6, <1>7

LEMMA Moves ==
  ASSUME TodoInv, DiskInv, MemInv, SavingInv, SaveStep
  PROVE  LET item == Head(todo)  f == item.file  old == disk[f]  new == disk'[f]
             v == Value(item)  last == at = IF item.do = "create" THEN 3 ELSE 4
         IN  /\ f \in Files /\ disk' \in [Files -> FileType]
             /\ \A g \in Files : g # f => disk'[g] = disk[g]
             /\ IF item.do = "create" THEN at \in 0 .. 3 /\ MovedInPlace(at, old, new, v)
                                      ELSE at \in 0 .. 4 /\ MovedBeside(at, old, new, v)
             /\ IF last THEN at' = 0 /\ todo' = Tail(todo) ELSE at' = at + 1 /\ todo' = todo
             /\ behind' = IF last /\ f # "seed" THEN behind \ {f} ELSE behind
<1> DEFINE item == Head(todo)
           f == item.file
           old == disk[f]
           v == Value(item)
           step == Steps(item)[at + 1]
           last == at = IF item.do = "create" THEN 3 ELSE 4
<1>1. f \in Files /\ v \in Anything /\ Progress(item) /\ Saving
  BY SavingIs, SavedIs DEF SaveStep, SavingInv
<1>2. disk' = [disk EXCEPT ![f] = Written(@, step, v)] /\ disk \in [Files -> FileType]
  BY DEF SaveStep, DiskInv
<1>3. CASE item.do = "create"
  <2>1. at \in 0 .. 3 /\ step = InPlace[at + 1]
    BY <1>1, <1>3 DEF Progress, Steps
  <2>2. step = "sync" <=> at = 3
    BY <2>1, StepNames
  <2>3. Written(old, step, v) \in FileType /\ MovedInPlace(at, old, Written(old, step, v), v)
    <3>1. old \in FileType /\ at \in 0 .. 4 /\ at < 4
      BY <1>1, <1>2, <2>1
    <3>2. QED
      BY <1>1, <2>1, <3>1, WrittenIs
  <2>4. QED
    BY <1>1, <1>2, <1>3, <2>1, <2>2, <2>3 DEF SaveStep
<1>4. CASE item.do # "create"
  <2>1. at \in 0 .. 4 /\ step = Beside[at + 1] /\ (at = 3 => old.beside = v /\ old.flushed)
    BY <1>1, <1>4 DEF Progress, Steps
  <2>2. step = "sync" <=> at = 4
    BY <2>1, StepNames
  <2>3. Written(old, step, v) \in FileType /\ MovedBeside(at, old, Written(old, step, v), v)
    BY <1>1, <1>2, <2>1, WrittenIs
  <2>4. QED
    BY <1>1, <1>2, <1>4, <2>1, <2>2, <2>3 DEF SaveStep
<1>5. QED
  BY <1>3, <1>4

\* Nothing that comes after the save is one.
LEMMA CalmIsCalm ==
  ASSUME NEW s \in Seq(Calm)
  PROVE  /\ s # <<>> => Head(s) \in Calm /\ Head(s).do \notin {"save", "seed", "create"}
         /\ s # <<>> => Tail(s) \in Seq(Calm)
         /\ s \in Seq(Saves \cup Calm)
<1>1. s # <<>> => Head(s) \in Calm /\ Tail(s) \in Seq(Calm)
  BY Ends
<1>2. s \in Seq(Saves \cup Calm)
  BY SeqMonotonic, Calm \subseteq Saves \cup Calm
<1>3. QED
  BY <1>1, <1>2, Items

\* Where the step leaves the file.
LEMMA MovedFile ==
  ASSUME TodoInv, DiskInv, MemInv, SavingInv, SeedInv, SaveStep
  PROVE  LET item == Head(todo)  old == disk[item.file]  new == disk'[item.file]
             v == Value(item)
         IN  /\ new.is \in new.after
             /\ new.after \subseteq old.after \cup {v} \cup (IF item.do = "create" THEN {Torn} ELSE {})
<1> DEFINE item == Head(todo)
           old == disk[item.file]
           new == disk'[item.file]
           v == Value(item)
<1> SUFFICES /\ new.is \in new.after
             /\ new.after \subseteq old.after \cup {v} \cup (IF item.do = "create" THEN {Torn} ELSE {})
  OBVIOUS
<1>1. /\ item.file \in Files
      /\ IF item.do = "create" THEN at \in 0 .. 3 /\ MovedInPlace(at, old, new, v)
                               ELSE at \in 0 .. 4 /\ MovedBeside(at, old, new, v)
  BY Moves
<1>2. Saving /\ Progress(item) /\ v \notin {Absent, Torn} /\ old.is \in old.after
  BY <1>1, SavedIs DEF SaveStep, SavingInv, DiskInv
<1>3. item.do # "create" => old.is # Torn
  <2>1. \/ item \in Saves
        \/ item \in Rewriting
        \/ item = CreateSeed
    BY <1>2, SavingIs
  <2>2. CASE item \in Saves
    <3>1. item.file \in {"book", "history"}
      BY <2>2, Items
    <3>2. Torn \notin old.after
      BY <3>1, KeepingAssumption, StoreAssumption DEF DiskInv, RecordContents
    <3>3. QED
      BY <3>2, <1>2
  <2>3. CASE item \in Rewriting
    <3>1. WritesSeed /\ item.do = "seed" /\ item.file = "seed"
      BY <2>3, <1>2, Items DEF WritesSeed
    <3>2. QED
      BY <3>1 DEF SeedInv, Seed
  <2>4. QED
    BY <2>1, <2>2, <2>3, Items
<1>4. CASE item.do = "create"
  <2>1. at \in {2, 3} => old.is = v
    BY <1>2, <1>4 DEF Progress
  <2>2. at \in 0 .. 3 /\ MovedInPlace(at, old, new, v)
    BY <1>1, <1>4
  <2> HIDE DEF item, old, new, v
  <2>3. CASE at = 0
    BY <2>2, <2>3, <1>4 DEF MovedInPlace
  <2>4. CASE at = 1
    BY <2>2, <2>4, <1>4 DEF MovedInPlace
  <2>5. CASE at = 2
    BY <2>1, <2>2, <2>5, <1>2, <1>4 DEF MovedInPlace
  <2>6. CASE at = 3
    BY <2>2, <2>6, <1>2, <1>4 DEF MovedInPlace
  <2>7. QED
    BY <2>2, <2>3, <2>4, <2>5, <2>6
<1>5. CASE item.do # "create"
  <2>2. at \in 0 .. 4 /\ MovedBeside(at, old, new, v)
    BY <1>1, <1>5
  <2> HIDE DEF item, old, new, v
  <2>3. CASE at = 0
    BY <2>2, <2>3, <1>2, <1>5 DEF MovedBeside
  <2>4. CASE at = 1
    BY <2>2, <2>4, <1>2, <1>5 DEF MovedBeside
  <2>5. CASE at = 2
    BY <2>2, <2>5, <1>2, <1>3, <1>5 DEF MovedBeside
  <2>6. CASE at = 3
    BY <2>2, <2>6, <1>5 DEF MovedBeside
  <2>7. CASE at = 4
    BY <2>2, <2>7, <1>2, <1>5 DEF MovedBeside
  <2>8. QED
    BY <2>2, <2>3, <2>4, <2>5, <2>6, <2>7
<1>6. QED
  BY <1>4, <1>5

LEMMA SaveStepKeepsDisk ==
  ASSUME TodoInv, DiskInv, MemInv, SavingInv, SeedInv, SaveStep
  PROVE  DiskInv' /\ MemInv' /\ TodoInv' /\ SavingInv'
<1> DEFINE item == Head(todo)
           f == item.file
           old == disk[f]
           new == disk'[f]
           v == Value(item)
           last == at = IF item.do = "create" THEN 3 ELSE 4
<1>1. /\ f \in Files /\ disk' \in [Files -> FileType]
      /\ \A g \in Files : g # f => disk'[g] = disk[g]
      /\ IF item.do = "create" THEN at \in 0 .. 3 /\ MovedInPlace(at, old, new, v)
                               ELSE at \in 0 .. 4 /\ MovedBeside(at, old, new, v)
      /\ IF last THEN at' = 0 /\ todo' = Tail(todo) ELSE at' = at + 1 /\ todo' = todo
  BY Moves
<1>2. UNCHANGED <<mode, mem, used>> /\ Saving /\ Progress(item)
  BY DEF SaveStep, SavingInv
<1>3. /\ new.is \in new.after
      /\ new.after \subseteq old.after \cup {v} \cup (IF item.do = "create" THEN {Torn} ELSE {})
  BY MovedFile
<1>4. /\ f = "seed" => v \in SeedContents
      /\ f = "book" => v \in BookContents
      /\ f = "history" => v \in RecordContents
  BY <1>2, SavedIs
<1>5. /\ todo # <<>>
      /\ \/ /\ mode = "up" /\ item \in Saves /\ Tail(todo) \in Seq(Calm)
            /\ todo \in Seq(Saves \cup Calm)
         \/ mode \in {"tool", "starting"} /\ item \in Rewriting /\ Tail(todo) = <<>>
         \/ mode = "starting" /\ item = CreateSeed /\ Tail(todo) = <<>>
  BY <1>2, SavingIs
<1>6. item.do = "create" => f = "seed"
  BY <1>5, Items
<1>7. mode # "up" => f = "seed"
  BY <1>5, Items
<1>8. Tail(todo) \in Seq(Calm)
  BY <1>5, NoneOf
<1>9. ~ last => Saving'
  BY <1>1, <1>2 DEF Saving
<1>10. last => ~ Saving'
  BY <1>1, <1>8, CalmIsCalm DEF Saving
<1>11. ~ last => Value(item)' = v
  BY <1>1, <1>2 DEF Value, Sealed, SealedBook
<1>12. DiskInv'
  <2>1. \A g \in Files : disk'[g].is \in disk'[g].after
    BY <1>1, <1>3 DEF DiskInv
  <2>2. disk'["seed"].after \subseteq SeedContents \cup {Absent, Torn}
    BY <1>1, <1>3, <1>4 DEF DiskInv, Files
  <2>3. disk'["book"].after \subseteq BookContents \cup {Absent}
    BY <1>1, <1>3, <1>4, <1>6 DEF DiskInv, Files
  <2>4. disk'["history"].after \subseteq RecordContents \cup {Absent}
    BY <1>1, <1>3, <1>4, <1>6 DEF DiskInv, Files
  <2>5. QED
    BY <1>1, <2>1, <2>2, <2>3, <2>4 DEF DiskInv
<1>13. MemInv'
  BY <1>2 DEF MemInv
<1>14. TodoInv'
  <2>1. mode' = "up" => todo' \in Seq(Saves \cup Calm) /\ (todo' # <<>> => Tail(todo') \in Seq(Calm))
    BY <1>1, <1>2, <1>5, <1>8, CalmIsCalm
  <2>2. ~ Saving' => at' = 0
    BY <1>1, <1>9
  <2>3. mode' # "up" => \A g \in {"book", "history"} : disk'[g].after = {disk'[g].is}
    BY <1>1, <1>2, <1>7 DEF TodoInv, Files
  <2>4. mode' \in {"down", "tool", "starting", "up"} /\ mode' # "down"
    BY <1>2, <1>5 DEF TodoInv
  <2>5. mode' # "up" => todo' = todo \/ todo' = <<>>
    BY <1>1, <1>2, <1>5
  <2>6. QED
    BY <2>1, <2>2, <2>3, <2>4, <2>5, <1>2 DEF TodoInv
<1>15. SavingInv'
  <2>1. SUFFICES ASSUME ~ last PROVE Progress(item)'
    BY <1>1, <1>10 DEF SavingInv
  <2>2. at' = at + 1 /\ at \in Nat
    BY <1>1, <2>1
  <2>3. CASE item.do = "create"
    <3>1. at \in 0 .. 2 /\ MovedInPlace(at, old, new, v) /\ (at \in {2, 3} => old.is = v)
      BY <1>1, <1>2, <2>1, <2>3 DEF Progress
    <3> HIDE DEF old, new, v
    <3>2. at' \in 0 .. 3 /\ (at' \in {2, 3} => new.is = v)
      <4>1. CASE at = 0
        BY <2>2, <4>1
      <4>2. CASE at = 1
        BY <2>2, <3>1, <4>2 DEF MovedInPlace
      <4>3. CASE at = 2
        BY <2>2, <3>1, <4>3 DEF MovedInPlace
      <4>4. QED
        BY <3>1, <4>1, <4>2, <4>3
    <3>3. QED
      BY <3>2, <1>11, <2>1, <2>3, <1>1 DEF Progress, old, new, v
  <2>4. CASE item.do # "create"
    <3>1. /\ at \in 0 .. 3 /\ MovedBeside(at, old, new, v)
          /\ at \in {2, 3} => old.beside = v
      BY <1>1, <1>2, <2>1, <2>4 DEF Progress
    <3> HIDE DEF old, new, v
    <3>2. /\ at' \in 0 .. 4 /\ (at' \in {2, 3} => new.beside = v)
          /\ (at' = 3 => new.flushed) /\ (at' = 4 => new.is = v)
      <4>1. CASE at = 0
        BY <2>2, <4>1
      <4>2. CASE at = 1
        BY <2>2, <3>1, <4>2 DEF MovedBeside
      <4>3. CASE at = 2
        BY <2>2, <3>1, <4>3 DEF MovedBeside
      <4>4. CASE at = 3
        BY <2>2, <3>1, <4>4 DEF MovedBeside
      <4>5. QED
        BY <3>1, <4>1, <4>2, <4>3, <4>4
    <3>3. QED
      BY <3>2, <1>11, <2>1, <2>4, <1>1 DEF Progress, old, new, v
  <2>5. QED
    BY <2>3, <2>4
<1>16. QED
  BY <1>12, <1>13, <1>14, <1>15

LEMMA SaveStepKeepsSeed ==
  ASSUME TodoInv, DiskInv, MemInv, SavingInv, SeedInv, SeedKept, SaveStep
  PROVE  SeedInv' /\ SeedKept'
<1> DEFINE item == Head(todo)
           f == item.file
           old == disk[f]
           new == disk'[f]
           v == Value(item)
           last == at = IF item.do = "create" THEN 3 ELSE 4
<1>1. /\ f \in Files
      /\ \A g \in Files : g # f => disk'[g] = disk[g]
      /\ IF item.do = "create" THEN at \in 0 .. 3 /\ MovedInPlace(at, old, new, v)
                               ELSE at \in 0 .. 4 /\ MovedBeside(at, old, new, v)
      /\ IF last THEN at' = 0 /\ todo' = Tail(todo) ELSE at' = at + 1 /\ todo' = todo
      /\ behind' = IF last /\ f # "seed" THEN behind \ {f} ELSE behind
  BY Moves
<1>2. UNCHANGED <<mode, mem, used>> /\ Saving /\ Progress(item) /\ old.is \in old.after
  BY <1>1 DEF SaveStep, SavingInv, DiskInv
<1>3. /\ f = "seed" => v \in SeedContents /\ v = item.value
      /\ v \notin {Absent, Torn}
  BY <1>2, SavedIs
<1>4. /\ todo # <<>> /\ Tail(todo) \in Seq(Calm)
      /\ \/ mode = "up" /\ item \in Saves
         \/ mode \in {"tool", "starting"} /\ item \in Rewriting
         \/ mode = "starting" /\ item = CreateSeed
  BY <1>2, SavingIs, NoneOf
<1>5. /\ f # "seed" => mode = "up"
      /\ f = "seed" => item.do \in {"seed", "create"} /\ mode # "down" /\ mode # "up"
      /\ item.do = "create" => f = "seed" /\ item = CreateSeed
      /\ item.do = "seed" => f = "seed"
      /\ item # CreateSeed => item.do # "create"
  BY <1>4, Items
<1>6. ~ last => Saving' /\ todo' = todo /\ at' = at + 1
  BY <1>1, <1>2 DEF Saving
<1>7. last => ~ Saving' /\ at' = 0
  BY <1>1, <1>4, CalmIsCalm DEF Saving
<1>8. /\ WritesSeed' => ~ last /\ f = "seed"
      /\ f = "seed" => WritesSeed
      /\ f # "seed" => ~ WritesSeed /\ ~ WritesSeed'
      /\ f = "seed" /\ ~ last => WritesSeed'
  BY <1>2, <1>6, <1>7 DEF WritesSeed
<1>9. CASE f # "seed"
  <2>1. mode' = "up" /\ disk'["seed"] = disk["seed"] /\ Seed' = Seed
    BY <1>1, <1>2, <1>5, <1>9 DEF Files, Seed
  <2>2. "seed" \notin behind' => "seed" \notin behind
    BY <1>1, <1>9
  <2>3. SeedInv'
    BY <1>8, <1>9, <2>1 DEF SeedInv
  <2>4. SeedKept'
    BY <1>2, <1>8, <1>9, <2>1, <2>2 DEF SeedKept
  <2>5. QED
    BY <2>3, <2>4
<1>10. CASE f = "seed" /\ item.do = "seed"
  <2>1. /\ at \in 0 .. 4 /\ MovedBeside(at, old, new, v)
        /\ at \in {2, 3} => old.beside = v
        /\ at = 4 => old.is = v
    BY <1>1, <1>2, <1>10 DEF Progress
  <2>2. old.is = Seed /\ new.is = Seed' /\ old.after = disk["seed"].after /\ new.after = disk'["seed"].after
    BY <1>10 DEF Seed
  <2>3. Seed # Torn /\ (mode = "starting" => Seed \in SeedContents)
    BY <1>5, <1>8, <1>10, Items DEF SeedInv
  <2>4. Seed' \in {Seed, v} /\ (at' \in 1 .. 4 \/ last)
    <3> HIDE DEF old, new, v
    <3>1. at \in {0, 1, 2, 3, 4}
      BY <2>1
    <3>2. new.is \in {old.is, v}
      BY <2>1, <3>1 DEF MovedBeside
    <3>3. QED
      BY <3>1, <3>2, <2>2, <1>6, <1>10
  <2>5. SeedInv'
    <3>1. Seed' # Torn /\ (mode' = "starting" => Seed' \in SeedContents)
      BY <1>2, <1>3, <1>10, <2>3, <2>4
    <3>2. WritesSeed' => Head(todo').do # "create"
      BY <1>6, <1>8, <1>10
    <3>3. QED
      BY <3>1, <3>2 DEF SeedInv
  <2>6. ASSUME "seed" \notin behind'
        PROVE  /\ Torn \notin new.after
               /\ used # {} => \E k \in Keys :
                                  used = {k} /\ \A w \in new.after : w \in SeedContents /\ w.key = k
               /\ last => new.after = {new.is}
               /\ ~ last /\ at' < 4 => new.after = {new.is}
    <3>1. /\ Torn \notin old.after /\ (at < 4 => old.after = {old.is})
          /\ used # {} => v.key \in used
          /\ used # {} => \E k \in Keys :
                             used = {k} /\ \A w \in old.after : w \in SeedContents /\ w.key = k
          /\ old.is \in old.after
      BY <1>1, <1>2, <1>3, <1>8, <1>10, <2>2, <2>6 DEF SeedKept
    <3>2. v \in SeedContents /\ v # Torn /\ (last <=> at = 4)
      BY <1>3, <1>10
    <3>3. ~ last => at' = at + 1
      BY <1>6
    <3> HIDE DEF old, new, v, last, f, item
    <3>4. new.after \subseteq old.after \cup {v}
      BY <2>1 DEF MovedBeside
    <3>5. Torn \notin new.after
      BY <3>1, <3>2, <3>4
    <3>6. last => new.after = {new.is}
      BY <2>1, <3>1, <3>2 DEF MovedBeside
    <3>7. ~ last /\ at' < 4 => new.after = {new.is}
      <4>1. SUFFICES ASSUME ~ last, at' < 4 PROVE new.after = {new.is}
        OBVIOUS
      <4>2. at \in {0, 1, 2} /\ old.after = {old.is} /\ Torn \notin old.after
        BY <2>1, <3>1, <3>3, <4>1
      <4>3. QED
        BY <2>1, <4>2 DEF MovedBeside
    <3>8. ASSUME used # {}
          PROVE  \E k \in Keys : used = {k} /\ \A w \in new.after : w \in SeedContents /\ w.key = k
      <4>1. PICK k \in Keys : used = {k} /\ \A w \in old.after : w \in SeedContents /\ w.key = k
        BY <3>1, <3>8
      <4>2. v.key = k
        BY <3>1, <3>8, <4>1
      <4>3. QED
        BY <4>1, <4>2, <3>2, <3>4
    <3>9. QED
      BY <3>5, <3>6, <3>7, <3>8
  <2>7. SeedKept'
    <3>1. SUFFICES ASSUME "seed" \notin behind'
          PROVE  /\ ~ WritesSeed' => new.after = {Seed'}
                 /\ used' # {} => \E k \in Keys :
                                     used' = {k} /\ \A w \in new.after : w \in SeedContents /\ w.key = k
                 /\ WritesSeed' =>
                      /\ Head(todo') = item
                      /\ used' # {} => item.value.key \in used'
                      /\ Torn \notin new.after /\ (at' < 4 => new.after = {Seed'})
      BY <1>10, <2>2 DEF SeedKept
    <3>2. "seed" \notin behind
      BY <3>1, <1>1, <1>10
    <3>3. used # {} => item.value.key \in used
      BY <3>2, <1>8, <1>10 DEF SeedKept
    <3>4. used' = used
      BY <1>2
    <3>5. ~ WritesSeed' => last
      BY <1>8, <1>10
    <3>6. WritesSeed' => ~ last /\ Head(todo') = item
      BY <1>6, <1>8
    <3> HIDE DEF new, last, item
    <3>7. QED
      BY <3>1, <3>3, <3>4, <3>5, <3>6, <2>2, <2>6
  <2>8. QED
    BY <2>5, <2>7
<1>11. CASE f = "seed" /\ item.do = "create"
  <2>1. /\ at \in 0 .. 3 /\ MovedInPlace(at, old, new, v)
        /\ at \in {2, 3} => old.is = v
        /\ mode = "starting" /\ item = CreateSeed
    BY <1>1, <1>2, <1>4, <1>5, <1>11, Items DEF Progress
  <2>2. old.is = Seed /\ new.is = Seed' /\ old.after = disk["seed"].after /\ new.after = disk'["seed"].after
    BY <1>11 DEF Seed
  <2>3. /\ last => new.is = v
        /\ at = 0 => new.is = Torn
        /\ ~ last => at' = at + 1 /\ todo' = todo
        /\ last <=> at = 3
    <3>1. (last <=> at = 3) /\ (~ last => at' = at + 1 /\ todo' = todo)
      BY <1>6, <1>11
    <3> HIDE DEF old, new, v, last, item
    <3>2. QED
      BY <2>1, <3>1 DEF MovedInPlace
  <2>4. SeedInv'
    <3>1. mode' = "starting" => Seed' \in SeedContents \/ (todo' # <<>> /\ Head(todo') = CreateSeed)
      BY <1>3, <1>4, <1>11, <2>1, <2>2, <2>3
    <3>2. WritesSeed' => ~ last /\ Head(todo') = item /\ Head(todo').do # "seed"
      BY <1>8, <1>11, <2>3
    <3>3. ~ last /\ at' = 1 => Seed' = Torn
      BY <2>1, <2>2, <2>3
    <3>4. QED
      BY <3>1, <3>2, <3>3 DEF SeedInv
  <2>5. ASSUME "seed" \notin behind'
        PROVE  /\ used = {} /\ (last => new.after = {new.is}) /\ (at = 2 => Torn \notin new.after)
    <3>1. "seed" \notin behind
      BY <2>5, <1>1, <1>11
    <3>2. used = {} /\ (at = 3 => Torn \notin old.after)
      BY <3>1, <1>8, <1>11 DEF SeedKept
    <3> HIDE DEF old, new, v, last, item
    <3>3. QED
      BY <3>2, <2>1, <2>3, <1>2 DEF MovedInPlace
  <2>6. SeedKept'
    <3>1. SUFFICES ASSUME "seed" \notin behind'
          PROVE  /\ ~ WritesSeed' => new.after = {Seed'}
                 /\ used' = {}
                 /\ WritesSeed' =>
                      /\ Head(todo') = item
                      /\ at' # 0
                      /\ at' = 3 => Torn \notin new.after
      BY <1>11, <2>2 DEF SeedKept
    <3>2. ~ WritesSeed' => last
      BY <1>8, <1>11
    <3>3. WritesSeed' => ~ last /\ Head(todo') = item
      BY <1>6, <1>8
    <3>4. used' = used
      BY <1>2
    <3>5. ~ last => at' # 0 /\ (at' = 3 => at = 2)
      BY <2>1, <2>3
    <3> HIDE DEF new, last, item
    <3>6. QED
      BY <3>1, <3>2, <3>3, <3>4, <3>5, <2>2, <2>5
  <2>7. QED
    BY <2>4, <2>6
<1>12. QED
  BY <1>5, <1>9, <1>10, <1>11

LEMMA SaveStepKeepsRecord ==
  ASSUME TodoInv, DiskInv, MemInv, SavingInv, SeedInv, SealedInv, RecordInv, SaveStep
  PROVE  SealedInv' /\ RecordInv'
<1> DEFINE item == Head(todo)
           f == item.file
           old == disk[f]
           new == disk'[f]
           v == Value(item)
           last == at = IF item.do = "create" THEN 3 ELSE 4
<1>1. /\ f \in Files
      /\ \A g \in Files : g # f => disk'[g] = disk[g]
      /\ IF item.do = "create" THEN at \in 0 .. 3 /\ MovedInPlace(at, old, new, v)
                               ELSE at \in 0 .. 4 /\ MovedBeside(at, old, new, v)
      /\ IF last THEN at' = 0 /\ todo' = Tail(todo) ELSE at' = at + 1 /\ todo' = todo
      /\ behind' = IF last /\ f # "seed" THEN behind \ {f} ELSE behind
  BY Moves
<1>2. UNCHANGED <<mode, mem, used, said>> /\ Saving /\ Progress(item)
  BY DEF SaveStep, SavingInv
<1>3. /\ f \in {"book", "history"} => v.key \in used
      /\ f = "history" => Matches(v)
  BY <1>2, SavedIs
<1>4. /\ todo # <<>>
      /\ \/ mode = "up" /\ item \in Saves /\ todo \in Seq(Saves \cup Calm)
         \/ mode # "up" /\ item \in Rewriting \cup {CreateSeed}
  BY <1>2, SavingIs
<1>5. /\ item \in Saves => item.do = "save" /\ f \in {"book", "history"} /\ item = Save(f)
      /\ mode # "up" => f = "seed"
      /\ Save("book") # Save("history")
  BY <1>4, Items
<1>6. new.after \subseteq old.after \cup {v} \cup (IF item.do = "create" THEN {Torn} ELSE {})
  BY MovedFile
<1>7. SealedInv'
  <2>1. SUFFICES ASSUME "seed" \notin behind', NEW g \in {"book", "history"}, NEW w \in disk'[g].after
                 PROVE  w = Absent \/ w.key \in used
    BY <1>2 DEF SealedInv
  <2>2. "seed" \notin behind
    BY <2>1, <1>1
  <2>3. CASE g = f
    BY <2>1, <2>2, <2>3, <1>3, <1>4, <1>5, <1>6, Items DEF SealedInv
  <2>4. CASE g # f
    BY <2>1, <2>2, <2>4, <1>1 DEF SealedInv, Files
  <2>5. QED
    BY <2>3, <2>4
<1>8. RecordInv'
  <2>1. SUFFICES ASSUME mode = "up" PROVE RecordInv'
    BY <1>2 DEF RecordInv
  <2>2. item \in Saves /\ todo \in Seq(Saves \cup Calm) /\ item.do = "save"
    BY <2>1, <1>4, <1>5
  <2>3. ASSUME "history" \notin behind', ~ (todo' # <<>> /\ Head(todo') = Save("history")),
               NEW w \in disk'["history"].after
        PROVE  Matches(w)
    <3>1. CASE f = "book"
      <4>1. "history" \notin behind /\ Head(todo) # Save("history")
        BY <3>1, <2>2, <2>3, <1>1, <1>5
      <4>2. w \in disk["history"].after
        BY <3>1, <2>3, <1>1 DEF Files
      <4>3. QED
        BY <4>1, <4>2, <2>1 DEF RecordInv
    <3>2. CASE f = "history"
      <4>1. last /\ at = 4
        BY <3>2, <2>2, <2>3, <1>1, <1>4, <1>5
      <4>2. new.after = old.after \cap {old.is, Torn} /\ old.is = v
        BY <4>1, <2>2, <1>1, <1>2 DEF MovedBeside, Progress
      <4>3. Torn \notin old.after
        BY <3>2, KeepingAssumption, StoreAssumption DEF DiskInv, RecordContents
      <4>4. w = v
        BY <4>2, <4>3, <3>2, <2>3
      <4>5. QED
        BY <4>4, <3>2, <1>3
    <3>3. QED
      BY <3>1, <3>2, <2>2, <1>5
  <2>4. \A w : Matches(w) <=> Matches(w)'
    BY <1>2 DEF Matches
  <2>5. ToSet(todo') \subseteq ToSet(todo) /\ \A x \in ToSet(todo) : x = item \/ x \in ToSet(todo')
    BY <2>2, <1>1, <1>4, Ends
  <2>6. Tell(mem.on) # item
    BY <2>1, <2>2, CalmItems DEF MemInv, MemType
  <2>7. /\ Tell(~ mem.on) \notin ToSet(todo')
        /\ Tell(mem.on) \notin ToSet(todo') => Tell(mem.on) \notin ToSet(todo)
    BY <2>1, <2>5, <2>6 DEF RecordInv
  <2>8. QED
    BY <2>1, <2>3, <2>4, <2>7, <1>2 DEF RecordInv, Matches
<1>9. QED
  BY <1>7, <1>8

\* A save that fails leaves the handler where it was, and the file as it is.
LEMMA SaveFailsKeeps ==
  ASSUME StoredInv, SaveFails
  PROVE  StoredInv'
<1> USE DEF StoredInv
<1> DEFINE item == Head(todo)
           f == item.file
           v == Value(item)
           step == Steps(item)[at + 1]
           last == step = "sync"
<1>1. /\ Saving /\ Progress(item) /\ at' = 0
      /\ UNCHANGED <<disk, mem, used>>
      /\ todo' = IF last THEN Tail(todo) ELSE <<>>
      /\ behind \subseteq behind'
      /\ f # "seed" \/ step \in {"settle", "sync"} => f \in behind'
      /\ mode' = IF item.do = "create" /\ ~ last THEN "down" ELSE mode
      /\ said' = IF ~ last /\ \E i \in DOMAIN todo : todo[i].do = "tell" THEN "failed" ELSE said
  BY DEF SaveFails, SavingInv
<1>2. /\ item.do = "create" => at \in 0 .. 3 /\ step = InPlace[at + 1]
      /\ item.do # "create" => at \in 0 .. 4 /\ step = Beside[at + 1]
  BY <1>1 DEF Progress, Steps
<1>3. /\ item.do = "create" => at \in 0 .. 3 /\ (last <=> at = 3) /\ (at = 2 => step = "settle")
      /\ item.do # "create" => at \in 0 .. 4 /\ (last <=> at = 4)
  BY <1>2, StepNames
<1>4. /\ todo # <<>> /\ Tail(todo) \in Seq(Calm)
      /\ \/ mode = "up" /\ item \in Saves /\ todo \in Seq(Saves \cup Calm)
         \/ mode \in {"tool", "starting"} /\ item \in Rewriting /\ Tail(todo) = <<>>
         \/ mode = "starting" /\ item = CreateSeed /\ Tail(todo) = <<>>
  BY <1>1, SavingIs, NoneOf
<1>5. /\ mode = "up" => item.do = "save" /\ f \in {"book", "history"} /\ item = Save(f)
      /\ mode # "up" => f = "seed" /\ mode # "down" /\ item.do \in {"seed", "create"}
      /\ item.do = "create" => item = CreateSeed /\ mode = "starting"
      /\ item = CreateSeed => item.do = "create"
      /\ Save("book") # Save("history")
  BY <1>4, Items
<1>6. todo' \in Seq(Calm) /\ ~ Saving'
  <2>1. todo' \in Seq(Calm)
    BY <1>1, <1>4, NoneOf
  <2>2. QED
    BY <2>1, CalmIsCalm DEF Saving
<1>7. DiskInv' /\ MemInv'
  BY <1>1, <1>5 DEF DiskInv, MemInv
<1>8. TodoInv'
  <2>1. mode' \in {"down", "tool", "starting", "up"} /\ (mode' = "up" <=> mode = "up")
    BY <1>1, <1>5 DEF TodoInv
  <2>2. mode' = "up" => todo' \in Seq(Saves \cup Calm) /\ (todo' # <<>> => Tail(todo') \in Seq(Calm))
    BY <1>6, CalmIsCalm
  <2>3. mode' # "up" => todo' = <<>>
    BY <1>1, <1>4, <2>1
  <2>4. QED
    BY <1>1, <2>1, <2>2, <2>3 DEF TodoInv
<1>9. SavingInv' /\ ~ WritesSeed'
  BY <1>6 DEF SavingInv, WritesSeed
<1>10. SeedInv'
  <2>1. SUFFICES ASSUME mode' = "starting" PROVE Seed' \in SeedContents
    BY <1>9 DEF SeedInv
  <2>2. Seed' = Seed
    BY <1>1 DEF Seed
  <2>3. CASE item.do = "create"
    <3>1. at = 3 /\ disk[f].is = v
      BY <1>1, <1>3, <2>1, <2>3 DEF Progress
    <3>2. f = "seed" /\ v \in SeedContents
      BY <1>1, <1>5, <2>3, SavedIs
    <3>3. QED
      BY <2>2, <3>1, <3>2 DEF Seed
  <2>4. CASE item.do # "create"
    <3>1. mode = "starting" /\ item # CreateSeed
      BY <1>1, <1>5, <2>1, <2>4
    <3>2. QED
      BY <2>2, <3>1 DEF SeedInv
  <2>5. QED
    BY <2>3, <2>4
<1>11. SeedKept'
  <2>1. SUFFICES ASSUME "seed" \notin behind'
                 PROVE  disk["seed"].after = {Seed} \/ (Seed = Torn /\ mode' = "down")
    BY <1>1, <1>9 DEF SeedKept, Seed
  <2>2. "seed" \notin behind
    BY <1>1, <2>1
  <2>3. CASE f # "seed"
    BY <2>2, <2>3, <1>5 DEF SeedKept, WritesSeed
  <2>4. CASE f = "seed"
    <3>1. WritesSeed /\ step \notin {"settle", "sync"}
      BY <1>1, <2>1, <2>4 DEF WritesSeed
    <3>2. CASE item.do = "create"
      <4>1. at \in {0, 1} /\ mode' = "down"
        BY <1>1, <1>3, <3>1, <3>2
      <4>2. QED
        BY <2>2, <3>1, <3>2, <4>1 DEF SeedKept, SeedInv
    <3>3. CASE item.do = "seed"
      <4>1. at < 4
        BY <1>3, <3>1, <3>3
      <4>2. QED
        BY <2>2, <3>1, <3>3, <4>1 DEF SeedKept
    <3>4. QED
      BY <3>2, <3>3, <2>4, <1>5
  <2>5. QED
    BY <2>3, <2>4
<1>12. SealedInv'
  BY <1>1 DEF SealedInv
<1>13. RecordInv'
  <2>1. SUFFICES ASSUME mode = "up" PROVE RecordInv'
    BY <1>1, <1>5 DEF RecordInv
  <2>2. item = Save(f) /\ f \in {"book", "history"} /\ f \in behind' /\ todo \in Seq(Saves \cup Calm)
    BY <1>1, <1>4, <1>5, <2>1
  <2>3. "history" \notin behind' => f = "book" /\ item # Save("history") /\ "history" \notin behind
    BY <1>1, <1>5, <2>2
  <2>4. \A w : Matches(w) <=> Matches(w)'
    BY <1>1 DEF Matches
  <2>5. "history" \notin behind' => \A w \in disk'["history"].after : Matches(w)'
    BY <1>1, <2>1, <2>3, <2>4 DEF RecordInv
  <2>6. ToSet(todo') \subseteq ToSet(todo)
    BY <1>1, <2>2, <1>4, Ends, NoneOf
  <2>7. mem.on \in BOOLEAN /\ Tell(mem.on).do = "tell" /\ Tell(mem.on) # item
    BY <2>1, <1>5, CalmItems DEF MemInv, MemType
  <2>8. ASSUME Tell(mem.on) \notin ToSet(todo')
        PROVE  (said' = "off" => ~ mem.on) /\ (said' = "on" => mem.on)
    <3>1. CASE Tell(mem.on) \notin ToSet(todo)
      BY <3>1, <1>1, <2>1 DEF RecordInv
    <3>2. CASE Tell(mem.on) \in ToSet(todo)
      <4>1. ~ last
        BY <2>8, <3>2, <2>2, <2>7, <1>1, <1>4, Ends
      <4>2. \E i \in DOMAIN todo : todo[i].do = "tell"
        BY <3>2, <2>7 DEF ToSet
      <4>3. QED
        BY <4>1, <4>2, <1>1
    <3>3. QED
      BY <3>1, <3>2
  <2>9. QED
    BY <1>1, <2>1, <2>5, <2>6, <2>8 DEF RecordInv
<1>14. QED
  BY <1>7, <1>8, <1>9, <1>10, <1>11, <1>12, <1>13

-----------------------------------------------------------------------------
(***************************************************************************)
(* What else happens while the program runs.                               *)
(***************************************************************************)

\* What a handler does to the memory, and has still to do: if the record
\* changes it is saved next, and if it is turned the operator is told after.
LEMMA Works ==
  ASSUME StoredInv, mode = "up", ~ Saving, UNCHANGED <<disk, mode, at, used>>,
         "seed" \in behind' <=> "seed" \in behind,
         "history" \in behind' <=> "history" \in behind,
         mem' \in MemType, mem'.key = mem.key, ~ mem'.on => mem'.lines = <<>>,
         todo' \in Seq(Saves \cup Calm), todo' # <<>> => Tail(todo') \in Seq(Calm),
         \/ mem'.on = mem.on /\ mem'.lines = mem.lines
         \/ todo' # <<>> /\ Head(todo') = Save("history"),
         Tell(~ mem'.on) \notin ToSet(todo'),
         Tell(mem'.on) \notin ToSet(todo') => (said' = "off" => ~ mem'.on) /\ (said' = "on" => mem'.on)
  PROVE  StoredInv'
<1> USE DEF StoredInv
<1>1. DiskInv' /\ MemInv'
  BY DEF DiskInv, MemInv
<1>2. at' = 0 /\ at = 0
  BY DEF TodoInv
<1>3. TodoInv'
  BY <1>2 DEF TodoInv
<1>4. todo' # <<>> => Head(todo') \in Saves \cup Calm
  BY Ends
<1>5. Saving' => Head(todo') \in Saves /\ Head(todo').do = "save" /\ Head(todo').file # "seed"
  BY <1>4, Items DEF Saving
<1>6. SavingInv'
  BY <1>2, <1>5 DEF SavingInv, Progress
<1>7. ~ WritesSeed'
  BY <1>5 DEF WritesSeed
<1>8. SeedInv'
  BY <1>7 DEF SeedInv
<1>9. SeedKept' /\ SealedInv'
  <2>1. Seed' = Seed /\ ~ WritesSeed
    BY DEF Seed, WritesSeed
  <2>2. SeedKept'
    BY <1>7, <2>1 DEF SeedKept
  <2>3. SealedInv'
    BY DEF SealedInv
  <2>4. QED
    BY <2>2, <2>3
<1>10. RecordInv'
  <2>1. todo # <<>> => Head(todo) # Save("history")
    BY Items DEF Saving, Saves
  <2>2. "history" \notin behind => \A w \in disk["history"].after : Matches(w)
    BY <2>1 DEF RecordInv
  <2>3. "history" \notin behind' /\ ~ (todo' # <<>> /\ Head(todo') = Save("history"))
          => \A w \in disk'["history"].after : Matches(w)'
    BY <2>2 DEF Matches
  <2>4. QED
    BY <2>3 DEF RecordInv
<1>11. QED
  BY <1>1, <1>3, <1>6, <1>8, <1>9, <1>10

\* What is not a save is done by the program running, and it is calm.
LEMMA ProceedsIs ==
  ASSUME StoredInv, Proceeds
  PROVE  /\ mode = "up" /\ ~ Saving /\ todo # <<>> /\ todo \in Seq(Saves \cup Calm)
         /\ Head(todo) \in Calm /\ Tail(todo) \in Seq(Calm)
         /\ ToSet(Tail(todo)) \subseteq ToSet(todo) /\ Head(todo) \in ToSet(todo)
         /\ \A x \in ToSet(todo) : x = Head(todo) \/ x \in ToSet(Tail(todo))
<1>1. todo # <<>> /\ ~ Saving
  BY DEF Proceeds
<1>2. mode = "up"
  <2>1. SUFFICES ASSUME mode # "up" PROVE FALSE
    OBVIOUS
  <2>2. PICK s \in Rewriting \cup {CreateSeed} : todo = <<s>>
    BY <1>1, <2>1 DEF StoredInv, TodoInv
  <2>3. Head(todo) = s
    BY <2>2, OneOf
  <2>4. QED
    BY <1>1, <2>2, <2>3, Items DEF Saving
<1>3. todo \in Seq(Saves \cup Calm) /\ Tail(todo) \in Seq(Calm)
  BY <1>1, <1>2 DEF StoredInv, TodoInv
<1>4. Head(todo) \in Calm
  BY <1>1, <1>3, Ends, Items DEF Saving
<1>5. QED
  BY <1>1, <1>2, <1>3, <1>4, Ends

LEMMA ProceedsKeepsStored ==
  ASSUME StoredInv, Proceeds
  PROVE  StoredInv'
<1> DEFINE item == Head(todo)
           left == Others(mem.lines)
<1>1. /\ mode = "up" /\ ~ Saving /\ item \in Calm /\ Tail(todo) \in Seq(Calm)
      /\ ToSet(Tail(todo)) \subseteq ToSet(todo)
      /\ \A x \in ToSet(todo) : x = item \/ x \in ToSet(Tail(todo))
  BY ProceedsIs
<1>2. UNCHANGED <<disk, mode, at, used>>
  BY DEF Proceeds
<1>3. mem \in MemType /\ (~ mem.on => mem.lines = <<>>)
  BY DEF StoredInv, MemInv
<1>4. /\ Tell(~ mem.on) \notin ToSet(todo)
      /\ Tell(mem.on) \notin ToSet(todo) => (said = "off" => ~ mem.on) /\ (said = "on" => mem.on)
  BY <1>1 DEF StoredInv, RecordInv
<1>5. /\ Tail(todo) \in Seq(Saves \cup Calm)
      /\ Tail(todo) # <<>> => Tail(Tail(todo)) \in Seq(Calm)
  BY <1>1, CalmIsCalm
<1>6. CASE item.do = "erase"
  <2>1. mem' = [mem EXCEPT !.lines = left] /\ behind' = behind \ {"objection"} /\ said' = said
        /\ todo' = IF left = mem.lines THEN Tail(todo) ELSE <<Save("history")>> \o Tail(todo)
    BY <1>6 DEF Proceeds
  <2>2. left \in Seq(Who) /\ (mem.lines = <<>> => left = <<>>)
    BY <1>3, OthersLeft DEF MemType
  <2>3. /\ mem' \in MemType /\ mem'.key = mem.key /\ mem'.on = mem.on /\ mem'.lines = left
        /\ ~ mem'.on => mem'.lines = <<>>
    BY <1>3, <2>1, <2>2 DEF MemType
  <2>4. Save("history") \in Saves \cup Calm /\ Save("history") # Tell(~ mem.on)
    BY <1>3, CalmItems, Items DEF Saves, MemType
  <2>5. /\ todo' \in Seq(Saves \cup Calm) /\ (todo' # <<>> => Tail(todo') \in Seq(Calm))
        /\ left # mem.lines => todo' # <<>> /\ Head(todo') = Save("history")
        /\ \A x : x \in ToSet(todo') => x = Save("history") \/ x \in ToSet(Tail(todo))
        /\ \A x \in ToSet(Tail(todo)) : x \in ToSet(todo')
    <3> DEFINE pushed == <<Save("history")>> \o Tail(todo)
    <3>1. /\ pushed \in Seq(Saves \cup Calm) /\ pushed # <<>>
          /\ Head(pushed) = Save("history") /\ Tail(pushed) = Tail(todo)
          /\ \A x : x \in ToSet(pushed) <=> x = Save("history") \/ x \in ToSet(Tail(todo))
      BY <1>5, <2>4, Pushed
    <3>2. todo' = IF left = mem.lines THEN Tail(todo) ELSE pushed
      BY <2>1
    <3> HIDE DEF pushed, left
    <3>3. QED
      BY <1>1, <1>5, <3>1, <3>2
  <2>6. Tell(mem.on) # item
    BY <1>6, <1>3, CalmItems DEF MemType
  <2>7. Tell(~ mem'.on) \notin ToSet(todo')
    BY <1>1, <1>4, <2>3, <2>4, <2>5
  <2>8. Tell(mem'.on) \notin ToSet(todo') => (said' = "off" => ~ mem'.on) /\ (said' = "on" => mem'.on)
    BY <1>1, <1>4, <2>1, <2>3, <2>5, <2>6
  <2>9. QED
    BY <1>1, <1>2, <2>1, <2>3, <2>5, <2>7, <2>8, Works
<1>7. CASE item.do # "erase"
  <2>1. mem' = mem /\ behind' = behind /\ todo' = Tail(todo)
        /\ said' = IF item.do = "tell" THEN IF item.value.on THEN "on" ELSE "off" ELSE said
    BY <1>1, <1>7, Items DEF Proceeds
  <2>2. item.do = "tell" => item.value.on = mem.on
    BY <1>1, <1>3, <1>4, CalmItems, ProceedsIs DEF MemType
  <2>3. item.do # "tell" => item # Tell(mem.on)
    BY <1>3, CalmItems DEF MemType
  <2>4. Tell(~ mem'.on) \notin ToSet(todo')
    BY <1>1, <1>4, <2>1
  <2>5. Tell(mem'.on) \notin ToSet(todo') => (said' = "off" => ~ mem'.on) /\ (said' = "on" => mem'.on)
    BY <1>1, <1>4, <2>1, <2>2, <2>3
  <2>6. QED
    BY <1>1, <1>2, <1>3, <1>5, <2>1, <2>4, <2>5, Works
<1>8. QED
  BY <1>6, <1>7

\* What a handler may be left to do: a save at most, and then calm things.
Orderly(rest) ==
  rest \in Seq(Saves \cup Calm) /\ (rest # <<>> => Tail(rest) \in Seq(Calm))

LEMMA TwoOf ==
  ASSUME NEW S, NEW x \in S, NEW y \in S, NEW s, s = <<x, y>>
  PROVE  /\ s \in Seq(S) /\ s # <<>> /\ Head(s) = x /\ Tail(s) = <<y>>
         /\ \A z : z \in ToSet(s) <=> z = x \/ z = y
<1>1. s \in Seq(S) /\ Len(s) = 2 /\ s[1] = x /\ s[2] = y
  OBVIOUS
<1>2. ToSet(s) = {s[i] : i \in 1 .. 2}
  <2>1. DOMAIN s = 1 .. 2
    OBVIOUS
  <2>2. QED
    BY <2>1, Zenon DEF ToSet
<1>3. Tail(s) = <<y>>
  OBVIOUS
<1>4. QED
  BY <1>1, <1>2, <1>3

LEMMA ThreeOf ==
  ASSUME NEW S, NEW x \in S, NEW y \in S, NEW w \in S, NEW s, s = <<x, y, w>>
  PROVE  /\ s \in Seq(S) /\ s # <<>> /\ Head(s) = x /\ Tail(s) = <<y, w>>
         /\ \A z : z \in ToSet(s) <=> z = x \/ z = y \/ z = w
<1>1. s \in Seq(S) /\ Len(s) = 3 /\ s[1] = x /\ s[2] = y /\ s[3] = w
  OBVIOUS
<1>2. ToSet(s) = {s[i] : i \in 1 .. 3}
  <2>1. DOMAIN s = 1 .. 3
    OBVIOUS
  <2>2. QED
    BY <2>1, Zenon DEF ToSet
<1>3. Tail(s) = <<y, w>>
  OBVIOUS
<1>4. QED
  BY <1>1, <1>2, <1>3

LEMMA SaveIsItem == Save("book") \in Saves \cup Calm /\ Saves \subseteq Saves \cup Calm
                      /\ Calm \subseteq Saves \cup Calm
BY DEF Saves

LEMMA RestOne ==
  ASSUME NEW first \in Saves, NEW rest, rest = <<first>>
  PROVE  /\ Orderly(rest) /\ Head(rest) = first /\ rest # <<>>
         /\ \A z : z \in ToSet(rest) <=> z = first
BY OneOf, NoneOf, SaveIsItem DEF Orderly

LEMMA RestTwo ==
  ASSUME NEW first \in Saves, NEW x \in Calm, NEW rest, rest = <<first, x>>
  PROVE  /\ Orderly(rest) /\ Head(rest) = first /\ rest # <<>>
         /\ \A z : z \in ToSet(rest) <=> z = first \/ z = x
<1> DEFINE S == Saves \cup Calm
<1>1. first \in S /\ x \in S
  OBVIOUS
<1> HIDE DEF S
<1>2. /\ rest \in Seq(S) /\ rest # <<>> /\ Head(rest) = first /\ Tail(rest) = <<x>>
      /\ \A z : z \in ToSet(rest) <=> z = first \/ z = x
  BY <1>1, TwoOf
<1>3. <<x>> \in Seq(Calm)
  OBVIOUS
<1>4. QED
  BY <1>2, <1>3, Zenon DEF Orderly, S

LEMMA RestThree ==
  ASSUME NEW first \in Saves, NEW x \in Calm, NEW y \in Calm, NEW rest, rest = <<first, x, y>>
  PROVE  /\ Orderly(rest) /\ Head(rest) = first /\ rest # <<>>
         /\ \A z : z \in ToSet(rest) <=> z = first \/ z = x \/ z = y
<1> DEFINE S == Saves \cup Calm
<1>1. first \in S /\ x \in S /\ y \in S
  OBVIOUS
<1> HIDE DEF S
<1>2. /\ rest \in Seq(S) /\ rest # <<>> /\ Head(rest) = first /\ Tail(rest) = <<x, y>>
      /\ \A z : z \in ToSet(rest) <=> z = first \/ z = x \/ z = y
  BY <1>1, ThreeOf
<1>3. <<x, y>> \in Seq(Calm)
  OBVIOUS
<1>4. QED
  BY <1>2, <1>3, Zenon DEF Orderly, S

LEMMA RestMarked ==
  ASSUME NEW x \in Calm, NEW marked \in BOOLEAN, NEW rest, rest = Marks(marked) \o <<x>>
  PROVE  /\ Orderly(rest) /\ rest # <<>> /\ Head(rest) \in {x, Save("book")}
         /\ \A z : z \in ToSet(rest) <=> z = x \/ (marked /\ z = Save("book"))
<1> DEFINE S == Saves \cup Calm
           book == Save("book")
           u == <<x>>
<1>1. /\ u \in Seq(Calm) /\ u \in Seq(S) /\ u # <<>> /\ Head(u) = x /\ Tail(u) = <<>>
      /\ <<>> \in Seq(Calm) /\ \A z : z \in ToSet(u) <=> z = x
  BY OneOf, NoneOf
<1>2. book \in S
  BY SaveIsItem
<1>3. rest = IF marked THEN <<book>> \o u ELSE <<>> \o u
  BY DEF Marks
<1>4. <<>> \o u = u
  BY <1>1, ConcatEmptySeq
<1> HIDE DEF S, book, u
<1>5. /\ <<book>> \o u \in Seq(S) /\ <<book>> \o u # <<>> /\ Head(<<book>> \o u) = book
      /\ Tail(<<book>> \o u) = u
      /\ \A z : z \in ToSet(<<book>> \o u) <=> z = book \/ z \in ToSet(u)
  BY <1>1, <1>2, Pushed, Zenon
<1>6. CASE marked
  BY <1>1, <1>3, <1>5, <1>6, Zenon DEF Orderly, S, book
<1>7. CASE ~ marked
  BY <1>1, <1>3, <1>4, <1>7, Zenon DEF Orderly, S
<1>8. QED
  BY <1>6, <1>7

LEMMA HandlesKeeps ==
  ASSUME StoredInv, NEW m, NEW rest, Handles(m, rest),
         m \in MemType, m.key = mem.key, ~ m.on => m.lines = <<>>,
         Orderly(rest),
         \/ m.on = mem.on /\ m.lines = mem.lines
         \/ rest # <<>> /\ Head(rest) = Save("history"),
         Tell(~ m.on) \notin ToSet(rest),
         m.on = mem.on \/ Tell(m.on) \in ToSet(rest)
  PROVE  StoredInv'
<1>1. mode = "up" /\ todo = <<>> /\ ~ Saving /\ UNCHANGED <<disk, mode, at, used, said, behind>>
      /\ mem' = m /\ todo' = rest
  BY DEF Handles, Idle, historyVars, Saving
<1>2. (said = "off" => ~ mem.on) /\ (said = "on" => mem.on)
  BY <1>1, NoneOf DEF StoredInv, RecordInv
<1>3. QED
  BY <1>1, <1>2, Works DEF Orderly

\* Noted, or not, the record stays what it is. (note)
LEMMA NotedKeeps ==
  ASSUME StoredInv, NEW who \in Who, Noted(who)
  PROVE  StoredInv'
<1>1. mem \in MemType /\ (~ mem.on => mem.lines = <<>>) /\ mem.on \in BOOLEAN
  BY DEF StoredInv, MemInv, MemType
<1>2. /\ Save("history") \in Saves /\ Erase \in Calm
      /\ \A on \in BOOLEAN : Tell(on) # Save("history")
  BY CalmItems, Items DEF Saves, Calm
<1>3. CASE mem.on /\ ~ Objects(who)
  <2> DEFINE m == [mem EXCEPT !.lines = Trim(Append(@, who))]
  <2>1. Handles(m, <<Save("history")>>)
    BY <1>3 DEF Noted
  <2>2. Trim(Append(mem.lines, who)) \in Seq(Who)
    BY <1>1, Trimmed DEF MemType
  <2>3. m \in MemType /\ m.key = mem.key /\ m.on = mem.on /\ (~ m.on => m.lines = <<>>)
    BY <1>1, <1>3, <2>2 DEF MemType
  <2> DEFINE rest == <<Save("history")>>
  <2>4. Handles(m, rest) /\ rest = <<Save("history")>>
    BY <2>1
  <2> HIDE DEF m, rest
  <2>5. /\ Orderly(rest) /\ Head(rest) = Save("history") /\ rest # <<>>
        /\ \A z : z \in ToSet(rest) <=> z = Save("history")
    BY <1>2, <2>4, RestOne, Zenon
  <2>6. Tell(~ m.on) \notin ToSet(rest)
    BY <1>1, <1>2, <2>3, <2>5
  <2>7. QED
    BY <2>3, <2>4, <2>5, <2>6, HandlesKeeps
<1>4. CASE ~ (mem.on /\ ~ Objects(who))
  <2>1. Handles(mem, <<>>)
    BY <1>4 DEF Noted
  <2>2. Orderly(<<>>) /\ ToSet(<<>>) = {}
    BY NoneOf DEF Orderly
  <2>3. QED
    BY <1>1, <2>1, <2>2, HandlesKeeps
<1>5. QED
  BY <1>3, <1>4

LEMMA HeedsKeeps ==
  ASSUME StoredInv, NEW frame, Heeds(frame)
  PROVE  StoredInv'
<1>1. mem \in MemType /\ (~ mem.on => mem.lines = <<>>) /\ mem.on \in BOOLEAN /\ mem.objects \in BOOLEAN
  BY DEF StoredInv, MemInv, MemType
<1>2. CASE frame.t = "dont" /\ mem.filed
  <2> DEFINE m == [mem EXCEPT !.objects = TRUE]
             marked == ~ mem.objects
             rest == Marks(marked) \o <<Erase>>
  <2>1. Handles(m, rest) /\ rest = Marks(marked) \o <<Erase>> /\ marked \in BOOLEAN
    BY <1>2 DEF Heeds, Objected
  <2>2. m \in MemType /\ m.key = mem.key /\ m.on = mem.on /\ m.lines = mem.lines
    BY <1>1 DEF MemType
  <2>3. Save("book") \in Saves /\ Erase \in Calm
    BY DEF Saves, Calm
  <2> HIDE DEF m, marked, rest
  <2>4. Orderly(rest) /\ \A z \in ToSet(rest) : z = Erase \/ z = Save("book")
    BY <2>1, <2>3, RestMarked, Zenon
  <2>5. \A on \in BOOLEAN : Tell(on) # Erase /\ Tell(on) # Save("book")
    BY <2>3, CalmItems, Items
  <2>6. Tell(~ m.on) \notin ToSet(rest)
    BY <1>1, <2>2, <2>4, <2>5
  <2>7. QED
    BY <1>1, <2>1, <2>2, <2>4, <2>6, HandlesKeeps
<1>3. CASE frame.t = "line"
  BY <1>3, NotedKeeps DEF Heeds, Who
<1>4. CASE Handles(mem, <<>>)
  <2>1. Orderly(<<>>) /\ ToSet(<<>>) = {}
    BY NoneOf DEF Orderly
  <2>2. QED
    BY <1>1, <1>4, <2>1, HandlesKeeps
<1>5. QED
  BY <1>2, <1>3, <1>4 DEF Heeds

\* What changes nothing of what is stored, and nothing of the handler.
LEMMA RestKeepsStored ==
  ASSUME StoredInv, UNCHANGED <<disk, mode, mem, todo, at, used, said, behind>>
  PROVE  StoredInv'
<1> USE DEF StoredInv
<1>1. DiskInv' /\ MemInv'
  BY DEF DiskInv, MemInv
<1>2. Saving' = Saving /\ Seed' = Seed /\ \A w : Matches(w) <=> Matches(w)'
  BY DEF Saving, Seed, Matches
<1>3. TodoInv'
  BY <1>2 DEF TodoInv
<1>4. SavingInv'
  <2>1. Progress(Head(todo))' = Progress(Head(todo))
    BY DEF Progress, Value, Sealed, SealedBook
  <2>2. QED
    BY <1>2, <2>1 DEF SavingInv
<1>5. SeedInv' /\ SeedKept' /\ SealedInv'
  BY <1>2 DEF SeedInv, SeedKept, SealedInv, WritesSeed
<1>6. RecordInv'
  BY <1>2 DEF RecordInv
<1>7. QED
  BY <1>1, <1>3, <1>4, <1>5, <1>6

LEMMA TypesKeepsStored ==
  ASSUME StoredInv, Types
  PROVE  StoredInv'
<1>1. /\ mem \in MemType /\ (~ mem.on => mem.lines = <<>>)
      /\ mem.on \in BOOLEAN /\ mem.lines \in Seq(Who) /\ <<>> \in Seq(Who)
  BY NoneOf DEF StoredInv, MemInv, MemType
<1>2. /\ Save("book") \in Saves /\ Save("history") \in Saves
      /\ \A x \in Calm : x # Save("book") /\ x # Save("history")
      /\ \A on \in BOOLEAN : Tell(on) \in Calm /\ Tell(on) # Erase /\ Tell(on) # Close
      /\ Tell(TRUE) # Tell(FALSE)
      /\ Erase \in Calm /\ Close \in Calm
  BY CalmItems, Items DEF Saves, Calm
<1>3. ASSUME NEW on \in BOOLEAN, Handles(Set(on), <<Save("history"), Tell(on)>>) PROVE StoredInv'
  <2> DEFINE m == Set(on)
             rest == <<Save("history"), Tell(on)>>
  <2>1. m \in MemType /\ m.key = mem.key /\ m.on = on /\ (~ on => m.lines = <<>>)
    BY <1>1 DEF MemType, Set
  <2>2. Handles(m, rest) /\ rest = <<Save("history"), Tell(on)>>
    BY <1>3
  <2> HIDE DEF m, rest
  <2>3. /\ Orderly(rest) /\ Head(rest) = Save("history") /\ rest # <<>>
        /\ \A z : z \in ToSet(rest) <=> z = Save("history") \/ z = Tell(on)
    BY <1>2, <2>2, RestTwo
  <2>4. Tell(~ on) \notin ToSet(rest) /\ Tell(on) \in ToSet(rest)
    BY <1>2, <2>3
  <2>5. QED
    BY <2>1, <2>2, <2>3, <2>4, HandlesKeeps
<1>4. ASSUME NEW m, NEW rest, Handles(m, rest), m \in MemType, Orderly(rest),
             m.key = mem.key, m.on = mem.on, m.lines = mem.lines,
             \A z \in ToSet(rest) : z.do # "tell"
      PROVE  StoredInv'
  <2>1. Tell(~ m.on) \notin ToSet(rest)
    BY <1>1, <1>4, CalmItems
  <2>2. QED
    BY <1>1, <1>4, <2>1, HandlesKeeps
<1>5. CASE HistoryOn \/ HistoryOff
  BY <1>3, <1>5 DEF HistoryOn, HistoryOff
<1>6. CASE Add
  <2> DEFINE m == [mem EXCEPT !.filed = TRUE]
             rest == <<Save("book")>>
  <2>1. m \in MemType /\ m.key = mem.key /\ m.on = mem.on /\ m.lines = mem.lines
    BY <1>1 DEF MemType
  <2>2. Handles(m, rest) /\ rest = <<Save("book")>>
    BY <1>6 DEF Add
  <2> HIDE DEF m, rest
  <2>3. Orderly(rest) /\ \A z \in ToSet(rest) : z.do # "tell"
    BY <1>2, <2>2, RestOne, Items
  <2>4. QED
    BY <2>1, <2>2, <2>3, <1>4
<1>7. CASE Forget
  <2> DEFINE m == [mem EXCEPT !.filed = FALSE, !.objects = FALSE, !.ours = FALSE]
             rest == <<Save("book"), Erase, Close>>
  <2>1. m \in MemType /\ m.key = mem.key /\ m.on = mem.on /\ m.lines = mem.lines
    BY <1>1 DEF MemType
  <2>2. Handles(m, rest) /\ rest = <<Save("book"), Erase, Close>>
    BY <1>7 DEF Forget
  <2> HIDE DEF m, rest
  <2>3. Orderly(rest) /\ \A z \in ToSet(rest) : z = Save("book") \/ z = Erase \/ z = Close
    BY <1>2, <2>2, RestThree
  <2>4. \A z \in ToSet(rest) : z.do # "tell"
    BY <1>2, <2>3, Items, CalmItems
  <2>5. QED
    BY <2>1, <2>2, <2>3, <2>4, <1>4
<1>8. ASSUME NEW objecting \in BOOLEAN, HistoryNo(objecting) PROVE StoredInv'
  <2> DEFINE m == [mem EXCEPT !.ours = objecting]
             marked == mem.ours # objecting
             said1 == Say(IF objecting THEN DontRecord ELSE Recording(FALSE))
             rest == Marks(marked) \o <<said1>>
  <2>1. m \in MemType /\ m.key = mem.key /\ m.on = mem.on /\ m.lines = mem.lines
    BY <1>1 DEF MemType
  <2>2. said1 \in Calm /\ said1.do = "say"
    BY CalmItems DEF Calm
  <2>3. marked \in BOOLEAN
    OBVIOUS
  <2>4. Handles(m, rest) /\ rest = Marks(marked) \o <<said1>>
    BY <1>8 DEF HistoryNo
  <2> HIDE DEF m, marked, said1, rest
  <2>5. Orderly(rest) /\ \A z \in ToSet(rest) : z = said1 \/ z = Save("book")
    BY <1>2, <2>2, <2>3, <2>4, RestMarked
  <2>6. \A z \in ToSet(rest) : z.do # "tell"
    BY <1>2, <2>2, <2>5, Items
  <2>7. QED
    BY <2>1, <2>4, <2>5, <2>6, <1>4
<1>9. CASE WeSay
  <2>1. CASE Noted("them")
    BY <2>1, NotedKeeps DEF Who
  <2>2. CASE ~ Noted("them")
    BY <1>9, <2>2, RestKeepsStored DEF WeSay, historyVars
  <2>3. QED
    BY <2>1, <2>2
<1>10. CASE Elsewhere
  BY <1>10, NotedKeeps DEF Elsewhere, Who
<1>11. QED
  BY <1>5, <1>6, <1>7, <1>8, <1>9, <1>10 DEF Types

-----------------------------------------------------------------------------
(***************************************************************************)
(* The program starts and stops.                                           *)
(***************************************************************************)

\* A file that is whole, and is what a crash leaves.
LEMMA Held ==
  ASSUME NEW v \in Anything
  PROVE  /\ Holding(v) \in FileType
         /\ Holding(v).is = v /\ Holding(v).after = {v} /\ Holding(v).beside = Absent
<1>1. \A b \in BOOLEAN : [is |-> v, beside |-> Absent, flushed |-> b, after |-> {v}] \in FileType
  BY DEF FileType, Anything
<1>2. QED
  BY <1>1 DEF Holding

\* What is read of a seed that is there. (decrypt_seed_bytes)
LEMMA SeedIs ==
  ASSUME StoredInv
  PROVE  /\ Seed \in SeedContents \cup {Absent, Torn} /\ Seed \in disk["seed"].after
         /\ Seed \in SeedContents => Seed.key \in Keys /\ Seed # Absent /\ Seed # Torn
         /\ Absent \notin SeedContents /\ Torn \notin SeedContents /\ Absent # Torn
<1>1. Seed \in SeedContents \cup {Absent, Torn} /\ Seed \in disk["seed"].after
  BY DEF StoredInv, DiskInv, Seed, Files
<1>2. Absent \notin SeedContents /\ Torn \notin SeedContents /\ Absent # Torn
  BY KeepingAssumption, StoreAssumption
<1>3. Seed \in SeedContents => Seed.key \in Keys
  BY DEF SeedContents, Keys
<1>4. QED
  BY <1>1, <1>2, <1>3

\* The seed is about to be written, or made where there is none.
LEMMA WritesKeeps ==
  ASSUME StoredInv, mode = "down", Seed # Torn, NEW s \in Rewriting \cup {CreateSeed}, todo' = <<s>>,
         mode' \in {"tool", "starting"},
         s = CreateSeed => mode' = "starting" /\ Seed = Absent,
         mode' = "starting" => s = CreateSeed \/ Seed \in SeedContents,
         s # CreateSeed /\ Seed \in SeedContents => s.value.key = Seed.key,
         UNCHANGED <<disk, mem, at, used, said, behind>>
  PROVE  StoredInv'
<1> USE DEF StoredInv
<1>1. /\ todo' # <<>> /\ Head(todo') = s /\ Tail(todo') = <<>>
  BY OneOf
<1>2. todo = <<>> /\ ~ Saving /\ at = 0 /\ at' = 0
  BY DEF TodoInv, Saving
<1>3. /\ s # CreateSeed => s \in Rewriting /\ s.do = "seed" /\ s.file = "seed"
      /\ s = CreateSeed => s.do = "create" /\ s.file = "seed"
  BY Items
<1>4. WritesSeed' /\ Saving' /\ Seed' = Seed /\ ~ WritesSeed
  BY <1>1, <1>2, <1>3 DEF WritesSeed, Saving, Seed
<1>5. DiskInv' /\ MemInv'
  BY DEF DiskInv, MemInv
<1>6. TodoInv'
  <2>1. mode' = "tool" => \E r \in Rewriting : todo' = <<r>>
    BY <1>3
  <2>2. mode' = "starting" => \E r \in Rewriting \cup {CreateSeed} : todo' = <<r>>
    OBVIOUS
  <2>3. QED
    BY <1>2, <2>1, <2>2 DEF TodoInv
<1>7. SavingInv'
  BY <1>1, <1>2, <1>3 DEF SavingInv, Progress
<1>8. SeedInv'
  BY <1>1, <1>2, <1>3, <1>4 DEF SeedInv
<1>9. SeedKept'
  <2>1. SUFFICES ASSUME "seed" \notin behind
        PROVE  /\ used # {} => \E k \in Keys :
                                  used = {k} /\ \A v \in disk["seed"].after : v \in SeedContents /\ v.key = k
               /\ used # {} => s.do = "seed" /\ s.value.key \in used
               /\ disk["seed"].after = {Seed}
               /\ Torn \notin disk["seed"].after
    BY <1>1, <1>2, <1>3, <1>4 DEF SeedKept
  <2>2. disk["seed"].after = {Seed}
    BY <1>4, <2>1 DEF SeedKept
  <2>3. used # {} => \E k \in Keys :
                        used = {k} /\ \A v \in disk["seed"].after : v \in SeedContents /\ v.key = k
    BY <2>1 DEF SeedKept
  <2>4. used # {} => Seed \in SeedContents /\ Seed.key \in used
    BY <2>2, <2>3
  <2>5. used # {} => s.do = "seed" /\ s.value.key \in used
    BY <2>4, <1>3, SeedIs
  <2>6. QED
    BY <2>2, <2>3, <2>5
<1>10. SealedInv' /\ RecordInv'
  BY DEF SealedInv, RecordInv
<1>11. QED
  BY <1>5, <1>6, <1>7, <1>8, <1>9, <1>10

LEMMA StartKeeps ==
  ASSUME StoredInv, Start
  PROVE  StoredInv'
<1>1. /\ mode = "down" /\ Seed # Torn /\ mode' = "starting"
      /\ UNCHANGED <<disk, mem, at, used, said, behind>>
  BY DEF Start, historyVars
<1>2. CASE Seed = Absent
  <2>1. todo' = <<CreateSeed>>
    BY <1>2 DEF Start
  <2>2. QED
    BY <1>1, <1>2, <2>1, SeedIs, WritesKeeps
<1>3. CASE Seed # Absent /\ Seed.as = "v1"
  <2>1. todo' = <<WriteSeed(Seed.key, "v2")>>
    BY <1>3 DEF Start
  <2>2. Seed \in SeedContents /\ Seed.key \in Keys
    BY <1>1, <1>3, SeedIs
  <2> DEFINE s == WriteSeed(Seed.key, "v2")
  <2>3. s \in Rewriting /\ s.value.key = Seed.key
    BY <2>2, SeedIs DEF Rewriting, WriteSeed, SeedContents, Keys
  <2>4. s # CreateSeed
    BY <2>3, Items
  <2>5. todo' = <<s>>
    BY <2>1
  <2> HIDE DEF s
  <2>6. QED
    BY <1>1, <2>2, <2>3, <2>4, <2>5, WritesKeeps
<1>4. CASE Seed # Absent /\ Seed.as # "v1"
  <2>1. todo' = <<>> /\ todo = <<>> /\ at = 0 /\ at' = 0 /\ ~ Saving
    BY <1>1, <1>4 DEF Start, StoredInv, TodoInv, Saving
  <2>2. ~ Saving' /\ ~ WritesSeed /\ ~ WritesSeed' /\ Seed' = Seed
    BY <1>1, <2>1 DEF WritesSeed, Saving, Seed
  <2>3. Seed \in SeedContents
    BY <1>1, <1>4, SeedIs
  <2> USE DEF StoredInv
  <2>4. DiskInv' /\ MemInv' /\ SavingInv' /\ SealedInv' /\ RecordInv'
    BY <1>1, <2>2 DEF DiskInv, MemInv, SavingInv, SealedInv, RecordInv
  <2>5. TodoInv'
    BY <1>1, <2>1 DEF TodoInv
  <2>6. SeedInv'
    BY <2>2, <2>3 DEF SeedInv
  <2>7. SeedKept'
    BY <1>1, <2>2 DEF SeedKept
  <2>8. QED
    BY <2>4, <2>5, <2>6, <2>7
<1>5. QED
  BY <1>2, <1>3, <1>4

LEMMA ToolKeeps ==
  ASSUME StoredInv, Encrypt \/ Decrypt \/ Restore
  PROVE  StoredInv'
<1>1. ASSUME NEW k \in Keys, NEW as \in {"raw", "v1", "v2"}, Rewrites(WriteSeed(k, as)),
             Seed # Torn, Seed = Absent \/ k = Seed.key
      PROVE  StoredInv'
  <2> DEFINE s == WriteSeed(k, as)
  <2>1. /\ mode = "down" /\ mode' = "tool" /\ todo' = <<s>>
        /\ UNCHANGED <<disk, mem, at, used, said, behind>>
    BY <1>1 DEF Rewrites, historyVars
  <2>2. s \in Rewriting /\ s.value.key = k
    <3>1. s \in Rewriting
      BY <1>1 DEF Rewriting, WriteSeed, SeedContents, Keys
    <3>2. s.value.key = k
      BY DEF WriteSeed
    <3>3. QED
      BY <3>1, <3>2
  <2>3. s # CreateSeed
    BY <2>2, Items
  <2> HIDE DEF s
  <2>4. QED
    BY <1>1, <2>1, <2>2, <2>3, SeedIs, WritesKeeps
<1>2. CASE Encrypt
  BY <1>1, <1>2, SeedIs DEF Encrypt
<1>3. CASE Decrypt
  BY <1>1, <1>3, SeedIs DEF Decrypt
<1>4. CASE Restore
  BY <1>1, <1>4, SeedIs DEF Restore, Keys
<1>5. QED
  BY <1>2, <1>3, <1>4

LEMMA ToolEndsKeeps ==
  ASSUME StoredInv, ToolEnds
  PROVE  StoredInv'
<1> USE DEF StoredInv
<1>1. /\ mode = "tool" /\ mode' = "down" /\ todo = <<>> /\ todo' = <<>>
      /\ UNCHANGED <<disk, mem, at, used, said, behind>>
  BY DEF ToolEnds, historyVars
<1>2. ~ Saving /\ ~ Saving' /\ ~ WritesSeed /\ ~ WritesSeed' /\ Seed' = Seed
  BY <1>1 DEF WritesSeed, Saving, Seed
<1>3. DiskInv' /\ MemInv' /\ SavingInv' /\ SealedInv' /\ RecordInv' /\ SeedInv'
  BY <1>1, <1>2 DEF DiskInv, MemInv, SavingInv, SealedInv, RecordInv, SeedInv
<1>4. TodoInv'
  BY <1>1 DEF TodoInv, Saving
<1>5. SeedKept'
  BY <1>1, <1>2 DEF SeedKept
<1>6. QED
  BY <1>3, <1>4, <1>5

\* What is read is the book and the record of the seed's identity.
\* (Contacts::open, History::open)
LEMMA OpenKeeps ==
  ASSUME StoredInv, Open
  PROVE  StoredInv'
<1> USE DEF StoredInv
<1> DEFINE book == disk["book"].is
           history == disk["history"].is
           withBook == WithBook(book)
<1>1. /\ mode = "starting" /\ mode' = "up" /\ todo = <<>> /\ todo' = <<>>
      /\ Opens("book") /\ Opens("history")
      /\ mem' = IF history = Absent THEN withBook
                  ELSE [withBook EXCEPT !.on = history.on, !.lines = history.lines]
      /\ used' = used \cup {Seed.key}
      /\ said' = IF mem'.on THEN "on" ELSE "off"
      /\ behind' = behind \ {f \in {"book", "history"} : disk[f].after = {disk[f].is}}
      /\ UNCHANGED <<disk, at>>
  BY DEF Open
<1>2. ~ Saving /\ ~ Saving' /\ ~ WritesSeed /\ ~ WritesSeed' /\ Seed' = Seed
  BY <1>1 DEF WritesSeed, Saving, Seed
<1>3. Seed \in SeedContents /\ Seed.key \in Keys
  BY <1>1, SeedIs DEF SeedInv
<1>4. \A f \in {"book", "history"} : disk[f].after = {disk[f].is}
  BY <1>1 DEF TodoInv
<1>5. /\ book \in BookContents \cup {Absent}
      /\ history \in RecordContents \cup {Absent}
      /\ Absent \notin BookContents /\ Absent \notin RecordContents
  BY <1>4, KeepingAssumption DEF DiskInv, RecordContents
<1>6. /\ withBook \in MemType /\ withBook.key = Seed.key
      /\ withBook.on = FALSE /\ withBook.lines = <<>>
  <2>1. <<>> \in Seq(Who)
    BY NoneOf
  <2>2. Blank \in [key : {Absent}, on : {FALSE}, lines : {<<>>},
                    filed : {FALSE}, objects : {FALSE}, ours : {FALSE}]
    BY DEF Blank
  <2>3. [Blank EXCEPT !.key = Seed.key] \in
          [key : {Seed.key}, on : {FALSE}, lines : {<<>>},
           filed : {FALSE}, objects : {FALSE}, ours : {FALSE}]
    BY <2>2
  <2>4. ASSUME book # Absent
        PROVE  [Blank EXCEPT !.key = Seed.key, !.filed = book.filed,
                             !.objects = book.objects, !.ours = book.ours] \in
                 [key : {Seed.key}, on : {FALSE}, lines : {<<>>},
                  filed : BOOLEAN, objects : BOOLEAN, ours : BOOLEAN]
    <3>1. book.filed \in BOOLEAN /\ book.objects \in BOOLEAN /\ book.ours \in BOOLEAN
      BY <1>5, <2>4 DEF BookContents
    <3> DEFINE filed == book.filed
               objects == book.objects
               ours == book.ours
               B == Blank
    <3>2. SUFFICES [B EXCEPT !.key = Seed.key, !.filed = filed, !.objects = objects, !.ours = ours] \in
                     [key : {Seed.key}, on : {FALSE}, lines : {<<>>},
                      filed : BOOLEAN, objects : BOOLEAN, ours : BOOLEAN]
      OBVIOUS
    <3>3. B \in [key : {Absent}, on : {FALSE}, lines : {<<>>},
                 filed : {FALSE}, objects : {FALSE}, ours : {FALSE}]
      BY <2>2
    <3>4. filed \in BOOLEAN /\ objects \in BOOLEAN /\ ours \in BOOLEAN
      BY <3>1
    <3> HIDE DEF filed, objects, ours, B
    <3>5. QED
      BY <3>3, <3>4
  <2>5. withBook \in [key : {Seed.key}, on : {FALSE}, lines : {<<>>},
                      filed : BOOLEAN, objects : BOOLEAN, ours : BOOLEAN]
    BY <2>3, <2>4 DEF WithBook
  <2> HIDE DEF withBook
  <2>6. QED
    BY <1>3, <2>1, <2>5 DEF MemType
<1>7. /\ mem' \in MemType /\ mem'.key = Seed.key /\ (~ mem'.on => mem'.lines = <<>>)
      /\ history = Absent => ~ mem'.on /\ mem'.lines = <<>>
      /\ history # Absent => mem'.on = history.on /\ mem'.lines = history.lines
  <2>1. CASE history = Absent
    BY <1>1, <1>6, <2>1
  <2>2. CASE history # Absent
    <3>1. /\ history.on \in BOOLEAN /\ history.lines \in Seq(Who)
          /\ ~ history.on => history.lines = <<>>
      BY <1>5, <2>2 DEF RecordContents, HistoryContents
    <3>2. mem' = [withBook EXCEPT !.on = history.on, !.lines = history.lines]
      BY <1>1, <2>2
    <3> HIDE DEF withBook, history
    <3>3. QED
      BY <1>6, <2>2, <3>1, <3>2 DEF MemType
  <2>3. QED
    BY <2>1, <2>2
<1>8. DiskInv' /\ MemInv'
  BY <1>1, <1>3, <1>7 DEF DiskInv, MemInv
<1>9. TodoInv'
  BY <1>1, NoneOf DEF TodoInv, Saving
<1>10. SavingInv' /\ SeedInv'
  BY <1>1, <1>2 DEF SavingInv, SeedInv
<1>11. SeedKept'
  <2>1. SUFFICES ASSUME "seed" \notin behind'
        PROVE  /\ disk["seed"].after = {Seed}
               /\ \E k \in Keys : used' = {k} /\ \A v \in disk["seed"].after : v \in SeedContents /\ v.key = k
    BY <1>1, <1>2 DEF SeedKept
  <2>2. "seed" \notin behind
    BY <1>1, <2>1
  <2>3. disk["seed"].after = {Seed}
    BY <1>1, <1>2, <2>2 DEF SeedKept
  <2>4. used = {} \/ used = {Seed.key}
    BY <2>2, <2>3 DEF SeedKept
  <2>5. used' = {Seed.key}
    BY <1>1, <2>4
  <2>6. QED
    BY <1>3, <2>3, <2>5
<1>12. SealedInv'
  <2>1. SUFFICES ASSUME "seed" \notin behind', NEW f \in {"book", "history"}, NEW v \in disk[f].after
                 PROVE  v = Absent \/ v.key \in used'
    BY <1>1 DEF SealedInv
  <2>2. v = disk[f].is /\ Opens(f)
    BY <1>1, <1>4, <2>1
  <2>3. v # Torn
    BY <1>5, <2>2, KeepingAssumption, StoreAssumption DEF RecordContents
  <2>4. QED
    BY <1>1, <2>2, <2>3 DEF Opens
<1>13. RecordInv'
  <2>1. \A v \in disk'["history"].after : Matches(v)'
    BY <1>1, <1>4, <1>7 DEF Matches
  <2>2. ToSet(todo') = {}
    BY <1>1, NoneOf
  <2>3. QED
    BY <1>1, <2>1, <2>2 DEF RecordInv
<1>14. QED
  BY <1>8, <1>9, <1>10, <1>11, <1>12, <1>13

LEMMA CrashKeeps ==
  ASSUME StoredInv, Crash
  PROVE  StoredInv'
<1> USE DEF StoredInv
<1>1. /\ mode' = "down" /\ mem' = Blank /\ todo' = <<>> /\ at' = 0
      /\ UNCHANGED <<used, said, behind>>
  BY DEF Crash, historyVars
<1>2. PICK left \in [Files -> UNION {Crashed(disk[f]) : f \in Files}] :
        disk' = left /\ \A f \in Files : left[f] \in Crashed(disk[f])
  BY DEF Crash
<1>3. \A f \in Files : \E v \in disk[f].after : disk'[f] = Holding(v)
  BY <1>2 DEF Crashed
<1>4. \A f \in Files : disk[f].after \subseteq Anything
  BY DEF DiskInv, FileType
<1>5. ASSUME NEW f \in Files
      PROVE  disk'[f] \in FileType /\ disk'[f].after = {disk'[f].is} /\ disk'[f].is \in disk[f].after
  BY <1>3, <1>4, Held
<1>6. disk' \in [Files -> FileType]
  BY <1>2, <1>5
<1>7. DiskInv'
  BY <1>5, <1>6 DEF DiskInv, Files
<1>8. Blank \in MemType /\ ~ Blank.on /\ Blank.lines = <<>>
  <2>1. \A a \in BOOLEAN :
          [key |-> Absent, on |-> a, lines |-> <<>>, filed |-> a, objects |-> a, ours |-> a] \in MemType
    BY NoneOf DEF MemType
  <2>2. QED
    BY <2>1 DEF Blank
<1>9. MemInv'
  BY <1>1, <1>8 DEF MemInv
<1>10. ~ Saving' /\ ~ WritesSeed'
  BY <1>1 DEF Saving, WritesSeed
<1>11. TodoInv'
  BY <1>1, <1>5 DEF TodoInv, Files
<1>12. SavingInv' /\ SeedInv' /\ RecordInv'
  BY <1>1, <1>10 DEF SavingInv, SeedInv, RecordInv
<1>13. SeedKept'
  <2>1. disk'["seed"].after = {Seed'} /\ Seed' \in disk["seed"].after
    BY <1>5 DEF Files, Seed
  <2>2. QED
    BY <1>1, <1>10, <2>1 DEF SeedKept
<1>14. SealedInv'
  BY <1>1, <1>5 DEF SealedInv, Files
<1>15. QED
  BY <1>7, <1>9, <1>11, <1>12, <1>13, <1>14

LEMMA DeleteKeeps ==
  ASSUME StoredInv, Delete
  PROVE  StoredInv'
<1> USE DEF StoredInv
<1>1. /\ mode = "down" /\ Seed = Torn /\ disk' = [disk EXCEPT !["seed"] = Holding(Absent)]
      /\ UNCHANGED <<mode, mem, todo, at, used, said, behind>>
  BY DEF Delete, historyVars
<1>2. disk \in [Files -> FileType] /\ todo = <<>>
  BY <1>1 DEF DiskInv, TodoInv
<1>3. Holding(Absent) \in FileType /\ Holding(Absent).is = Absent /\ Holding(Absent).after = {Absent}
  BY Held DEF Anything
<1>4. /\ disk' \in [Files -> FileType] /\ disk'["seed"] = Holding(Absent)
      /\ disk'["book"] = disk["book"] /\ disk'["history"] = disk["history"]
  BY <1>1, <1>2, <1>3 DEF Files
<1>5. DiskInv' /\ MemInv'
  BY <1>1, <1>3, <1>4 DEF DiskInv, MemInv, Files
<1>6. ~ Saving' /\ ~ WritesSeed' /\ ~ WritesSeed
  BY <1>1, <1>2 DEF Saving, WritesSeed
<1>7. TodoInv'
  BY <1>1, <1>4 DEF TodoInv, Saving
<1>8. SavingInv' /\ SeedInv' /\ RecordInv' /\ SealedInv'
  BY <1>1, <1>4, <1>6 DEF SavingInv, SeedInv, RecordInv, SealedInv
<1>9. SeedKept'
  <2>1. Seed' = Absent /\ disk'["seed"].after = {Absent}
    BY <1>3, <1>4 DEF Seed
  <2>2. "seed" \notin behind => used = {}
    BY <1>1, SeedIs DEF SeedKept
  <2>3. QED
    BY <1>1, <1>6, <2>1, <2>2 DEF SeedKept
<1>10. QED
  BY <1>5, <1>7, <1>8, <1>9

-----------------------------------------------------------------------------
(***************************************************************************)
(* What is stored: every step.                                             *)
(***************************************************************************)

LEMMA InitStored == Init => StoredInv
<1> SUFFICES ASSUME Init PROVE StoredInv
  OBVIOUS
<1>1. PICK s \in {Absent, [key |-> Found, as |-> "raw"], [key |-> Found, as |-> "v1"]} :
        disk = [f \in Files |-> Holding(IF f = "seed" THEN s ELSE Absent)]
  BY DEF Init
<1>2. s \in SeedContents \cup {Absent}
  BY <1>1 DEF SeedContents
<1>3. ASSUME NEW f \in Files
      PROVE  LET v == IF f = "seed" THEN s ELSE Absent
             IN  disk[f] \in FileType /\ disk[f].is = v /\ disk[f].after = {v}
  <2> DEFINE v == IF f = "seed" THEN s ELSE Absent
  <2>1. v \in Anything /\ disk[f] = Holding(v)
    BY <1>1, <1>2 DEF Anything
  <2> HIDE DEF v
  <2>2. disk[f] \in FileType /\ disk[f].is = v /\ disk[f].after = {v}
    BY <2>1, Held
  <2>3. QED
    BY <2>2 DEF v
<1>4. DiskInv
  <2>1. disk \in [Files -> FileType]
    <3>1. DOMAIN disk = Files /\ disk = [f \in Files |-> disk[f]]
      BY <1>1
    <3>2. QED
      BY <1>3, <3>1
  <2>2. QED
    BY <1>2, <1>3, <2>1 DEF DiskInv, Files
<1>5. /\ mode = "down" /\ mem = Blank /\ todo = <<>> /\ at = 0 /\ used = {} /\ said = "off"
      /\ behind = {}
  BY DEF Init
<1>6. Blank \in MemType /\ ~ Blank.on /\ Blank.lines = <<>>
  <2>1. \A a \in BOOLEAN :
          [key |-> Absent, on |-> a, lines |-> <<>>, filed |-> a, objects |-> a, ours |-> a] \in MemType
    BY NoneOf DEF MemType
  <2>2. QED
    BY <2>1 DEF Blank
<1>7. MemInv
  BY <1>5, <1>6 DEF MemInv
<1>8. ~ Saving /\ ~ WritesSeed
  BY <1>5 DEF Saving, WritesSeed
<1>9. TodoInv
  BY <1>3, <1>5 DEF TodoInv, Files
<1>10. SavingInv /\ SeedInv /\ RecordInv
  BY <1>5, <1>8 DEF SavingInv, SeedInv, RecordInv
<1>11. SeedKept
  <2>1. disk["seed"].after = {Seed}
    BY <1>3 DEF Files, Seed
  <2>2. QED
    BY <1>5, <1>8, <2>1 DEF SeedKept
<1>12. SealedInv
  BY <1>3 DEF SealedInv, Files
<1>13. QED
  BY <1>4, <1>7, <1>9, <1>10, <1>11, <1>12 DEF StoredInv

\* One step of the program, of the contact or of the machine keeps it.
\* What a handler may have to do.
Doing == Saves \cup Calm \cup Rewriting \cup {CreateSeed}

LEMMA TodoIs ==
  ASSUME TodoInv
  PROVE  /\ todo \in Seq(Doing)
         /\ mode # "up" => Erase \notin ToSet(todo) /\ Close \notin ToSet(todo)
         /\ Saving => Head(todo) # Erase /\ Head(todo) # Close
<1>1. CASE mode = "up"
  <2>1. todo \in Seq(Saves \cup Calm)
    BY <1>1 DEF TodoInv
  <2>2. todo \in Seq(Doing)
    BY <2>1, InSeq, IsASeq, SeqDef DEF Doing
  <2>3. QED
    BY <1>1, <2>2, CalmItems DEF Saving
<1>2. CASE todo = <<>>
  BY <1>2, NoneOf DEF Saving
<1>3. CASE \E s \in Rewriting \cup {CreateSeed} : todo = <<s>>
  <2>1. PICK s \in Rewriting \cup {CreateSeed} : todo = <<s>>
    BY <1>3
  <2>2. /\ todo \in Seq(Doing) /\ Head(todo) = s
        /\ \A y : y \in ToSet(todo) <=> y = s
    BY <2>1, OneOf DEF Doing
  <2>3. s # Erase /\ s # Close
    BY Items, CalmItems
  <2>4. QED
    BY <2>2, <2>3
<1>4. QED
  BY <1>1, <1>2, <1>3 DEF TodoInv

\* A /forget that ends before the erasing leaves the files and the memory.
LEMMA ForgetFailsKeeps ==
  ASSUME StoredInv, ForgetFails
  PROVE  StoredInv'
<1>1. /\ todo = <<Erase, Close>> /\ todo' = <<>> /\ behind' = behind \cup {"objection"}
      /\ UNCHANGED <<disk, mode, mem, at, used, said>>
  BY DEF ForgetFails
<1>2. /\ mem \in MemType /\ (~ mem.on => mem.lines = <<>>)
      /\ todo # <<>> /\ Head(todo) = Erase /\ \A x : x \in ToSet(todo) <=> x \in {Erase, Close}
  <2>1. mem \in MemType /\ (~ mem.on => mem.lines = <<>>)
    BY DEF StoredInv, MemInv
  <2>2. Erase \in Calm /\ Close \in Calm
    BY DEF Calm
  <2>3. /\ todo # <<>> /\ Head(todo) = Erase
        /\ \A x : x \in ToSet(todo) <=> x = Erase \/ x = Close
    BY <1>1, <2>2, TwoOf
  <2>4. QED
    BY <2>1, <2>3
<1>3. ~ Saving
  BY <1>2, CalmItems, Items DEF Saving
<1>4. mode = "up"
  BY <1>2, TodoIs DEF StoredInv
<1>5. Tell(TRUE) \notin ToSet(todo) /\ Tell(FALSE) \notin ToSet(todo)
  BY <1>2, CalmItems
<1>6. (said' = "off" => ~ mem'.on) /\ (said' = "on" => mem'.on)
  <2>1. mem.on \in BOOLEAN
    BY <1>2 DEF MemType
  <2>2. Tell(mem.on) \notin ToSet(todo)
    BY <1>5, <2>1
  <2>3. RecordInv
    BY DEF StoredInv
  <2>4. (said = "off" => ~ mem.on) /\ (said = "on" => mem.on)
    BY <1>4, <2>2, <2>3 DEF RecordInv
  <2>5. QED
    BY <1>1, <2>4
<1>7. todo' \in Seq(Saves \cup Calm) /\ Tell(~ mem'.on) \notin ToSet(todo')
  BY <1>1, NoneOf
<1>8. QED
  BY <1>1, <1>2, <1>3, <1>4, <1>6, <1>7, Works

LEMMA StoredKept ==
  ASSUME StoredInv, [Next]_vars
  PROVE  StoredInv'
<1>1. CASE SaveStep
  <2>1. TodoInv /\ DiskInv /\ MemInv /\ SavingInv /\ SeedInv /\ SeedKept /\ SealedInv /\ RecordInv
    BY DEF StoredInv
  <2>2. DiskInv' /\ MemInv' /\ TodoInv' /\ SavingInv'
    BY <1>1, <2>1, SaveStepKeepsDisk
  <2>3. SeedInv' /\ SeedKept'
    BY <1>1, <2>1, SaveStepKeepsSeed
  <2>4. SealedInv' /\ RecordInv'
    BY <1>1, <2>1, SaveStepKeepsRecord
  <2>5. QED
    BY <2>2, <2>3, <2>4 DEF StoredInv
<1>2. CASE SaveFails \/ ForgetFails
  BY <1>2, SaveFailsKeeps, ForgetFailsKeeps
<1>3. CASE Proceeds
  BY <1>3, ProceedsKeepsStored
<1>4. CASE Types
  BY <1>4, TypesKeepsStored
<1>5. CASE Hears \/ HearsAside
  BY <1>5, HeedsKeeps DEF Hears, HearsAside
<1>6. CASE \/ CallHears \/ Call \/ CallEnds \/ Break \/ TheyHear \/ TheyObject \/ TheySay
           \/ \E caller \in {"us", "them", "nobody"} : Connect(caller)
  BY <1>6, RestKeepsStored
     DEF CallHears, Call, CallEnds, Break, TheyHear, TheyObject, TheySay, Connect, historyVars
<1>7. CASE Start
  BY <1>7, StartKeeps
<1>8. CASE Open
  BY <1>8, OpenKeeps
<1>9. CASE Encrypt \/ Decrypt \/ Restore
  BY <1>9, ToolKeeps
<1>10. CASE ToolEnds
  BY <1>10, ToolEndsKeeps
<1>11. CASE Crash
  BY <1>11, CrashKeeps
<1>12. CASE Delete
  BY <1>12, DeleteKeeps
<1>13. CASE UNCHANGED vars
  BY <1>13, RestKeepsStored DEF vars, historyVars
<1>14. QED
  BY <1>1, <1>2, <1>3, <1>4, <1>5, <1>6, <1>7, <1>8, <1>9, <1>10, <1>11, <1>12, <1>13 DEF Next

-----------------------------------------------------------------------------
(***************************************************************************)
(* The wires.                                                              *)
(***************************************************************************)

LEMMA FrameIs ==
  /\ \A on \in BOOLEAN : Recording(on) \in Frames /\ Recording(on).t = "recording" /\ Recording(on).on = on
  /\ DontRecord \in Frames /\ DontRecord.t = "dont" /\ Line \in Frames /\ Line.t = "line"
  /\ Recording(TRUE) # Recording(FALSE)
  /\ \A frame \in Frames : frame.t = "recording" =>
       frame.on \in BOOLEAN /\ (frame.on <=> frame = Recording(TRUE))
<1>1. /\ Recording(TRUE).t = "recording" /\ Recording(TRUE).on = TRUE
      /\ Recording(FALSE).t = "recording" /\ Recording(FALSE).on = FALSE
      /\ DontRecord.t = "dont" /\ Line.t = "line"
  BY DEF Recording, DontRecord, Line
<1>2. /\ Recording(TRUE) \in Frames /\ Recording(FALSE) \in Frames
      /\ DontRecord \in Frames /\ Line \in Frames
      /\ \A frame \in Frames : frame \in {Recording(TRUE), Recording(FALSE), DontRecord, Line}
  BY DEF Frames
<1>3. Recording(TRUE) # Recording(FALSE)
  BY <1>1
<1>4. ASSUME NEW on \in BOOLEAN
      PROVE  Recording(on) \in Frames /\ Recording(on).t = "recording" /\ Recording(on).on = on
  <2>1. CASE on = TRUE
    BY <1>1, <1>2, <2>1
  <2>2. CASE on = FALSE
    BY <1>1, <1>2, <2>2
  <2>3. QED
    BY <2>1, <2>2
<1>5. ASSUME NEW frame \in Frames, frame.t = "recording"
      PROVE  frame.on \in BOOLEAN /\ (frame.on <=> frame = Recording(TRUE))
  <2>1. frame = Recording(TRUE) \/ frame = Recording(FALSE)
    BY <1>1, <1>2, <1>5
  <2>2. CASE frame = Recording(TRUE)
    BY <1>1, <2>2
  <2>3. CASE frame = Recording(FALSE)
    BY <1>1, <1>3, <2>3
  <2>4. QED
    BY <2>1, <2>2, <2>3
<1>6. QED
  BY <1>1, <1>2, <1>3, <1>4, <1>5

LEMMA CalmSays ==
  ASSUME NEW item \in Calm
  PROVE  /\ item.do = "tell" \/ item.do = "say" => item.value \in Frames
         /\ item.do = "tell" => item.value = Recording(item.value.on) /\ item.value.on \in BOOLEAN
         /\ item.do = "say" => item.value = DontRecord \/ item.value = Recording(FALSE)
<1>1. ASSUME item.do = "tell"
      PROVE  item.value \in Frames /\ item.value = Recording(item.value.on) /\ item.value.on \in BOOLEAN
  <2>1. CASE item = Tell(TRUE)
    BY <2>1, CalmItems, FrameIs
  <2>2. CASE item = Tell(FALSE)
    BY <2>2, CalmItems, FrameIs
  <2>3. QED
    BY <1>1, <2>1, <2>2, CalmItems
<1>2. ASSUME item.do = "say"
      PROVE  item.value = DontRecord \/ item.value = Recording(FALSE)
  <2>1. CASE item = Say(DontRecord)
    BY <2>1, CalmItems
  <2>2. CASE item = Say(Recording(FALSE))
    BY <2>2, CalmItems
  <2>3. QED
    BY <1>2, <2>1, <2>2, CalmItems
<1>3. QED
  BY <1>1, <1>2, FrameIs

\* What is declared on a fresh connection.
LEMMA DeclaredIs ==
  ASSUME mem.ours \in BOOLEAN
  PROVE  /\ Declares \in Seq(Frames)
         /\ mem.on /\ ~ mem.objects =>
              \E rest \in {<<>>, <<DontRecord>>} : Declares = <<Recording(TRUE)>> \o rest
<1> DEFINE told == IF mem.on /\ ~ mem.objects THEN <<Recording(TRUE)>> ELSE <<>>
           rest == IF mem.ours THEN <<DontRecord>> ELSE <<>>
<1>1. told \in Seq(Frames) /\ rest \in Seq(Frames) /\ rest \in {<<>>, <<DontRecord>>}
  BY NoneOf, OneOf, FrameIs
<1>2. Declares = told \o rest /\ (mem.on /\ ~ mem.objects => told = <<Recording(TRUE)>>)
  BY DEF Declares
<1> HIDE DEF told, rest
<1>3. QED
  BY <1>1, <1>2, Joined

\* Where nothing of them moves, a program that runs no more has no connection.
LEMMA WiresLie ==
  ASSUME WireInv, UNCHANGED wires, mode' # "up" => mode # "up"
  PROVE  WireInv'
BY DEF WireInv, wires

\* What every handler leaves alone.
LEMMA HandlerIs ==
  ASSUME NEW m, NEW rest, Handles(m, rest)
  PROVE  /\ mode = "up" /\ mode' = "up" /\ todo = <<>> /\ mem' = m /\ todo' = rest
         /\ said' = said /\ behind' = behind /\ quiet' = quiet
BY DEF Handles, Idle, historyVars

LEMMA HeedsIs ==
  ASSUME NEW frame, Heeds(frame)
  PROVE  mode' = "up" /\ mode = "up"
BY HandlerIs DEF Heeds, Objected, Noted

LEMMA WireKept ==
  ASSUME StoredInv, WireInv, [Next]_vars
  PROVE  WireInv'
<1> DEFINE item == Head(todo)
<1>1. /\ link \in {"none", "idle", "call"} /\ them \in ThemType
      /\ in \in Seq(Frames) /\ out \in Seq(Frames) /\ aside \in Seq(Frames) /\ kept \in Seq(Frames)
      /\ link = "none" => in = <<>> /\ out = <<>>
      /\ mode # "up" => link = "none"
      /\ <<>> \in Seq(Frames)
  BY NoneOf DEF WireInv
<1>2. /\ them.kept \in Seq(Frames) /\ them.objects \in BOOLEAN /\ them.told \in BOOLEAN
      /\ \A s \in Seq(Frames), f \in Frames : Append(s, f) \in Seq(Frames)
      /\ \A s \in Seq(Frames) : s # <<>> => Head(s) \in Frames /\ Tail(s) \in Seq(Frames)
  BY <1>1, Added, Ends DEF ThemType
<1>3. mem \in MemType
  BY DEF StoredInv, MemInv
<1>4. CASE SaveStep \/ ForgetFails
  BY <1>4, WiresLie DEF SaveStep, ForgetFails
<1>5. CASE SaveFails
  <2>1. item.do = "create" => mode # "up"
    BY <1>5, SavingIs, Items DEF SaveFails, StoredInv
  <2>2. QED
    BY <1>5, <2>1, WiresLie DEF SaveFails
<1>6. CASE Proceeds
  <2>1. item \in Calm /\ item.do \in {"tell", "say", "erase", "close"} /\ mode = "up" /\ mode' = "up"
    BY <1>6, ProceedsIs, Items DEF Proceeds
  <2>2. CASE item.do = "erase"
    BY <1>6, <2>1, <2>2, WiresLie DEF Proceeds
  <2>3. CASE item.do = "tell"
    <3>1. /\ UNCHANGED <<link, in, aside, kept, them>>
          /\ out' = out \/ (link # "none" /\ out' = Append(out, item.value))
      BY <1>6, <2>3 DEF Proceeds
    <3>2. item.value \in Frames
      BY <2>1, <2>3, CalmSays
    <3>3. out' \in Seq(Frames)
      BY <1>1, <1>2, <3>1, <3>2
    <3>4. QED
      BY <1>1, <2>1, <3>1, <3>3 DEF WireInv
  <2>4. CASE item.do = "say"
    <3>1. UNCHANGED <<link, in, aside, them>> /\ Sent(item.value)
      BY <1>6, <2>4 DEF Proceeds
    <3>2. item.value \in Frames
      BY <2>1, <2>4, CalmSays
    <3>3. /\ out' \in Seq(Frames) /\ kept' \in Seq(Frames)
          /\ link = "none" => out' = out
      BY <1>1, <1>2, <3>1, <3>2 DEF Sent
    <3>4. QED
      BY <1>1, <2>1, <3>1, <3>3 DEF WireInv
  <2>5. CASE item.do = "close"
    <3>1. /\ link' = "none" /\ in' = <<>> /\ out' = <<>> /\ kept' = <<>>
          /\ UNCHANGED <<aside, them>>
      BY <1>6, <2>5 DEF Proceeds
    <3>2. QED
      BY <1>1, <3>1 DEF WireInv
  <2>6. QED
    BY <2>1, <2>2, <2>3, <2>4, <2>5
<1>7. CASE Types
  <2>1. CASE UNCHANGED wires
    <3>1. mode' = mode
      BY <1>7 DEF Types, HistoryOn, HistoryOff, Add, Forget, WeSay, Elsewhere, HistoryNo, Noted, Handles
    <3>2. QED
      BY <2>1, <3>1, WiresLie
  <2>2. CASE ~ UNCHANGED wires
    <3>1. /\ link = "call" /\ aside' = Append(aside, Line)
          /\ UNCHANGED <<mode, link, in, out, kept, them>>
      BY <1>7, <2>2 DEF Types, HistoryOn, HistoryOff, Add, Forget, WeSay, Elsewhere, HistoryNo
    <3>2. aside' \in Seq(Frames)
      BY <1>1, <1>2, <3>1, FrameIs
    <3>3. QED
      BY <1>1, <3>1, <3>2 DEF WireInv
  <2>3. QED
    BY <2>1, <2>2
<1>8. CASE Hears
  <2>1. in # <<>> /\ in' = Tail(in) /\ mode' = "up" /\ UNCHANGED <<link, out, aside, kept, them>>
    BY <1>8, HeedsIs DEF Hears
  <2>2. in' \in Seq(Frames) /\ link # "none"
    BY <1>1, <1>2, <2>1
  <2>3. QED
    BY <1>1, <2>1, <2>2 DEF WireInv
<1>9. CASE HearsAside
  <2>1. aside # <<>> /\ aside' = Tail(aside) /\ mode' = "up" /\ UNCHANGED <<link, in, out, kept, them>>
    BY <1>9, HeedsIs DEF HearsAside
  <2>2. aside' \in Seq(Frames)
    BY <1>1, <1>2, <2>1
  <2>3. QED
    BY <1>1, <2>1, <2>2 DEF WireInv
<1>10. CASE CallHears
  <2>1. /\ link = "call" /\ in # <<>> /\ in' = Tail(in) /\ aside' = Append(aside, Head(in))
        /\ UNCHANGED <<mode, link, out, kept, them>>
    BY <1>10 DEF CallHears
  <2>2. in' \in Seq(Frames) /\ aside' \in Seq(Frames)
    BY <1>1, <1>2, <2>1
  <2>3. QED
    BY <1>1, <2>1, <2>2 DEF WireInv
<1>11. ASSUME NEW caller \in {"us", "them", "nobody"}, Connect(caller) PROVE WireInv'
  <2> DEFINE ours == IF caller = "us" THEN <<>> ELSE Declares
             theirs == IF them.objects /\ caller # "them" THEN <<DontRecord>> ELSE <<>>
  <2>1. /\ link' \in {"call", "idle"} /\ out' = kept \o ours /\ in' = them.kept \o theirs
        /\ kept' = <<>> /\ them' = [them EXCEPT !.told = FALSE, !.kept = <<>>]
        /\ mode = "up" /\ UNCHANGED <<mode, aside>>
    BY <1>11 DEF Connect, Idle
  <2>2. ours \in Seq(Frames) /\ theirs \in Seq(Frames)
    BY <1>1, <1>3, DeclaredIs, OneOf, FrameIs DEF MemType
  <2> HIDE DEF ours, theirs
  <2>3. out' \in Seq(Frames) /\ in' \in Seq(Frames)
    BY <1>1, <1>2, <2>1, <2>2, Joined
  <2>4. them' \in ThemType
    BY <1>1, <2>1 DEF ThemType
  <2>5. QED
    BY <1>1, <2>1, <2>3, <2>4 DEF WireInv
<1>12. CASE Call \/ CallEnds
  <2>1. link # "none" /\ link' \in {"idle", "call"} /\ UNCHANGED <<mode, in, out, aside, kept, them>>
    BY <1>12 DEF Call, CallEnds
  <2>2. QED
    BY <1>1, <2>1 DEF WireInv
<1>13. CASE Break
  <2>1. link' = "none" /\ in' = <<>> /\ out' = <<>> /\ UNCHANGED <<aside, kept, them>>
    BY <1>13 DEF Break
  <2>2. QED
    BY <1>1, <2>1 DEF WireInv
<1>14. CASE TheyHear
  <2>1. /\ out # <<>> /\ out' = Tail(out) /\ UNCHANGED <<mode, link, in, aside, kept>>
        /\ them' = IF Head(out).t = "recording" THEN [them EXCEPT !.told = Head(out).on] ELSE them
    BY <1>14 DEF TheyHear
  <2>2. out' \in Seq(Frames) /\ link # "none"
    BY <1>1, <1>2, <2>1
  <2>3. them' \in ThemType
    <3>1. Head(out) \in Frames
      BY <1>1, <1>2, <2>1
    <3>2. Head(out).t = "recording" => Head(out).on \in BOOLEAN
      BY <3>1, FrameIs
    <3> DEFINE on == Head(out).on
    <3>3. them' = them \/ (on \in BOOLEAN /\ them' = [them EXCEPT !.told = on])
      BY <2>1, <3>2
    <3> HIDE DEF on
    <3>4. QED
      BY <1>1, <3>3 DEF ThemType
  <2>4. QED
    BY <1>1, <2>1, <2>2, <2>3 DEF WireInv
<1>15. CASE TheyObject
  <2> DEFINE left == IF link = "none" THEN Append(them.kept, DontRecord) ELSE them.kept
  <2>1. /\ in' = IF link # "none" THEN Append(in, DontRecord) ELSE in
        /\ them' = [them EXCEPT !.objects = TRUE, !.kept = left]
        /\ UNCHANGED <<mode, link, out, aside, kept>>
    BY <1>15 DEF TheyObject
  <2>2. in' \in Seq(Frames) /\ left \in Seq(Frames)
    BY <1>1, <1>2, <2>1, FrameIs
  <2> HIDE DEF left
  <2>3. them' \in ThemType
    BY <1>1, <2>1, <2>2 DEF ThemType
  <2>4. QED
    BY <1>1, <2>1, <2>2, <2>3 DEF WireInv
<1>16. CASE TheySay
  <2>1. link # "none" /\ in' = Append(in, Line) /\ UNCHANGED <<mode, link, out, aside, kept, them>>
    BY <1>16 DEF TheySay
  <2>2. in' \in Seq(Frames)
    BY <1>1, <1>2, <2>1, FrameIs
  <2>3. QED
    BY <1>1, <2>1, <2>2 DEF WireInv
<1>17. CASE Start \/ Open \/ Encrypt \/ Decrypt \/ Restore \/ ToolEnds \/ Delete
  <2>1. UNCHANGED wires /\ (mode' # "up" => mode # "up")
    BY <1>17 DEF Start, Open, Encrypt, Decrypt, Restore, Rewrites, ToolEnds, Delete
  <2>2. QED
    BY <2>1, WiresLie
<1>18. CASE Crash
  <2>1. /\ link' = "none" /\ in' = <<>> /\ out' = <<>> /\ aside' = <<>> /\ kept' = <<>>
        /\ them' = them
    BY <1>18 DEF Crash
  <2>2. QED
    BY <1>1, <2>1 DEF WireInv
<1>19. CASE UNCHANGED vars
  BY <1>19, WiresLie DEF vars
<1>20. QED
  BY <1>4, <1>5, <1>6, <1>7, <1>8, <1>9, <1>10, <1>11, <1>12, <1>13, <1>14, <1>15, <1>16,
     <1>17, <1>18, <1>19 DEF Next

-----------------------------------------------------------------------------
(***************************************************************************)
(* Objections: every step.                                                 *)
(***************************************************************************)

\* Whose turn it is to be done with leaves the rest in its order.
LEMMA ErasingTail ==
  ASSUME ErasingInv, NEW S, todo \in Seq(S), todo # <<>>, todo' = Tail(todo),
         mem'.filed = mem.filed, mem'.objects = mem.objects
  PROVE  ErasingInv'
<1>1. /\ Len(todo') = Len(todo) - 1 /\ Len(todo) \in Nat \ {0}
      /\ \A i \in 1 .. Len(todo') : todo'[i] = todo[i + 1]
  BY Ends
<1>2. SUFFICES ASSUME NEW i \in 1 .. Len(todo'), todo'[i] = Erase, ~ (mem.filed /\ mem.objects)
               PROVE  ~ mem.filed /\ \E j \in 1 .. Len(todo') : j > i /\ todo'[j] = Close
  BY DEF ErasingInv
<1>3. i + 1 \in 1 .. Len(todo) /\ todo[i + 1] = Erase
  BY <1>1, <1>2
<1>4. ~ mem.filed /\ \E j \in 1 .. Len(todo) : j > i + 1 /\ todo[j] = Close
  BY <1>2, <1>3 DEF ErasingInv
<1>5. PICK j \in 1 .. Len(todo) : j > i + 1 /\ todo[j] = Close
  BY <1>4
<1>6. j - 1 \in 1 .. Len(todo') /\ j - 1 > i /\ todo'[j - 1] = Close
  <2>1. j - 1 \in 1 .. Len(todo') /\ j - 1 > i /\ (j - 1) + 1 = j
    BY <1>1, <1>2, <1>5
  <2>2. todo'[j - 1] = todo[(j - 1) + 1]
    BY <1>1, <2>1
  <2>3. QED
    BY <1>5, <2>1, <2>2
<1>7. QED
  BY <1>4, <1>6

\* A save of the record, first.
LEMMA ErasingPushed ==
  ASSUME ErasingInv, NEW S, todo \in Seq(S), todo # <<>>,
         Save("history") \in S, todo' = <<Save("history")>> \o Tail(todo),
         mem'.filed = mem.filed, mem'.objects = mem.objects
  PROVE  ErasingInv'
<1>1. /\ Len(Tail(todo)) = Len(todo) - 1 /\ Len(todo) \in Nat \ {0} /\ Tail(todo) \in Seq(S)
      /\ \A i \in 1 .. Len(Tail(todo)) : Tail(todo)[i] = todo[i + 1]
  BY Ends
<1>2. /\ <<Save("history")>> \in Seq(S) /\ Len(<<Save("history")>>) = 1
      /\ <<Save("history")>>[1] = Save("history")
  BY OneOf
<1>3. /\ Len(todo') = Len(todo) /\ todo'[1] = Save("history")
      /\ \A i \in 1 .. Len(Tail(todo)) : todo'[1 + i] = todo[i + 1]
  <2>1. /\ Len(todo') = 1 + Len(Tail(todo))
        /\ \A i \in 1 .. 1 : todo'[i] = <<Save("history")>>[i]
        /\ \A i \in 1 .. Len(Tail(todo)) : todo'[1 + i] = Tail(todo)[i]
    BY <1>1, <1>2, Joined
  <2>2. QED
    BY <1>1, <1>2, <2>1
<1>4. \A i \in 1 .. Len(todo) : i > 1 => todo'[i] = todo[i]
  <2>1. ASSUME NEW i \in 1 .. Len(todo), i > 1 PROVE todo'[i] = todo[i]
    <3>1. i - 1 \in 1 .. Len(Tail(todo)) /\ 1 + (i - 1) = i /\ (i - 1) + 1 = i
      BY <1>1, <2>1
    <3>2. todo'[1 + (i - 1)] = todo[(i - 1) + 1]
      BY <1>3, <3>1
    <3>3. QED
      BY <3>1, <3>2
  <2>2. QED
    BY <2>1
<1>5. Save("history") # Erase
  BY CalmItems, Items DEF Saves
<1>6. SUFFICES ASSUME NEW i \in 1 .. Len(todo'), todo'[i] = Erase, ~ (mem.filed /\ mem.objects)
               PROVE  ~ mem.filed /\ \E j \in 1 .. Len(todo') : j > i /\ todo'[j] = Close
  BY DEF ErasingInv
<1>7. i \in 1 .. Len(todo) /\ i > 1 /\ todo[i] = Erase
  BY <1>1, <1>3, <1>4, <1>5, <1>6
<1>8. ~ mem.filed /\ \E j \in 1 .. Len(todo) : j > i /\ todo[j] = Close
  BY <1>6, <1>7 DEF ErasingInv
<1>9. PICK j \in 1 .. Len(todo) : j > i /\ todo[j] = Close
  BY <1>8
<1>10. j \in 1 .. Len(todo') /\ todo'[j] = Close
  BY <1>3, <1>4, <1>7, <1>9
<1>11. QED
  BY <1>8, <1>9, <1>10

\* What is erased is of one who objects, or is going.
LEMMA ErasedIs ==
  ASSUME ErasingInv, NEW S, todo \in Seq(S), Erase \in ToSet(todo)
  PROVE  IF mem.filed THEN mem.objects ELSE Close \in ToSet(todo)
BY InSeq DEF ErasingInv

\* An objection that is on its way stays on its way, and what is done of it is
\* done, where no frame is taken and nothing of the memory is changed.
LEMMA ObjectionStays ==
  ASSUME ClosedInv, ClosingInv, HeardInv, ErasingInv',
         mem' = mem, "them" \in quiet' <=> "them" \in quiet,
         link' # "none" => link # "none", them'.objects = them.objects,
         DontRecord \in ToSet(in) => DontRecord \in ToSet(in') \/ DontRecord \in ToSet(aside'),
         DontRecord \in ToSet(aside) => DontRecord \in ToSet(aside'),
         "objection" \in behind => "objection" \in behind',
         Erase \in ToSet(todo) => Erase \in ToSet(todo') \/ "objection" \in behind',
         Close \in ToSet(todo) => Close \in ToSet(todo') \/ "objection" \in behind',
         Close \in ToSet(todo') => Close \in ToSet(todo)
  PROVE  ObjectionInv'
<1>1. ClosedInv' /\ ClosingInv'
  BY DEF ClosedInv, ClosingInv
<1>2. HeardInv'
  BY DEF HeardInv, Heeded
<1>3. QED
  BY <1>1, <1>2 DEF ObjectionInv

\* Nobody is connected, and no handler is at work on it.
LEMMA NoneConnected ==
  ASSUME link' = "none", Erase \notin ToSet(todo'), Close \notin ToSet(todo'), NEW S, todo' \in Seq(S)
  PROVE  ObjectionInv'
BY InSeq DEF ObjectionInv, ClosedInv, ClosingInv, ErasingInv, HeardInv

\* A handler that marks nobody, and adds no line of one who objects.
LEMMA HandlerKeeps ==
  ASSUME ObjectionInv, NEW m, NEW rest, Handles(m, rest), Orderly(rest),
         Erase \notin ToSet(rest), Close \notin ToSet(rest),
         m.filed = mem.filed, m.objects = mem.objects,
         mem.objects /\ "them" \notin ToSet(mem.lines) => "them" \notin ToSet(m.lines),
         link' = link, them' = them,
         DontRecord \in ToSet(in) => DontRecord \in ToSet(in'),
         DontRecord \in ToSet(aside) => DontRecord \in ToSet(aside')
  PROVE  ObjectionInv'
<1>1. /\ todo = <<>> /\ mem' = m /\ todo' = rest
      /\ behind' = behind /\ quiet' = quiet
  BY HandlerIs
<1>2. ToSet(todo) = {}
  BY <1>1, NoneOf
<1>3. ErasingInv'
  BY <1>1, InSeq DEF ErasingInv, Orderly
<1>4. ClosedInv' /\ ClosingInv'
  BY <1>1, <1>2 DEF ObjectionInv, ClosedInv, ClosingInv
<1>5. HeardInv'
  BY <1>1, <1>2 DEF ObjectionInv, HeardInv, Heeded
<1>6. QED
  BY <1>3, <1>4, <1>5 DEF ObjectionInv

LEMMA SaveStepHeeds ==
  ASSUME StoredInv, ObjectionInv, SaveStep
  PROVE  ObjectionInv'
<1>1. /\ Saving /\ UNCHANGED <<mem, link, in, aside, them, quiet>>
      /\ todo' = todo \/ todo' = Tail(todo)
      /\ \E f \in Files : behind' = behind \ {f} \/ behind' = behind
  BY SavingIs DEF SaveStep, wires, StoredInv
<1>2. /\ todo \in Seq(Doing) /\ todo # <<>> /\ Head(todo) # Erase /\ Head(todo) # Close
  BY <1>1, TodoIs DEF StoredInv, Saving
<1>3. /\ Erase \in ToSet(todo) <=> Erase \in ToSet(todo')
      /\ Close \in ToSet(todo) <=> Close \in ToSet(todo')
  BY <1>1, <1>2, Ends
<1>4. "objection" \in behind <=> "objection" \in behind'
  BY <1>1 DEF Files
<1>5. ErasingInv'
  <2>1. CASE todo' = todo
    BY <1>1, <2>1 DEF ObjectionInv, ErasingInv
  <2>2. CASE todo' = Tail(todo)
    BY <1>1, <1>2, <2>2, ErasingTail DEF ObjectionInv
  <2>3. QED
    BY <1>1, <2>1, <2>2
<1>6. QED
  BY <1>1, <1>3, <1>4, <1>5, ObjectionStays DEF ObjectionInv

\* A handler that ends before it has erased, or closed, has it noted.
LEMMA SaveFailsHeeds ==
  ASSUME StoredInv, ObjectionInv, SaveFails
  PROVE  ObjectionInv'
<1>1. /\ Saving /\ UNCHANGED <<mem, link, in, aside, them, quiet>> /\ behind \subseteq behind'
      /\ \/ todo' = Tail(todo)
         \/ /\ todo' = <<>>
            /\ Erase \in ToSet(todo) \/ Close \in ToSet(todo) => "objection" \in behind'
  BY DEF SaveFails, wires
<1>2. /\ todo \in Seq(Doing) /\ todo # <<>> /\ Head(todo) # Erase /\ Head(todo) # Close
  BY <1>1, TodoIs DEF StoredInv, Saving
<1>3. CASE todo' = Tail(todo)
  <2>1. /\ Erase \in ToSet(todo) <=> Erase \in ToSet(todo')
        /\ Close \in ToSet(todo) <=> Close \in ToSet(todo')
    BY <1>2, <1>3, Ends
  <2>2. ErasingInv'
    BY <1>1, <1>2, <1>3, ErasingTail DEF ObjectionInv
  <2>3. QED
    BY <1>1, <2>1, <2>2, ObjectionStays DEF ObjectionInv
<1>4. CASE /\ todo' = <<>>
           /\ Erase \in ToSet(todo) \/ Close \in ToSet(todo) => "objection" \in behind'
  <2>1. ToSet(todo') = {} /\ Len(todo') = 0
    BY <1>4, NoneOf
  <2>2. ErasingInv'
    BY <2>1 DEF ErasingInv
  <2>3. QED
    BY <1>1, <1>4, <2>1, <2>2, ObjectionStays DEF ObjectionInv
<1>5. QED
  BY <1>1, <1>3, <1>4

LEMMA ForgetFailsHeeds ==
  ASSUME StoredInv, ObjectionInv, ForgetFails
  PROVE  ObjectionInv'
<1>1. /\ todo' = <<>> /\ "objection" \in behind'
      /\ UNCHANGED <<mem, link, in, aside, them, quiet>>
  BY DEF ForgetFails, wires
<1>2. ToSet(todo') = {} /\ Len(todo') = 0
  BY <1>1, NoneOf
<1>3. ErasingInv'
  BY <1>2 DEF ErasingInv
<1>4. QED
  BY <1>1, <1>2, <1>3, ObjectionStays DEF ObjectionInv

\* Erased, of one who objects nothing is kept.
LEMMA ProceedsHeeds ==
  ASSUME StoredInv, ObjectionInv, Proceeds
  PROVE  ObjectionInv'
<1> DEFINE item == Head(todo)
           left == Others(mem.lines)
<1>1. /\ todo # <<>> /\ todo \in Seq(Saves \cup Calm) /\ item \in Calm /\ Tail(todo) \in Seq(Calm)
      /\ item \in ToSet(todo) /\ ToSet(Tail(todo)) \subseteq ToSet(todo)
      /\ \A x \in ToSet(todo) : x = item \/ x \in ToSet(Tail(todo))
  BY ProceedsIs
<1>2. item.do \in {"tell", "say", "erase", "close"}
  BY <1>1, Items
<1>3. mem \in MemType
  BY DEF StoredInv, MemInv
<1>4. CASE item.do = "erase"
  <2>1. /\ mem' = [mem EXCEPT !.lines = left] /\ behind' = behind \ {"objection"}
        /\ todo' = IF left = mem.lines THEN Tail(todo) ELSE <<Save("history")>> \o Tail(todo)
        /\ UNCHANGED <<link, in, aside, them, quiet>>
    BY <1>4 DEF Proceeds, wires
  <2>2. mem'.filed = mem.filed /\ mem'.objects = mem.objects /\ mem'.lines = left
    BY <1>3, <2>1 DEF MemType
  <2>3. "them" \notin ToSet(left)
    BY <1>3, OthersLeft DEF MemType
  <2>4. item = Erase
    BY <1>1, <1>4, CalmItems
  <2>5. IF mem.filed THEN mem.objects ELSE Close \in ToSet(todo)
    BY <1>1, <2>4, ErasedIs DEF ObjectionInv
  <2>6. Save("history") \in Saves \cup Calm /\ Save("history") # Close /\ Erase # Close
    BY CalmItems, Items DEF Saves
  <2>7. \A x : x \in ToSet(todo') => x \in ToSet(Tail(todo)) \/ x = Save("history")
    <3>1. \A x : x \in ToSet(<<Save("history")>> \o Tail(todo)) <=>
                   x = Save("history") \/ x \in ToSet(Tail(todo))
      <4>1. Tail(todo) \in Seq(Saves \cup Calm)
        BY <1>1, Ends
      <4>2. QED
        BY <2>6, <4>1, Pushed
    <3>2. QED
      BY <2>1, <3>1
  <2>8. \A x : x \in ToSet(Tail(todo)) => x \in ToSet(todo')
    <3>1. \A x : x \in ToSet(<<Save("history")>> \o Tail(todo)) <=>
                   x = Save("history") \/ x \in ToSet(Tail(todo))
      <4>1. Tail(todo) \in Seq(Saves \cup Calm)
        BY <1>1, Ends
      <4>2. QED
        BY <2>6, <4>1, Pushed
    <3>2. QED
      BY <2>1, <3>1
  <2>9. ErasingInv'
    <3>1. CASE todo' = Tail(todo)
      BY <1>1, <2>2, <3>1, ErasingTail DEF ObjectionInv
    <3>2. CASE todo' = <<Save("history")>> \o Tail(todo)
      BY <1>1, <2>2, <2>6, <3>2, ErasingPushed DEF ObjectionInv
    <3>3. QED
      BY <2>1, <3>1, <3>2
  <2>10. ClosedInv'
    BY <1>1, <2>2, <2>4, <2>5, <2>6, <2>8 DEF ClosedInv
  <2>11. ClosingInv'
    BY <1>1, <2>2, <2>6, <2>7 DEF ClosingInv, ObjectionInv
  <2>12. HeardInv'
    BY <2>2, <2>3, <2>5 DEF HeardInv, Heeded
  <2>13. QED
    BY <2>9, <2>10, <2>11, <2>12 DEF ObjectionInv
<1>5. CASE item.do # "erase"
  <2>1. /\ mem' = mem /\ behind' = behind /\ todo' = Tail(todo)
        /\ them' = them /\ aside' = aside
    BY <1>2, <1>5 DEF Proceeds, Sent
  <2>2. item # Erase
    BY <1>5, CalmItems
  <2>3. ErasingInv'
    BY <1>1, <2>1, ErasingTail DEF ObjectionInv
  <2>4. CASE item.do = "close"
    <3>1. link' = "none"
      BY <2>4 DEF Proceeds
    <3>2. QED
      BY <1>1, <2>1, <2>3, <3>1 DEF ObjectionInv, ClosedInv, ClosingInv, HeardInv
  <2>5. CASE item.do # "close"
    <3>1. link' = link /\ in' = in /\ ("them" \in quiet' <=> "them" \in quiet)
      <4>1. CASE item.do = "tell"
        BY <4>1 DEF Proceeds
      <4>2. CASE item.do = "say"
        <5>1. link' = link /\ in' = in /\ (quiet' = quiet \cup {"us"} \/ quiet' = quiet)
          BY <4>2 DEF Proceeds
        <5>2. QED
          BY <5>1
      <4>3. QED
        BY <1>2, <1>5, <2>5, <4>1, <4>2
    <3>2. item # Close
      BY <2>5, CalmItems
    <3>3. QED
      BY <1>1, <2>1, <2>2, <2>3, <3>1, <3>2, ObjectionStays DEF ObjectionInv
  <2>6. QED
    BY <2>4, <2>5
<1>6. QED
  BY <1>4, <1>5

LEMMA HandlerMem ==
  ASSUME StoredInv
  PROVE  /\ mem \in MemType /\ mem.on \in BOOLEAN /\ mem.lines \in Seq(Who)
         /\ mem.filed \in BOOLEAN /\ mem.objects \in BOOLEAN /\ mem.ours \in BOOLEAN
BY DEF StoredInv, MemInv, MemType

LEMMA ItemsApart ==
  /\ Save("book") \in Saves /\ Save("history") \in Saves
  /\ \A on \in BOOLEAN : Tell(on) \in Calm /\ Tell(on) # Erase /\ Tell(on) # Close
  /\ Erase \in Calm /\ Close \in Calm /\ Erase # Close
  /\ \A x \in Saves : x # Erase /\ x # Close
  /\ \A x \in Calm : x.do = "say" => x # Erase /\ x # Close
BY CalmItems, Items DEF Saves, Calm

\* Nothing they say is added for one who objects.
LEMMA NotedHeeds ==
  ASSUME StoredInv, ObjectionInv, NEW who \in Who, Noted(who),
         link' = link, them' = them,
         DontRecord \in ToSet(in) => DontRecord \in ToSet(in'),
         DontRecord \in ToSet(aside) => DontRecord \in ToSet(aside')
  PROVE  ObjectionInv'
<1>1. CASE mem.on /\ ~ Objects(who)
  <2> DEFINE lines == Trim(Append(mem.lines, who))
             m == [mem EXCEPT !.lines = lines]
             rest == <<Save("history")>>
  <2>1. Handles(m, rest) /\ rest = <<Save("history")>>
    BY <1>1 DEF Noted
  <2>2. m.filed = mem.filed /\ m.objects = mem.objects /\ m.lines = lines
    BY HandlerMem DEF MemType
  <2>3. \A w \in ToSet(lines) : w \in ToSet(mem.lines) \/ w = who
    BY HandlerMem, Trimmed
  <2>4. who = "them" => ~ mem.objects
    BY <1>1 DEF Objects
  <2> HIDE DEF lines, m, rest
  <2>5. Orderly(rest) /\ Erase \notin ToSet(rest) /\ Close \notin ToSet(rest)
    BY <2>1, ItemsApart, RestOne
  <2>6. QED
    BY <2>1, <2>2, <2>3, <2>4, <2>5, HandlerKeeps
<1>2. CASE ~ (mem.on /\ ~ Objects(who))
  <2>1. Handles(mem, <<>>)
    BY <1>2 DEF Noted
  <2>2. Orderly(<<>>) /\ ToSet(<<>>) = {}
    BY NoneOf DEF Orderly
  <2>3. QED
    BY <2>1, <2>2, HandlerKeeps
<1>3. QED
  BY <1>1, <1>2

\* One who objects is marked, and what is kept of them is to be erased.
LEMMA ObjectedHeeds ==
  ASSUME StoredInv, ObjectionInv, mem.filed, Objected, link' = link
  PROVE  ObjectionInv'
<1> DEFINE m == [mem EXCEPT !.objects = TRUE]
           marked == ~ mem.objects
           rest == Marks(marked) \o <<Erase>>
<1>1. Handles(m, rest) /\ rest = Marks(marked) \o <<Erase>> /\ marked \in BOOLEAN
  BY DEF Objected
<1>2. m.filed /\ m.objects
  BY HandlerMem DEF MemType
<1> HIDE DEF m, marked, rest
<1>3. /\ Orderly(rest) /\ Erase \in ToSet(rest)
      /\ \A z \in ToSet(rest) : z = Erase \/ z = Save("book")
  <2>1. Erase \in Calm
    BY ItemsApart
  <2>2. QED
    BY <1>1, <2>1, RestMarked, ZenonT(40)
<1>4. mem' = m /\ todo' = rest /\ behind' = behind
  BY <1>1, HandlerIs
<1>5. Erase \in ToSet(todo') /\ Close \notin ToSet(todo')
  BY <1>3, <1>4, ItemsApart
<1>6. ClosedInv' /\ ClosingInv' /\ ErasingInv'
  BY <1>2, <1>4, <1>5 DEF ClosedInv, ClosingInv, ErasingInv
<1>7. HeardInv'
  BY <1>2, <1>4, <1>5 DEF HeardInv, Heeded
<1>8. QED
  BY <1>6, <1>7 DEF ObjectionInv

\* A frame that is no objection.
LEMMA OtherHeeds ==
  ASSUME StoredInv, ObjectionInv, NEW frame \in Frames, Heeds(frame), frame # DontRecord,
         link' = link, them' = them,
         DontRecord \in ToSet(in) => DontRecord \in ToSet(in'),
         DontRecord \in ToSet(aside) => DontRecord \in ToSet(aside')
  PROVE  ObjectionInv'
<1>1. frame.t # "dont"
  <2>1. frame \in {Recording(TRUE), Recording(FALSE), Line}
    BY DEF Frames
  <2>2. QED
    BY <2>1, FrameIs
<1>2. CASE frame.t = "line"
  <2>1. Noted("them") /\ "them" \in Who
    BY <1>2 DEF Heeds, Who
  <2>2. QED
    BY <2>1, NotedHeeds
<1>3. CASE frame.t # "line"
  <2>1. Handles(mem, <<>>)
    BY <1>1, <1>3 DEF Heeds
  <2>2. Orderly(<<>>) /\ ToSet(<<>>) = {}
    BY NoneOf DEF Orderly
  <2>3. QED
    BY <2>1, <2>2, HandlerKeeps
<1>4. QED
  BY <1>2, <1>3

\* An objection of somebody not in the book is dropped: nothing is kept.
LEMMA DroppedHeeds ==
  ASSUME StoredInv, ObjectionInv, Handles(mem, <<>>), ~ mem.filed, link' = link
  PROVE  ObjectionInv'
<1>1. todo = <<>> /\ mem' = mem /\ todo' = <<>> /\ behind' = behind
  BY HandlerIs
<1>2. ToSet(todo) = {} /\ ToSet(todo') = {} /\ Len(todo') = 0
  BY <1>1, NoneOf
<1>3. QED
  BY <1>1, <1>2 DEF ObjectionInv, ClosedInv, ClosingInv, ErasingInv, HeardInv

LEMMA HearsHeeds ==
  ASSUME StoredInv, WireInv, ObjectionInv, Hears \/ HearsAside
  PROVE  ObjectionInv'
<1>1. in \in Seq(Frames) /\ aside \in Seq(Frames)
  BY DEF WireInv
<1>2. PICK frame \in Frames :
        /\ Heeds(frame) /\ link' = link /\ them' = them
        /\ frame # DontRecord =>
             /\ DontRecord \in ToSet(in) => DontRecord \in ToSet(in')
             /\ DontRecord \in ToSet(aside) => DontRecord \in ToSet(aside')
  <2>1. CASE Hears
    <3>1. in # <<>> /\ Heeds(Head(in)) /\ in' = Tail(in) /\ UNCHANGED <<link, aside, them>>
      BY <2>1 DEF Hears
    <3>2. Head(in) \in Frames /\ \A x \in ToSet(in) : x = Head(in) \/ x \in ToSet(Tail(in))
      BY <1>1, <3>1, Ends
    <3>3. QED
      BY <3>1, <3>2
  <2>2. CASE HearsAside
    <3>1. aside # <<>> /\ Heeds(Head(aside)) /\ aside' = Tail(aside) /\ UNCHANGED <<link, in, them>>
      BY <2>2 DEF HearsAside
    <3>2. Head(aside) \in Frames /\ \A x \in ToSet(aside) : x = Head(aside) \/ x \in ToSet(Tail(aside))
      BY <1>1, <3>1, Ends
    <3>3. QED
      BY <3>1, <3>2
  <2>3. QED
    BY <2>1, <2>2
<1>3. CASE frame # DontRecord
  BY <1>2, <1>3, OtherHeeds
<1>4. CASE frame = DontRecord /\ mem.filed
  <2>1. Objected
    BY <1>2, <1>4, FrameIs DEF Heeds
  <2>2. QED
    BY <1>2, <1>4, <2>1, ObjectedHeeds
<1>5. CASE frame = DontRecord /\ ~ mem.filed
  <2>1. Handles(mem, <<>>)
    BY <1>2, <1>5, FrameIs DEF Heeds
  <2>2. QED
    BY <1>2, <1>5, <2>1, DroppedHeeds
<1>6. QED
  BY <1>3, <1>4, <1>5

LEMMA TypesHeeds ==
  ASSUME StoredInv, WireInv, ObjectionInv, Types
  PROVE  ObjectionInv'
<1>1. ASSUME NEW on \in BOOLEAN, Handles(Set(on), <<Save("history"), Tell(on)>>), UNCHANGED wires
      PROVE  ObjectionInv'
  <2> DEFINE m == Set(on)
             rest == <<Save("history"), Tell(on)>>
  <2>1. m.filed = mem.filed /\ m.objects = mem.objects /\ (m.lines = mem.lines \/ m.lines = <<>>)
    BY HandlerMem DEF MemType, Set
  <2>2. "them" \notin ToSet(mem.lines) => "them" \notin ToSet(m.lines)
    BY <2>1, NoneOf
  <2>3. Handles(m, rest) /\ rest = <<Save("history"), Tell(on)>>
    BY <1>1
  <2>4. UNCHANGED <<link, them, in, aside>>
    BY <1>1 DEF wires
  <2> HIDE DEF m, rest
  <2>5. Orderly(rest) /\ Erase \notin ToSet(rest) /\ Close \notin ToSet(rest)
    BY <2>3, ItemsApart, RestTwo
  <2>6. QED
    BY <2>1, <2>2, <2>3, <2>4, <2>5, HandlerKeeps
<1>2. CASE HistoryOn \/ HistoryOff
  BY <1>1, <1>2 DEF HistoryOn, HistoryOff
<1>3. CASE Add
  <2>1. ~ mem.filed /\ Handles([mem EXCEPT !.filed = TRUE], <<Save("book")>>) /\ UNCHANGED wires
    BY <1>3 DEF Add
  <2>2. todo = <<>> /\ todo' = <<Save("book")>> /\ behind' = behind /\ link' = link
    BY <2>1, HandlerIs DEF wires
  <2>3. ToSet(todo) = {}
    BY <2>2, NoneOf
  <2>4. Orderly(todo') /\ Erase \notin ToSet(todo') /\ Close \notin ToSet(todo')
    BY <2>2, ItemsApart, RestOne
  <2>5. link # "none" => "objection" \in behind
    BY <2>1, <2>3 DEF ObjectionInv, ClosedInv
  <2>6. ErasingInv'
    BY <2>4, InSeq DEF ErasingInv, Orderly
  <2>7. QED
    BY <2>2, <2>4, <2>5, <2>6 DEF ObjectionInv, ClosedInv, ClosingInv, HeardInv
<1>4. CASE Forget
  <2> DEFINE m == [mem EXCEPT !.filed = FALSE, !.objects = FALSE, !.ours = FALSE]
             rest == <<Save("book"), Erase, Close>>
  <2>1. Handles(m, rest) /\ rest = <<Save("book"), Erase, Close>>
    BY <1>4 DEF Forget
  <2>2. todo' = rest /\ mem'.filed = FALSE
    <3>1. m.filed = FALSE
      BY HandlerMem DEF MemType
    <3> HIDE DEF m, rest
    <3>2. QED
      BY <2>1, <3>1, HandlerIs
  <2>3. Len(rest) = 3 /\ rest[1] = Save("book") /\ rest[2] = Erase /\ rest[3] = Close
    OBVIOUS
  <2> HIDE DEF rest
  <2>4. Close \in ToSet(todo')
    BY <2>1, <2>2, ItemsApart, RestThree
  <2>5. ErasingInv'
    <3>1. \A i \in 1 .. 3 : rest[i] = Erase => i = 2
      BY <2>3, ItemsApart
    <3>2. QED
      BY <2>2, <2>3, <3>1 DEF ErasingInv
  <2>6. QED
    BY <2>2, <2>4, <2>5 DEF ObjectionInv, ClosedInv, ClosingInv, HeardInv
<1>5. ASSUME NEW objecting \in BOOLEAN, HistoryNo(objecting) PROVE ObjectionInv'
  <2> DEFINE m == [mem EXCEPT !.ours = objecting]
             marked == mem.ours # objecting
             says == Say(IF objecting THEN DontRecord ELSE Recording(FALSE))
             rest == Marks(marked) \o <<says>>
  <2>1. m.filed = mem.filed /\ m.objects = mem.objects /\ m.lines = mem.lines
    BY HandlerMem DEF MemType
  <2>2. says \in Calm /\ says.do = "say"
    BY CalmItems DEF Calm
  <2>3. marked \in BOOLEAN
    OBVIOUS
  <2>4. Handles(m, rest) /\ rest = Marks(marked) \o <<says>> /\ UNCHANGED <<link, them, in, aside>>
    BY <1>5 DEF HistoryNo, wires
  <2> HIDE DEF m, marked, says, rest
  <2>5. Orderly(rest) /\ \A z \in ToSet(rest) : z = says \/ z = Save("book")
    BY <2>2, <2>3, <2>4, RestMarked
  <2>6. Erase \notin ToSet(rest) /\ Close \notin ToSet(rest)
    BY <2>2, <2>5, ItemsApart
  <2>7. QED
    BY <2>1, <2>4, <2>5, <2>6, HandlerKeeps
<1>6. CASE WeSay
  <2>1. CASE Noted("them") /\ UNCHANGED wires
    BY <2>1, NotedHeeds DEF Who, wires
  <2>2. CASE aside' = Append(aside, Line) /\ UNCHANGED <<mem, todo, link, in, them, historyVars>>
    <3>1. DontRecord \in ToSet(aside) => DontRecord \in ToSet(aside')
      BY <2>2, Added, FrameIs DEF WireInv
    <3>2. ErasingInv'
      BY <2>2 DEF ErasingInv, ObjectionInv
    <3>3. QED
      BY <2>2, <3>1, <3>2, ObjectionStays DEF ObjectionInv, historyVars
  <2>3. QED
    BY <1>6, <2>1, <2>2 DEF WeSay
<1>7. CASE Elsewhere
  BY <1>7, NotedHeeds DEF Elsewhere, Who, wires
<1>8. QED
  BY <1>2, <1>3, <1>4, <1>5, <1>6, <1>7 DEF Types

LEMMA ConnectHeeds ==
  ASSUME StoredInv, WireInv, NEW caller \in {"us", "them", "nobody"}, Connect(caller)
  PROVE  ObjectionInv'
<1> DEFINE theirs == IF them.objects /\ caller # "them" THEN <<DontRecord>> ELSE <<>>
<1>1. /\ mode = "up" /\ todo = <<>> /\ todo' = <<>> /\ mem' = mem /\ mem.filed
      /\ in' = them.kept \o theirs
      /\ them' = [them EXCEPT !.told = FALSE, !.kept = <<>>]
      /\ "them" \notin quiet' => caller # "them"
  BY DEF Connect, Idle
<1>2. ToSet(todo') = {} /\ Len(todo') = 0
  BY <1>1, NoneOf
<1>3. them'.objects = them.objects /\ them.kept \in Seq(Frames)
  BY <1>1 DEF WireInv, ThemType
<1>4. them.objects /\ caller # "them" => DontRecord \in ToSet(in')
  <2>1. SUFFICES ASSUME them.objects, caller # "them" PROVE DontRecord \in ToSet(in')
    OBVIOUS
  <2>2. in' = them.kept \o <<DontRecord>>
    BY <1>1, <2>1
  <2>3. <<DontRecord>> \in Seq(Frames) /\ DontRecord \in ToSet(<<DontRecord>>)
    BY OneOf, FrameIs
  <2>4. QED
    BY <1>3, <2>2, <2>3, Joined
<1>5. QED
  BY <1>1, <1>2, <1>3, <1>4 DEF ObjectionInv, ClosedInv, ClosingInv, ErasingInv, HeardInv

LEMMA ObjectionKept ==
  ASSUME StoredInv, WireInv, ObjectionInv, [Next]_vars
  PROVE  ObjectionInv'
<1>1. in \in Seq(Frames) /\ aside \in Seq(Frames) /\ (mode # "up" => link = "none")
  BY DEF WireInv
<1>2. CASE SaveStep
  BY <1>2, SaveStepHeeds
<1>3. CASE SaveFails \/ ForgetFails
  BY <1>3, SaveFailsHeeds, ForgetFailsHeeds
<1>4. CASE Proceeds
  BY <1>4, ProceedsHeeds
<1>5. CASE Types
  BY <1>5, TypesHeeds
<1>6. CASE Hears \/ HearsAside
  BY <1>6, HearsHeeds
<1>7. ASSUME UNCHANGED <<mem, todo, behind, quiet>>, link' # "none" => link # "none",
             them'.objects = them.objects,
             DontRecord \in ToSet(in) => DontRecord \in ToSet(in') \/ DontRecord \in ToSet(aside'),
             DontRecord \in ToSet(aside) => DontRecord \in ToSet(aside')
      PROVE  ObjectionInv'
  <2>1. ErasingInv'
    BY <1>7 DEF ObjectionInv, ErasingInv
  <2>2. QED
    BY <1>7, <2>1, ObjectionStays DEF ObjectionInv
<1>8. CASE CallHears
  <2>1. /\ in # <<>> /\ in' = Tail(in) /\ aside' = Append(aside, Head(in))
        /\ UNCHANGED <<mem, todo, link, them, behind, quiet>>
    BY <1>8 DEF CallHears, historyVars
  <2>2. Head(in) \in Frames /\ \A x \in ToSet(in) : x = Head(in) \/ x \in ToSet(Tail(in))
    BY <1>1, <2>1, Ends
  <2>3. \A x : x \in ToSet(aside') <=> x \in ToSet(aside) \/ x = Head(in)
    BY <1>1, <2>1, <2>2, Added
  <2>4. QED
    BY <2>1, <2>2, <2>3, <1>7
<1>9. CASE \E caller \in {"us", "them", "nobody"} : Connect(caller)
  BY <1>9, ConnectHeeds
<1>10. CASE Call \/ CallEnds
  BY <1>10, <1>7 DEF Call, CallEnds, historyVars
<1>11. CASE Break
  <2>1. UNCHANGED <<mem, todo, behind, quiet>> /\ link' = "none"
    BY <1>11 DEF Break, historyVars
  <2>2. QED
    BY <2>1 DEF ObjectionInv, ClosedInv, ClosingInv, ErasingInv, HeardInv
<1>12. CASE TheyHear
  <2>1. /\ UNCHANGED <<mem, todo, link, in, aside, behind, quiet>>
        /\ them' = IF Head(out).t = "recording" THEN [them EXCEPT !.told = Head(out).on] ELSE them
    BY <1>12 DEF TheyHear, historyVars
  <2>2. them'.objects = them.objects
    BY <2>1 DEF WireInv, ThemType
  <2>3. QED
    BY <2>1, <2>2, <1>7
<1>13. CASE TheyObject
  <2>1. /\ UNCHANGED <<mem, todo, link, aside, behind, quiet>>
        /\ link # "none" => in' = Append(in, DontRecord)
    BY <1>13 DEF TheyObject, historyVars
  <2>2. link # "none" => DontRecord \in ToSet(in')
    <3>1. DontRecord \in ToSet(Append(in, DontRecord))
      BY <1>1, Added, FrameIs
    <3>2. QED
      BY <2>1, <3>1
  <2>3. QED
    BY <2>1, <2>2 DEF ObjectionInv, ClosedInv, ClosingInv, ErasingInv, HeardInv
<1>14. CASE TheySay
  <2>1. in' = Append(in, Line) /\ UNCHANGED <<mem, todo, link, aside, them, behind, quiet>>
    BY <1>14 DEF TheySay, historyVars
  <2>2. DontRecord \in ToSet(in) => DontRecord \in ToSet(in')
    BY <1>1, <2>1, Added, FrameIs
  <2>3. QED
    BY <2>1, <2>2, <1>7
<1>15. CASE Start \/ Open \/ Encrypt \/ Decrypt \/ Restore \/ ToolEnds \/ Delete
  <2>1. mode # "up" /\ link' = link
    BY <1>15 DEF Start, Open, Encrypt, Decrypt, Restore, Rewrites, ToolEnds, Delete, wires
  <2>2. todo' = todo \/ \E s \in Rewriting \cup {CreateSeed} : todo' = <<s>>
    <3>1. CASE Start
      <4>1. todo' = <<CreateSeed>> \/ todo' = <<WriteSeed(Seed.key, "v2")>> \/ todo' = <<>>
        BY <3>1 DEF Start
      <4>2. mode' = "starting"
        BY <3>1 DEF Start
      <4>3. TodoInv'
        BY StoredKept DEF StoredInv
      <4>4. todo' = <<>> \/ \E s \in Rewriting \cup {CreateSeed} : todo' = <<s>>
        BY <4>2, <4>3 DEF TodoInv
      <4>5. todo = <<>>
        BY <3>1 DEF Start, StoredInv, TodoInv
      <4>6. QED
        BY <4>4, <4>5
    <3>2. CASE Open \/ ToolEnds \/ Delete
      BY <3>2 DEF Open, ToolEnds, Delete
    <3>3. CASE Encrypt \/ Decrypt \/ Restore
      <4>1. mode' = "tool" /\ mode = "down"
        BY <3>3 DEF Encrypt, Decrypt, Restore, Rewrites
      <4>2. TodoInv' /\ TodoInv
        BY StoredKept DEF StoredInv
      <4>3. QED
        BY <4>1, <4>2 DEF TodoInv
    <3>4. QED
      BY <1>15, <3>1, <3>2, <3>3
  <2>3. todo' \in Seq(Doing) /\ Erase \notin ToSet(todo') /\ Close \notin ToSet(todo')
    <3>1. CASE todo' = todo
      BY <2>1, <3>1, TodoIs DEF StoredInv
    <3>2. CASE \E s \in Rewriting \cup {CreateSeed} : todo' = <<s>>
      <4>1. PICK s \in Rewriting \cup {CreateSeed} : todo' = <<s>>
        BY <3>2
      <4>2. todo' \in Seq(Doing) /\ \A y : y \in ToSet(todo') <=> y = s
        BY <4>1, OneOf DEF Doing
      <4>3. s # Erase /\ s # Close
        BY Items, CalmItems
      <4>4. QED
        BY <4>2, <4>3
    <3>3. QED
      BY <2>2, <3>1, <3>2
  <2>4. QED
    BY <1>1, <2>1, <2>3, NoneConnected
<1>16. CASE Crash
  <2>1. link' = "none" /\ todo' = <<>>
    BY <1>16 DEF Crash
  <2>2. QED
    BY <2>1, NoneOf, NoneConnected
<1>17. CASE UNCHANGED vars
  BY <1>17, <1>7 DEF vars, wires, historyVars
<1>18. QED
  BY <1>2, <1>3, <1>4, <1>5, <1>6, <1>8, <1>9, <1>10, <1>11, <1>12, <1>13, <1>14, <1>15, <1>16,
     <1>17 DEF Next

-----------------------------------------------------------------------------
(***************************************************************************)
(* What they are told: every step.                                         *)
(***************************************************************************)

LEMMA SaysNow ==
  ASSUME NEW s \in Seq(Frames), NEW told
  PROVE  Says(Append(s, Recording(TRUE)), told)
<1> DEFINE t == Append(s, Recording(TRUE))
<1>1. Len(t) = Len(s) + 1 /\ Len(s) \in Nat /\ t[Len(s) + 1] = Recording(TRUE)
  <2> DEFINE x == Recording(TRUE)
  <2>1. x \in Frames /\ t = Append(s, x)
    BY FrameIs
  <2> HIDE DEF x, t
  <2>2. Len(t) = Len(s) + 1 /\ Len(s) \in Nat /\ t[Len(s) + 1] = x
    BY <2>1, Added, InSeq
  <2>3. QED
    BY <2>2 DEF x
<1> HIDE DEF t
<1>2. Len(s) + 1 \in 1 .. Len(t) /\ \A j \in 1 .. Len(t) : ~ (j > Len(s) + 1)
  BY <1>1
<1>3. Says(t, told)
  BY <1>1, <1>2 DEF Says
<1>4. QED
  BY <1>3 DEF t

LEMMA SaysMore ==
  ASSUME NEW s \in Seq(Frames), NEW told, Says(s, told), NEW x \in Frames, x.t # "recording"
  PROVE  Says(Append(s, x), told)
<1> DEFINE t == Append(s, x)
<1>1. /\ Len(t) = Len(s) + 1 /\ Len(s) \in Nat /\ t[Len(s) + 1] = x
      /\ \A i \in 1 .. Len(s) : t[i] = s[i]
  BY Added, InSeq
<1> HIDE DEF t
<1>2. \A j \in 1 .. Len(t) : t[j] = x \/ (j \in 1 .. Len(s) /\ t[j] = s[j])
  BY <1>1
<1>3. CASE told /\ \A j \in 1 .. Len(s) : s[j].t # "recording"
  BY <1>2, <1>3 DEF Says, t
<1>4. CASE \E i \in 1 .. Len(s) :
             s[i] = Recording(TRUE) /\ \A j \in 1 .. Len(s) : j > i => s[j].t # "recording"
  <2>1. PICK i \in 1 .. Len(s) :
          s[i] = Recording(TRUE) /\ \A j \in 1 .. Len(s) : j > i => s[j].t # "recording"
    BY <1>4
  <2>2. i \in 1 .. Len(t) /\ t[i] = Recording(TRUE)
    <3>1. i \in 1 .. Len(t) /\ t[i] = s[i]
      BY <1>1
    <3>2. QED
      BY <2>1, <3>1, Zenon
  <2>3. \A j \in 1 .. Len(t) : j > i => t[j].t # "recording"
    BY <1>2, <2>1
  <2>4. Says(t, told)
    BY <2>2, <2>3 DEF Says
  <2>5. QED
    BY <2>4 DEF t
<1>5. QED
  BY <1>3, <1>4 DEF Says

\* What is heard of it is what they have been told.
LEMMA SaysHeard ==
  ASSUME NEW s \in Seq(Frames), s # <<>>, NEW told, Says(s, told), NEW heard,
         heard = IF Head(s).t = "recording" THEN Head(s).on ELSE told
  PROVE  Says(Tail(s), heard)
<1> DEFINE t == Tail(s)
<1>1. /\ Head(s) = s[1] /\ Len(t) = Len(s) - 1 /\ Len(s) \in Nat \ {0}
      /\ \A i \in 1 .. Len(t) : t[i] = s[i + 1]
  BY Ends
<1> HIDE DEF t
<1>2. \A j \in 1 .. Len(t) : j + 1 \in 1 .. Len(s) /\ t[j] = s[j + 1]
  BY <1>1
<1>3. CASE told /\ \A j \in 1 .. Len(s) : s[j].t # "recording"
  <2>1. heard /\ \A j \in 1 .. Len(t) : t[j].t # "recording"
    BY <1>1, <1>2, <1>3
  <2>2. QED
    BY <2>1 DEF Says, t
<1>4. CASE \E i \in 1 .. Len(s) :
             s[i] = Recording(TRUE) /\ \A j \in 1 .. Len(s) : j > i => s[j].t # "recording"
  <2>1. PICK i \in 1 .. Len(s) :
          s[i] = Recording(TRUE) /\ \A j \in 1 .. Len(s) : j > i => s[j].t # "recording"
    BY <1>4
  <2>2. CASE i = 1
    <3>1. heard
      BY <1>1, <2>1, <2>2, FrameIs
    <3>2. \A j \in 1 .. Len(t) : t[j].t # "recording"
      BY <1>2, <2>1, <2>2
    <3>3. QED
      BY <3>1, <3>2 DEF Says, t
  <2>3. CASE i # 1
    <3>1. i - 1 \in 1 .. Len(t) /\ (i - 1) + 1 = i
      BY <1>1, <2>1, <2>3
    <3>2. t[i - 1] = Recording(TRUE)
      BY <1>2, <2>1, <3>1
    <3>3. \A j \in 1 .. Len(t) : j > i - 1 => t[j].t # "recording"
      BY <1>2, <2>1
    <3>4. Says(t, heard)
      BY <3>1, <3>2, <3>3 DEF Says
    <3>5. QED
      BY <3>4 DEF t
  <2>4. QED
    BY <2>2, <2>3
<1>5. QED
  BY <1>3, <1>4 DEF Says

\* A fresh connection is told, whatever was kept for them.
LEMMA SaysDeclared ==
  ASSUME NEW s \in Seq(Frames), NEW told, NEW rest \in {<<>>, <<DontRecord>>}
  PROVE  Says(s \o (<<Recording(TRUE)>> \o rest), told)
<1> DEFINE t == s \o (<<Recording(TRUE)>> \o rest)
           u == Append(s, Recording(TRUE))
<1>1. u \in Seq(Frames) /\ Says(u, told)
  BY SaysNow, Added, FrameIs
<1>2. Recording(TRUE) \in Frames /\ DontRecord \in Frames /\ <<Recording(TRUE)>> \in Seq(Frames)
      /\ <<DontRecord>> \in Seq(Frames) /\ <<>> \in Seq(Frames)
  BY FrameIs, OneOf, NoneOf
<1>3. u = s \o <<Recording(TRUE)>>
  BY <1>2, AppendIsConcat
<1>4. CASE rest = <<>>
  <2>1. <<Recording(TRUE)>> \o rest = <<Recording(TRUE)>>
    BY <1>2, <1>4, ConcatEmptySeq
  <2>2. QED
    BY <1>1, <1>3, <2>1
<1>5. CASE rest = <<DontRecord>>
  <2> DEFINE x == <<Recording(TRUE)>>
             y == <<DontRecord>>
  <2>1. x \in Seq(Frames) /\ y \in Seq(Frames)
    BY <1>2
  <2>2. t = s \o (x \o y) /\ u = s \o x
    BY <1>3, <1>5
  <2>3. t = u \o <<DontRecord>>
    <3>1. t = u \o y
      <4> HIDE DEF x, y, t, u
      <4>1. (s \o x) \o y = s \o (x \o y)
        BY <2>1, ConcatAssociative
      <4>2. QED
        BY <2>2, <4>1
    <3>2. QED
      BY <3>1
  <2>4. t = Append(u, DontRecord)
    BY <1>1, <1>2, <2>3, AppendIsConcat
  <2>5. Says(Append(u, DontRecord), told)
    BY <1>1, <1>2, SaysMore, FrameIs
  <2>6. QED
    BY <2>4, <2>5
<1>6. QED
  BY <1>4, <1>5

LEMMA ToldStays ==
  ASSUME ToldInv, out' = out, them'.told = them.told,
         mem'.on => mem.on \/ said' # "on", mem'.filed => mem.filed, mem.objects => mem'.objects,
         link' # "none" => link # "none", said' = "on" => said = "on", quiet' = quiet,
         "objection" \in behind => "objection" \in behind'
  PROVE  ToldInv'
BY DEF ToldInv

\* On, at rest, is what the operator was told.
LEMMA AtRestSaid ==
  ASSUME StoredInv, mode = "up", todo = <<>>
  PROVE  said = "on" => mem.on
<1>1. Tell(mem.on) \notin ToSet(todo)
  BY NoneOf
<1>2. QED
  BY <1>1 DEF StoredInv, RecordInv

LEMMA NotedTells ==
  ASSUME StoredInv, ToldInv, NEW who \in Who, Noted(who),
         out' = out, them' = them, link' = link
  PROVE  ToldInv'
<1> DEFINE lines == Trim(Append(mem.lines, who))
           m == [mem EXCEPT !.lines = lines]
<1>1. \/ Handles(m, <<Save("history")>>)
      \/ Handles(mem, <<>>)
  BY DEF Noted
<1>2. m.on = mem.on /\ m.filed = mem.filed /\ m.objects = mem.objects
  BY HandlerMem DEF MemType
<1> HIDE DEF m
<1>3. /\ mem'.on = mem.on /\ mem'.filed = mem.filed /\ mem'.objects = mem.objects
      /\ said' = said /\ quiet' = quiet /\ behind' = behind
  BY <1>1, <1>2, HandlerIs
<1>4. QED
  BY <1>3, ToldStays

LEMMA TypesTells ==
  ASSUME StoredInv, WireInv, ObjectionInv, ToldInv, Types
  PROVE  ToldInv'
<1>1. CASE WeSay \/ Elsewhere
  <2>1. out' = out /\ them' = them /\ link' = link
    BY <1>1 DEF WeSay, Elsewhere, wires
  <2>2. CASE Noted("them") \/ Noted("other")
    BY <2>1, <2>2, NotedTells DEF Who
  <2>3. CASE UNCHANGED <<mem, historyVars>>
    BY <2>1, <2>3, ToldStays DEF historyVars
  <2>4. QED
    BY <1>1, <2>2, <2>3 DEF WeSay, Elsewhere
<1>2. ASSUME NEW m, NEW rest, Handles(m, rest), UNCHANGED wires,
             m.filed = mem.filed \/ ~ m.filed, m.objects = mem.objects
      PROVE  ToldInv'
  <2>1. mode = "up" /\ todo = <<>> /\ mem' = m /\ said' = said /\ quiet' = quiet /\ behind' = behind
    BY <1>2, HandlerIs
  <2>2. said = "on" => mem.on
    BY <2>1, AtRestSaid
  <2>3. UNCHANGED <<link, out, them>>
    BY <1>2 DEF wires
  <2>4. QED
    BY <1>2, <2>1, <2>2, <2>3 DEF ToldInv
<1>3. CASE HistoryOn \/ HistoryOff
  <2>1. PICK on \in BOOLEAN : Handles(Set(on), <<Save("history"), Tell(on)>>) /\ UNCHANGED wires
    BY <1>3 DEF HistoryOn, HistoryOff
  <2>2. Set(on).filed = mem.filed /\ Set(on).objects = mem.objects
    BY HandlerMem DEF Set, MemType
  <2> DEFINE m == Set(on)
             rest == <<Save("history"), Tell(on)>>
  <2>3. Handles(m, rest) /\ m.filed = mem.filed /\ m.objects = mem.objects
    BY <2>1, <2>2
  <2> HIDE DEF m, rest
  <2>4. QED
    BY <1>2, <2>1, <2>3
<1>4. CASE Add
  <2>1. ~ mem.filed /\ Handles([mem EXCEPT !.filed = TRUE], <<Save("book")>>) /\ UNCHANGED wires
    BY <1>4 DEF Add
  <2>2. todo = <<>> /\ behind' = behind /\ link' = link
    BY <2>1, HandlerIs DEF wires
  <2>3. ToSet(todo) = {}
    BY <2>2, NoneOf
  <2>4. link # "none" => "objection" \in behind
    BY <2>1, <2>3 DEF ObjectionInv, ClosedInv
  <2>5. QED
    BY <2>2, <2>4 DEF ToldInv
<1>5. CASE Forget
  <2> DEFINE m == [mem EXCEPT !.filed = FALSE, !.objects = FALSE, !.ours = FALSE]
             rest == <<Save("book"), Erase, Close>>
  <2>1. Handles(m, rest) /\ m.filed = FALSE
    BY <1>5, HandlerMem DEF Forget, MemType
  <2> HIDE DEF m, rest
  <2>2. mem'.filed = FALSE
    BY <2>1, HandlerIs
  <2>3. QED
    BY <2>2 DEF ToldInv
<1>6. ASSUME NEW objecting \in BOOLEAN, HistoryNo(objecting) PROVE ToldInv'
  <2> DEFINE m == [mem EXCEPT !.ours = objecting]
             rest == Marks(mem.ours # objecting)
                       \o <<Say(IF objecting THEN DontRecord ELSE Recording(FALSE))>>
  <2>1. m.filed = mem.filed /\ m.objects = mem.objects
    BY HandlerMem DEF MemType
  <2>2. Handles(m, rest) /\ UNCHANGED wires
    BY <1>6 DEF HistoryNo
  <2> HIDE DEF m, rest
  <2>3. QED
    BY <1>2, <2>1, <2>2
<1>7. QED
  BY <1>1, <1>3, <1>4, <1>5, <1>6 DEF Types

LEMMA HeedsTells ==
  ASSUME StoredInv, ToldInv, NEW frame, Heeds(frame), out' = out, them' = them, link' = link
  PROVE  ToldInv'
<1>1. CASE frame.t = "dont" /\ mem.filed
  <2> DEFINE m == [mem EXCEPT !.objects = TRUE]
             rest == Marks(~ mem.objects) \o <<Erase>>
  <2>1. Handles(m, rest) /\ m.objects = TRUE
    BY <1>1, HandlerMem DEF Heeds, Objected, MemType
  <2> HIDE DEF m, rest
  <2>2. mem'.objects = TRUE
    BY <2>1, HandlerIs
  <2>3. QED
    BY <2>2 DEF ToldInv
<1>2. CASE Noted("them")
  BY <1>2, NotedTells DEF Who
<1>3. CASE Handles(mem, <<>>)
  BY <1>3, HandlerIs, ToldStays
<1>4. QED
  BY <1>1, <1>2, <1>3 DEF Heeds

\* What is told is said after everything else; what is said is no record.
LEMMA ProceedsTells ==
  ASSUME StoredInv, WireInv, ObjectionInv, ToldInv, Proceeds
  PROVE  ToldInv'
<1> DEFINE item == Head(todo)
<1>1. /\ mode = "up" /\ todo # <<>> /\ todo \in Seq(Saves \cup Calm) /\ item \in Calm
      /\ item \in ToSet(todo) /\ item.do \in {"tell", "say", "erase", "close"}
  BY ProceedsIs, Items
<1>2. out \in Seq(Frames)
  BY DEF WireInv
<1>3. CASE item.do = "erase"
  <2>1. mem' = [mem EXCEPT !.lines = Others(mem.lines)] /\ UNCHANGED <<link, out, them, said, quiet>>
    BY <1>3 DEF Proceeds, wires
  <2>2. mem'.filed = mem.filed /\ mem'.objects = mem.objects
    BY <2>1, HandlerMem DEF MemType
  <2>3. item = Erase
    BY <1>1, <1>3, CalmItems
  <2>4. mem.filed => mem.objects
    BY <1>1, <2>3, ErasedIs DEF ObjectionInv
  <2>5. QED
    BY <2>2, <2>4 DEF ToldInv
<1>4. CASE item.do = "tell"
  <2>1. /\ out' = IF link # "none" /\ mem.filed /\ ~ (item.value.on /\ mem.objects)
                    THEN Append(out, item.value) ELSE out
        /\ said' = IF item.value.on THEN "on" ELSE "off"
        /\ UNCHANGED <<mem, link, them>>
    BY <1>4 DEF Proceeds
  <2>2. SUFFICES ASSUME link # "none", mem.filed, ~ mem.objects, said' = "on"
                 PROVE  Says(out', them'.told)
    BY <2>1 DEF ToldInv
  <2>3. item.value.on
    BY <2>1, <2>2
  <2>4. item.value = Recording(TRUE)
    <3>1. item = Tell(TRUE) \/ item = Tell(FALSE)
      BY <1>1, <1>4, CalmItems
    <3>2. Tell(FALSE).value.on = FALSE /\ Tell(TRUE).value = Recording(TRUE)
      BY CalmItems
    <3>3. QED
      BY <2>3, <3>1, <3>2
  <2>5. out' = Append(out, Recording(TRUE))
    BY <2>1, <2>2, <2>4
  <2>6. QED
    BY <1>2, <2>5, SaysNow
<1>5. CASE item.do = "say"
  <2>1. /\ link # "none" => out' = Append(out, item.value)
        /\ quiet' = IF item.value = Recording(FALSE) THEN quiet \cup {"us"} ELSE quiet
        /\ UNCHANGED <<mem, link, them, said, behind>>
    BY <1>5 DEF Proceeds, Sent
  <2>2. CASE item.value = Recording(FALSE)
    BY <2>1, <2>2 DEF ToldInv
  <2>3. CASE item.value = DontRecord
    <3>1. DontRecord \in Frames /\ DontRecord.t # "recording"
      BY FrameIs
    <3>2. Says(out, them.told) => Says(Append(out, DontRecord), them.told)
      BY <1>2, <3>1, SaysMore
    <3>3. SUFFICES ASSUME link # "none", mem.on, mem.filed, ~ mem.objects, said = "on",
                          "us" \notin quiet', "objection" \notin behind
                   PROVE  Says(out', them'.told)
      BY <2>1 DEF ToldInv
    <3>4. "us" \notin quiet
      BY <2>1, <3>3
    <3>5. Says(out, them.told)
      BY <3>3, <3>4 DEF ToldInv
    <3>6. QED
      BY <2>1, <2>3, <3>2, <3>3, <3>5
  <2>4. QED
    BY <1>1, <1>5, <2>2, <2>3, CalmSays
<1>6. CASE item.do = "close"
  <2>1. link' = "none"
    BY <1>6 DEF Proceeds
  <2>2. QED
    BY <2>1 DEF ToldInv
<1>7. QED
  BY <1>1, <1>3, <1>4, <1>5, <1>6

LEMMA ConnectTells ==
  ASSUME StoredInv, WireInv, NEW caller \in {"us", "them", "nobody"}, Connect(caller)
  PROVE  ToldInv'
<1>1. SUFFICES ASSUME mem'.on, ~ mem'.objects, "us" \notin quiet'
               PROVE  Says(out', them'.told)
  BY DEF ToldInv
<1>2. /\ mem' = mem /\ out' = kept \o (IF caller = "us" THEN <<>> ELSE Declares)
      /\ "us" \notin quiet' => caller # "us"
  BY DEF Connect
<1>3. out' = kept \o Declares
  BY <1>1, <1>2
<1>4. PICK rest \in {<<>>, <<DontRecord>>} : Declares = <<Recording(TRUE)>> \o rest
  BY <1>1, <1>2, HandlerMem, DeclaredIs
<1>5. kept \in Seq(Frames)
  BY DEF WireInv
<1>6. Says(kept \o (<<Recording(TRUE)>> \o rest), them'.told)
  BY <1>5, SaysDeclared
<1>7. QED
  BY <1>3, <1>4, <1>6

LEMMA ToldKept ==
  ASSUME StoredInv, WireInv, ObjectionInv, ToldInv, [Next]_vars
  PROVE  ToldInv'
<1>1. /\ out \in Seq(Frames) /\ them \in ThemType
      /\ mode # "up" => link = "none"
  BY DEF WireInv
<1>2. CASE SaveStep
  <2>1. /\ UNCHANGED <<mem, link, out, them, said, quiet>>
        /\ behind' = behind \/ behind' = behind \ {Head(todo).file}
    BY <1>2 DEF SaveStep, wires
  <2>2. Head(todo).file # "objection"
    BY <1>2, SavingIs DEF SaveStep, StoredInv, Files
  <2>3. "objection" \in behind => "objection" \in behind'
    BY <2>1, <2>2
  <2>4. QED
    BY <2>1, <2>3, ToldStays
<1>3. CASE SaveFails \/ ForgetFails
  <2>1. /\ UNCHANGED <<mem, link, out, them, quiet>> /\ behind \subseteq behind'
        /\ said' = "failed" \/ said' = said
    BY <1>3 DEF SaveFails, ForgetFails, wires
  <2>2. QED
    BY <2>1, ToldStays
<1>4. CASE Proceeds
  BY <1>4, ProceedsTells
<1>5. CASE Types
  BY <1>5, TypesTells
<1>6. CASE Hears \/ HearsAside
  BY <1>6, HeedsTells DEF Hears, HearsAside
<1>7. CASE CallHears \/ Call \/ CallEnds \/ TheySay
  <2>1. /\ UNCHANGED <<mem, out, them, said, quiet, behind>>
        /\ link' # "none" => link # "none"
    BY <1>7 DEF CallHears, Call, CallEnds, TheySay, historyVars
  <2>2. QED
    BY <2>1, ToldStays
<1>8. CASE \E caller \in {"us", "them", "nobody"} : Connect(caller)
  BY <1>8, ConnectTells
<1>9. CASE Break \/ Crash
  <2>1. link' = "none"
    BY <1>9 DEF Break, Crash
  <2>2. QED
    BY <2>1 DEF ToldInv
<1>10. CASE TheyHear
  <2>1. /\ out # <<>> /\ out' = Tail(out) /\ UNCHANGED <<mem, link, said, quiet, behind>>
        /\ them' = IF Head(out).t = "recording" THEN [them EXCEPT !.told = Head(out).on] ELSE them
    BY <1>10 DEF TheyHear, historyVars
  <2>2. them'.told = IF Head(out).t = "recording" THEN Head(out).on ELSE them.told
    BY <1>1, <2>1 DEF ThemType
  <2>3. Says(out, them.told) => Says(out', them'.told)
    BY <1>1, <2>1, <2>2, SaysHeard
  <2>4. QED
    BY <2>1, <2>3 DEF ToldInv
<1>11. CASE TheyObject
  <2>1. UNCHANGED <<mem, link, out, said, quiet, behind>> /\ them'.told = them.told
    BY <1>1, <1>11 DEF TheyObject, historyVars, ThemType
  <2>2. QED
    BY <2>1, ToldStays
<1>12. CASE Start \/ Open \/ Encrypt \/ Decrypt \/ Restore \/ ToolEnds \/ Delete
  <2>1. mode # "up" /\ link' = link
    BY <1>12 DEF Start, Open, Encrypt, Decrypt, Restore, Rewrites, ToolEnds, Delete, wires
  <2>2. QED
    BY <1>1, <2>1 DEF ToldInv
<1>13. CASE UNCHANGED vars
  BY <1>13, ToldStays DEF vars, wires, historyVars
<1>14. QED
  BY <1>2, <1>3, <1>4, <1>5, <1>6, <1>7, <1>8, <1>9, <1>10, <1>11, <1>12, <1>13 DEF Next

-----------------------------------------------------------------------------
(***************************************************************************)
(* The invariant is inductive, and what it implies.                        *)
(***************************************************************************)

LEMMA InitHolds == Init => IInv
<1> SUFFICES ASSUME Init PROVE IInv
  OBVIOUS
<1>1. StoredInv
  BY InitStored
<1>2. /\ link = "none" /\ in = <<>> /\ out = <<>> /\ aside = <<>> /\ kept = <<>> /\ todo = <<>>
      /\ them = [objects |-> FALSE, told |-> FALSE, kept |-> <<>>] /\ mode = "down"
  BY DEF Init
<1>3. <<>> \in Seq(Frames) /\ ToSet(todo) = {} /\ Len(todo) = 0
  BY <1>2, NoneOf
<1>4. them \in ThemType
  BY <1>2, <1>3 DEF ThemType
<1>5. WireInv
  BY <1>2, <1>3, <1>4 DEF WireInv
<1>6. ObjectionInv /\ ToldInv
  BY <1>2, <1>3 DEF ObjectionInv, ClosedInv, ClosingInv, ErasingInv, HeardInv, ToldInv
<1>7. QED
  BY <1>1, <1>5, <1>6 DEF IInv

LEMMA NextKeeps == IInv /\ [Next]_vars => IInv'
BY StoredKept, WireKept, ObjectionKept, ToldKept DEF IInv

LEMMA Always == Spec => []IInv
BY InitHolds, NextKeeps, PTL DEF Spec

\* A file whose last save was durable opens, whatever step the machine stops
\* at. (AlwaysOpens)
THEOREM FilesAlwaysOpen == Spec => []AlwaysOpens
<1>1. StoredInv => AlwaysOpens
  <2>1. SUFFICES ASSUME StoredInv, used # {}, "seed" \notin behind PROVE
           /\ Cardinality(used) = 1
           /\ \A file \in Files : \A v \in disk[file].after :
                IF v \in {Absent, Torn} THEN v = Absent /\ file # "seed" ELSE v.key \in used
    BY DEF AlwaysOpens
  <2>2. PICK k \in Keys : used = {k} /\ \A v \in disk["seed"].after : v \in SeedContents /\ v.key = k
    BY <2>1 DEF StoredInv, SeedKept
  <2>3. Cardinality(used) = 1
    BY <2>2, FS_Singleton
  <2>4. \A v \in disk["seed"].after : v \notin {Absent, Torn} /\ v.key \in used
    BY <2>2, KeepingAssumption
  <2>5. \A f \in {"book", "history"} : \A v \in disk[f].after : v = Absent \/ v.key \in used
    BY <2>1 DEF StoredInv, SealedInv
  <2>6. \A f \in {"book", "history"} : Torn \notin disk[f].after
    BY <2>1, KeepingAssumption, StoreAssumption DEF StoredInv, DiskInv, RecordContents
  <2>7. QED
    BY <2>3, <2>4, <2>5, <2>6 DEF Files
<1>2. QED
  BY Always, <1>1, PTL DEF IInv

\* A record that is off stays off, and nothing of it comes back. (OffIsOff)
THEOREM RecordStaysOff == Spec => []OffIsOff
<1>1. StoredInv => OffIsOff
  <2>1. SUFFICES ASSUME StoredInv, said = "off", "history" \notin behind, mode = "up", todo = <<>>,
                        NEW v \in disk["history"].after
                 PROVE  v = Absent \/ (~ v.on /\ v.lines = <<>>)
    BY DEF OffIsOff
  <2>2. ToSet(todo) = {}
    BY <2>1, NoneOf
  <2>3. ~ mem.on /\ Matches(v)
    BY <2>1, <2>2 DEF StoredInv, RecordInv
  <2>4. mem.lines = <<>>
    BY <2>1, <2>3 DEF StoredInv, MemInv
  <2>5. QED
    BY <2>3, <2>4 DEF Matches
<1>2. QED
  BY Always, <1>1, PTL DEF IInv

\* Of a contact who objects nothing is kept once all has been heard.
\* (NothingOfAnObjector)
THEOREM NothingIsKept == Spec => []NothingOfAnObjector
<1>1. IInv => NothingOfAnObjector
  <2>1. SUFFICES ASSUME IInv, AtRest, them.objects, mem.filed, "them" \notin quiet,
                        "objection" \notin behind
                 PROVE  /\ "them" \notin ToSet(mem.lines)
                        /\ "history" \notin behind =>
                             \A v \in disk["history"].after : v = Absent \/ "them" \notin ToSet(v.lines)
    BY DEF NothingOfAnObjector
  <2>2. mode = "up" /\ todo = <<>> /\ link # "none" /\ in = <<>> /\ aside = <<>>
    BY <2>1 DEF AtRest, Idle
  <2>3. ToSet(in) = {} /\ ToSet(aside) = {} /\ ToSet(todo) = {}
    BY <2>2, NoneOf
  <2>4. "them" \notin ToSet(mem.lines)
    BY <2>1, <2>2, <2>3 DEF IInv, ObjectionInv, HeardInv, Heeded
  <2>5. "history" \notin behind => \A v \in disk["history"].after : Matches(v)
    BY <2>1, <2>2 DEF IInv, StoredInv, RecordInv
  <2>6. QED
    BY <2>4, <2>5 DEF Matches
<1>2. QED
  BY Always, <1>1, PTL

\* A contact with whom a record is kept is told of it. (TheyAreTold)
THEOREM TheyAreAlwaysTold == Spec => []TheyAreTold
<1>1. IInv => TheyAreTold
  <2>1. SUFFICES ASSUME IInv, AtRest, mem.on, mem.filed, ~ mem.objects, said = "on",
                        "us" \notin quiet, "objection" \notin behind
                 PROVE  them.told
    BY DEF TheyAreTold
  <2>2. link # "none" /\ out = <<>>
    BY <2>1 DEF AtRest
  <2>3. Says(<<>>, them.told)
    BY <2>1, <2>2 DEF IInv, ToldInv
  <2>4. QED
    BY <2>3, NoneOf, InSeq DEF Says
<1>2. QED
  BY Always, <1>1, PTL

=============================================================================
