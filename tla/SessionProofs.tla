--------------------------- MODULE SessionProofs ---------------------------
(***************************************************************************)
(* What holds of a connection for every bound: a side that takes it for    *)
(* opened knows who is there, no frame is refused, no key seals two        *)
(* frames, and what is heard is what was said, in order.                   *)
(***************************************************************************)
EXTENDS Session, Integers, FiniteSetTheorems, SequenceTheorems, TLAPS

-----------------------------------------------------------------------------
(***************************************************************************)
(* Two ratchets at the ends of one connection: what each frame on its way  *)
(* must be for the other end to open it, and that it stays so whatever     *)
(* either end seals or opens.                                              *)
(*                                                                         *)
(* At any moment one end is ahead: it turned last, and the other has not   *)
(* opened a frame of the turn yet.  The frames on their way to the other   *)
(* end are those left of the chain it was sending before, as many as its   *)
(* pn says, and then those of its new one.                                 *)
(***************************************************************************)

\* Chains, ratchets and frame headers over key pairs K.
Chains(K) == [of : Seq(SUBSET K), first : BOOLEAN, at : Nat]

Ratchets(K) ==
  [dhs : K, dhr : K, root : Seq(SUBSET K), receiving : Chains(K),
   sending : Chains(K), ns : Nat, nr : Nat, pn : Nat]

Locks(K) == [dh : K, pn : Nat, n : Nat, key : Chains(K)]

\* A chain k frames on.
Along(chain, k) ==
  [of |-> chain.of, first |-> chain.first, at |-> chain.at + k]

\* w has turned, and r has opened nothing of that turn.
Ahead(w, r) ==
  /\ w.dhs # r.dhr /\ w.dhr = r.dhs
  /\ w.root = Append(r.root, {r.dhs, w.dhs})
  /\ r.nr <= w.pn
  /\ r.receiving = NoChain => r.nr = w.pn
  /\ w.receiving # NoChain

\* Frames r has yet to open of the chain it is on: all that come, unless w is
\* ahead of it.
OfThisChain(w, r, j) == w.dhs = r.dhr \/ j <= w.pn - r.nr

\* The j-th frame from w that r has yet to open.
LockIs(w, r, j, l) ==
  IF OfThisChain(w, r, j)
    THEN /\ l.dh = r.dhr
         /\ l.n = r.nr + j - 1
         /\ l.key = Along(r.receiving, j - 1)
    ELSE /\ l.dh = w.dhs /\ l.pn = w.pn
         /\ l.n = j - 1 - (w.pn - r.nr)
         /\ l.key = Along(ChainOf(w.root), l.n)

\* How many frames w has sealed that r has not opened.
Unopened(w, r) ==
  IF w.dhs = r.dhr THEN w.ns - r.nr ELSE w.pn - r.nr + w.ns

\* The key w must come to next, for r to come to it too.
Matches(w, r) ==
  w.sending = IF w.dhs = r.dhr THEN Along(r.receiving, w.ns - r.nr)
                               ELSE Along(ChainOf(w.root), w.ns)

\* How many that is, is a number.
LEMMA UnopenedCounts ==
  ASSUME NEW K, NEW w \in Ratchets(K), NEW r \in Ratchets(K)
  PROVE  Unopened(w, r) \in Int
<1>1. w.ns \in Nat /\ w.pn \in Nat /\ r.nr \in Nat
  BY DEF Ratchets
<1> QED BY <1>1 DEF Unopened

-----------------------------------------------------------------------------
(***************************************************************************)
(* What sealing, turning and opening change.                               *)
(***************************************************************************)

\* A step on a chain is one frame along it. (chain_step)
LEMMA StepIsAlong ==
  ASSUME NEW K, NEW c \in Chains(K)
  PROVE  Step(c) = Along(c, 1) /\ Step(c) \in Chains(K) /\ Step(c) # NoChain
BY DEF Step, Along, Chains, NoChain

\* Going along twice is going along once. (chain_step)
LEMMA AlongAlong ==
  ASSUME NEW K, NEW c \in Chains(K), NEW i \in Nat, NEW j \in Nat
  PROVE  /\ Along(c, 0) = c /\ Along(c, i) \in Chains(K)
         /\ Along(Along(c, i), j) = Along(c, i + j)
BY DEF Along, Chains

\* A header is not the absence of one.
LEMMA LockIsThere ==
  ASSUME NEW K, NEW l \in Locks(K)
  PROVE  l # <<>>
BY DEF Locks

\* Sealing moves the sending chain and, unless it is at its end, its counter;
\* nothing else. (Ratchet::seal)
LEMMA SealFields ==
  ASSUME NEW K, NEW w \in Ratchets(K)
  PROVE  LET v == AfterSeal(w)
         IN  /\ v \in Ratchets(K)
             /\ v.dhs = w.dhs /\ v.dhr = w.dhr /\ v.root = w.root
             /\ v.receiving = w.receiving /\ v.nr = w.nr /\ v.pn = w.pn
             /\ v.sending = Along(w.sending, 1)
             /\ v.ns = IF Exhausted(w) THEN w.ns ELSE w.ns + 1
<1> DEFINE c == Step(w.sending)
           n == IF Exhausted(w) THEN w.ns ELSE w.ns + 1
<1>1. c = Along(w.sending, 1) /\ c \in Chains(K)
  BY StepIsAlong DEF Ratchets
<1>2. n \in Nat
  BY DEF Ratchets
<1>3. AfterSeal(w) = [w EXCEPT !.sending = c, !.ns = n]
  BY Zenon DEF AfterSeal
<1> HIDE DEF c, n
<1> DEFINE u == [w EXCEPT !.sending = c]
<1>4. u = [dhs |-> w.dhs, dhr |-> w.dhr, root |-> w.root, receiving |-> w.receiving,
           sending |-> c, ns |-> w.ns, nr |-> w.nr, pn |-> w.pn]
  BY DEF Ratchets
<1>5. AfterSeal(w) = [u EXCEPT !.ns = n]
  BY <1>3
<1> HIDE DEF u
<1>6. AfterSeal(w) = [dhs |-> w.dhs, dhr |-> w.dhr, root |-> w.root,
                      receiving |-> w.receiving, sending |-> c, ns |-> n,
                      nr |-> w.nr, pn |-> w.pn]
  BY <1>4, <1>5
<1> QED BY <1>1, <1>2, <1>6 DEF Ratchets, n

\* A turned ratchet is a ratchet. (Ratchet::dh_step)
LEMMA TurnType ==
  ASSUME NEW K, NEW r \in Ratchets(K), NEW theirs \in K, NEW fresh \in K
  PROVE  Turn(r, theirs, fresh) \in Ratchets(K)
<1> DEFINE root == Append(r.root, {r.dhs, theirs})
           next == Append(root, {fresh, theirs})
<1>1. root \in Seq(SUBSET K) /\ next \in Seq(SUBSET K)
  BY DEF Ratchets
<1>2. ChainOf(root) \in Chains(K) /\ ChainOf(next) \in Chains(K)
  BY <1>1 DEF ChainOf, Chains
<1>3. Turn(r, theirs, fresh) =
        [dhs |-> fresh, dhr |-> theirs, root |-> next, receiving |-> ChainOf(root),
         sending |-> ChainOf(next), ns |-> 0, nr |-> 0, pn |-> r.ns]
  BY DEF Turn, RootStep
<1>4. r.ns \in Nat
  BY DEF Ratchets
<1> HIDE DEF root, next
<1> QED BY <1>1, <1>2, <1>3, <1>4 DEF Ratchets

\* Opening moves the receiving chain and its counter. (Ratchet::open)
LEMMA OpenFields ==
  ASSUME NEW K, NEW r \in Ratchets(K), NEW l \in Locks(K), NEW fresh \in K,
         NEW now \in Ratchets(K),
         now = IF Turned(r, l) THEN Turn(r, l.dh, fresh) ELSE r
  PROVE  LET v == AfterOpen(r, l, fresh)
         IN  /\ v \in Ratchets(K)
             /\ v.dhs = now.dhs /\ v.dhr = now.dhr /\ v.root = now.root
             /\ v.sending = now.sending /\ v.ns = now.ns /\ v.pn = now.pn
             /\ v.receiving = Along(now.receiving, 1) /\ v.receiving # NoChain
             /\ v.nr = now.nr + 1
<1> DEFINE c == Step(now.receiving)
           n == now.nr + 1
<1>1. c = Along(now.receiving, 1) /\ c \in Chains(K) /\ c # NoChain
  BY StepIsAlong DEF Ratchets
<1>2. n \in Nat
  BY DEF Ratchets
<1>3. AfterOpen(r, l, fresh) = [now EXCEPT !.receiving = c, !.nr = n]
  BY Zenon DEF AfterOpen
<1> HIDE DEF c, n
<1> DEFINE u == [now EXCEPT !.receiving = c]
<1>4. u = [dhs |-> now.dhs, dhr |-> now.dhr, root |-> now.root, receiving |-> c,
           sending |-> now.sending, ns |-> now.ns, nr |-> now.nr, pn |-> now.pn]
  BY DEF Ratchets
<1>5. AfterOpen(r, l, fresh) = [u EXCEPT !.nr = n]
  BY <1>3
<1> HIDE DEF u
<1>6. AfterOpen(r, l, fresh) =
        [dhs |-> now.dhs, dhr |-> now.dhr, root |-> now.root, receiving |-> c,
         sending |-> now.sending, ns |-> now.ns, nr |-> n, pn |-> now.pn]
  BY <1>4, <1>5
<1> QED BY <1>1, <1>2, <1>6 DEF Ratchets, n

-----------------------------------------------------------------------------
(***************************************************************************)
(* Two ratchets that face each other: the next frame opens, and whatever   *)
(* is done at one end leaves the rest as the other needs it.               *)
(***************************************************************************)

Facing(w, r) == Ahead(w, r) \/ Ahead(r, w)

\* The next frame that comes is the next that is asked for. (Ratchet::open)
LEMMA NextOpens ==
  ASSUME NEW K, NEW w \in Ratchets(K), NEW r \in Ratchets(K), NEW fresh \in K,
         Facing(w, r), NEW l \in Locks(K), LockIs(w, r, 1, l)
  PROVE  Opens(r, l, fresh)
<1> USE DEF Facing
<1>0. r.nr \in Nat /\ w.pn \in Nat /\ r.receiving \in Chains(K)
  BY DEF Ratchets
<1>1. CASE OfThisChain(w, r, 1)
  <2>1. l.dh = r.dhr /\ l.n = r.nr + 1 - 1 /\ l.key = Along(r.receiving, 1 - 1)
    BY <1>1 DEF LockIs
  <2>2. ~ Turned(r, l) /\ l.n = r.nr /\ l.key = Along(r.receiving, 0)
    BY <1>0, <2>1 DEF Turned
  <2>3. l.key = r.receiving
    BY <1>0, <2>2, AlongAlong
  <2>4. r.receiving # NoChain
    BY <1>0, <1>1 DEF OfThisChain, Ahead
  <2> QED BY <2>2, <2>3, <2>4 DEF Opens, Accounted
<1>2. CASE ~ OfThisChain(w, r, 1)
  <2>1. Ahead(w, r) /\ w.pn = r.nr
    BY <1>0, <1>2 DEF OfThisChain, Ahead
  <2>2. l.dh = w.dhs /\ l.pn = w.pn /\ l.n = 0 /\ l.key = Along(ChainOf(w.root), 0)
    BY <1>0, <1>2, <2>1 DEF LockIs
  <2>3. Turned(r, l) /\ Accounted(r, l)
    BY <2>1, <2>2 DEF Turned, Accounted, Ahead
  <2>4. w.dhs \in K /\ w.root \in Seq(SUBSET K)
    BY DEF Ratchets
  <2>5. l.key = ChainOf(w.root)
    BY <2>2 DEF Along, ChainOf
  <2>6. /\ Turn(r, l.dh, fresh).receiving = ChainOf(w.root)
        /\ Turn(r, l.dh, fresh).nr = 0
    <3>1. w.root = Append(r.root, {r.dhs, l.dh})
      BY <2>1, <2>2 DEF Ahead
    <3>2. l.dh \in K
      BY DEF Locks
    <3> QED BY <3>1, <3>2 DEF Turn, RootStep
  <2>7. ChainOf(w.root) # NoChain
    <3>1. w.root # <<>>
      BY <2>1, <2>4 DEF Ahead, Ratchets
    <3> QED BY <3>1 DEF ChainOf, NoChain
  <2> QED BY <2>2, <2>3, <2>5, <2>6, <2>7 DEF Opens
<1> QED BY <1>1, <1>2

\* What opening one more frame from w leaves as it should be: the frames
\* behind it are one nearer, those on their way back are what they were, and
\* each end goes on sealing what the other goes on asking for.
StillFaces(w, r, v) ==
  /\ Facing(w, v)
  /\ Unopened(w, v) = Unopened(w, r) - 1 /\ Unopened(v, w) = Unopened(r, w)
  /\ Matches(w, r) => Matches(w, v)
  /\ Matches(r, w) => Matches(v, w)

Nearer(K, w, r, v) ==
  /\ \A j \in Nat \ {0}, m \in Locks(K) : LockIs(w, r, j + 1, m) => LockIs(w, v, j, m)
  /\ \A j \in Nat \ {0}, m \in Locks(K) :
       j <= Unopened(r, w) /\ LockIs(r, w, j, m) => LockIs(v, w, j, m)

\* r opens a frame of the chain it is on. (Ratchet::open)
LEMMA SameChain ==
  ASSUME NEW K, NEW w \in Ratchets(K), NEW r \in Ratchets(K), NEW v \in Ratchets(K),
         Facing(w, r), OfThisChain(w, r, 1), Unopened(w, r) >= 1,
         v.dhs = r.dhs, v.dhr = r.dhr, v.root = r.root, v.sending = r.sending,
         v.ns = r.ns, v.pn = r.pn, v.receiving = Along(r.receiving, 1),
         v.receiving # NoChain, v.nr = r.nr + 1
  PROVE  StillFaces(w, r, v) /\ Nearer(K, w, r, v)
<1>1. /\ w.ns \in Nat /\ w.nr \in Nat /\ w.pn \in Nat
      /\ r.ns \in Nat /\ r.nr \in Nat /\ r.pn \in Nat
      /\ w.receiving \in Chains(K) /\ r.receiving \in Chains(K)
  BY DEF Ratchets
<1>2. \A k \in Nat : Along(v.receiving, k) = Along(r.receiving, 1 + k)
  BY <1>1, AlongAlong
<1>3. Facing(w, v)
  BY <1>1 DEF Facing, Ahead, OfThisChain
<1>4. Unopened(w, v) = Unopened(w, r) - 1 /\ Unopened(v, w) = Unopened(r, w)
  BY <1>1 DEF Unopened
<1>5. ASSUME Matches(w, r) PROVE Matches(w, v)
  <2>1. CASE w.dhs = r.dhr
    <3>1. w.ns - v.nr \in Nat /\ 1 + (w.ns - v.nr) = w.ns - r.nr
      BY <1>1, <2>1 DEF Unopened
    <3>2. Along(v.receiving, w.ns - v.nr) = Along(r.receiving, w.ns - r.nr)
      BY <1>2, <3>1
    <3> QED BY <1>5, <2>1, <3>2 DEF Matches
  <2>2. CASE w.dhs # r.dhr
    BY <1>5, <2>2 DEF Matches
  <2> QED BY <2>1, <2>2
<1>6. Matches(r, w) => Matches(v, w)
  BY DEF Matches
<1>7. ASSUME NEW j \in Nat \ {0}, NEW m \in Locks(K), LockIs(w, r, j + 1, m)
      PROVE  LockIs(w, v, j, m)
  <2>1. OfThisChain(w, v, j) = OfThisChain(w, r, j + 1)
    BY <1>1 DEF OfThisChain
  <2>2. CASE OfThisChain(w, v, j)
    <3>1. j - 1 \in Nat /\ 1 + (j - 1) = j /\ j + 1 - 1 = j
      OBVIOUS
    <3>2. m.dh = r.dhr /\ m.n = r.nr + (j + 1) - 1 /\ m.key = Along(r.receiving, j + 1 - 1)
      BY <1>7, <2>1, <2>2 DEF LockIs
    <3>3. m.key = Along(v.receiving, j - 1)
      BY <1>2, <3>1, <3>2
    <3>4. m.n = v.nr + j - 1
      BY <1>1, <3>2
    <3> QED BY <2>2, <3>2, <3>3, <3>4 DEF LockIs
  <2>3. CASE ~ OfThisChain(w, v, j)
    BY <1>1, <1>7, <2>1, <2>3 DEF LockIs
  <2> QED BY <2>2, <2>3
<1>8. ASSUME NEW j \in Nat \ {0}, NEW m \in Locks(K), LockIs(r, w, j, m)
      PROVE  LockIs(v, w, j, m)
  BY <1>8 DEF LockIs, OfThisChain
<1> QED BY <1>3, <1>4, <1>5, <1>6, <1>7, <1>8 DEF StillFaces, Nearer

\* r opens the first frame of a turn, and turns too. (Ratchet::open, dh_step)
LEMMA NextChain ==
  ASSUME NEW K, NEW w \in Ratchets(K), NEW r \in Ratchets(K), NEW v \in Ratchets(K),
         Facing(w, r), ~ OfThisChain(w, r, 1), Unopened(w, r) >= 1, Unopened(r, w) >= 0,
         v.dhs # w.dhr, v.dhr = w.dhs, v.root = Append(w.root, {v.dhs, w.dhs}),
         v.sending = ChainOf(v.root), v.ns = 0, v.pn = r.ns,
         v.receiving = Along(ChainOf(w.root), 1), v.receiving # NoChain, v.nr = 1
  PROVE  StillFaces(w, r, v) /\ Nearer(K, w, r, v)
<1>1. /\ w.ns \in Nat /\ w.nr \in Nat /\ w.pn \in Nat
      /\ r.ns \in Nat /\ r.nr \in Nat /\ r.pn \in Nat
      /\ w.receiving \in Chains(K) /\ r.receiving \in Chains(K)
      /\ ChainOf(w.root) \in Chains(K) /\ ChainOf(v.root) \in Chains(K)
  BY DEF Ratchets, ChainOf, Chains
<1>2. Ahead(w, r) /\ w.pn = r.nr /\ w.dhs # r.dhr /\ w.dhr = r.dhs
  BY <1>1 DEF OfThisChain, Ahead, Facing
<1>3. \A k \in Nat : Along(v.receiving, k) = Along(ChainOf(w.root), 1 + k)
  BY <1>1, AlongAlong
<1>4. w.nr <= r.ns
  BY <1>1, <1>2 DEF Unopened
<1>5. Ahead(v, w)
  <2>1. {v.dhs, w.dhs} = {w.dhs, v.dhs}
    OBVIOUS
  <2>2. w.receiving # NoChain
    BY <1>2 DEF Ahead
  <2> QED BY <1>4, <2>1, <2>2 DEF Ahead
<1>6. Unopened(w, v) = Unopened(w, r) - 1 /\ Unopened(v, w) = Unopened(r, w)
  BY <1>1, <1>2 DEF Unopened
<1>7. ASSUME Matches(w, r) PROVE Matches(w, v)
  <2>1. w.ns - 1 \in Nat /\ 1 + (w.ns - 1) = w.ns
    BY <1>1, <1>2 DEF Unopened
  <2>2. Along(v.receiving, w.ns - v.nr) = Along(ChainOf(w.root), w.ns)
    BY <1>3, <2>1
  <2> QED BY <1>2, <1>7, <2>2 DEF Matches
<1>8. Matches(v, w)
  <2>1. v.sending = Along(ChainOf(v.root), 0)
    BY <1>1, AlongAlong
  <2> QED BY <2>1 DEF Matches
<1>9. ASSUME NEW j \in Nat \ {0}, NEW m \in Locks(K), LockIs(w, r, j + 1, m)
      PROVE  LockIs(w, v, j, m)
  <2>1. ~ OfThisChain(w, r, j + 1)
    BY <1>1, <1>2 DEF OfThisChain
  <2>2. /\ m.dh = w.dhs /\ m.n = j + 1 - 1 - (w.pn - r.nr)
        /\ m.key = Along(ChainOf(w.root), m.n)
    BY <1>1, <1>9, <2>1 DEF LockIs
  <2>3. m.n = j /\ j - 1 \in Nat /\ 1 + (j - 1) = j
    BY <1>1, <1>2, <2>2
  <2>4. m.key = Along(v.receiving, j - 1)
    BY <1>3, <2>2, <2>3
  <2> QED BY <2>2, <2>3, <2>4 DEF LockIs, OfThisChain
<1>10. ASSUME NEW j \in Nat \ {0}, NEW m \in Locks(K),
              j <= Unopened(r, w), LockIs(r, w, j, m)
       PROVE  LockIs(v, w, j, m)
  <2>1. OfThisChain(r, w, j) /\ OfThisChain(v, w, j)
    BY <1>1, <1>2, <1>10 DEF OfThisChain, Unopened
  <2> QED BY <1>10, <2>1 DEF LockIs
<1> QED BY <1>5, <1>6, <1>7, <1>8, <1>9, <1>10 DEF StillFaces, Nearer, Facing

\* Whichever it is, all stays as it should be. (Ratchet::open)
LEMMA OpenFaces ==
  ASSUME NEW K, NEW w \in Ratchets(K), NEW r \in Ratchets(K), NEW fresh \in K,
         fresh # w.dhr, Facing(w, r), Unopened(w, r) >= 1, Unopened(r, w) >= 0,
         NEW l \in Locks(K), LockIs(w, r, 1, l)
  PROVE  LET v == AfterOpen(r, l, fresh)
         IN  /\ v \in Ratchets(K) /\ StillFaces(w, r, v) /\ Nearer(K, w, r, v)
             /\ v.nr = l.n + 1
             /\ IF Turned(r, l)
                  THEN /\ v.dhs = fresh /\ v.dhr = w.dhs
                       /\ v.ns = 0 /\ v.sending = ChainOf(v.root)
                       /\ Len(v.root) = Len(r.root) + 2
                  ELSE /\ v.dhs = r.dhs /\ v.dhr = r.dhr
                       /\ v.ns = r.ns /\ v.sending = r.sending
                       /\ v.root = r.root
<1> DEFINE v == AfterOpen(r, l, fresh)
<1>0. /\ l.dh \in K /\ w.root \in Seq(SUBSET K) /\ r.root \in Seq(SUBSET K)
      /\ r.nr \in Nat /\ w.pn \in Nat
  BY DEF Locks, Ratchets
<1>1. CASE OfThisChain(w, r, 1)
  <2>1. ~ Turned(r, l) /\ l.n = r.nr
    BY <1>0, <1>1 DEF LockIs, Turned
  <2>2. /\ v \in Ratchets(K)
        /\ v.dhs = r.dhs /\ v.dhr = r.dhr /\ v.root = r.root
        /\ v.sending = r.sending /\ v.ns = r.ns /\ v.pn = r.pn
        /\ v.receiving = Along(r.receiving, 1) /\ v.receiving # NoChain
        /\ v.nr = r.nr + 1
    BY <2>1, OpenFields
  <2> HIDE DEF v
  <2>3. StillFaces(w, r, v) /\ Nearer(K, w, r, v)
    BY <1>1, <2>2, SameChain
  <2>4. v.nr = l.n + 1
    BY <2>1, <2>2
  <2> QED BY <2>1, <2>2, <2>3, <2>4 DEF v
<1>2. CASE ~ OfThisChain(w, r, 1)
  <2> DEFINE now == Turn(r, l.dh, fresh)
  <2>1. Ahead(w, r) /\ w.pn = r.nr
    BY <1>0, <1>2 DEF OfThisChain, Ahead, Facing
  <2>2. l.dh = w.dhs /\ l.n = 0
    BY <1>0, <1>2, <2>1 DEF LockIs
  <2>3. Turned(r, l) /\ w.root = Append(r.root, {r.dhs, l.dh})
    BY <2>1, <2>2 DEF Turned, Ahead
  <2>4. /\ now \in Ratchets(K)
        /\ now.dhs = fresh /\ now.dhr = w.dhs
        /\ now.root = Append(w.root, {fresh, w.dhs})
        /\ now.receiving = ChainOf(w.root) /\ now.sending = ChainOf(now.root)
        /\ now.ns = 0 /\ now.nr = 0 /\ now.pn = r.ns
    <3>1. now \in Ratchets(K)
      BY <1>0, TurnType
    <3>2. now = [dhs |-> fresh, dhr |-> w.dhs, root |-> Append(w.root, {fresh, w.dhs}),
                 receiving |-> ChainOf(w.root),
                 sending |-> ChainOf(Append(w.root, {fresh, w.dhs})),
                 ns |-> 0, nr |-> 0, pn |-> r.ns]
      BY <2>2, <2>3 DEF Turn, RootStep
    <3> HIDE DEF now
    <3> QED BY <3>1, <3>2
  <2>5. now = IF Turned(r, l) THEN Turn(r, l.dh, fresh) ELSE r
    BY <2>3
  <2> HIDE DEF now
  <2>6. /\ v \in Ratchets(K)
        /\ v.dhs = now.dhs /\ v.dhr = now.dhr /\ v.root = now.root
        /\ v.sending = now.sending /\ v.ns = now.ns /\ v.pn = now.pn
        /\ v.receiving = Along(now.receiving, 1) /\ v.receiving # NoChain
        /\ v.nr = now.nr + 1
    BY <2>4, <2>5, OpenFields
  <2> HIDE DEF v
  <2>7. StillFaces(w, r, v) /\ Nearer(K, w, r, v)
    <3>1. v.dhs # w.dhr /\ v.root = Append(w.root, {v.dhs, w.dhs})
      BY <2>4, <2>6
    <3>2. v.nr = 1 /\ v.ns = 0 /\ v.pn = r.ns /\ v.dhr = w.dhs
      BY <2>4, <2>6
    <3>3. v.sending = ChainOf(v.root) /\ v.receiving = Along(ChainOf(w.root), 1)
      BY <2>4, <2>6
    <3> QED BY <1>2, <2>6, <3>1, <3>2, <3>3, NextChain
  <2>8. Len(v.root) = Len(r.root) + 2
    BY <1>0, <2>3, <2>4, <2>6 DEF Ratchets
  <2>9. v.nr = l.n + 1
    BY <2>2, <2>4, <2>6
  <2> QED BY <2>3, <2>4, <2>6, <2>7, <2>8, <2>9 DEF v
<1> QED BY <1>1, <1>2

\* What sealing at w leaves as it was for the frames on their way, both ways.
Unmoved(K, w, r, v) ==
  /\ Facing(v, r)
  /\ Unopened(r, v) = Unopened(r, w)
  /\ Matches(r, w) => Matches(r, v)
  /\ \A j \in Nat \ {0}, m \in Locks(K) :
       /\ LockIs(w, r, j, m) => LockIs(v, r, j, m)
       /\ LockIs(r, w, j, m) => LockIs(r, v, j, m)

\* A step of the sending chain alone is nothing to the frames already sealed,
\* and nothing to those that come the other way. (Ratchet::seal)
LEMMA SealUnmoved ==
  ASSUME NEW K, NEW w \in Ratchets(K), NEW r \in Ratchets(K), NEW v \in Ratchets(K),
         Facing(w, r), v.dhs = w.dhs, v.dhr = w.dhr, v.root = w.root,
         v.receiving = w.receiving, v.nr = w.nr, v.pn = w.pn
  PROVE  Unmoved(K, w, r, v)
<1>1. Facing(v, r)
  BY DEF Facing, Ahead
<1>2. Unopened(r, v) = Unopened(r, w) /\ (Matches(r, w) => Matches(r, v))
  BY DEF Unopened, Matches
<1>3. ASSUME NEW j \in Nat \ {0}, NEW m \in Locks(K)
      PROVE  /\ LockIs(w, r, j, m) => LockIs(v, r, j, m)
             /\ LockIs(r, w, j, m) => LockIs(r, v, j, m)
  BY DEF LockIs, OfThisChain
<1> QED BY <1>1, <1>2, <1>3 DEF Unmoved

\* What is sealed is the next frame the other end will ask for. (Ratchet::seal)
LEMMA SealFaces ==
  ASSUME NEW K, NEW w \in Ratchets(K), NEW r \in Ratchets(K),
         Facing(w, r), Matches(w, r), 0 <= Unopened(w, r), ~ Exhausted(w)
  PROVE  LET v == AfterSeal(w)
         IN  /\ v \in Ratchets(K) /\ Unmoved(K, w, r, v)
             /\ Unopened(v, r) = Unopened(w, r) + 1 /\ Matches(v, r)
             /\ Sealed(w) \in Locks(K) /\ LockIs(v, r, Unopened(v, r), Sealed(w))
<1> DEFINE v == AfterSeal(w)
           l == Sealed(w)
<1>1. /\ v \in Ratchets(K)
      /\ v.dhs = w.dhs /\ v.dhr = w.dhr /\ v.root = w.root
      /\ v.receiving = w.receiving /\ v.nr = w.nr /\ v.pn = w.pn
      /\ v.sending = Along(w.sending, 1) /\ v.ns = w.ns + 1
  BY SealFields
<1>2. l = [dh |-> w.dhs, pn |-> w.pn, n |-> w.ns, key |-> w.sending] /\ l \in Locks(K)
  BY DEF Sealed, Locks, Ratchets
<1> HIDE DEF v, l
<1>3. /\ w.ns \in Nat /\ w.nr \in Nat /\ w.pn \in Nat /\ r.nr \in Nat
      /\ r.receiving \in Chains(K) /\ ChainOf(w.root) \in Chains(K)
  BY DEF Ratchets, ChainOf, Chains
<1>4. Unmoved(K, w, r, v)
  BY <1>1, SealUnmoved
<1>5. CASE w.dhs = r.dhr
  <2> DEFINE k == w.ns - r.nr
  <2>1. k \in Nat /\ Unopened(w, r) = k /\ Unopened(v, r) = k + 1
        /\ v.ns - r.nr = k + 1
    BY <1>1, <1>3, <1>5 DEF Unopened
  <2>2. w.sending = Along(r.receiving, k)
    BY <1>5 DEF Matches
  <2>3. v.sending = Along(r.receiving, k + 1)
    <3>1. k \in Nat
      BY <2>1
    <3> HIDE DEF k
    <3>2. Along(Along(r.receiving, k), 1) = Along(r.receiving, k + 1)
      BY <1>3, <3>1 DEF Along, Chains
    <3> QED BY <1>1, <2>2, <3>2
  <2>4. Matches(v, r)
    BY <1>1, <1>5, <2>1, <2>3 DEF Matches
  <2>5. LockIs(v, r, k + 1, l)
    <3>1. k + 1 - 1 = k /\ r.nr + (k + 1) - 1 = w.ns
      BY <1>3, <2>1
    <3>2. OfThisChain(v, r, k + 1)
      BY <1>1, <1>5 DEF OfThisChain
    <3>3. l.dh = r.dhr /\ l.n = r.nr + (k + 1) - 1 /\ l.key = Along(r.receiving, k + 1 - 1)
      BY <1>2, <1>5, <2>2, <3>1
    <3> HIDE DEF k
    <3> QED BY <1>3, <2>1, <3>2, <3>3 DEF LockIs
  <2> QED BY <1>1, <1>2, <1>4, <2>1, <2>4, <2>5 DEF v, l
<1>6. CASE w.dhs # r.dhr
  <2> DEFINE k == w.pn - r.nr
  <2>1. r.nr <= w.pn
    BY <1>6 DEF Facing, Ahead
  <2>2. k \in Nat /\ Unopened(w, r) = k + w.ns /\ Unopened(v, r) = k + w.ns + 1
    BY <1>1, <1>3, <1>6, <2>1 DEF Unopened
  <2>3. w.sending = Along(ChainOf(w.root), w.ns)
    BY <1>6 DEF Matches
  <2>4. v.sending = Along(ChainOf(w.root), w.ns + 1)
    BY <1>1, <1>3, <2>3, AlongAlong
  <2>5. Matches(v, r)
    BY <1>1, <1>6, <2>4 DEF Matches
  <2>6. LockIs(v, r, k + w.ns + 1, l)
    <3>1. ~ OfThisChain(v, r, k + w.ns + 1)
      BY <1>1, <1>3, <1>6, <2>2 DEF OfThisChain
    <3>2. l.n = (k + w.ns + 1) - 1 - (v.pn - r.nr)
      BY <1>1, <1>2, <1>3
    <3>3. l.dh = v.dhs /\ l.pn = v.pn /\ l.key = Along(ChainOf(v.root), l.n)
      BY <1>1, <1>2, <2>3
    <3> HIDE DEF k
    <3> QED BY <3>1, <3>2, <3>3 DEF LockIs
  <2> QED BY <1>1, <1>2, <1>4, <2>2, <2>5, <2>6 DEF v, l
<1> QED BY <1>5, <1>6

\* A chain at its end seals nothing, and the frames before it are as they
\* were. (Ratchet::seal)
LEMMA SealSpent ==
  ASSUME NEW K, NEW w \in Ratchets(K), NEW r \in Ratchets(K),
         Facing(w, r), Exhausted(w)
  PROVE  LET v == AfterSeal(w)
         IN  /\ v \in Ratchets(K) /\ Unmoved(K, w, r, v)
             /\ Unopened(v, r) = Unopened(w, r)
<1> DEFINE v == AfterSeal(w)
<1>1. /\ v \in Ratchets(K)
      /\ v.dhs = w.dhs /\ v.dhr = w.dhr /\ v.root = w.root
      /\ v.receiving = w.receiving /\ v.nr = w.nr /\ v.pn = w.pn /\ v.ns = w.ns
  BY SealFields
<1> HIDE DEF v
<1>2. Unmoved(K, w, r, v)
  BY <1>1, SealUnmoved
<1>3. Unopened(v, r) = Unopened(w, r)
  BY <1>1 DEF Unopened
<1> QED BY <1>1, <1>2, <1>3 DEF v

-----------------------------------------------------------------------------
(***************************************************************************)
(* The session.                                                            *)
(***************************************************************************)

KeyPairs == Sides \X Nat

\* What may be on the wire.
Messages ==
  [kind : {"head"}, speaks : Speaks]
    \cup [kind : {"rest"}, name : Names, nonce : Sides, key : KeyPairs]
    \cup [kind : {"proof"}, by : Names, words : Sides \X Names \X Names \X Sides \X KeyPairs]
    \cup [kind : {"frame"}, msg : Nat, lock : Locks(KeyPairs)]

SealedFrames == [msg : Nat, lock : Locks(KeyPairs)]

Phases == {"head", "rest", "proof", "open", "closing", "gone", "failed", "deaf"}

TypeOK ==
  /\ speaks \in [Sides -> Speaks] /\ dialled \in Names /\ claims \in [Sides -> Names]
  /\ phase \in [Sides -> Phases]
  /\ known \in [Sides -> {Nobody} \cup [name : Names, key : KeyPairs]]
  /\ ratchet \in [Sides -> {<<>>} \cup Ratchets(KeyPairs)]
  /\ wire \in [Sides -> Seq(Messages)]
  /\ end \in [Sides -> {"open", "clean", "torn"}]
  /\ outbox \in [Sides -> Seq(Nat)] /\ inbox \in [Sides -> Seq(Int)]
  /\ sealed \in [Sides -> {NoFrame} \cup SealedFrames]
  /\ writing \in [Sides -> {"no", "runs", "failed", "done"}]
  /\ reading \in [Sides -> {"no", "runs", "done"}]
  /\ clones \subseteq Sides
  /\ budget \in [EventKinds -> Nat]
  /\ said \in [Sides -> Nat] /\ heard \in [Sides -> Seq(Int)]
  /\ made \in [Sides -> Nat]
  /\ used \in [keys : SUBSET Chains(KeyPairs), frames : Nat]

-----------------------------------------------------------------------------
(***************************************************************************)
(* The invariant.                                                          *)
(***************************************************************************)

Begun(s) == writing[s] # "no"

\* A side whose proof is not in has no ratchet; it will be this one.
FirstRoot == <<{<<"caller", 0>>, <<"answerer", 0>>}>>

Start(s) ==
  IF s = "caller" THEN Caller(FirstRoot, <<"caller", 1>>, <<"answerer", 0>>)
                  ELSE Answerer(FirstRoot, <<"answerer", 0>>, <<"caller", 0>>)

View(s) == IF Begun(s) THEN ratchet[s] ELSE Start(s)

\* Key pairs made, that of the first turn to come among them.
Made(s) == IF s = "caller" /\ ~ Begun(s) THEN 2 ELSE made[s]

\* Nothing is sealed or opened before the proof is in.
Beginnings ==
  \A s \in Sides :
    IF Begun(s)
      THEN /\ phase[s] \in {"open", "closing", "gone"}
           /\ ratchet[s] \in Ratchets(KeyPairs)
           /\ reading[s] # "no"
      ELSE /\ phase[s] \in {"head", "rest", "proof", "failed", "deaf"}
           /\ ratchet[s] = <<>> /\ reading[s] = "no" /\ sealed[s] = NoFrame
           /\ made[s] = 1

\* What each side says: the address it claims, the key it made, and a proof that
\* is its own or was given in the other role.
Says(s, m) ==
  /\ m.kind = "head" => m.speaks = speaks[s]
  /\ m.kind = "rest" => m.name = claims[s] /\ m.key = Ephemeral(s)
  /\ m.kind = "proof" => m.by = Address[s] \/ m.words[1] = Other(s)
  /\ m.kind = "frame" => m.lock.n < CHAIN

Honest == \A s \in Sides : \A i \in 1 .. Len(wire[s]) : Says(s, wire[s][i])

Met ==
  \A s \in Sides :
    /\ Begun(s) \/ phase[s] \in {"rest", "proof"} => speaks[Other(s)] = speaks[s]
    /\ Begun(s) \/ phase[s] = "proof" =>
         /\ known[s] = [name |-> claims[Other(s)], key |-> Ephemeral(Other(s))]
         /\ s = "caller" => known[s].name = dialled
    /\ Begun(s) => claims[Other(s)] = Address[Other(s)]

\* A key pair that either end knows of was made by its owner.
OwnKeys ==
  \A s \in Sides :
    /\ View(s).dhs[1] = s /\ View(s).dhs[2] < Made(s)
    /\ View(Other(s)).dhr[1] = s /\ View(Other(s)).dhr[2] < Made(s)

\* The frames on the wire, behind what is left of the handshake, are those
\* that r has yet to open, as far as they were written; while w goes on
\* writing, the next it writes is the next that r will ask for.
Flight(q, w, r, begun, going, sl) ==
  \E h \in 0 .. Len(q) :
    /\ \A i \in 1 .. Len(q) : q[i].kind = "frame" <=> i > h
    /\ \A i \in 1 .. Len(q) : i > h => LockIs(w, r, i - h, q[i].lock)
    /\ Len(q) - h <= Unopened(w, r)
    /\ ~ begun => h = Len(q)
    /\ going => IF sl = NoFrame
                  THEN Len(q) - h = Unopened(w, r)
                  ELSE /\ Len(q) - h + 1 = Unopened(w, r)
                       /\ LockIs(w, r, Len(q) - h + 1, sl.lock)

Writable(s) == writing[s] \in {"no", "runs"}

InStep ==
  /\ Facing(View("caller"), View("answerer"))
  /\ \A s \in Sides :
       /\ Flight(wire[s], View(s), View(Other(s)), Begun(s),
                 Writable(s) /\ end[s] = "open", sealed[s])
       /\ Writable(s) => Matches(View(s), View(Other(s)))

Accepted == \A s \in Sides : \A i \in 1 .. Len(inbox[s]) : inbox[s][i] # Refused

\* The chains of a side are told apart from the other side's by the length
\* of the root they came from: even or odd.
Parity(s) == IF s = "caller" THEN 0 ELSE 1

InChain ==
  \A s \in Sides :
    /\ View(s).ns <= CHAIN /\ View(s).nr <= CHAIN
    /\ sealed[s] # NoFrame => sealed[s].lock.n < CHAIN
    /\ Len(View(s).root) % 2 = Parity(s)
    /\ Len(View(s).sending.of) = Len(View(s).root)

\* A key that sealed a frame is behind what its side seals with next.
Behind(key, s) ==
  \/ Len(key.of) < Len(View(s).root)
  \/ Len(key.of) = Len(View(s).root) /\ key.at < View(s).sending.at

Spent ==
  /\ IsFiniteSet(used.keys) /\ Cardinality(used.keys) = used.frames
  /\ \A key \in used.keys, s \in Sides : Len(key.of) % 2 = Parity(s) => Behind(key, s)

IInv ==
  /\ TypeOK /\ Beginnings /\ Honest /\ Met /\ OwnKeys /\ InStep /\ Accepted
  /\ InChain /\ Spent

-----------------------------------------------------------------------------
(***************************************************************************)
(* A stream, and what is done to it.                                       *)
(***************************************************************************)

\* A frame on the wire carries a lock. (proto.rs write_frame)
LEMMA FrameHasLock ==
  ASSUME NEW m \in Messages, m.kind = "frame"
  PROVE  m.lock \in Locks(KeyPairs) /\ m.msg \in Nat
BY DEF Messages

\* The end of a stream may be lost once its writer cannot add to it.
\* (Link::cut, a circuit that dies)
LEMMA FlightCut ==
  ASSUME NEW q \in Seq(Messages), NEW n \in 0 .. Len(q),
         NEW w \in Ratchets(KeyPairs), NEW r \in Ratchets(KeyPairs),
         NEW begun \in BOOLEAN, NEW going \in BOOLEAN, NEW sl, NEW sl2,
         Flight(q, w, r, begun, going, sl)
  PROVE  Flight(SubSeq(q, 1, n), w, r, begun, FALSE, sl2)
<1> DEFINE p == SubSeq(q, 1, n)
<1>1. p \in Seq(Messages) /\ Len(p) = n /\ \A i \in 1 .. n : p[i] = q[i]
  OBVIOUS
<1>2. PICK h \in 0 .. Len(q) :
        /\ \A i \in 1 .. Len(q) : q[i].kind = "frame" <=> i > h
        /\ \A i \in 1 .. Len(q) : i > h => LockIs(w, r, i - h, q[i].lock)
        /\ Len(q) - h <= Unopened(w, r)
        /\ ~ begun => h = Len(q)
  BY DEF Flight
<1>3. Unopened(w, r) \in Int
  BY UnopenedCounts
<1> HIDE DEF p
<1> DEFINE k == IF h <= n THEN h ELSE n
<1>4. k \in 0 .. Len(p)
  BY <1>1
<1>5. \A i \in 1 .. Len(p) : p[i].kind = "frame" <=> i > k
  BY <1>1, <1>2
<1>6. \A i \in 1 .. Len(p) : i > k => LockIs(w, r, i - k, p[i].lock)
  BY <1>1, <1>2
<1>7. Len(p) - k <= Unopened(w, r)
  <2>1. CASE h <= n
    BY <1>1, <1>2, <1>3, <2>1
  <2>2. CASE h > n
    BY <1>1, <1>2, <1>3, <2>2
  <2> QED BY <2>1, <2>2
<1>8. ~ begun => k = Len(p)
  BY <1>1, <1>2
<1> HIDE DEF k
<1> QED BY <1>4, <1>5, <1>6, <1>7, <1>8 DEF Flight, p

\* A writer that stops, or whose stream has ended, adds no more.
LEMMA FlightStops ==
  ASSUME NEW q, NEW w, NEW r, NEW begun \in BOOLEAN, NEW going \in BOOLEAN,
         NEW sl, NEW sl2, Flight(q, w, r, begun, going, sl)
  PROVE  Flight(q, w, r, begun, FALSE, sl2)
BY DEF Flight

\* What is on the wire is fit for a writer that can do no more than before.
LEMMA FlightGoes ==
  ASSUME NEW q, NEW w, NEW r, NEW begun \in BOOLEAN,
         NEW going \in BOOLEAN, NEW goes \in BOOLEAN, NEW sl, NEW sl2,
         Flight(q, w, r, begun, going, sl), goes => going /\ sl2 = sl
  PROVE  Flight(q, w, r, begun, goes, sl2)
<1>1. CASE goes
  <2>1. goes = going /\ sl2 = sl
    BY <1>1
  <2> QED BY <2>1
<1>2. CASE ~ goes
  <2>1. Flight(q, w, r, begun, FALSE, sl2)
    BY FlightStops
  <2> QED BY <1>2, <2>1
<1> QED BY <1>1, <1>2

\* A part of the handshake is read. (proto.rs handshake)
LEMMA FlightHello ==
  ASSUME NEW q \in Seq(Messages), q # <<>>, Head(q).kind # "frame",
         NEW w, NEW r, NEW begun \in BOOLEAN, NEW going \in BOOLEAN, NEW sl,
         Flight(q, w, r, begun, going, sl)
  PROVE  Flight(Tail(q), w, r, begun, going, sl)
<1> DEFINE p == Tail(q)
<1>1. /\ p \in Seq(Messages) /\ Len(q) \in Nat \ {0} /\ Len(p) = Len(q) - 1
      /\ \A i \in 1 .. Len(p) : p[i] = q[i + 1]
      /\ Head(q) = q[1]
  OBVIOUS
<1>2. PICK h \in 0 .. Len(q) :
        /\ \A i \in 1 .. Len(q) : q[i].kind = "frame" <=> i > h
        /\ \A i \in 1 .. Len(q) : i > h => LockIs(w, r, i - h, q[i].lock)
        /\ Len(q) - h <= Unopened(w, r)
        /\ ~ begun => h = Len(q)
        /\ going => IF sl = NoFrame
                      THEN Len(q) - h = Unopened(w, r)
                      ELSE /\ Len(q) - h + 1 = Unopened(w, r)
                           /\ LockIs(w, r, Len(q) - h + 1, sl.lock)
  BY DEF Flight
<1> HIDE DEF p
<1> DEFINE k == h - 1
<1>3. h >= 1
  BY <1>1, <1>2
<1>4. k \in 0 .. Len(p) /\ Len(p) - k = Len(q) - h
  BY <1>1, <1>3
<1>5. \A i \in 1 .. Len(p) : p[i].kind = "frame" <=> i > k
  BY <1>1, <1>2
<1>6. \A i \in 1 .. Len(p) : i > k => LockIs(w, r, i - k, p[i].lock)
  <2>1. \A i \in 1 .. Len(p) : i + 1 \in 1 .. Len(q) /\ (i + 1) - h = i - k
    BY <1>1
  <2> QED BY <1>1, <1>2, <2>1
<1>7. ~ begun => k = Len(p)
  BY <1>1, <1>2
<1> HIDE DEF k
<1> QED BY <1>2, <1>4, <1>5, <1>6, <1>7 DEF Flight, p

\* A part of the handshake is written. (proto.rs handshake)
LEMMA FlightGreets ==
  ASSUME NEW q \in Seq(Messages), NEW m \in Messages, m.kind # "frame",
         NEW w \in Ratchets(KeyPairs), NEW r \in Ratchets(KeyPairs),
         NEW going \in BOOLEAN, NEW sl, Flight(q, w, r, FALSE, going, sl)
  PROVE  Flight(Append(q, m), w, r, FALSE, going, sl)
<1> DEFINE p == Append(q, m)
           k == Len(p)
<1>1. /\ p \in Seq(Messages) /\ Len(p) = Len(q) + 1 /\ Len(q) \in Nat
      /\ \A i \in 1 .. Len(q) : p[i] = q[i]
      /\ p[Len(p)] = m
  OBVIOUS
<1>2. /\ \A i \in 1 .. Len(q) : q[i].kind # "frame"
      /\ 0 <= Unopened(w, r)
      /\ going => IF sl = NoFrame THEN 0 = Unopened(w, r)
                                  ELSE /\ 0 + 1 = Unopened(w, r)
                                       /\ LockIs(w, r, 0 + 1, sl.lock)
  <2>1. PICK h \in 0 .. Len(q) :
          /\ \A i \in 1 .. Len(q) : q[i].kind = "frame" <=> i > h
          /\ Len(q) - h <= Unopened(w, r)
          /\ h = Len(q)
          /\ going => IF sl = NoFrame
                        THEN Len(q) - h = Unopened(w, r)
                        ELSE /\ Len(q) - h + 1 = Unopened(w, r)
                             /\ LockIs(w, r, Len(q) - h + 1, sl.lock)
    BY DEF Flight
  <2>2. Len(q) - h = 0
    BY <1>1, <2>1
  <2> QED BY <1>1, <2>1, <2>2
<1> HIDE DEF p
<1>3. k \in 0 .. Len(p) /\ Len(p) - k = 0
  BY <1>1
<1>4. \A i \in 1 .. Len(p) : p[i].kind # "frame"
  BY <1>1, <1>2
<1>5. \A i \in 1 .. Len(p) : ~ (i > k)
  BY <1>1
<1> QED BY <1>2, <1>3, <1>4, <1>5 DEF Flight, p

\* A sealed frame is written. (write_or_give_up)
LEMMA FlightWrites ==
  ASSUME NEW q \in Seq(Messages), NEW m \in Messages, m.kind = "frame",
         NEW w \in Ratchets(KeyPairs), NEW r \in Ratchets(KeyPairs),
         NEW sl, sl # NoFrame, m.lock = sl.lock,
         Flight(q, w, r, TRUE, TRUE, sl)
  PROVE  Flight(Append(q, m), w, r, TRUE, TRUE, NoFrame)
<1> DEFINE p == Append(q, m)
<1>1. /\ p \in Seq(Messages) /\ Len(p) = Len(q) + 1 /\ Len(q) \in Nat
      /\ \A i \in 1 .. Len(q) : p[i] = q[i]
      /\ p[Len(p)] = m
  OBVIOUS
<1>2. PICK h \in 0 .. Len(q) :
        /\ \A i \in 1 .. Len(q) : q[i].kind = "frame" <=> i > h
        /\ \A i \in 1 .. Len(q) : i > h => LockIs(w, r, i - h, q[i].lock)
        /\ Len(q) - h + 1 = Unopened(w, r)
        /\ LockIs(w, r, Len(q) - h + 1, sl.lock)
  BY DEF Flight
<1> HIDE DEF p
<1>3. h \in 0 .. Len(p) /\ Len(p) - h = Len(q) - h + 1
  BY <1>1
<1>4. \A i \in 1 .. Len(p) : p[i].kind = "frame" <=> i > h
  BY <1>1, <1>2
<1>5. \A i \in 1 .. Len(p) : i > h => LockIs(w, r, i - h, p[i].lock)
  <2>1. LockIs(w, r, Len(p) - h, p[Len(p)].lock)
    BY <1>1, <1>2, <1>3
  <2>2. \A i \in 1 .. Len(p) : i \in 1 .. Len(q) \/ i = Len(p)
    BY <1>1
  <2> QED BY <1>1, <1>2, <2>1, <2>2
<1> QED BY <1>2, <1>3, <1>4, <1>5 DEF Flight, p

\* A sealed frame is the next to be written. (Ratchet::seal)
LEMMA FlightSeals ==
  ASSUME NEW q \in Seq(Messages),
         NEW w \in Ratchets(KeyPairs), NEW r \in Ratchets(KeyPairs),
         NEW v \in Ratchets(KeyPairs), NEW going \in BOOLEAN,
         Flight(q, w, r, TRUE, going, NoFrame), Unmoved(KeyPairs, w, r, v),
         Unopened(v, r) = Unopened(w, r) + 1,
         NEW sl, sl.lock \in Locks(KeyPairs), LockIs(v, r, Unopened(v, r), sl.lock)
  PROVE  Flight(q, v, r, TRUE, going, sl)
<1>1. PICK h \in 0 .. Len(q) :
        /\ \A i \in 1 .. Len(q) : q[i].kind = "frame" <=> i > h
        /\ \A i \in 1 .. Len(q) : i > h => LockIs(w, r, i - h, q[i].lock)
        /\ Len(q) - h <= Unopened(w, r)
        /\ going => Len(q) - h = Unopened(w, r)
  BY DEF Flight
<1>2. \A i \in 1 .. Len(q) : i > h => LockIs(v, r, i - h, q[i].lock)
  <2>1. SUFFICES ASSUME NEW i \in 1 .. Len(q), i > h PROVE LockIs(v, r, i - h, q[i].lock)
    OBVIOUS
  <2>2. q[i] \in Messages /\ q[i].kind = "frame" /\ i - h \in Nat \ {0}
    BY <1>1, <2>1
  <2>3. q[i].lock \in Locks(KeyPairs)
    BY <2>2, FrameHasLock
  <2>4. LockIs(w, r, i - h, q[i].lock)
    BY <1>1, <2>1
  <2> QED BY <2>2, <2>3, <2>4 DEF Unmoved
<1>3. Unopened(w, r) \in Int
  BY UnopenedCounts
<1>4. Len(q) - h <= Unopened(v, r)
  BY <1>1, <1>3
<1>5. going => Len(q) - h + 1 = Unopened(v, r) /\ LockIs(v, r, Len(q) - h + 1, sl.lock)
  BY <1>1, <1>3
<1>6. sl # NoFrame
  <2>1. sl.lock # <<>>
    BY LockIsThere
  <2> QED BY <2>1 DEF NoFrame
<1> QED BY <1>1, <1>2, <1>4, <1>5, <1>6 DEF Flight

\* What is on its way to an end does not change with what that end seals, nor
\* with a chain that ends at the other.  (Ratchet::seal)
LEMMA FlightUnmoved ==
  ASSUME NEW q \in Seq(Messages),
         NEW w \in Ratchets(KeyPairs), NEW r \in Ratchets(KeyPairs),
         NEW w2 \in Ratchets(KeyPairs), NEW r2 \in Ratchets(KeyPairs),
         NEW begun \in BOOLEAN, NEW going \in BOOLEAN,
         NEW sl \in {NoFrame} \cup SealedFrames,
         Flight(q, w, r, begun, going, sl),
         Unopened(w2, r2) = Unopened(w, r),
         \A j \in Nat \ {0}, m \in Locks(KeyPairs) :
           j <= Unopened(w, r) /\ LockIs(w, r, j, m) => LockIs(w2, r2, j, m)
  PROVE  Flight(q, w2, r2, begun, going, sl)
<1>1. PICK h \in 0 .. Len(q) :
        /\ \A i \in 1 .. Len(q) : q[i].kind = "frame" <=> i > h
        /\ \A i \in 1 .. Len(q) : i > h => LockIs(w, r, i - h, q[i].lock)
        /\ Len(q) - h <= Unopened(w, r)
        /\ ~ begun => h = Len(q)
        /\ going => IF sl = NoFrame
                      THEN Len(q) - h = Unopened(w, r)
                      ELSE /\ Len(q) - h + 1 = Unopened(w, r)
                           /\ LockIs(w, r, Len(q) - h + 1, sl.lock)
  BY DEF Flight
<1>2. Unopened(w, r) \in Int
  BY UnopenedCounts
<1>3. \A i \in 1 .. Len(q) : i > h => LockIs(w2, r2, i - h, q[i].lock)
  <2>1. SUFFICES ASSUME NEW i \in 1 .. Len(q), i > h PROVE LockIs(w2, r2, i - h, q[i].lock)
    OBVIOUS
  <2>2. q[i] \in Messages /\ q[i].kind = "frame" /\ i - h \in Nat \ {0}
    BY <1>1, <2>1
  <2>3. q[i].lock \in Locks(KeyPairs)
    BY <2>2, FrameHasLock
  <2>4. LockIs(w, r, i - h, q[i].lock) /\ i - h <= Unopened(w, r)
    BY <1>1, <1>2, <2>1
  <2> QED BY <2>2, <2>3, <2>4
<1>4. going /\ sl # NoFrame => LockIs(w2, r2, Len(q) - h + 1, sl.lock)
  <2>1. SUFFICES ASSUME going, sl # NoFrame PROVE LockIs(w2, r2, Len(q) - h + 1, sl.lock)
    OBVIOUS
  <2>2. sl.lock \in Locks(KeyPairs) /\ Len(q) - h + 1 \in Nat \ {0}
    BY <2>1 DEF SealedFrames
  <2>3. LockIs(w, r, Len(q) - h + 1, sl.lock) /\ Len(q) - h + 1 <= Unopened(w, r)
    BY <1>1, <1>2, <2>1
  <2> QED BY <2>2, <2>3
<1> QED BY <1>1, <1>3, <1>4 DEF Flight

\* The first frame is opened. (Ratchet::open)
LEMMA FlightOpens ==
  ASSUME NEW q \in Seq(Messages), q # <<>>, Head(q).kind = "frame",
         NEW w \in Ratchets(KeyPairs), NEW r \in Ratchets(KeyPairs),
         NEW v \in Ratchets(KeyPairs), NEW begun \in BOOLEAN, NEW going \in BOOLEAN,
         NEW sl \in {NoFrame} \cup SealedFrames,
         Flight(q, w, r, begun, going, sl), Unopened(w, v) = Unopened(w, r) - 1,
         \A j \in Nat \ {0}, m \in Locks(KeyPairs) :
           LockIs(w, r, j + 1, m) => LockIs(w, v, j, m)
  PROVE  Flight(Tail(q), w, v, begun, going, sl)
<1> DEFINE p == Tail(q)
<1>1. /\ p \in Seq(Messages) /\ Len(q) \in Nat \ {0} /\ Len(p) = Len(q) - 1
      /\ \A i \in 1 .. Len(p) : p[i] = q[i + 1]
      /\ Head(q) = q[1]
  OBVIOUS
<1>2. PICK h \in 0 .. Len(q) :
        /\ \A i \in 1 .. Len(q) : q[i].kind = "frame" <=> i > h
        /\ \A i \in 1 .. Len(q) : i > h => LockIs(w, r, i - h, q[i].lock)
        /\ Len(q) - h <= Unopened(w, r)
        /\ ~ begun => h = Len(q)
        /\ going => IF sl = NoFrame
                      THEN Len(q) - h = Unopened(w, r)
                      ELSE /\ Len(q) - h + 1 = Unopened(w, r)
                           /\ LockIs(w, r, Len(q) - h + 1, sl.lock)
  BY DEF Flight
<1> HIDE DEF p
<1>3. h = 0
  BY <1>1, <1>2
<1>4. Unopened(w, r) \in Int
  BY UnopenedCounts
<1>5. \A i \in 1 .. Len(p) : p[i].kind = "frame" /\ p[i] \in Messages
  BY <1>1, <1>2, <1>3
<1>6. \A i \in 1 .. Len(p) : LockIs(w, v, i - 0, p[i].lock)
  <2>1. SUFFICES ASSUME NEW i \in 1 .. Len(p) PROVE LockIs(w, v, i, p[i].lock)
    OBVIOUS
  <2>2. i + 1 \in 1 .. Len(q) /\ i \in Nat \ {0} /\ i + 1 - h = i + 1
    BY <1>1, <1>3
  <2>3. LockIs(w, r, i + 1, p[i].lock)
    BY <1>1, <1>2, <1>3, <2>2
  <2>4. p[i].lock \in Locks(KeyPairs)
    BY <1>5, FrameHasLock
  <2> QED BY <2>2, <2>3, <2>4
<1>7. going /\ sl # NoFrame => LockIs(w, v, Len(p) + 1, sl.lock)
  <2>1. SUFFICES ASSUME going, sl # NoFrame PROVE LockIs(w, v, Len(p) + 1, sl.lock)
    OBVIOUS
  <2>2. sl.lock \in Locks(KeyPairs) /\ Len(p) + 1 \in Nat \ {0}
    BY <1>1, <2>1 DEF SealedFrames
  <2>3. LockIs(w, r, Len(p) + 1 + 1, sl.lock)
    BY <1>1, <1>2, <1>3, <2>1
  <2> QED BY <2>2, <2>3
<1> DEFINE k == 0
<1>8. /\ k \in 0 .. Len(p) /\ Len(p) - k = Len(p)
      /\ Len(p) <= Unopened(w, v)
      /\ ~ begun => k = Len(p)
      /\ going => IF sl = NoFrame THEN Len(p) = Unopened(w, v)
                                  ELSE Len(p) + 1 = Unopened(w, v)
  BY <1>1, <1>2, <1>3, <1>4
<1>9. \A i \in 1 .. Len(p) : p[i].kind = "frame" <=> i > k
  BY <1>5
<1> HIDE DEF k
<1>10. k = 0 BY DEF k
<1> QED BY <1>6, <1>7, <1>8, <1>9, <1>10 DEF Flight, p

\* The first frame on the wire is the next to be opened, and was counted.
LEMMA FlightHead ==
  ASSUME NEW q \in Seq(Messages), q # <<>>, Head(q).kind = "frame",
         NEW w \in Ratchets(KeyPairs), NEW r \in Ratchets(KeyPairs),
         NEW begun \in BOOLEAN, NEW going \in BOOLEAN, NEW sl,
         Flight(q, w, r, begun, going, sl)
  PROVE  LockIs(w, r, 1, Head(q).lock) /\ Unopened(w, r) >= 1 /\ begun
<1>1. Len(q) \in Nat \ {0} /\ Head(q) = q[1]
  OBVIOUS
<1>2. PICK h \in 0 .. Len(q) :
        /\ \A i \in 1 .. Len(q) : q[i].kind = "frame" <=> i > h
        /\ \A i \in 1 .. Len(q) : i > h => LockIs(w, r, i - h, q[i].lock)
        /\ Len(q) - h <= Unopened(w, r)
        /\ ~ begun => h = Len(q)
  BY DEF Flight
<1>3. h = 0
  BY <1>1, <1>2
<1>4. Unopened(w, r) \in Int
  BY UnopenedCounts
<1>5. 1 - h = 1 /\ 1 \in 1 .. Len(q) /\ 1 > h
  BY <1>1, <1>3
<1> QED BY <1>1, <1>2, <1>3, <1>4, <1>5

\* No more is on the wire than was sealed and not opened.
LEMMA FlightCounts ==
  ASSUME NEW q \in Seq(Messages),
         NEW w \in Ratchets(KeyPairs), NEW r \in Ratchets(KeyPairs),
         NEW begun \in BOOLEAN, NEW going \in BOOLEAN, NEW sl,
         Flight(q, w, r, begun, going, sl)
  PROVE  Unopened(w, r) >= 0
<1>1. PICK h \in 0 .. Len(q) : Len(q) - h <= Unopened(w, r)
  BY DEF Flight
<1>2. Unopened(w, r) \in Int /\ Len(q) \in Nat
  BY UnopenedCounts
<1> QED BY <1>1, <1>2

-----------------------------------------------------------------------------
(***************************************************************************)
(* Types.                                                                  *)
(***************************************************************************)

\* What is left of a stream is its beginning. (Prefixes)
LEMMA PrefixIs ==
  ASSUME NEW q \in Seq(Messages), NEW p \in Prefixes(q)
  PROVE  p \in Seq(Messages) /\ \E n \in 0 .. Len(q) : p = SubSeq(q, 1, n)
BY DEF Prefixes

\* Whoever is not the one is the other.
LEMMA TheOther ==
  ASSUME NEW s \in Sides
  PROVE  Other(s) \in Sides /\ Other(s) # s /\ Other(Other(s)) = s
         /\ \A t \in Sides : t = s \/ t = Other(s)
BY DEF Sides, Other

\* What is read is a message with the parts of its kind. (proto.rs)
LEMMA WhatArrives ==
  ASSUME TypeOK, NEW s \in Sides, NEW kind, Arrives(s, kind)
  PROVE  LET m == Head(wire[Other(s)])
         IN  /\ wire[Other(s)] \in Seq(Messages) /\ wire[Other(s)] # <<>>
             /\ m \in Messages /\ m.kind = kind /\ m = wire[Other(s)][1]
             /\ kind = "rest" => m.name \in Names /\ m.nonce \in Sides /\ m.key \in KeyPairs
             /\ kind = "frame" => m.msg \in Nat /\ m.lock \in Locks(KeyPairs)
<1>1. wire[Other(s)] \in Seq(Messages) /\ wire[Other(s)] # <<>>
  BY TheOther DEF TypeOK, Arrives
<1> DEFINE m == Head(wire[Other(s)])
<1>2. m \in Messages /\ m = wire[Other(s)][1]
  BY <1>1
<1>3. m.kind = kind
  BY DEF Arrives
<1> HIDE DEF m
<1>4. /\ kind = "rest" => m.name \in Names /\ m.nonce \in Sides /\ m.key \in KeyPairs
      /\ kind = "frame" => m.msg \in Nat /\ m.lock \in Locks(KeyPairs)
  BY <1>2, <1>3 DEF Messages
<1> QED BY <1>1, <1>2, <1>3, <1>4 DEF m

\* Reading takes the first message off the wire. (proto.rs)
LEMMA RestTypes ==
  ASSUME TypeOK, NEW s \in Sides, wire[Other(s)] # <<>>
  PROVE  Rest(s) \in [Sides -> Seq(Messages)]
BY TheOther DEF TypeOK, Rest

\* Types are kept by a failed handshake. (proto.rs handshake)
LEMMA FailsTypes ==
  ASSUME TypeOK, NEW s \in Sides, Fails(s)
  PROVE  /\ phase' \in [Sides -> Phases] /\ end' \in [Sides -> {"open", "clean", "torn"}]
         /\ UNCHANGED <<known, ratchet, made>>
BY DEF TypeOK, Fails, Dropped, Ended, Phases

\* Types are kept by ReadHead.
LEMMA ReadHeadTypes ==
  ASSUME TypeOK, NEW s \in Sides, ReadHead(s)
  PROVE  TypeOK'
<1>1. wire' \in [Sides -> Seq(Messages)]
  BY RestTypes DEF ReadHead, Arrives
<1>2. CASE Fails(s)
  BY <1>1, <1>2, FailsTypes DEF TypeOK, ReadHead, envVars, linkVars, historyVars
<1>3. CASE ~ Fails(s)
  <2>1. phase' = [phase EXCEPT ![s] = "rest"] /\ UNCHANGED <<known, ratchet, made, end>>
    BY <1>3 DEF ReadHead
  <2>2. phase' \in [Sides -> Phases]
    BY <2>1 DEF TypeOK, Phases
  <2> QED BY <1>1, <2>1, <2>2 DEF TypeOK, ReadHead, envVars, linkVars, historyVars
<1> QED BY <1>2, <1>3

\* A proof is signed with the one key its side has, or was given in the other
\* role. (proto.rs challenge)
LEMMA ProofIs ==
  ASSUME TypeOK, NEW s \in Sides, NEW theirs, theirs.name \in Names,
         theirs.nonce \in Sides, NEW m \in Proofs(s, theirs)
  PROVE  /\ m \in Messages /\ m.kind = "proof"
         /\ m.by = Address[s] \/ m.words[1] = Other(s)
<1>1. /\ Address[s] \in Names /\ claims[s] \in Names /\ Ephemeral(s) \in KeyPairs
      /\ Other(s) \in Sides
  BY SessionAssumption, TheOther DEF TypeOK, Ephemeral, KeyPairs
<1>2. m = Proof(s, Address[s], s, theirs) \/ m = Proof(s, claims[s], Other(s), theirs)
  BY DEF Proofs
<1>3. CASE m = Proof(s, Address[s], s, theirs)
  BY <1>1, <1>3 DEF Proof, Challenge, Messages
<1>4. CASE m = Proof(s, claims[s], Other(s), theirs)
  BY <1>1, <1>4 DEF Proof, Challenge, Messages
<1> QED BY <1>2, <1>3, <1>4

\* Types are kept by ReadRest.
LEMMA ReadRestTypes ==
  ASSUME TypeOK, NEW s \in Sides, ReadRest(s)
  PROVE  TypeOK'
<1> DEFINE theirs == Head(wire[Other(s)])
<1>1. Arrives(s, "rest")
  BY DEF ReadRest
<1>2. theirs.name \in Names /\ theirs.nonce \in Sides /\ theirs.key \in KeyPairs
  BY <1>1, WhatArrives
<1>3. Rest(s) \in [Sides -> Seq(Messages)]
  BY <1>1, RestTypes DEF Arrives
<1>4. CASE ~ AsDialled(s, theirs.name)
  <2>1. Fails(s) /\ wire' = Rest(s)
    BY <1>4 DEF ReadRest
  <2> QED
    BY <1>3, <2>1, FailsTypes DEF TypeOK, ReadRest, envVars, linkVars, historyVars
<1>5. CASE AsDialled(s, theirs.name)
  <2> HIDE DEF theirs
  <2>1. PICK proof \in Proofs(s, theirs) :
        /\ phase' = [phase EXCEPT ![s] = "proof"]
        /\ known' = [known EXCEPT ![s] = [name |-> theirs.name, key |-> theirs.key]]
        /\ wire' = [Rest(s) EXCEPT ![s] = IF end[s] # "open" THEN @ ELSE Append(@, proof)]
        /\ UNCHANGED <<ratchet, made, end>>
    BY <1>5 DEF ReadRest, theirs
  <2>2. phase' \in [Sides -> Phases]
    BY <2>1 DEF TypeOK, Phases
  <2>3. known' \in [Sides -> {Nobody} \cup [name : Names, key : KeyPairs]]
    BY <1>2, <2>1 DEF TypeOK
  <2>4. proof \in Messages
    BY <1>2, ProofIs
  <2>5. wire' \in [Sides -> Seq(Messages)]
    BY <1>3, <2>1, <2>4
  <2> QED BY <2>1, <2>2, <2>3, <2>5 DEF TypeOK, ReadRest, envVars, linkVars, historyVars
<1> QED BY <1>4, <1>5

\* Types are kept by HandshakeTimeout: a handshake given up.
LEMMA HandshakeTimeoutTypes ==
  ASSUME TypeOK, NEW s \in Sides, HandshakeTimeout(s)
  PROVE  TypeOK'
<1>1. phase' \in [Sides -> Phases]
  BY DEF TypeOK, HandshakeTimeout, Fails, Dropped, Ended, Phases
<1>2. end' \in [Sides -> {"open", "clean", "torn"}]
  BY DEF TypeOK, HandshakeTimeout, Fails, Dropped, Ended, Phases
<1>3. budget' \in [EventKinds -> Nat]
  BY SMTT(20) DEF TypeOK, HandshakeTimeout, Strikes, EventKinds
<1> QED
  BY <1>1, <1>2, <1>3 DEF TypeOK, HandshakeTimeout, envVars, linkVars, historyVars, Fails

\* Types are kept by Queue: a frame queued.
LEMMA QueueTypes ==
  ASSUME TypeOK, NEW s \in Sides, Queue(s)
  PROVE  TypeOK'
<1>1. budget' \in [EventKinds -> Nat]
  BY DEF TypeOK, Queue, Strikes, EventKinds
<1>2. said' \in [Sides -> Nat]
  BY DEF TypeOK, Queue
<1>3. outbox' \in [Sides -> Seq(Nat)]
  BY DEF TypeOK, Queue
<1> QED BY <1>1, <1>2, <1>3 DEF TypeOK, Queue, envVars, linkVars, historyVars

\* Types are kept by Write: a frame written.
LEMMA WriteTypes ==
  ASSUME TypeOK, NEW s \in Sides, Write(s)
  PROVE  TypeOK'
<1>0. sealed[s] \in SealedFrames
  BY DEF TypeOK, Write
<1> DEFINE m == [kind |-> "frame", msg |-> sealed[s].msg, lock |-> sealed[s].lock]
<1>1. m \in Messages
  BY <1>0 DEF Messages, SealedFrames
<1>2. wire' = [wire EXCEPT ![s] = Append(@, m)] \/ wire' = wire
  BY DEF Write
<1> HIDE DEF m
<1>3. wire' \in [Sides -> Seq(Messages)]
  <2>1. wire \in [Sides -> Seq(Messages)] /\ wire[s] \in Seq(Messages)
    BY DEF TypeOK
  <2> DEFINE q == Append(wire[s], m)
  <2>2. q \in Seq(Messages)
    BY <1>1, <2>1
  <2>3. wire' = [wire EXCEPT ![s] = q] \/ wire' = wire
    BY <1>2
  <2> HIDE DEF q
  <2> QED BY <2>1, <2>2, <2>3
<1>4. sealed' \in [Sides -> {NoFrame} \cup SealedFrames]
  BY DEF TypeOK, Write
<1>5. writing' \in [Sides -> {"no", "runs", "failed", "done"}]
  BY ZenonT(40) DEF TypeOK, Write
<1> QED BY <1>3, <1>4, <1>5 DEF TypeOK, Write, envVars, historyVars

\* Types are kept by GiveUpWriting: a writer that gives up.
LEMMA GiveUpWritingTypes ==
  ASSUME TypeOK, NEW s \in Sides, GiveUpWriting(s)
  PROVE  TypeOK'
<1>1. sealed' \in [Sides -> {NoFrame} \cup SealedFrames]
  BY DEF TypeOK, GiveUpWriting
<1>2. writing' \in [Sides -> {"no", "runs", "failed", "done"}]
  BY DEF TypeOK, GiveUpWriting
<1>3. budget' \in [EventKinds -> Nat]
  BY DEF TypeOK, GiveUpWriting, Strikes, EventKinds
<1> QED BY <1>1, <1>2, <1>3 DEF TypeOK, GiveUpWriting, envVars, linkVars, historyVars

\* Types are kept by ReadEnd: the end of a stream.
LEMMA ReadEndTypes ==
  ASSUME TypeOK, NEW s \in Sides, ReadEnd(s)
  PROVE  TypeOK'
<1>1. reading' \in [Sides -> {"no", "runs", "done"}]
  BY DEF TypeOK, ReadEnd, Stops, Fault, Closed
<1>2. inbox' \in [Sides -> Seq(Int)]
  BY DEF TypeOK, ReadEnd, Stops, Fault, Closed
<1> QED BY <1>1, <1>2 DEF TypeOK, ReadEnd, envVars, linkVars, historyVars

\* Types are kept by Silence: a silent peer.
LEMMA SilenceTypes ==
  ASSUME TypeOK, NEW s \in Sides, Silence(s)
  PROVE  TypeOK'
<1>1. reading' \in [Sides -> {"no", "runs", "done"}]
  BY DEF TypeOK, Silence, Stops, Fault
<1>2. inbox' \in [Sides -> Seq(Int)]
  BY DEF TypeOK, Silence, Stops, Fault
<1>3. budget' \in [EventKinds -> Nat]
  <2>1. budget' = budget \/ Strikes("event")
    BY DEF Silence
  <2> QED BY <2>1 DEF TypeOK, Strikes, EventKinds
<1> QED BY <1>1, <1>2, <1>3 DEF TypeOK, Silence, envVars, linkVars, historyVars

\* Types are kept by Take: a frame taken.
LEMMA TakeTypes ==
  ASSUME TypeOK, NEW s \in Sides, Take(s)
  PROVE  TypeOK'
<1>1. heard' \in [Sides -> Seq(Int)]
  BY DEF TypeOK, Take, Hears
<1>2. inbox' \in [Sides -> Seq(Int)]
  BY DEF TypeOK, Take, Hears
<1>3. phase' \in [Sides -> Phases]
  BY DEF TypeOK, Take, Hears, Phases
<1> QED BY <1>1, <1>2, <1>3 DEF TypeOK, Take, envVars, linkVars, historyVars

\* Types are kept by Close: Link::close.
LEMMA CloseTypes ==
  ASSUME TypeOK, NEW s \in Sides, Close(s)
  PROVE  TypeOK'
<1>1. phase' \in [Sides -> Phases]
  BY DEF TypeOK, Close, Phases
<1>2. reading' \in [Sides -> {"no", "runs", "done"}]
  BY DEF TypeOK, Close
<1>3. inbox' \in [Sides -> Seq(Int)]
  BY DEF TypeOK, Close
<1> QED BY <1>1, <1>2, <1>3 DEF TypeOK, Close, envVars, linkVars, historyVars

\* Types are kept by CloseReturns: the end of Link::close.
LEMMA CloseReturnsTypes ==
  ASSUME TypeOK, NEW s \in Sides, CloseReturns(s)
  PROVE  TypeOK'
<1>1. phase' \in [Sides -> Phases]
  BY DEF TypeOK, CloseReturns, Phases, Dropped, Ended
<1>2. end' \in [Sides -> {"open", "clean", "torn"}]
  BY DEF TypeOK, CloseReturns, Phases, Dropped, Ended
<1>3. wire' \in [Sides -> Seq(Messages)]
  BY TheOther DEF TypeOK, CloseReturns, Phases, Dropped, Ended
<1>4. outbox' \in [Sides -> Seq(Nat)]
  BY DEF TypeOK, CloseReturns
<1>5. writing' \in [Sides -> {"no", "runs", "failed", "done"}]
  BY DEF TypeOK, CloseReturns
<1> QED
  BY <1>1, <1>2, <1>3, <1>4, <1>5 DEF TypeOK, CloseReturns, envVars, linkVars, historyVars

\* Types are kept by Cut: Link::cut.
LEMMA CutTypes ==
  ASSUME TypeOK, NEW s \in Sides, Cut(s)
  PROVE  TypeOK'
<1>1. writing' \in [Sides -> {"no", "runs", "failed", "done"}]
  BY DEF TypeOK, Cut, Stops, Closed
<1>2. reading' \in [Sides -> {"no", "runs", "done"}]
  BY DEF TypeOK, Cut, Stops, Closed
<1>3. inbox' \in [Sides -> Seq(Int)]
  BY DEF TypeOK, Cut, Stops, Closed
<1>4. sealed' \in [Sides -> {NoFrame} \cup SealedFrames]
  BY DEF TypeOK, Cut, Stops, Closed
<1>5. outbox' \in [Sides -> Seq(Nat)]
  BY DEF TypeOK, Cut, Stops, Closed
<1>6. end' \in [Sides -> {"open", "clean", "torn"}]
  BY DEF TypeOK, Cut, Stops, Closed, Ended
<1>7. wire' \in [Sides -> Seq(Messages)]
  BY TheOther DEF TypeOK, Cut, Stops, Closed, Ended
<1>8. budget' \in [EventKinds -> Nat]
  BY DEF TypeOK, Cut, Strikes, EventKinds
<1> QED
  BY <1>1, <1>2, <1>3, <1>4, <1>5, <1>6, <1>7, <1>8 DEF TypeOK, Cut, envVars, linkVars,
     historyVars

\* Types are kept by Upload: an upload.
LEMMA UploadTypes ==
  ASSUME TypeOK, NEW s \in Sides, Upload(s)
  PROVE  TypeOK'
<1>1. clones' \subseteq Sides
  BY DEF TypeOK, Upload
<1>2. budget' \in [EventKinds -> Nat]
  BY DEF TypeOK, Upload, Strikes, EventKinds
<1> QED BY <1>1, <1>2 DEF TypeOK, Upload, envVars, linkVars, historyVars

\* Types are kept by UploadEnds: an upload that stops.
LEMMA UploadEndsTypes ==
  ASSUME TypeOK, NEW s \in Sides, UploadEnds(s)
  PROVE  TypeOK'
BY DEF TypeOK, UploadEnds, envVars, historyVars

\* Types are kept by Break: a circuit that dies.
LEMMA BreakTypes ==
  ASSUME TypeOK, Break
  PROVE  TypeOK'
<1>1. end' \in [Sides -> {"open", "clean", "torn"}]
  <2>1. PICK how \in {"clean", "torn"} : end' = Ended([s \in Sides |-> how])
    BY DEF Break
  <2> QED BY <2>1 DEF TypeOK, Ended
<1>2. /\ wire' \in [Sides -> UNION {Prefixes(wire[s]) : s \in Sides}]
      /\ \A s \in Sides : wire'[s] \in Prefixes(wire[s])
  BY DEF Break
<1>3. \A s \in Sides : wire'[s] \in Seq(Messages)
  BY <1>2, PrefixIs DEF TypeOK
<1>4. wire' \in [Sides -> Seq(Messages)]
  BY <1>2, <1>3
<1>5. budget' \in [EventKinds -> Nat]
  <2>1. Strikes("event")
    BY DEF Break
  <2> QED BY <2>1 DEF TypeOK, Strikes, EventKinds
<1> QED BY <1>1, <1>4, <1>5 DEF TypeOK, Break, envVars, linkVars, historyVars

-----------------------------------------------------------------------------
(***************************************************************************)
(* What most steps leave alone: the ratchets.                              *)
(***************************************************************************)

\* The ratchet each side will start from. (Ratchet::caller, Ratchet::answerer)
LEMMA StartIs ==
  /\ Start("caller") =
       [dhs |-> <<"caller", 1>>, dhr |-> <<"answerer", 0>>,
        root |-> Append(FirstRoot, {<<"caller", 1>>, <<"answerer", 0>>}),
        receiving |-> FirstChain(FirstRoot),
        sending |-> ChainOf(Append(FirstRoot, {<<"caller", 1>>, <<"answerer", 0>>})),
        ns |-> 0, nr |-> 0, pn |-> 0]
  /\ Start("answerer") =
       [dhs |-> <<"answerer", 0>>, dhr |-> <<"caller", 0>>, root |-> FirstRoot,
        receiving |-> NoChain, sending |-> FirstChain(FirstRoot),
        ns |-> 0, nr |-> 0, pn |-> 0]
BY DEF Start, Caller, Answerer, RootStep

\* Both are ratchets. (Ratchet::caller, Ratchet::answerer)
LEMMA StartType ==
  ASSUME NEW s \in Sides
  PROVE  Start(s) \in Ratchets(KeyPairs)
<1> DEFINE next == Append(FirstRoot, {<<"caller", 1>>, <<"answerer", 0>>})
<1>1. /\ <<"caller", 0>> \in KeyPairs /\ <<"caller", 1>> \in KeyPairs
      /\ <<"answerer", 0>> \in KeyPairs
  BY DEF KeyPairs, Sides
<1>2. FirstRoot \in Seq(SUBSET KeyPairs)
  BY <1>1 DEF FirstRoot
<1>3. next \in Seq(SUBSET KeyPairs)
  BY <1>1, <1>2
<1>4. /\ FirstChain(FirstRoot) \in Chains(KeyPairs) /\ NoChain \in Chains(KeyPairs)
      /\ ChainOf(next) \in Chains(KeyPairs)
  BY <1>2, <1>3 DEF FirstChain, NoChain, ChainOf, Chains
<1> HIDE DEF next
<1>5. CASE s = "caller"
  <2>1. Start(s) = [dhs |-> <<"caller", 1>>, dhr |-> <<"answerer", 0>>, root |-> next,
                    receiving |-> FirstChain(FirstRoot), sending |-> ChainOf(next),
                    ns |-> 0, nr |-> 0, pn |-> 0]
    BY <1>5, StartIs DEF next
  <2> QED BY <1>1, <1>3, <1>4, <2>1 DEF Ratchets
<1>6. CASE s = "answerer"
  <2>1. Start(s) = [dhs |-> <<"answerer", 0>>, dhr |-> <<"caller", 0>>,
                    root |-> FirstRoot, receiving |-> NoChain,
                    sending |-> FirstChain(FirstRoot), ns |-> 0, nr |-> 0, pn |-> 0]
    BY <1>6, StartIs
  <2> QED BY <1>1, <1>2, <1>4, <2>1 DEF Ratchets
<1> QED BY <1>5, <1>6 DEF Sides

\* What a side has, or will start from, is a ratchet.
LEMMA ViewType ==
  ASSUME Beginnings, NEW s \in Sides
  PROVE  View(s) \in Ratchets(KeyPairs) /\ Begun(s) \in BOOLEAN
BY StartType DEF View, Beginnings, Begun

\* A step that neither seals nor opens, and starts nothing.
Quiet ==
  /\ UNCHANGED <<speaks, dialled, claims, ratchet, made, used>>
  /\ \A t \in Sides :
       /\ writing'[t] # "no" <=> Begun(t)
       /\ Writable(t)' => Writable(t)
       /\ end'[t] = "open" => end[t] = "open"
       /\ sealed'[t] = sealed[t] \/ sealed'[t] = NoFrame
       /\ reading'[t] = reading[t] \/ (Begun(t) /\ reading'[t] = "done")
       /\ IF Begun(t) THEN phase'[t] \in {"open", "closing", "gone"}
                      ELSE phase'[t] \in {"head", "rest", "proof", "failed", "deaf"}

\* It leaves both ratchets what they are, and their keys.
LEMMA QuietViews ==
  ASSUME Quiet, NEW t \in Sides
  PROVE  View(t)' = View(t) /\ Begun(t)' = Begun(t) /\ Made(t)' = Made(t)
BY DEF Quiet, View, Begun, Made, Start

\* While both ratchets are what they were, so is all that is said of keys.
LEMMA ViewsKeep ==
  ASSUME IInv, used' = used,
         \A t \in Sides :
           /\ View(t)' = View(t) /\ Made(t)' = Made(t)
           /\ sealed'[t] = sealed[t] \/ sealed'[t] = NoFrame
  PROVE  OwnKeys' /\ InChain' /\ Spent'
<1>1. OwnKeys'
  BY TheOther DEF IInv, OwnKeys
<1>2. InChain'
  BY DEF IInv, InChain
<1>3. Spent'
  BY DEF IInv, Spent, Behind
<1> QED BY <1>1, <1>2, <1>3

\* Nothing about the keys changes.
LEMMA QuietKeeps ==
  ASSUME IInv, Quiet
  PROVE  Beginnings' /\ OwnKeys' /\ InChain' /\ Spent'
<1>1. \A t \in Sides : View(t)' = View(t) /\ Made(t)' = Made(t)
  BY QuietViews
<1>2. Beginnings'
  BY DEF IInv, Beginnings, Quiet, Begun
<1>3. OwnKeys' /\ InChain' /\ Spent'
  BY <1>1, ViewsKeep DEF Quiet
<1> QED BY <1>2, <1>3

\* What is left to see is what is on the wire.
LEMMA QuietInStep ==
  ASSUME IInv, Quiet,
         \A t \in Sides :
           Flight(wire'[t], View(t), View(Other(t)), Begun(t),
                  Writable(t)' /\ end'[t] = "open", sealed'[t])
  PROVE  InStep'
<1>1. \A t \in Sides : View(t)' = View(t) /\ Begun(t)' = Begun(t)
  BY QuietViews
<1>2. "caller" \in Sides /\ "answerer" \in Sides
  BY DEF Sides
<1>3. \A t \in Sides : Writable(t)' => Writable(t)
  BY DEF Quiet
<1>4. Facing(View("caller")', View("answerer")')
  BY <1>1, <1>2 DEF IInv, InStep
<1>5. \A t \in Sides : Writable(t)' => Matches(View(t)', View(Other(t))')
  BY <1>1, <1>3, TheOther DEF IInv, InStep
<1>6. \A t \in Sides :
        Flight(wire'[t], View(t)', View(Other(t))', Begun(t)',
               Writable(t)' /\ end'[t] = "open", sealed'[t])
  BY <1>1, TheOther
<1> QED BY <1>4, <1>5, <1>6 DEF InStep

\* Nobody is taken for another because of a step after the introductions.
LEMMA MetStays ==
  ASSUME IInv, Quiet, UNCHANGED known,
         \A t \in Sides : phase'[t] \in {"rest", "proof"} => phase'[t] = phase[t]
  PROVE  Met'
<1>1. \A t \in Sides : Begun(t)' = Begun(t)
  BY QuietViews
<1>2. UNCHANGED <<speaks, dialled, claims, known>>
  BY DEF Quiet
<1> QED BY <1>1, <1>2 DEF IInv, Met

\* A quiet step that leaves both streams as they are.
LEMMA StillKeeps ==
  ASSUME IInv, TypeOK', Accepted', Quiet, UNCHANGED <<wire, known>>,
         \A t \in Sides :
           /\ phase'[t] \in {"rest", "proof"} => phase'[t] = phase[t]
           /\ sealed'[t] = sealed[t] \/ ~ Writable(t)'
  PROVE  IInv'
<1>1. Beginnings' /\ OwnKeys' /\ InChain' /\ Spent'
  BY QuietKeeps
<1>2. Met'
  BY MetStays
<1>3. Honest'
  <2>1. UNCHANGED <<speaks, claims, wire>>
    BY DEF Quiet
  <2> QED BY <2>1 DEF IInv, Honest, Says
<1>4. InStep'
  <2>1. SUFFICES ASSUME NEW t \in Sides
        PROVE  Flight(wire[t], View(t), View(Other(t)), Begun(t),
                      Writable(t)' /\ end'[t] = "open", sealed'[t])
    BY QuietInStep
  <2> DEFINE going == Writable(t) /\ end[t] = "open"
             goes == Writable(t)' /\ end'[t] = "open"
  <2>2. Flight(wire[t], View(t), View(Other(t)), Begun(t), going, sealed[t])
    BY DEF IInv, InStep
  <2>3. /\ goes \in BOOLEAN /\ going \in BOOLEAN
        /\ goes => going /\ sealed'[t] = sealed[t]
    BY DEF Quiet
  <2> HIDE DEF going, goes
  <2>4. Flight(wire[t], View(t), View(Other(t)), Begun(t), goes, sealed'[t])
    BY <2>2, <2>3, FlightGoes DEF Begun
  <2> QED BY <2>4 DEF goes
<1> QED BY <1>1, <1>2, <1>3, <1>4 DEF IInv

-----------------------------------------------------------------------------
(***************************************************************************)
(* Steps that leave the ratchets and the streams.                          *)
(***************************************************************************)

\* What is put behind an inbox is not that a frame was refused. (Link::open)
LEMMA InboxGrows ==
  ASSUME TypeOK, Accepted, NEW s \in Sides, NEW m \in Int, m # Refused,
         inbox' = inbox \/ inbox' = [inbox EXCEPT ![s] = Append(@, m)]
  PROVE  inbox' \in [Sides -> Seq(Int)] /\ Accepted'
<1> DEFINE p == Append(inbox[s], m)
<1>1. inbox \in [Sides -> Seq(Int)] /\ inbox[s] \in Seq(Int)
  BY DEF TypeOK
<1>2. /\ p \in Seq(Int)
      /\ \A i \in 1 .. Len(p) : p[i] = m \/ (i \in 1 .. Len(inbox[s]) /\ p[i] = inbox[s][i])
  BY <1>1
<1>3. CASE inbox' = inbox
  BY <1>1, <1>3 DEF Accepted
<1>4. CASE inbox' = [inbox EXCEPT ![s] = p]
  <2> HIDE DEF p
  <2>1. inbox' \in [Sides -> Seq(Int)]
    BY <1>1, <1>2, <1>4
  <2>2. inbox'[s] = p /\ \A t \in Sides \ {s} : inbox'[t] = inbox[t]
    BY <1>1, <1>4
  <2> QED BY ZenonT(40), <1>2, <2>1, <2>2 DEF Accepted
<1> QED BY <1>3, <1>4

\* The invariant is kept by a handshake given up. (HANDSHAKE_TIMEOUT)
LEMMA HandshakeTimeoutKeeps ==
  ASSUME IInv, NEW s \in Sides, HandshakeTimeout(s)
  PROVE  IInv'
<1>1. TypeOK'
  BY HandshakeTimeoutTypes DEF IInv
<1>2. Beginnings /\ TypeOK /\ Accepted
  BY DEF IInv
<1>3. Quiet /\ UNCHANGED <<wire, known>>
  BY <1>2 DEF TypeOK, Beginnings, HandshakeTimeout, Quiet, Begun, Writable, Opening,
     Fails, Dropped, Ended, envVars, linkVars, historyVars
<1>4. Accepted'
  BY <1>2 DEF HandshakeTimeout, Accepted, Fails, linkVars
<1>5. \A t \in Sides :
        /\ phase'[t] \in {"rest", "proof"} => phase'[t] = phase[t]
        /\ sealed'[t] = sealed[t] \/ ~ Writable(t)'
  BY <1>2 DEF TypeOK, HandshakeTimeout, Writable, Opening, Fails, Dropped, Ended,
     linkVars, historyVars
<1> QED BY <1>1, <1>3, <1>4, <1>5, StillKeeps

\* The invariant is kept by a frame queued. (Link::queue)
LEMMA QueueKeeps ==
  ASSUME IInv, NEW s \in Sides, Queue(s)
  PROVE  IInv'
<1>1. TypeOK'
  BY QueueTypes DEF IInv
<1>2. Beginnings /\ TypeOK /\ Accepted
  BY DEF IInv
<1>3. Quiet /\ UNCHANGED <<wire, known>>
  BY <1>2 DEF TypeOK, Beginnings, Queue, Quiet, Begun, Writable, Open, envVars, linkVars,
     historyVars
<1>4. Accepted'
  BY <1>2 DEF Queue, Accepted, Fails, linkVars
<1>5. \A t \in Sides :
        /\ phase'[t] \in {"rest", "proof"} => phase'[t] = phase[t]
        /\ sealed'[t] = sealed[t] \/ ~ Writable(t)'
  BY <1>2 DEF TypeOK, Queue, Writable, Open, linkVars, historyVars
<1> QED BY <1>1, <1>3, <1>4, <1>5, StillKeeps

\* The invariant is kept by a writer that gives up. (write_or_give_up)
LEMMA GiveUpWritingKeeps ==
  ASSUME IInv, NEW s \in Sides, GiveUpWriting(s)
  PROVE  IInv'
<1>1. TypeOK'
  BY GiveUpWritingTypes DEF IInv
<1>2. Beginnings /\ TypeOK /\ Accepted
  BY DEF IInv
<1>3. Quiet /\ UNCHANGED <<wire, known>>
  BY <1>2 DEF TypeOK, Beginnings, GiveUpWriting, Quiet, Begun, Writable, envVars,
     linkVars, historyVars
<1>4. Accepted'
  BY <1>2 DEF GiveUpWriting, Accepted, Fails, linkVars
<1>5. \A t \in Sides :
        /\ phase'[t] \in {"rest", "proof"} => phase'[t] = phase[t]
        /\ sealed'[t] = sealed[t] \/ ~ Writable(t)'
  BY <1>2 DEF TypeOK, GiveUpWriting, Writable, linkVars, historyVars
<1> QED BY <1>1, <1>3, <1>4, <1>5, StillKeeps

\* The invariant is kept by the end of a stream. (Link::open)
LEMMA ReadEndKeeps ==
  ASSUME IInv, NEW s \in Sides, ReadEnd(s)
  PROVE  IInv'
<1>1. TypeOK'
  BY ReadEndTypes DEF IInv
<1>2. Beginnings /\ TypeOK /\ Accepted
  BY DEF IInv
<1>3. Quiet /\ UNCHANGED <<wire, known>>
  BY <1>2 DEF TypeOK, Beginnings, ReadEnd, Quiet, Begun, Writable, Stops, Reads, envVars,
     linkVars, historyVars
<1>4. Accepted'
  <2>1. PICK why \in {Closed, Fault} : inbox' = [inbox EXCEPT ![s] = Append(@, why)]
    BY DEF ReadEnd, Stops
  <2>2. why \in Int /\ why # Refused
    BY DEF Closed, Fault, Refused
  <2> QED BY <1>2, <2>1, <2>2, InboxGrows
<1>5. \A t \in Sides :
        /\ phase'[t] \in {"rest", "proof"} => phase'[t] = phase[t]
        /\ sealed'[t] = sealed[t] \/ ~ Writable(t)'
  BY <1>2 DEF TypeOK, ReadEnd, Writable, Stops, Reads, linkVars, historyVars
<1> QED BY <1>1, <1>3, <1>4, <1>5, StillKeeps

\* The invariant is kept by a silent peer. (SILENCE)
LEMMA SilenceKeeps ==
  ASSUME IInv, NEW s \in Sides, Silence(s)
  PROVE  IInv'
<1>1. TypeOK'
  BY SilenceTypes DEF IInv
<1>2. Beginnings /\ TypeOK /\ Accepted
  BY DEF IInv
<1>3. Quiet /\ UNCHANGED <<wire, known>>
  BY <1>2 DEF TypeOK, Beginnings, Silence, Quiet, Begun, Writable, Stops, Reads, envVars,
     linkVars, historyVars
<1>4. Accepted'
  <2>1. PICK why \in {Closed, Fault} : inbox' = [inbox EXCEPT ![s] = Append(@, why)]
    BY DEF Silence, Stops
  <2>2. why \in Int /\ why # Refused
    BY DEF Closed, Fault, Refused
  <2> QED BY <1>2, <2>1, <2>2, InboxGrows
<1>5. \A t \in Sides :
        /\ phase'[t] \in {"rest", "proof"} => phase'[t] = phase[t]
        /\ sealed'[t] = sealed[t] \/ ~ Writable(t)'
  BY <1>2 DEF TypeOK, Silence, Writable, Stops, Reads, linkVars, historyVars
<1> QED BY <1>1, <1>3, <1>4, <1>5, StillKeeps

\* The invariant is kept by a frame taken. (Link::recv)
LEMMA TakeKeeps ==
  ASSUME IInv, NEW s \in Sides, Take(s)
  PROVE  IInv'
<1>1. TypeOK'
  BY TakeTypes DEF IInv
<1>2. Beginnings /\ TypeOK /\ Accepted
  BY DEF IInv
<1>3. Quiet /\ UNCHANGED <<wire, known>>
  BY <1>2 DEF TypeOK, Beginnings, Take, Quiet, Begun, Writable, Open, envVars, linkVars,
     historyVars
<1>4. Accepted'
  <2>1. inbox' = [inbox EXCEPT ![s] = Tail(@)] /\ inbox[s] # <<>>
    BY DEF Take
  <2>2. inbox \in [Sides -> Seq(Int)]
    BY <1>2 DEF TypeOK
  <2>3. \A i \in 1 .. Len(Tail(inbox[s])) :
          i + 1 \in 1 .. Len(inbox[s]) /\ Tail(inbox[s])[i] = inbox[s][i + 1]
    BY <2>1, <2>2
  <2> QED BY <1>2, <2>1, <2>2, <2>3 DEF Accepted
<1>5. \A t \in Sides :
        /\ phase'[t] \in {"rest", "proof"} => phase'[t] = phase[t]
        /\ sealed'[t] = sealed[t] \/ ~ Writable(t)'
  BY <1>2 DEF TypeOK, Take, Writable, Open, linkVars, historyVars
<1> QED BY <1>1, <1>3, <1>4, <1>5, StillKeeps

\* The invariant is kept by the link let go. (Link::close)
LEMMA CloseKeeps ==
  ASSUME IInv, NEW s \in Sides, Close(s)
  PROVE  IInv'
<1>1. TypeOK'
  BY CloseTypes DEF IInv
<1>2. Beginnings /\ TypeOK /\ Accepted
  BY DEF IInv
<1>3. Quiet /\ UNCHANGED <<wire, known>>
  BY <1>2 DEF TypeOK, Beginnings, Close, Quiet, Begun, Writable, Open, envVars, linkVars,
     historyVars
<1>4. Accepted'
  BY <1>2 DEF TypeOK, Close, Accepted
<1>5. \A t \in Sides :
        /\ phase'[t] \in {"rest", "proof"} => phase'[t] = phase[t]
        /\ sealed'[t] = sealed[t] \/ ~ Writable(t)'
  BY <1>2 DEF TypeOK, Close, Writable, Open, linkVars, historyVars
<1> QED BY <1>1, <1>3, <1>4, <1>5, StillKeeps

\* The invariant is kept by an upload. (files.rs)
LEMMA UploadKeeps ==
  ASSUME IInv, NEW s \in Sides, Upload(s)
  PROVE  IInv'
<1>1. TypeOK'
  BY UploadTypes DEF IInv
<1>2. Beginnings /\ TypeOK /\ Accepted
  BY DEF IInv
<1>3. Quiet /\ UNCHANGED <<wire, known>>
  BY <1>2 DEF TypeOK, Beginnings, Upload, Quiet, Begun, Writable, Open, envVars, linkVars,
     historyVars
<1>4. Accepted'
  BY <1>2 DEF Upload, Accepted, Fails, linkVars
<1>5. \A t \in Sides :
        /\ phase'[t] \in {"rest", "proof"} => phase'[t] = phase[t]
        /\ sealed'[t] = sealed[t] \/ ~ Writable(t)'
  BY <1>2 DEF TypeOK, Upload, Writable, Open, linkVars, historyVars
<1> QED BY <1>1, <1>3, <1>4, <1>5, StillKeeps

\* The invariant is kept by an upload that stops. (files.rs)
LEMMA UploadEndsKeeps ==
  ASSUME IInv, NEW s \in Sides, UploadEnds(s)
  PROVE  IInv'
<1>1. TypeOK'
  BY UploadEndsTypes DEF IInv
<1>2. Beginnings /\ TypeOK /\ Accepted
  BY DEF IInv
<1>3. Quiet /\ UNCHANGED <<wire, known>>
  BY <1>2 DEF TypeOK, Beginnings, UploadEnds, Quiet, Begun, Writable, envVars, linkVars,
     historyVars
<1>4. Accepted'
  BY <1>2 DEF UploadEnds, Accepted, Fails, linkVars
<1>5. \A t \in Sides :
        /\ phase'[t] \in {"rest", "proof"} => phase'[t] = phase[t]
        /\ sealed'[t] = sealed[t] \/ ~ Writable(t)'
  BY <1>2 DEF TypeOK, UploadEnds, Writable, linkVars, historyVars
<1> QED BY <1>1, <1>3, <1>4, <1>5, StillKeeps

-----------------------------------------------------------------------------
(***************************************************************************)
(* The steps of the handshake.                                             *)
(***************************************************************************)

\* Taking the first message off a wire leaves the honest ones. (proto.rs)
LEMMA RestHonest ==
  ASSUME TypeOK, Honest, NEW s \in Sides, wire[Other(s)] # <<>>,
         wire' = Rest(s), UNCHANGED <<speaks, claims>>
  PROVE  Honest'
<1> DEFINE q == wire[Other(s)]
<1>1. /\ q \in Seq(Messages) /\ q # <<>> /\ Other(s) \in Sides
      /\ wire' = [wire EXCEPT ![Other(s)] = Tail(q)] /\ wire \in [Sides -> Seq(Messages)]
  BY TheOther DEF TypeOK, Rest
<1>2. \A i \in 1 .. Len(Tail(q)) : i + 1 \in 1 .. Len(q) /\ Tail(q)[i] = q[i + 1]
  BY <1>1
<1>3. SUFFICES ASSUME NEW t \in Sides, NEW i \in 1 .. Len(wire'[t])
      PROVE  Says(t, wire'[t][i])
  BY DEF Honest, Says
<1>4. CASE t = Other(s)
  <2>1. wire'[t] = Tail(q)
    BY <1>1, <1>4
  <2>2. Says(t, q[i + 1])
    BY <1>2, <1>4, <2>1 DEF Honest
  <2> HIDE DEF q
  <2> QED BY <1>2, <2>1, <2>2
<1>5. CASE t # Other(s)
  <2>1. wire'[t] = wire[t]
    BY <1>1, <1>5
  <2> QED BY <2>1 DEF Honest
<1> QED BY <1>4, <1>5

\* A message of the handshake is read. (proto.rs handshake)
LEMMA HelloInStep ==
  ASSUME IInv, TypeOK', Quiet, NEW s \in Sides, wire[Other(s)] # <<>>,
         Head(wire[Other(s)]).kind # "frame", wire' = Rest(s), UNCHANGED sealed
  PROVE  InStep'
<1> DEFINE q == wire[Other(s)]
<1>1. /\ q \in Seq(Messages) /\ q # <<>> /\ Other(s) \in Sides
      /\ wire' = [wire EXCEPT ![Other(s)] = Tail(q)] /\ wire \in [Sides -> Seq(Messages)]
  BY TheOther DEF IInv, TypeOK, Rest
<1>2. SUFFICES ASSUME NEW t \in Sides
      PROVE  Flight(wire'[t], View(t), View(Other(t)), Begun(t),
                    Writable(t)' /\ end'[t] = "open", sealed[t])
  BY QuietInStep
<1> DEFINE going == Writable(t) /\ end[t] = "open"
           goes == Writable(t)' /\ end'[t] = "open"
<1>3. Flight(wire[t], View(t), View(Other(t)), Begun(t), going, sealed[t])
  BY DEF IInv, InStep
<1>4. /\ goes \in BOOLEAN /\ going \in BOOLEAN /\ Begun(t) \in BOOLEAN
      /\ goes => going
  BY DEF Quiet, Begun
<1> HIDE DEF going, goes
<1>5. Flight(wire'[t], View(t), View(Other(t)), Begun(t), going, sealed[t])
  <2>1. CASE t = Other(s)
    <3>1. wire'[t] = Tail(q) /\ wire[t] = q
      BY <1>1, <2>1
    <3> HIDE DEF q
    <3>2. Head(q).kind # "frame"
      BY DEF q
    <3> QED BY <1>1, <1>3, <1>4, <3>1, <3>2, FlightHello
  <2>2. CASE t # Other(s)
    BY <1>1, <1>3, <2>2
  <2> QED BY <2>1, <2>2
<1>6. Flight(wire'[t], View(t), View(Other(t)), Begun(t), goes, sealed[t])
  BY <1>4, <1>5, FlightGoes
<1> QED BY <1>6 DEF goes

\* The invariant is kept by the first part of the handshake. (proto.rs handshake)
LEMMA ReadHeadKeeps ==
  ASSUME IInv, NEW s \in Sides, ReadHead(s)
  PROVE  IInv'
<1>1. TypeOK'
  BY ReadHeadTypes DEF IInv
<1>2. Beginnings /\ TypeOK /\ Accepted /\ Honest
  BY DEF IInv
<1>3. /\ Arrives(s, "head") /\ wire' = Rest(s) /\ wire[Other(s)] # <<>>
      /\ Head(wire[Other(s)]).kind # "frame" /\ UNCHANGED <<sealed, speaks, claims>>
  BY DEF ReadHead, Arrives, linkVars, envVars
<1>4. Quiet /\ UNCHANGED <<known, inbox>>
  <2>1. UNCHANGED <<speaks, dialled, claims, ratchet, made, used, known, inbox, writing, sealed,
                    reading>>
    BY DEF ReadHead, Fails, envVars, linkVars, historyVars
  <2>2. \A t \in Sides : end'[t] = "open" => end[t] = "open"
    BY DEF ReadHead, Fails, Dropped, Ended
  <2>3. \A t \in Sides : phase'[t] = phase[t] \/ (t = s /\ phase'[t] \in {"rest", "failed"})
    BY <1>2 DEF TypeOK, ReadHead, Fails
  <2>4. ~ Begun(s)
    BY <1>2 DEF Beginnings, ReadHead
  <2> QED BY <1>2, <2>1, <2>2, <2>3, <2>4 DEF Quiet, Beginnings, Begun, Writable
<1>5. Beginnings' /\ OwnKeys' /\ InChain' /\ Spent'
  BY <1>4, QuietKeeps
<1>6. InStep'
  BY <1>1, <1>3, <1>4, HelloInStep
<1>7. Honest'
  BY <1>2, <1>3, RestHonest
<1>8. Accepted'
  BY <1>2, <1>4 DEF Accepted
<1>9. Met'
  <2>1. CASE phase' = [phase EXCEPT ![s] = "rest"]
    <3>1. speaks[Other(s)] = speaks[s]
      <4> DEFINE m == Head(wire[Other(s)])
      <4>1. m.kind = "head" /\ m = wire[Other(s)][1] /\ wire[Other(s)] \in Seq(Messages)
        BY <1>2, <1>3, WhatArrives
      <4>2. 1 \in 1 .. Len(wire[Other(s)])
        BY <1>3, <4>1
      <4>3. Says(Other(s), wire[Other(s)][1])
        BY <1>2, <4>2, TheOther DEF Honest
      <4>4. m.speaks = speaks[Other(s)]
        BY <4>1, <4>3 DEF Says
      <4>5. m.speaks = speaks[s]
        <5>1. phase'[s] = "rest"
          BY <1>2, <2>1 DEF TypeOK
        <5>2. ~ Fails(s)
          BY <1>2, <5>1 DEF Fails, TypeOK
        <5> QED BY <5>2 DEF ReadHead
      <4> QED BY <4>4, <4>5
    <3>2. \A t \in Sides : Begun(t)' = Begun(t)
      BY <1>4, QuietViews
    <3>3. UNCHANGED <<speaks, dialled, claims, known>>
      BY <1>4 DEF Quiet
    <3>4. \A t \in Sides : phase'[t] = IF t = s THEN "rest" ELSE phase[t]
      BY <1>2, <2>1 DEF TypeOK
    <3> QED BY <3>1, <3>2, <3>3, <3>4 DEF IInv, Met
  <2>2. CASE Fails(s)
    <3>1. \A t \in Sides : phase'[t] \in {"rest", "proof"} => phase'[t] = phase[t]
      BY <1>2, <2>2 DEF TypeOK, Fails
    <3> QED BY <1>4, <3>1, MetStays
  <2> QED BY <2>1, <2>2 DEF ReadHead
<1> QED BY <1>1, <1>5, <1>6, <1>7, <1>8, <1>9 DEF IInv

\* The invariant is kept by the second part of the handshake: the other side is
\* who it says. (proto.rs handshake)
LEMMA ReadRestKeeps ==
  ASSUME IInv, NEW s \in Sides, ReadRest(s)
  PROVE  IInv'
<1> DEFINE theirs == Head(wire[Other(s)])
<1>1. TypeOK'
  BY ReadRestTypes DEF IInv
<1>2. Beginnings /\ TypeOK /\ Accepted /\ Honest
  BY DEF IInv
<1>3. /\ Arrives(s, "rest") /\ wire[Other(s)] # <<>>
      /\ theirs.kind # "frame"
  BY DEF ReadRest, Arrives
<1>4. /\ UNCHANGED <<speaks, dialled, claims, ratchet, made, used, inbox, writing, sealed, reading>>
      /\ \A t \in Sides : end'[t] = "open" => end[t] = "open"
      /\ ~ Begun(s) /\ phase[s] = "rest"
  <2>1. UNCHANGED <<speaks, dialled, claims, ratchet, made, used, inbox, writing, sealed, reading>>
    BY DEF ReadRest, Fails, envVars, linkVars, historyVars
  <2>2. \A t \in Sides : end'[t] = "open" => end[t] = "open"
    BY DEF ReadRest, Fails, Dropped, Ended
  <2>3. ~ Begun(s) /\ phase[s] = "rest"
    BY <1>2 DEF Beginnings, ReadRest
  <2> QED BY <2>1, <2>2, <2>3
<1>5. Accepted'
  BY <1>2, <1>4 DEF Accepted
<1>6. CASE ~ AsDialled(s, theirs.name)
  <2>1. Fails(s) /\ wire' = Rest(s)
    BY <1>6 DEF ReadRest
  <2>2. \A t \in Sides : phase'[t] = phase[t] \/ (t = s /\ phase'[t] = "failed")
    BY <1>2, <2>1 DEF TypeOK, Fails
  <2>3. Quiet /\ UNCHANGED known
    BY <1>2, <1>4, <2>1, <2>2 DEF Quiet, Beginnings, Begun, Writable, Fails
  <2>4. Beginnings' /\ OwnKeys' /\ InChain' /\ Spent'
    BY <2>3, QuietKeeps
  <2>5. InStep'
    BY <1>1, <1>3, <1>4, <2>1, <2>3, HelloInStep
  <2>6. Honest'
    BY <1>2, <1>3, <1>4, <2>1, RestHonest
  <2>7. Met'
    BY <2>2, <2>3, MetStays
  <2> QED BY <1>1, <1>5, <2>4, <2>5, <2>6, <2>7 DEF IInv
<1>7. CASE AsDialled(s, theirs.name)
  <2>1. PICK proof \in Proofs(s, theirs) :
        /\ phase' = [phase EXCEPT ![s] = "proof"]
        /\ known' = [known EXCEPT ![s] = [name |-> theirs.name, key |-> theirs.key]]
        /\ wire' = [Rest(s) EXCEPT ![s] = IF end[s] # "open" THEN @ ELSE Append(@, proof)]
        /\ UNCHANGED end
    BY <1>7 DEF ReadRest
  <2>2. \A t \in Sides : phase'[t] = IF t = s THEN "proof" ELSE phase[t]
    BY <1>2, <2>1 DEF TypeOK
  <2>3. Quiet
    BY <1>2, <1>4, <2>2 DEF Quiet, Beginnings, Begun, Writable
  <2>4. Beginnings' /\ OwnKeys' /\ InChain' /\ Spent'
    BY <2>3, QuietKeeps
  <2>5. theirs.name = claims[Other(s)] /\ theirs.key = Ephemeral(Other(s))
    <3>1. theirs.kind = "rest" /\ theirs = wire[Other(s)][1] /\ wire[Other(s)] \in Seq(Messages)
      BY <1>2, <1>3, WhatArrives
    <3>2. 1 \in 1 .. Len(wire[Other(s)])
      BY <1>3, <3>1
    <3>3. Says(Other(s), wire[Other(s)][1])
      BY <1>2, <3>2, TheOther DEF Honest
    <3> QED BY <3>1, <3>3 DEF Says
  <2>6. Met'
    <3> HIDE DEF theirs
    <3>1. \A t \in Sides : Begun(t)' = Begun(t)
      BY <2>3, QuietViews
    <3>2. \A t \in Sides :
            known'[t] = IF t = s THEN [name |-> theirs.name, key |-> theirs.key]
                                 ELSE known[t]
      BY <1>2, <2>1 DEF TypeOK
    <3>3. s = "caller" => theirs.name = dialled
      BY <1>7 DEF AsDialled
    <3>4. Met
      BY DEF IInv
    <3>5. ASSUME NEW t \in Sides
          PROVE  /\ Begun(t) \/ phase'[t] \in {"rest", "proof"} => speaks[Other(t)] = speaks[t]
                 /\ Begun(t) \/ phase'[t] = "proof" =>
                      /\ known'[t] = [name |-> claims[Other(t)], key |-> Ephemeral(Other(t))]
                      /\ t = "caller" => known'[t].name = dialled
                 /\ Begun(t) => claims[Other(t)] = Address[Other(t)]
      BY <1>4, <2>2, <2>5, <3>2, <3>3, <3>4 DEF Met
    <3> QED BY <1>4, <3>1, <3>5 DEF Met
  <2>7. /\ proof \in Messages /\ proof.kind = "proof"
        /\ proof.by = Address[s] \/ proof.words[1] = Other(s)
    <3>1. theirs.name \in Names /\ theirs.nonce \in Sides
      BY <1>2, <1>3, WhatArrives
    <3> HIDE DEF theirs
    <3> QED BY <1>2, <3>1, ProofIs
  <2> HIDE DEF theirs
  <2> DEFINE q == wire[Other(s)]
             p == Append(wire[s], proof)
  <2>8. /\ wire[s] \in Seq(Messages) /\ q \in Seq(Messages) /\ q # <<>>
        /\ Head(q).kind # "frame" /\ Other(s) \in Sides /\ Other(s) # s
    BY <1>2, <1>3, TheOther DEF TypeOK, theirs
  <2>9. /\ wire'[Other(s)] = Tail(q)
        /\ wire'[s] = wire[s] \/ wire'[s] = p
    BY <1>2, <2>1, <2>8 DEF TypeOK, Rest
  <2>10. Honest'
    <3>1. \A i \in 1 .. Len(Tail(q)) : i + 1 \in 1 .. Len(q) /\ Tail(q)[i] = q[i + 1]
      BY <2>8
    <3>2. \A i \in 1 .. Len(p) : p[i] = proof \/ (i \in 1 .. Len(wire[s]) /\ p[i] = wire[s][i])
      BY <2>7, <2>8
    <3>3. Says(s, proof)
      BY <2>7 DEF Says
    <3>4. SUFFICES ASSUME NEW t \in Sides, NEW i \in 1 .. Len(wire'[t])
          PROVE  Says(t, wire'[t][i])
      BY <1>4 DEF Honest, Says
    <3>5. CASE t = Other(s)
      <4>1. Says(t, q[i + 1])
        BY <1>2, <2>9, <3>1, <3>5 DEF Honest
      <4> HIDE DEF q
      <4> QED BY <2>9, <3>1, <3>5, <4>1
    <3>6. CASE t = s
      <4> HIDE DEF p
      <4> QED BY <1>2, <2>9, <3>2, <3>3, <3>6 DEF Honest
    <3> QED BY <3>5, <3>6, TheOther
  <2>11. InStep'
    <3> HIDE DEF q, p
    <3>1. SUFFICES ASSUME NEW t \in Sides
          PROVE  Flight(wire'[t], View(t), View(Other(t)), Begun(t),
                        Writable(t)' /\ end'[t] = "open", sealed[t])
      BY <1>4, <2>3, QuietInStep
    <3> DEFINE going == Writable(t) /\ end[t] = "open"
    <3>2. Flight(wire[t], View(t), View(Other(t)), Begun(t), going, sealed[t])
      BY DEF IInv, InStep
    <3>3. /\ going = (Writable(t)' /\ end'[t] = "open")
          /\ going \in BOOLEAN /\ Begun(t) \in BOOLEAN
      BY <1>4, <2>1 DEF Writable, Begun
    <3>4. View(t) \in Ratchets(KeyPairs) /\ View(Other(t)) \in Ratchets(KeyPairs)
      BY <1>2, ViewType, TheOther
    <3> HIDE DEF going
    <3>5. CASE t = Other(s)
      <4>1. Flight(q, View(t), View(Other(t)), Begun(t), going, sealed[t])
        BY <3>2, <3>5 DEF q
      <4>2. Flight(Tail(q), View(t), View(Other(t)), Begun(t), going, sealed[t])
        BY <2>8, <3>3, <4>1, FlightHello
      <4> QED BY <2>9, <3>3, <3>5, <4>2
    <3>6. CASE t = s
      <4>1. Begun(t) = FALSE /\ proof.kind # "frame"
        BY <1>4, <2>7, <3>3, <3>6
      <4>2. Flight(p, View(t), View(Other(t)), FALSE, going, sealed[t])
        BY <2>7, <2>8, <3>2, <3>3, <3>4, <3>6, <4>1, FlightGreets DEF p
      <4> QED BY <2>9, <3>2, <3>3, <3>6, <4>1, <4>2
    <3> QED BY <3>5, <3>6, TheOther
  <2> QED BY <1>1, <1>5, <2>4, <2>6, <2>10, <2>11 DEF IInv
<1> QED BY <1>6, <1>7

-----------------------------------------------------------------------------
(***************************************************************************)
(* A frame is written, or lost with what follows it.                       *)
(***************************************************************************)

\* The invariant is kept by a frame written. (write_or_give_up)
LEMMA WriteKeeps ==
  ASSUME IInv, NEW s \in Sides, Write(s)
  PROVE  IInv'
<1> DEFINE m == [kind |-> "frame", msg |-> sealed[s].msg, lock |-> sealed[s].lock]
<1>1. TypeOK'
  BY WriteTypes DEF IInv
<1>2. Beginnings /\ TypeOK /\ Accepted /\ Honest /\ InChain
  BY DEF IInv
<1>3. /\ writing[s] = "runs" /\ Begun(s) /\ sealed[s] # NoFrame
      /\ sealed' = [sealed EXCEPT ![s] = NoFrame]
      /\ UNCHANGED <<speaks, dialled, claims, phase, known, ratchet, made, used, inbox, end, reading>>
  BY DEF Write, Begun, envVars, historyVars
<1>4. \/ /\ end[s] = "open" /\ wire' = [wire EXCEPT ![s] = Append(@, m)]
         /\ UNCHANGED writing
      \/ /\ end[s] # "open" /\ wire' = wire
         /\ \E after \in {"runs", "failed"} : writing' = [writing EXCEPT ![s] = after]
  BY DEF Write
<1>5. /\ m \in Messages /\ m.kind = "frame" /\ m.lock = sealed[s].lock
      /\ m.lock.n < CHAIN
  <2>1. sealed[s] \in SealedFrames /\ sealed[s].lock.n < CHAIN
    BY <1>2, <1>3 DEF TypeOK, InChain
  <2> QED BY <2>1 DEF Messages, SealedFrames
<1> HIDE DEF m
<1> DEFINE p == Append(wire[s], m)
<1>6. /\ wire[s] \in Seq(Messages)
      /\ \A t \in Sides \ {s} : wire'[t] = wire[t]
      /\ end[s] = "open" => wire'[s] = p
      /\ end[s] # "open" => wire'[s] = wire[s]
  BY <1>2, <1>4 DEF TypeOK
<1>7. /\ sealed'[s] = NoFrame
      /\ \A t \in Sides \ {s} : sealed'[t] = sealed[t] /\ writing'[t] = writing[t]
      /\ writing'[s] = "runs" \/ (end[s] # "open" /\ writing'[s] = "failed")
  BY <1>2, <1>3, <1>4 DEF TypeOK
<1>8. Quiet
  BY <1>2, <1>3, <1>7 DEF Quiet, Beginnings, Begun, Writable
<1>9. Beginnings' /\ OwnKeys' /\ InChain' /\ Spent'
  BY <1>8, QuietKeeps
<1>10. Met' /\ Accepted'
  BY <1>2, <1>3, <1>8, MetStays DEF Accepted
<1>11. Honest'
  <2>1. \A i \in 1 .. Len(p) : p[i] = m \/ (i \in 1 .. Len(wire[s]) /\ p[i] = wire[s][i])
    BY <1>5, <1>6
  <2>2. Says(s, m)
    BY <1>5 DEF Says
  <2>3. SUFFICES ASSUME NEW t \in Sides, NEW i \in 1 .. Len(wire'[t])
        PROVE  Says(t, wire'[t][i])
    BY <1>3 DEF Honest, Says
  <2> HIDE DEF p
  <2> QED BY <1>2, <1>6, <2>1, <2>2 DEF Honest
<1>12. InStep'
  <2> HIDE DEF p
  <2>1. SUFFICES ASSUME NEW t \in Sides
        PROVE  Flight(wire'[t], View(t), View(Other(t)), Begun(t),
                      Writable(t)' /\ end'[t] = "open", sealed'[t])
    BY <1>8, QuietInStep
  <2> DEFINE going == Writable(t) /\ end[t] = "open"
             goes == Writable(t)' /\ end'[t] = "open"
  <2>2. Flight(wire[t], View(t), View(Other(t)), Begun(t), going, sealed[t])
    BY DEF IInv, InStep
  <2>3. View(t) \in Ratchets(KeyPairs) /\ View(Other(t)) \in Ratchets(KeyPairs)
    BY <1>2, ViewType, TheOther
  <2>4. CASE t = s /\ end[s] = "open"
    <3>1. going = TRUE /\ goes = TRUE /\ Begun(t) = TRUE
      BY <1>3, <1>7, <2>4 DEF Writable, Begun
    <3> HIDE DEF going, goes
    <3>2. Flight(p, View(t), View(Other(t)), TRUE, TRUE, NoFrame)
      BY <1>3, <1>5, <1>6, <2>2, <2>3, <2>4, <3>1, FlightWrites DEF p
    <3> QED BY <1>6, <1>7, <2>4, <3>1, <3>2 DEF goes
  <2>5. CASE ~ (t = s /\ end[s] = "open")
    <3>1. /\ wire'[t] = wire[t] /\ going \in BOOLEAN /\ goes \in BOOLEAN
          /\ Begun(t) \in BOOLEAN
          /\ goes => going /\ sealed'[t] = sealed[t]
      BY <1>3, <1>6, <1>7, <2>5 DEF Begun, Writable
    <3> HIDE DEF going, goes
    <3>2. Flight(wire[t], View(t), View(Other(t)), Begun(t), goes, sealed'[t])
      BY <2>2, <3>1, FlightGoes
    <3> QED BY <3>1, <3>2 DEF goes
  <2> QED BY <2>4, <2>5
<1> QED BY <1>1, <1>9, <1>10, <1>11, <1>12 DEF IInv

\* Of streams that have ended any part may be lost at their end. (Link::close,
\* Link::cut, a circuit that dies)
LEMMA LossKeeps ==
  ASSUME IInv, TypeOK', Accepted', Quiet, UNCHANGED known,
         \A t \in Sides : phase'[t] \in {"rest", "proof"} => phase'[t] = phase[t],
         \A t \in Sides : end'[t] # "open",
         \A t \in Sides : \E n \in 0 .. Len(wire[t]) : wire'[t] = SubSeq(wire[t], 1, n)
  PROVE  IInv'
<1>1. Beginnings' /\ OwnKeys' /\ InChain' /\ Spent' /\ Met'
  BY QuietKeeps, MetStays
<1>2. Beginnings /\ TypeOK /\ Honest
  BY DEF IInv
<1>3. Honest'
  <2>1. SUFFICES ASSUME NEW t \in Sides, NEW i \in 1 .. Len(wire'[t])
        PROVE  Says(t, wire'[t][i])
    BY DEF Honest, Says, Quiet
  <2>2. PICK n \in 0 .. Len(wire[t]) : wire'[t] = SubSeq(wire[t], 1, n)
    OBVIOUS
  <2>3. wire[t] \in Seq(Messages)
    BY <1>2 DEF TypeOK
  <2>4. i \in 1 .. Len(wire[t]) /\ wire'[t][i] = wire[t][i]
    BY <2>2, <2>3
  <2> QED BY <1>2, <2>4 DEF Honest
<1>4. InStep'
  <2>1. SUFFICES ASSUME NEW t \in Sides
        PROVE  Flight(wire'[t], View(t), View(Other(t)), Begun(t),
                      Writable(t)' /\ end'[t] = "open", sealed'[t])
    BY QuietInStep
  <2> DEFINE going == Writable(t) /\ end[t] = "open"
  <2>2. Flight(wire[t], View(t), View(Other(t)), Begun(t), going, sealed[t])
    BY DEF IInv, InStep
  <2>3. View(t) \in Ratchets(KeyPairs) /\ View(Other(t)) \in Ratchets(KeyPairs)
    BY <1>2, ViewType, TheOther
  <2>4. going \in BOOLEAN /\ Begun(t) \in BOOLEAN /\ wire[t] \in Seq(Messages)
    BY <1>2 DEF Begun, TypeOK
  <2> HIDE DEF going
  <2>5. PICK n \in 0 .. Len(wire[t]) : wire'[t] = SubSeq(wire[t], 1, n)
    OBVIOUS
  <2>6. Flight(SubSeq(wire[t], 1, n), View(t), View(Other(t)), Begun(t), FALSE, sealed'[t])
    BY <2>2, <2>3, <2>4, FlightCut
  <2>7. (Writable(t)' /\ end'[t] = "open") = FALSE
    OBVIOUS
  <2> QED BY <2>5, <2>6, <2>7
<1> QED BY <1>1, <1>3, <1>4 DEF IInv

\* All of a stream is a beginning of it, and so is nothing.
LEMMA Beginning ==
  ASSUME NEW q \in Seq(Messages)
  PROVE  /\ \E n \in 0 .. Len(q) : q = SubSeq(q, 1, n)
         /\ \E n \in 0 .. Len(q) : <<>> = SubSeq(q, 1, n)
<1>1. Len(q) \in 0 .. Len(q) /\ q = SubSeq(q, 1, Len(q))
  OBVIOUS
<1>2. 0 \in 0 .. Len(q) /\ <<>> = SubSeq(q, 1, 0)
  OBVIOUS
<1> QED BY <1>1, <1>2

\* The invariant is kept when Link::close returns.
LEMMA CloseReturnsKeeps ==
  ASSUME IInv, NEW s \in Sides, CloseReturns(s)
  PROVE  IInv'
<1>1. TypeOK'
  BY CloseReturnsTypes DEF IInv
<1>2. Beginnings /\ TypeOK /\ Accepted
  BY DEF IInv
<1>3. /\ UNCHANGED <<speaks, dialled, claims, known, ratchet, made, used, inbox, reading, sealed>>
      /\ phase' = [phase EXCEPT ![s] = "gone"] /\ phase[s] = "closing"
      /\ wire' = [wire EXCEPT ![Other(s)] = <<>>]
      /\ writing' = [writing EXCEPT ![s] = IF @ = "runs" THEN "done" ELSE @]
  BY DEF CloseReturns, envVars, historyVars
<1>4. \A t \in Sides : end'[t] # "open"
  BY DEF CloseReturns, Dropped, Ended
<1>5. Quiet
  BY <1>2, <1>3, <1>4 DEF TypeOK, Quiet, Beginnings, Begun, Writable
<1>6. Accepted'
  BY <1>2, <1>3 DEF Accepted
<1>7. \A t \in Sides : phase'[t] \in {"rest", "proof"} => phase'[t] = phase[t]
  BY <1>2, <1>3 DEF TypeOK
<1>8. \A t \in Sides : wire'[t] = wire[t] \/ wire'[t] = <<>>
  BY <1>2, <1>3 DEF TypeOK
<1>9. \A t \in Sides : wire[t] \in Seq(Messages)
  BY <1>2 DEF TypeOK
<1>10. ASSUME NEW t \in Sides
       PROVE  \E n \in 0 .. Len(wire[t]) : wire'[t] = SubSeq(wire[t], 1, n)
  BY <1>8, <1>9, Beginning
<1> QED BY <1>1, <1>3, <1>4, <1>5, <1>6, <1>7, <1>10, LossKeeps

\* The invariant is kept by Link::cut.
LEMMA CutKeeps ==
  ASSUME IInv, NEW s \in Sides, Cut(s)
  PROVE  IInv'
<1>1. TypeOK'
  BY CutTypes DEF IInv
<1>2. Beginnings /\ TypeOK /\ Accepted
  BY DEF IInv
<1>3. /\ UNCHANGED <<speaks, dialled, claims, phase, known, ratchet, made, used>>
      /\ phase[s] = "open" /\ writing[s] = "runs"
      /\ wire' = [wire EXCEPT ![Other(s)] = <<>>]
      /\ writing' = [writing EXCEPT ![s] = "failed"]
      /\ reading' = [reading EXCEPT ![s] = "done"]
      /\ sealed' = [sealed EXCEPT ![s] = NoFrame]
      /\ inbox' = [inbox EXCEPT ![s] = Append(@, Closed)]
  BY DEF Cut, Stops, Open, envVars, historyVars
<1>4. \A t \in Sides : end'[t] # "open"
  <2>1. PICK how \in {"clean", "torn"} : end' = Ended([t \in Sides |-> how])
    BY DEF Cut
  <2> QED BY <2>1 DEF Ended
<1>5. Quiet
  BY <1>2, <1>3, <1>4 DEF TypeOK, Quiet, Beginnings, Begun, Writable
<1>6. Accepted'
  <2>1. Closed \in Int /\ Closed # Refused
    BY DEF Closed, Refused
  <2> QED BY <1>2, <1>3, <2>1, InboxGrows
<1>7. \A t \in Sides : wire'[t] = wire[t] \/ wire'[t] = <<>>
  BY <1>2, <1>3 DEF TypeOK
<1>8. \A t \in Sides : wire[t] \in Seq(Messages)
  BY <1>2 DEF TypeOK
<1>9. ASSUME NEW t \in Sides
       PROVE  \E n \in 0 .. Len(wire[t]) : wire'[t] = SubSeq(wire[t], 1, n)
  BY <1>7, <1>8, Beginning
<1> QED BY <1>1, <1>3, <1>4, <1>5, <1>6, <1>9, LossKeeps

\* The invariant is kept when the circuit dies.
LEMMA BreakKeeps ==
  ASSUME IInv, Break
  PROVE  IInv'
<1>1. TypeOK'
  BY BreakTypes DEF IInv
<1>2. Beginnings /\ TypeOK /\ Accepted
  BY DEF IInv
<1>3. UNCHANGED <<speaks, dialled, claims, phase, known, ratchet, made, used, sealed, writing,
                  reading, inbox>>
  BY DEF Break, linkVars, envVars, historyVars
<1>4. \A t \in Sides : end'[t] # "open"
  <2>1. PICK how \in {"clean", "torn"} : end' = Ended([t \in Sides |-> how])
    BY DEF Break
  <2> QED BY <2>1 DEF Ended
<1>5. Quiet
  BY <1>2, <1>3, <1>4 DEF TypeOK, Quiet, Beginnings, Begun, Writable
<1>6. Accepted'
  BY <1>2, <1>3 DEF Accepted
<1>7. ASSUME NEW t \in Sides
      PROVE  \E n \in 0 .. Len(wire[t]) : wire'[t] = SubSeq(wire[t], 1, n)
  <2>1. wire'[t] \in Prefixes(wire[t]) /\ wire[t] \in Seq(Messages)
    BY <1>2 DEF Break, TypeOK
  <2> QED BY <2>1, PrefixIs
<1> QED BY <1>1, <1>3, <1>4, <1>5, <1>6, <1>7, LossKeeps

-----------------------------------------------------------------------------
(***************************************************************************)
(* The proof is in: the connection begins.                                 *)
(***************************************************************************)

\* A side that begins has written no frame yet.
LEMMA FlightBegins ==
  ASSUME NEW q, NEW w, NEW r, NEW going \in BOOLEAN, NEW sl,
         NEW begun \in BOOLEAN, NEW begins \in BOOLEAN, begun => begins,
         Flight(q, w, r, begun, going, sl)
  PROVE  Flight(q, w, r, begins, going, sl)
BY DEF Flight

\* What the handshake seeds is what both sides will start from. (link.rs open)
LEMMA SeedIsStart ==
  ASSUME IInv, NEW s \in Sides, phase[s] = "proof"
  PROVE  Start(s) = IF s = "caller" THEN Caller(Root(s), Fresh(s), known[s].key)
                                    ELSE Answerer(Root(s), Ephemeral(s), known[s].key)
<1>1. known[s].key = <<Other(s), 0>>
  <2>1. known[s] = [name |-> claims[Other(s)], key |-> Ephemeral(Other(s))]
    BY DEF IInv, Met
  <2> QED BY <2>1 DEF Ephemeral
<1>2. made[s] = 1
  BY DEF IInv, Beginnings
<1>3. {<<"caller", 0>>, <<"answerer", 0>>} = {<<"answerer", 0>>, <<"caller", 0>>}
  OBVIOUS
<1>4. CASE s = "caller"
  <2>1. /\ Root(s) = FirstRoot /\ Fresh(s) = <<"caller", 1>>
        /\ known[s].key = <<"answerer", 0>>
    BY <1>1, <1>2, <1>4 DEF Root, FirstRoot, Fresh, Ephemeral, Other
  <2> QED BY <1>4, <2>1 DEF Start
<1>5. CASE s = "answerer"
  <2>1. /\ Root(s) = FirstRoot /\ Ephemeral(s) = <<"answerer", 0>>
        /\ known[s].key = <<"caller", 0>>
    BY <1>1, <1>3, <1>5 DEF Root, FirstRoot, Ephemeral, Other
  <2> QED BY <1>5, <2>1 DEF Start
<1> QED BY <1>4, <1>5 DEF Sides

\* The invariant is kept by the last part of the handshake. (proto.rs handshake)
LEMMA ReadProofKeeps ==
  ASSUME IInv, NEW s \in Sides, ReadProof(s)
  PROVE  IInv'
<1>1. TypeOK /\ Beginnings /\ Honest /\ Accepted /\ Met
  BY DEF IInv
<1>2. /\ Arrives(s, "proof") /\ wire' = Rest(s) /\ wire[Other(s)] # <<>>
      /\ Head(wire[Other(s)]).kind # "frame" /\ phase[s] = "proof"
      /\ UNCHANGED <<speaks, dialled, claims, outbox, sealed, inbox, clones, budget, said, heard,
                     used, known>>
  BY DEF ReadProof, Arrives, Fails, envVars, historyVars
<1>3. ~ Begun(s) /\ sealed[s] = NoFrame /\ made[s] = 1
  BY <1>1, <1>2 DEF Beginnings
<1>4. Honest' /\ Accepted'
  BY <1>1, <1>2, RestHonest DEF Accepted
<1>5. wire' \in [Sides -> Seq(Messages)]
  BY <1>1, <1>2, RestTypes
<1>6. CASE Fails(s) /\ UNCHANGED <<writing, reading>>
  <2>1. TypeOK'
    BY <1>1, <1>2, <1>5, <1>6, FailsTypes DEF TypeOK
  <2>2. \A t \in Sides : phase'[t] = phase[t] \/ (t = s /\ phase'[t] = "failed")
    BY <1>1, <1>6 DEF TypeOK, Fails
  <2>3. \A t \in Sides : end'[t] = "open" => end[t] = "open"
    BY <1>6 DEF Fails, Dropped, Ended
  <2>4. Quiet
    BY <1>1, <1>2, <1>3, <1>6, <2>2, <2>3 DEF Quiet, Beginnings, Begun, Writable, Fails
  <2>5. Beginnings' /\ OwnKeys' /\ InChain' /\ Spent'
    BY <2>4, QuietKeeps
  <2>6. InStep'
    BY <1>2, <2>1, <2>4, HelloInStep
  <2>7. Met'
    BY <1>2, <2>2, <2>4, MetStays
  <2> QED BY <1>4, <2>1, <2>5, <2>6, <2>7 DEF IInv
<1>7. CASE ~ (Fails(s) /\ UNCHANGED <<writing, reading>>)
  <2>1. /\ phase' = [phase EXCEPT ![s] = "open"]
        /\ ratchet' = [ratchet EXCEPT ![s] =
             IF s = "caller" THEN Caller(Root(s), Fresh(s), known[s].key)
                             ELSE Answerer(Root(s), Ephemeral(s), known[s].key)]
        /\ made' = [made EXCEPT ![s] = IF s = "caller" THEN @ + 1 ELSE @]
        /\ writing' = [writing EXCEPT ![s] = "runs"]
        /\ reading' = [reading EXCEPT ![s] = "runs"]
        /\ UNCHANGED end
    BY <1>7 DEF ReadProof
  <2>2. ratchet' = [ratchet EXCEPT ![s] = Start(s)]
    BY <1>2, <2>1, SeedIsStart
  <2>3. Start(s) \in Ratchets(KeyPairs)
    BY StartType
  <2>4. /\ ratchet' \in [Sides -> {<<>>} \cup Ratchets(KeyPairs)]
        /\ ratchet'[s] = Start(s) /\ \A t \in Sides \ {s} : ratchet'[t] = ratchet[t]
    BY <1>1, <2>2, <2>3 DEF TypeOK
  <2>5. /\ made' \in [Sides -> Nat] /\ phase' \in [Sides -> Phases]
        /\ writing' \in [Sides -> {"no", "runs", "failed", "done"}]
        /\ reading' \in [Sides -> {"no", "runs", "done"}]
    BY <1>1, <2>1 DEF TypeOK, Phases
  <2>6. TypeOK'
    BY <1>1, <1>2, <1>5, <2>1, <2>4, <2>5 DEF TypeOK
  <2>7. /\ phase'[s] = "open" /\ writing'[s] = "runs" /\ reading'[s] = "runs"
        /\ made'[s] = IF s = "caller" THEN 2 ELSE 1
        /\ \A t \in Sides \ {s} : /\ phase'[t] = phase[t] /\ writing'[t] = writing[t]
                                  /\ reading'[t] = reading[t] /\ made'[t] = made[t]
    BY <1>1, <1>3, <2>1 DEF TypeOK
  <2>8. Begun(s)' /\ \A t \in Sides \ {s} : Begun(t)' = Begun(t)
    BY <2>7 DEF Begun
  <2>9. ASSUME NEW t \in Sides
        PROVE  /\ View(t)' = View(t) /\ Made(t)' = Made(t)
               /\ sealed'[t] = sealed[t] /\ (Begun(t) => Begun(t)')
               /\ Writable(t)' = Writable(t)
    <3>1. CASE t = s
      BY <1>2, <1>3, <2>4, <2>7, <2>8, <3>1 DEF View, Made, Begun, Writable, Start
    <3>2. CASE t # s
      BY <1>2, <2>4, <2>7, <2>8, <3>2 DEF View, Made, Begun, Writable, Start
    <3> QED BY <3>1, <3>2
  <2>10. Beginnings'
    BY <1>1, <1>2, <2>3, <2>4, <2>7, <2>8 DEF Beginnings
  <2>11. Met'
    <3> DEFINE m == Head(wire[Other(s)])
    <3>1. m = wire[Other(s)][1] /\ 1 \in 1 .. Len(wire[Other(s)])
      BY <1>1, <1>2, TheOther DEF TypeOK
    <3>2. Says(Other(s), m)
      BY <1>1, <3>1, TheOther DEF Honest
    <3>3. m.kind = "proof" /\ Genuine(s, m)
      BY <1>2, <1>7 DEF ReadProof, Arrives
    <3>4. m.words[1] = Other(s) /\ Other(Other(s)) # Other(s)
      BY <3>3, TheOther DEF Genuine, Expected, Challenge
    <3>5. m.by = Address[Other(s)] /\ m.by = known[s].name
      BY <3>2, <3>3, <3>4 DEF Says, Genuine
    <3> HIDE DEF m
    <3>6. known[s] = [name |-> claims[Other(s)], key |-> Ephemeral(Other(s))]
      BY <1>1, <1>2 DEF Met
    <3>7. claims[Other(s)] = Address[Other(s)]
      BY <3>5, <3>6
    <3>8. ASSUME NEW t \in Sides
          PROVE  /\ Begun(t)' \/ phase'[t] \in {"rest", "proof"} => speaks[Other(t)] = speaks[t]
                 /\ Begun(t)' \/ phase'[t] = "proof" =>
                      /\ known[t] = [name |-> claims[Other(t)], key |-> Ephemeral(Other(t))]
                      /\ t = "caller" => known[t].name = dialled
                 /\ Begun(t)' => claims[Other(t)] = Address[Other(t)]
      <4>1. CASE t = s
        BY <1>1, <1>2, <3>7, <4>1 DEF Met
      <4>2. CASE t # s
        BY <1>1, <2>7, <2>8, <4>2 DEF Met
      <4> QED BY <4>1, <4>2
    <3> QED BY <1>2, <3>8 DEF Met
  <2>12. OwnKeys' /\ InChain' /\ Spent'
    BY <1>2, <2>9, ViewsKeep
  <2>13. InStep'
    <3>1. \A t \in Sides : View(t)' = View(t)
      BY <2>9
    <3>2. "caller" \in Sides /\ "answerer" \in Sides
      BY DEF Sides
    <3>3. Facing(View("caller")', View("answerer")')
      BY <3>1, <3>2 DEF IInv, InStep
    <3>4. \A t \in Sides : Writable(t)' => Matches(View(t)', View(Other(t))')
      BY <2>9, TheOther DEF IInv, InStep
    <3>5. ASSUME NEW t \in Sides
          PROVE  Flight(wire'[t], View(t), View(Other(t)), Begun(t)',
                        Writable(t)' /\ end'[t] = "open", sealed'[t])
      <4> DEFINE going == Writable(t) /\ end[t] = "open"
                 q == wire[Other(s)]
      <4>1. Flight(wire[t], View(t), View(Other(t)), Begun(t), going, sealed[t])
        BY DEF IInv, InStep
      <4>2. /\ going = (Writable(t)' /\ end'[t] = "open")
            /\ going \in BOOLEAN /\ Begun(t) \in BOOLEAN /\ Begun(t)' \in BOOLEAN
        BY <2>1, <2>9 DEF Writable, Begun
      <4>3. /\ q \in Seq(Messages) /\ q # <<>> /\ Head(q).kind # "frame"
            /\ wire'[Other(s)] = Tail(q) /\ wire'[s] = wire[s]
        BY <1>1, <1>2, TheOther DEF TypeOK, Rest
      <4> HIDE DEF going, q
      <4>4. Flight(wire'[t], View(t), View(Other(t)), Begun(t), going, sealed[t])
        <5>1. CASE t = Other(s)
          <6>1. Flight(q, View(t), View(Other(t)), Begun(t), going, sealed[t])
            BY <4>1, <5>1 DEF q
          <6>2. Flight(Tail(q), View(t), View(Other(t)), Begun(t), going, sealed[t])
            BY <4>2, <4>3, <6>1, FlightHello
          <6> QED BY <4>3, <5>1, <6>2
        <5>2. CASE t = s
          BY <4>1, <4>3, <5>2
        <5> QED BY <5>1, <5>2, TheOther
      <4>5. Flight(wire'[t], View(t), View(Other(t)), Begun(t)', going, sealed[t])
        BY <2>9, <4>2, <4>4, FlightBegins
      <4> QED BY <2>9, <4>2, <4>5
    <3>6. \A t \in Sides :
            Flight(wire'[t], View(t)', View(Other(t))', Begun(t)',
                   Writable(t)' /\ end'[t] = "open", sealed'[t])
      BY <3>1, <3>5, TheOther
    <3> QED BY <3>3, <3>4, <3>6 DEF InStep
  <2> QED BY <1>4, <2>6, <2>10, <2>11, <2>12, <2>13 DEF IInv
<1> QED BY <1>6, <1>7

-----------------------------------------------------------------------------
(***************************************************************************)
(* A frame is sealed.                                                      *)
(***************************************************************************)

\* Both ends are ratchets that face each other, whichever is looked at first.
LEMMA Ends ==
  ASSUME IInv, NEW s \in Sides
  PROVE  /\ View(s) \in Ratchets(KeyPairs) /\ View(Other(s)) \in Ratchets(KeyPairs)
         /\ Facing(View(s), View(Other(s)))
         /\ Unopened(View(s), View(Other(s))) >= 0
         /\ Unopened(View(Other(s)), View(s)) >= 0
<1>1. Beginnings /\ TypeOK /\ InStep
  BY DEF IInv
<1>2. \A t \in Sides : View(t) \in Ratchets(KeyPairs) /\ Begun(t) \in BOOLEAN
  BY <1>1, ViewType
<1>3. Facing(View(s), View(Other(s)))
  BY <1>1 DEF InStep, Facing, Sides, Other
<1>4. ASSUME NEW t \in Sides
      PROVE  Unopened(View(t), View(Other(t))) >= 0
  <2> DEFINE going == Writable(t) /\ end[t] = "open"
  <2>1. /\ Flight(wire[t], View(t), View(Other(t)), Begun(t), going, sealed[t])
        /\ wire[t] \in Seq(Messages) /\ going \in BOOLEAN
    BY <1>1 DEF InStep, TypeOK
  <2> HIDE DEF going
  <2> QED BY <1>2, <2>1, TheOther, FlightCounts
<1>5. Other(s) \in Sides /\ Other(Other(s)) = s
  BY TheOther
<1>6. Unopened(View(Other(s)), View(s)) >= 0
  BY <1>4, <1>5
<1> QED BY <1>2, <1>3, <1>4, <1>5, <1>6

\* What holds of the two ends after one of them has changed.
LEMMA OneEndChanged ==
  ASSUME NEW s \in Sides, Facing(View(s)', View(Other(s))'),
         \A t \in Sides :
           /\ Flight(wire'[t], View(t)', View(Other(t))', Begun(t)',
                     Writable(t)' /\ end'[t] = "open", sealed'[t])
           /\ Writable(t)' => Matches(View(t)', View(Other(t))')
  PROVE  InStep'
<1>1. Facing(View("caller")', View("answerer")')
  BY DEF Facing, Sides, Other
<1> QED BY <1>1 DEF InStep

\* What a step of the sending chain leaves true. (Ratchet::seal)
Sealing(s, v) ==
  /\ Idle(s) /\ v = AfterSeal(ratchet[s]) /\ ratchet' = [ratchet EXCEPT ![s] = v]
  /\ UNCHANGED <<speaks, dialled, claims, phase, known, wire, end, reading, inbox, made>>
  /\ \A t \in Sides \ {s} : sealed'[t] = sealed[t] /\ writing'[t] = writing[t]

\* The sealing side's ratchet, and the other's.
LEMMA SealViews ==
  ASSUME IInv, NEW s \in Sides, NEW v, Sealing(s, v), writing'[s] # "no"
  PROVE  /\ View(s) = ratchet[s] /\ View(s)' = v /\ v \in Ratchets(KeyPairs)
         /\ \A t \in Sides \ {s} : View(t)' = View(t)
         /\ \A t \in Sides : Begun(t)' = Begun(t) /\ Made(t)' = Made(t)
         /\ writing[s] = "runs" /\ sealed[s] = NoFrame /\ Begun(s)
<1>1. writing[s] = "runs" /\ sealed[s] = NoFrame /\ Begun(s)
  BY DEF Sealing, Idle, Begun
<1>2. ratchet[s] \in Ratchets(KeyPairs)
  BY <1>1 DEF IInv, Beginnings
<1>3. v \in Ratchets(KeyPairs)
  BY <1>2, SealFields DEF Sealing
<1>4. ratchet'[s] = v /\ \A t \in Sides \ {s} : ratchet'[t] = ratchet[t]
  BY DEF IInv, TypeOK, Sealing
<1>5. \A t \in Sides : Begun(t)' = Begun(t)
  BY <1>1 DEF Begun, Sealing
<1>6. \A t \in Sides : Made(t)' = Made(t)
  BY <1>5 DEF Made, Sealing
<1>7. View(s) = ratchet[s] /\ View(s)' = v
  BY <1>1, <1>4, <1>5 DEF View
<1>8. \A t \in Sides \ {s} : View(t)' = View(t)
  BY <1>4, <1>5 DEF View, Start
<1> QED BY <1>1, <1>3, <1>5, <1>6, <1>7, <1>8

\* Everything but what is said of the frames and their keys. (Ratchet::seal)
LEMMA SealLeaves ==
  ASSUME IInv, NEW s \in Sides, NEW v, Sealing(s, v), writing'[s] # "no"
  PROVE  Beginnings' /\ Honest' /\ Met' /\ OwnKeys' /\ Accepted'
<1>1. /\ View(s) = ratchet[s] /\ View(s)' = v /\ v \in Ratchets(KeyPairs)
      /\ \A t \in Sides \ {s} : View(t)' = View(t)
      /\ \A t \in Sides : Begun(t)' = Begun(t) /\ Made(t)' = Made(t)
      /\ writing[s] = "runs" /\ sealed[s] = NoFrame /\ Begun(s)
  BY SealViews
<1>2. ratchet[s] \in Ratchets(KeyPairs)
  BY <1>1 DEF IInv, Beginnings
<1>3. v.dhs = View(s).dhs /\ v.dhr = View(s).dhr
  BY <1>1, <1>2, SealFields DEF Sealing
<1>4. UNCHANGED <<speaks, dialled, claims, phase, known, wire, end, reading, inbox, made>>
  BY DEF Sealing
<1>5. ratchet'[s] = v /\ \A t \in Sides \ {s} : ratchet'[t] = ratchet[t]
  BY DEF IInv, TypeOK, Sealing
<1>6. \A t \in Sides \ {s} : sealed'[t] = sealed[t]
  BY DEF Sealing
<1>7. Beginnings'
  BY <1>1, <1>4, <1>5, <1>6 DEF IInv, Beginnings
<1>8. Honest'
  BY <1>4 DEF IInv, Honest, Says
<1>9. Met'
  BY <1>1, <1>4 DEF IInv, Met
<1>10. OwnKeys'
  <2>1. \A t \in Sides : /\ View(t)'.dhs = View(t).dhs /\ View(t)'.dhr = View(t).dhr
                         /\ Made(t)' = Made(t)
    BY <1>1, <1>3
  <2>2. OwnKeys
    BY DEF IInv
  <2> QED BY <2>1, <2>2, TheOther DEF OwnKeys
<1>11. Accepted'
  BY <1>4 DEF IInv, Accepted
<1> QED BY <1>7, <1>8, <1>9, <1>10, <1>11

\* The ends are still in step. (Ratchet::seal)
LEMMA SealInStep ==
  ASSUME IInv, NEW s \in Sides, NEW v, Sealing(s, v),
         IF Exhausted(ratchet[s])
           THEN writing'[s] = "failed" /\ sealed'[s] = NoFrame
           ELSE /\ writing'[s] = "runs"
                /\ sealed'[s] \in SealedFrames /\ sealed'[s].lock = Sealed(ratchet[s])
  PROVE  InStep'
<1> DEFINE w == ratchet[s]
           o == Other(s)
           r == View(o)
<1>0. writing'[s] # "no"
  OBVIOUS
<1>1. /\ View(s) = w /\ View(s)' = v /\ v \in Ratchets(KeyPairs)
      /\ \A t \in Sides \ {s} : View(t)' = View(t)
      /\ \A t \in Sides : Begun(t)' = Begun(t)
      /\ writing[s] = "runs" /\ sealed[s] = NoFrame /\ Begun(s)
  BY <1>0, SealViews
<1>2. /\ o \in Sides /\ o # s /\ Other(o) = s /\ \A t \in Sides : t = s \/ t = o
  BY TheOther
<1>3. /\ w \in Ratchets(KeyPairs) /\ r \in Ratchets(KeyPairs) /\ Facing(w, r)
      /\ Unopened(w, r) >= 0
  BY <1>1, Ends
<1>4. /\ Matches(w, r) /\ Writable(s) /\ Begun(s) = TRUE
      /\ Flight(wire[s], w, r, TRUE, end[s] = "open", NoFrame)
  <2>1. Writable(s) /\ Begun(s) = TRUE
    BY <1>1 DEF Writable, Begun
  <2>2. (Writable(s) /\ end[s] = "open") = (end[s] = "open")
    BY <2>1
  <2>3. /\ Flight(wire[s], View(s), View(o), Begun(s), Writable(s) /\ end[s] = "open", sealed[s])
        /\ Matches(View(s), View(o))
    BY <2>1 DEF IInv, InStep
  <2> HIDE DEF w, o
  <2> QED BY <1>1, <2>1, <2>2, <2>3
<1>5. v = AfterSeal(w) /\ View(o)' = r /\ end' = end /\ wire' = wire
  BY <1>1, <1>2 DEF Sealing
<1>6. wire[s] \in Seq(Messages) /\ wire[o] \in Seq(Messages)
      /\ sealed[o] \in {NoFrame} \cup SealedFrames /\ Begun(o) \in BOOLEAN
  BY <1>2 DEF IInv, TypeOK, Begun
<1>7. writing'[o] = writing[o] /\ sealed'[o] = sealed[o] /\ Writable(o)' = Writable(o)
  BY <1>2 DEF Sealing, Writable
<1> DEFINE going == end[s] = "open"
           theirs == Writable(o) /\ end[o] = "open"
<1>8. going \in BOOLEAN /\ theirs \in BOOLEAN
  OBVIOUS
<1>9. /\ Flight(wire[o], r, w, Begun(o), theirs, sealed[o])
      /\ Writable(o) => Matches(r, w)
  <2>1. /\ Flight(wire[o], View(o), View(Other(o)), Begun(o),
                  Writable(o) /\ end[o] = "open", sealed[o])
        /\ Writable(o) => Matches(View(o), View(Other(o)))
    BY <1>2 DEF IInv, InStep
  <2> HIDE DEF w, o
  <2> QED BY <1>1, <1>2, <2>1
<1>10. Unmoved(KeyPairs, w, r, v)
  <2> HIDE DEF w, r
  <2>1. CASE Exhausted(w)
    BY <1>3, <1>5, <2>1, SealSpent
  <2>2. CASE ~ Exhausted(w)
    BY <1>3, <1>4, <1>5, <2>2, SealFaces
  <2> QED BY <2>1, <2>2
<1>11. /\ Flight(wire[o], r, v, Begun(o), theirs, sealed[o])
       /\ Writable(o) => Matches(r, v)
       /\ Facing(v, r)
  <2> HIDE DEF w, r, o, theirs
  <2>1. /\ Unopened(r, v) = Unopened(r, w) /\ Facing(v, r)
        /\ Matches(r, w) => Matches(r, v)
    BY <1>10 DEF Unmoved
  <2>2. \A j \in Nat \ {0}, m \in Locks(KeyPairs) :
          j <= Unopened(r, w) /\ LockIs(r, w, j, m) => LockIs(r, v, j, m)
    BY <1>10 DEF Unmoved
  <2>3. Flight(wire[o], r, v, Begun(o), theirs, sealed[o])
    BY <1>1, <1>3, <1>6, <1>8, <1>9, <2>1, <2>2, FlightUnmoved
  <2> QED BY <1>9, <2>1, <2>3
<1>12. /\ Flight(wire[s], v, r, TRUE, writing'[s] = "runs" /\ going, sealed'[s])
       /\ writing'[s] = "runs" => Matches(v, r)
  <2>1. CASE Exhausted(w)
    <3>1. writing'[s] = "failed" /\ sealed'[s] = NoFrame
      BY <2>1
    <3> HIDE DEF w, r, going
    <3>2. Unopened(v, r) = Unopened(w, r)
      BY <1>3, <1>5, <2>1, SealSpent
    <3>3. \A j \in Nat \ {0}, m \in Locks(KeyPairs) :
            j <= Unopened(w, r) /\ LockIs(w, r, j, m) => LockIs(v, r, j, m)
      BY <1>10 DEF Unmoved
    <3>4. Flight(wire[s], w, r, Begun(s), going, sealed[s])
      BY <1>1, <1>4 DEF going
    <3>5. Flight(wire[s], v, r, Begun(s), going, sealed[s])
      <4>1. /\ sealed[s] \in {NoFrame} \cup SealedFrames /\ v \in Ratchets(KeyPairs)
            /\ Begun(s) \in BOOLEAN
        BY <1>1 DEF Begun
      <4> QED BY <1>3, <1>6, <1>8, <3>2, <3>3, <3>4, <4>1, FlightUnmoved
    <3>6. Flight(wire[s], v, r, TRUE, FALSE, sealed'[s])
      BY <1>4, <1>8, <3>5, FlightStops
    <3>7. (writing'[s] = "runs" /\ going) = FALSE
      BY <3>1
    <3> QED BY <3>1, <3>6, <3>7
  <2>2. CASE ~ Exhausted(w)
    <3>1. /\ writing'[s] = "runs" /\ sealed'[s] \in SealedFrames
          /\ sealed'[s].lock = Sealed(w)
      BY <2>2
    <3> HIDE DEF w, r, going
    <3>2. /\ Unopened(v, r) = Unopened(w, r) + 1 /\ Matches(v, r)
          /\ Sealed(w) \in Locks(KeyPairs) /\ LockIs(v, r, Unopened(v, r), Sealed(w))
      BY <1>3, <1>4, <1>5, <2>2, SealFaces
    <3>3. Flight(wire[s], w, r, TRUE, going, NoFrame)
      BY <1>4 DEF going
    <3>4. Flight(wire[s], v, r, TRUE, going, sealed'[s])
      BY ZenonT(40), <1>1, <1>3, <1>6, <1>8, <1>10, <3>1, <3>2, <3>3, FlightSeals
    <3>5. (writing'[s] = "runs" /\ going) = going
      BY <1>8, <3>1
    <3> QED BY <3>2, <3>4, <3>5
  <2> QED BY <2>1, <2>2
<1>13. Writable(s)' = (writing'[s] = "runs") /\ Begun(s)' = TRUE
  BY <1>1, <1>4 DEF Writable
<1>14. /\ Flight(wire'[s], View(s)', View(o)', Begun(s)',
                 Writable(s)' /\ end'[s] = "open", sealed'[s])
       /\ Writable(s)' => Matches(View(s)', View(o)')
  <2> HIDE DEF w, r, o
  <2> QED BY <1>1, <1>5, <1>12, <1>13
<1>15. /\ Flight(wire'[o], View(o)', View(s)', Begun(o)',
                 Writable(o)' /\ end'[o] = "open", sealed'[o])
       /\ Writable(o)' => Matches(View(o)', View(s)')
  <2>1. Begun(o)' = Begun(o)
    BY <1>1, <1>2
  <2> HIDE DEF w, r, o
  <2> QED BY <1>1, <1>5, <1>7, <1>11, <2>1
<1>16. Facing(View(s)', View(o)')
  BY <1>1, <1>5, <1>11
<1>17. \A t \in Sides :
         /\ Flight(wire'[t], View(t)', View(Other(t))', Begun(t)',
                   Writable(t)' /\ end'[t] = "open", sealed'[t])
         /\ Writable(t)' => Matches(View(t)', View(Other(t))')
  BY <1>2, <1>14, <1>15
<1> QED BY <1>16, <1>17, OneEndChanged

\* The chain a side seals with next has sealed nothing at where it is, so the
\* key is new; and no chain goes past its end. (Ratchet::seal)
LEMMA SealKeys ==
  ASSUME IInv, NEW s \in Sides, NEW v, Sealing(s, v),
         IF Exhausted(ratchet[s])
           THEN writing'[s] = "failed" /\ sealed'[s] = NoFrame /\ used' = used
           ELSE /\ writing'[s] = "runs" /\ sealed'[s].lock = Sealed(ratchet[s])
                /\ used' = [keys |-> used.keys \cup {ratchet[s].sending},
                            frames |-> used.frames + 1]
  PROVE  /\ InChain' /\ Spent' /\ used' \in [keys : SUBSET Chains(KeyPairs), frames : Nat]
         /\ v.ns <= CHAIN
<1> DEFINE w == ratchet[s]
<1>0. writing'[s] # "no"
  OBVIOUS
<1>1. /\ View(s) = w /\ View(s)' = v /\ v \in Ratchets(KeyPairs)
      /\ \A t \in Sides \ {s} : View(t)' = View(t)
  BY <1>0, SealViews
<1>2. w \in Ratchets(KeyPairs)
  BY <1>1, Ends
<1>3. /\ v.root = w.root /\ v.sending = Along(w.sending, 1) /\ v.nr = w.nr
      /\ v.ns = IF Exhausted(w) THEN w.ns ELSE w.ns + 1
  BY <1>2, SealFields DEF Sealing
<1>4. /\ InChain /\ Spent /\ used \in [keys : SUBSET Chains(KeyPairs), frames : Nat]
  BY DEF IInv, TypeOK
<1>5. /\ w.ns \in Nat /\ w.sending \in Chains(KeyPairs) /\ w.sending.at \in Nat
      /\ v.sending.of = w.sending.of /\ v.sending.at = w.sending.at + 1
  BY <1>2, <1>3 DEF Ratchets, Along, Chains
<1>6. w.ns <= CHAIN /\ CHAIN \in Nat /\ Len(w.sending.of) = Len(w.root)
      /\ Len(w.root) % 2 = Parity(s)
  BY <1>1, <1>4, RatchetAssumption DEF InChain
<1>7. v.ns <= CHAIN
  BY <1>3, <1>5, <1>6 DEF Exhausted
<1>8. InChain'
  <2>1. sealed'[s] # NoFrame => sealed'[s].lock.n < CHAIN
    <3>1. CASE Exhausted(w)
      BY <3>1
    <3>2. CASE ~ Exhausted(w)
      <4>1. sealed'[s].lock.n = w.ns
        BY <3>2 DEF Sealed
      <4> QED BY <1>5, <1>6, <3>2, <4>1 DEF Exhausted
    <3> QED BY <3>1, <3>2
  <2>2. \A t \in Sides \ {s} : sealed'[t] = sealed[t]
    BY DEF Sealing
  <2> HIDE DEF w
  <2>3. ASSUME NEW t \in Sides
        PROVE  /\ View(t)'.ns <= CHAIN /\ View(t)'.nr <= CHAIN
               /\ sealed'[t] # NoFrame => sealed'[t].lock.n < CHAIN
               /\ Len(View(t)'.root) % 2 = Parity(t)
               /\ Len(View(t)'.sending.of) = Len(View(t)'.root)
    <3>1. CASE t = s
      <4>1. w.nr <= CHAIN
        BY <1>1, <1>4 DEF InChain
      <4> QED BY <1>1, <1>3, <1>5, <1>6, <1>7, <2>1, <3>1, <4>1
    <3>2. CASE t # s
      BY <1>1, <1>4, <2>2, <3>2 DEF InChain
    <3> QED BY <3>1, <3>2
  <2> QED BY <2>3 DEF InChain
<1>9. ASSUME NEW key \in used.keys, NEW t \in Sides, Len(key.of) % 2 = Parity(t)
      PROVE  Behind(key, t)'
  <2>1. Behind(key, t) /\ key.at \in Nat
    BY <1>4, <1>9 DEF Spent, Chains
  <2> HIDE DEF w
  <2>2. CASE t = s
    BY <1>1, <1>3, <1>5, <2>1, <2>2 DEF Behind
  <2>3. CASE t # s
    BY <1>1, <2>1, <2>3 DEF Behind
  <2> QED BY <2>2, <2>3
<1>10. Spent' /\ used' \in [keys : SUBSET Chains(KeyPairs), frames : Nat]
  <2>1. CASE Exhausted(w)
    <3>1. used' = used
      BY <2>1
    <3> QED BY <1>4, <1>9, <3>1 DEF Spent
  <2>2. CASE ~ Exhausted(w)
    <3>1. PICK c \in Chains(KeyPairs) : c = w.sending
      BY <1>5
    <3>2. /\ Len(c.of) = Len(w.root) /\ Len(c.of) % 2 = Parity(s) /\ c.at = w.sending.at
          /\ used' = [keys |-> used.keys \cup {c}, frames |-> used.frames + 1]
      BY <1>6, <2>2, <3>1
    <3>3. used.keys \subseteq Chains(KeyPairs) /\ used.frames \in Nat
      BY <1>4
    <3>4. used' \in [keys : SUBSET Chains(KeyPairs), frames : Nat]
      BY <3>2, <3>3
    <3>5. c \notin used.keys
      <4>1. SUFFICES ASSUME c \in used.keys PROVE FALSE
        OBVIOUS
      <4>2. Behind(c, s)
        BY <1>4, <3>2, <4>1 DEF Spent
      <4>3. w.root \in Seq(SUBSET KeyPairs)
        BY <1>2 DEF Ratchets
      <4>4. Len(w.root) \in Nat
        BY <4>3
      <4> HIDE DEF w
      <4> QED BY <1>1, <1>5, <3>2, <4>2, <4>4 DEF Behind
    <3>6. IsFiniteSet(used.keys) /\ Cardinality(used.keys) = used.frames
      BY <1>4 DEF Spent
    <3>7. /\ IsFiniteSet(used.keys \cup {c})
          /\ Cardinality(used.keys \cup {c}) = used.frames + 1
      BY <3>5, <3>6, FS_AddElement
    <3>8. IsFiniteSet(used'.keys) /\ Cardinality(used'.keys) = used'.frames
      BY <3>2, <3>7
    <3>9. Behind(c, s)'
      BY <1>1, <1>3, <1>5, <3>2 DEF Behind
    <3>10. \A t \in Sides : Parity(t) = Parity(s) => t = s
      BY DEF Sides, Parity
    <3>11. ASSUME NEW key \in used'.keys, NEW t \in Sides, Len(key.of) % 2 = Parity(t)
           PROVE  Behind(key, t)'
      <4>1. key \in used.keys \/ key = c
        BY <3>2
      <4>2. CASE key = c
        BY <3>2, <3>9, <3>10, <3>11, <4>2
      <4>3. CASE key \in used.keys
        BY <1>9, <3>11, <4>3
      <4> QED BY <4>1, <4>2, <4>3
    <3> QED BY <3>4, <3>8, <3>11 DEF Spent
  <2> QED BY <2>1, <2>2
<1> QED BY <1>7, <1>8, <1>10

\* The invariant is kept by a frame sealed, or a chain found at its end, however
\* it comes to it. (Ratchet::seal)
LEMMA SealKeeps ==
  ASSUME IInv, NEW s \in Sides, NEW msg \in Nat, Idle(s), Seal(s, msg),
         UNCHANGED <<speaks, dialled, claims, phase, known, wire, end, reading, inbox, clones,
                     said, heard, made>>,
         outbox' \in [Sides -> Seq(Nat)], budget' \in [EventKinds -> Nat]
  PROVE  IInv'
<1> DEFINE w == ratchet[s]
           v == AfterSeal(ratchet[s])
           frame == [msg |-> msg, lock |-> Sealed(w)]
<1>1. TypeOK
  BY DEF IInv
<1>2. ratchet' = [ratchet EXCEPT ![s] = v]
  BY DEF Seal
<1>3. CASE Exhausted(w)
  <2>1. writing' = [writing EXCEPT ![s] = "failed"] /\ UNCHANGED <<sealed, used>>
    BY <1>3 DEF Seal
  <2>2. /\ writing'[s] = "failed" /\ sealed'[s] = NoFrame /\ used' = used
        /\ writing' \in [Sides -> {"no", "runs", "failed", "done"}]
        /\ sealed' \in [Sides -> {NoFrame} \cup SealedFrames]
        /\ \A t \in Sides \ {s} : sealed'[t] = sealed[t] /\ writing'[t] = writing[t]
    BY <1>1, <2>1 DEF TypeOK, Idle
  <2> HIDE DEF w
  <2>3. Sealing(s, v)
    BY <1>2, <2>2 DEF Sealing
  <2> HIDE DEF v
  <2>4. v \in Ratchets(KeyPairs)
    BY <2>2, <2>3, SealViews
  <2>5. Beginnings' /\ Honest' /\ Met' /\ OwnKeys' /\ Accepted'
    BY <2>2, <2>3, SealLeaves
  <2>6. InStep'
    BY <1>3, <2>2, <2>3, SealInStep DEF w
  <2>7. InChain' /\ Spent'
    BY <1>3, <2>2, <2>3, SealKeys DEF w
  <2>8. ratchet' \in [Sides -> {<<>>} \cup Ratchets(KeyPairs)]
    BY <1>1, <1>2, <2>4 DEF TypeOK
  <2>9. TypeOK'
    BY <1>1, <2>2, <2>8 DEF TypeOK
  <2> QED BY <2>5, <2>6, <2>7, <2>9 DEF IInv
<1>4. CASE ~ Exhausted(w)
  <2>1. /\ sealed' = [sealed EXCEPT ![s] = frame] /\ writing' = writing
        /\ used' = [keys |-> used.keys \cup {ratchet[s].sending}, frames |-> used.frames + 1]
    BY <1>4 DEF Seal
  <2>2. frame \in SealedFrames /\ frame.lock = Sealed(w)
    <3>1. Begun(s)
      BY DEF Idle, Begun
    <3>2. w \in Ratchets(KeyPairs)
      BY <3>1 DEF IInv, Beginnings
    <3>3. Sealed(w) \in Locks(KeyPairs)
      BY <3>2 DEF Sealed, Ratchets, Locks
    <3> QED BY <3>3 DEF SealedFrames
  <2> HIDE DEF frame
  <2>3. /\ writing'[s] = "runs" /\ sealed'[s] = frame
        /\ sealed' \in [Sides -> {NoFrame} \cup SealedFrames]
        /\ \A t \in Sides \ {s} : sealed'[t] = sealed[t] /\ writing'[t] = writing[t]
    BY <1>1, <2>1, <2>2 DEF TypeOK, Idle
  <2>4. Sealing(s, v)
    BY <1>2, <2>3 DEF Sealing
  <2>5. v \in Ratchets(KeyPairs)
    <3> HIDE DEF v
    <3> QED BY <2>3, <2>4, SealViews
  <2>6. Beginnings' /\ Honest' /\ Met' /\ OwnKeys' /\ Accepted'
    <3> HIDE DEF v
    <3> QED BY <2>3, <2>4, SealLeaves
  <2>7. InStep'
    <3> HIDE DEF v
    <3>1. sealed'[s] \in SealedFrames /\ sealed'[s].lock = Sealed(ratchet[s])
      BY <2>2, <2>3
    <3> QED BY <1>4, <2>3, <2>4, <3>1, SealInStep
  <2>8. InChain' /\ Spent' /\ used' \in [keys : SUBSET Chains(KeyPairs), frames : Nat]
    <3> HIDE DEF v
    <3>1. sealed'[s].lock = Sealed(ratchet[s])
      BY <2>2, <2>3
    <3> QED BY <1>4, <2>1, <2>3, <2>4, <3>1, SealKeys
  <2> HIDE DEF v
  <2>9. ratchet' \in [Sides -> {<<>>} \cup Ratchets(KeyPairs)]
    BY <1>1, <1>2, <2>5 DEF TypeOK
  <2>10. TypeOK'
    BY <1>1, <2>1, <2>3, <2>8, <2>9 DEF TypeOK
  <2> QED BY <2>6, <2>7, <2>8, <2>10 DEF IInv
<1> QED BY <1>3, <1>4

\* The invariant is kept when a queued frame is sealed. (link.rs, the writer)
LEMMA SealNextKeeps ==
  ASSUME IInv, NEW s \in Sides, SealNext(s)
  PROVE  IInv'
<1>1. outbox \in [Sides -> Seq(Nat)] /\ budget \in [EventKinds -> Nat]
  BY DEF IInv, TypeOK
<1>2. /\ Idle(s) /\ outbox[s] # <<>> /\ Seal(s, Head(outbox[s]))
      /\ outbox' = [outbox EXCEPT ![s] = Tail(@)]
      /\ UNCHANGED <<speaks, dialled, claims, phase, known, wire, end, reading, inbox, clones,
                     said, heard, made, budget>>
  BY DEF SealNext, envVars
<1>3. Head(outbox[s]) \in Nat /\ outbox' \in [Sides -> Seq(Nat)]
  BY <1>1, <1>2
<1> QED BY <1>1, <1>2, <1>3, SealKeeps

\* The invariant is kept by a Ping. (link.rs, the writer)
LEMMA BeatKeeps ==
  ASSUME IInv, NEW s \in Sides, Beat(s)
  PROVE  IInv'
<1>1. outbox \in [Sides -> Seq(Nat)] /\ budget \in [EventKinds -> Nat]
  BY DEF IInv, TypeOK
<1>2. /\ Idle(s) /\ Seal(s, Ping) /\ Strikes("beat")
      /\ UNCHANGED <<speaks, dialled, claims, phase, known, wire, end, reading, inbox, clones,
                     said, heard, made, outbox>>
  BY DEF Beat, envVars
<1>3. Ping \in Nat /\ budget' \in [EventKinds -> Nat]
  BY <1>1, <1>2 DEF Ping, Strikes, EventKinds
<1> QED BY <1>1, <1>2, <1>3, SealKeeps

-----------------------------------------------------------------------------
(***************************************************************************)
(* A frame is opened.                                                      *)
(***************************************************************************)

\* What opening the next frame makes of a side's ratchet. (Ratchet::open)
OpensTo(s, w, r, l, v) ==
  /\ v \in Ratchets(KeyPairs)
  /\ StillFaces(w, r, v) /\ Nearer(KeyPairs, w, r, v)
  /\ v.nr = l.n + 1
  /\ IF Turned(r, l)
       THEN /\ v.dhs = Fresh(s) /\ v.dhr = w.dhs
            /\ v.ns = 0 /\ v.sending = ChainOf(v.root)
            /\ Len(v.root) = Len(r.root) + 2
       ELSE /\ v.dhs = r.dhs /\ v.dhr = r.dhr
            /\ v.ns = r.ns /\ v.sending = r.sending
            /\ v.root = r.root

\* The frame that comes is the one that is waited for. (Link::open)
LEMMA ReadOpens ==
  ASSUME IInv, NEW s \in Sides, Reads(s), Arrives(s, "frame")
  PROVE  LET l == Head(wire[Other(s)]).lock
         IN  /\ Begun(s) /\ View(s) = ratchet[s]
             /\ l \in Locks(KeyPairs) /\ l.n < CHAIN
             /\ Opens(ratchet[s], l, Fresh(s))
             /\ OpensTo(s, View(Other(s)), ratchet[s], l,
                         AfterOpen(ratchet[s], l, Fresh(s)))
<1> DEFINE o == Other(s)
           q == wire[o]
           l == Head(q).lock
           w == View(o)
           r == View(s)
           going == Writable(o) /\ end[o] = "open"
<1>1. TypeOK /\ Beginnings /\ Honest /\ OwnKeys /\ InStep
  BY DEF IInv
<1>2. Begun(s) /\ r = ratchet[s]
  BY <1>1 DEF Reads, Beginnings, View
<1>3. o \in Sides /\ o # s /\ Other(o) = s
  BY TheOther
<1>4. /\ q \in Seq(Messages) /\ q # <<>> /\ Head(q).kind = "frame" /\ Head(q) = q[1]
      /\ l \in Locks(KeyPairs)
  BY <1>1, WhatArrives
<1>5. l.n < CHAIN
  <2>1. 1 \in 1 .. Len(q)
    BY <1>4
  <2>2. Says(o, q[1])
    BY <1>1, <1>3, <2>1 DEF Honest
  <2> QED BY <1>4, <2>2 DEF Says
<1>6. /\ w \in Ratchets(KeyPairs) /\ r \in Ratchets(KeyPairs) /\ Facing(w, r)
      /\ Unopened(r, w) >= 0
  BY Ends DEF Facing
<1>7. Flight(q, w, r, Begun(o), going, sealed[o])
  <2>1. Flight(wire[o], View(o), View(Other(o)), Begun(o), going, sealed[o])
    BY <1>1, <1>3 DEF InStep
  <2> QED BY <1>3, <2>1
<1>8. going \in BOOLEAN /\ Begun(o) \in BOOLEAN
  BY DEF Begun
<1>9. Fresh(s) \in KeyPairs /\ Fresh(s) # w.dhr
  <2>1. made[s] \in Nat /\ Made(s) = made[s]
    BY <1>1, <1>2 DEF TypeOK, Made
  <2>2. w.dhr[2] < Made(s)
    BY <1>1 DEF OwnKeys
  <2> HIDE DEF w
  <2> QED BY <2>1, <2>2 DEF Fresh, KeyPairs
<1> HIDE DEF o, q, l, w, r, going
<1>10. LockIs(w, r, 1, Head(q).lock) /\ Unopened(w, r) >= 1
  BY <1>4, <1>6, <1>7, <1>8, FlightHead
<1>11. LockIs(w, r, 1, l)
  BY <1>10 DEF l
<1>12. Opens(r, l, Fresh(s))
  BY <1>4, <1>6, <1>9, <1>11, NextOpens
<1>13. OpensTo(s, w, r, l, AfterOpen(r, l, Fresh(s)))
  BY <1>4, <1>6, <1>9, <1>10, <1>11, OpenFaces DEF OpensTo
<1> QED BY <1>2, <1>4, <1>5, <1>12, <1>13 DEF o, q, l, w, r

\* What a side has opened a frame to. (Ratchet::open)
ReadsTo(s, w, r, l, v) ==
  /\ Begun(s) /\ r = ratchet[s] /\ r = View(s) /\ w = View(Other(s))
  /\ l \in Locks(KeyPairs) /\ l.n < CHAIN /\ OpensTo(s, w, r, l, v)
  /\ ratchet' = [ratchet EXCEPT ![s] = v]
  /\ made' = [made EXCEPT ![s] = IF Turned(r, l) THEN @ + 1 ELSE @]
  /\ UNCHANGED <<speaks, dialled, claims, phase, known, end, outbox, sealed, writing, clones,
                 budget, said, heard, used>>

\* The reading side's ratchet, and the other's.
LEMMA ReadViews ==
  ASSUME IInv, NEW s \in Sides, NEW w, NEW r, NEW l, NEW v, ReadsTo(s, w, r, l, v)
  PROVE  /\ View(s)' = v /\ View(Other(s))' = w
         /\ \A t \in Sides : Begun(t)' = Begun(t) /\ Writable(t)' = Writable(t)
         /\ Made(Other(s))' = Made(Other(s)) /\ Made(s) = made[s] /\ made[s] \in Nat
         /\ Made(s)' = IF Turned(r, l) THEN made[s] + 1 ELSE made[s]
         /\ ratchet' \in [Sides -> {<<>>} \cup Ratchets(KeyPairs)]
         /\ made' \in [Sides -> Nat]
         /\ ratchet'[s] = v /\ ratchet'[Other(s)] = ratchet[Other(s)]
         /\ made'[Other(s)] = made[Other(s)]
<1>1. v \in Ratchets(KeyPairs) /\ Other(s) \in Sides /\ Other(s) # s
  BY TheOther DEF ReadsTo, OpensTo
<1>2. TypeOK
  BY DEF IInv
<1>3. /\ ratchet' \in [Sides -> {<<>>} \cup Ratchets(KeyPairs)]
      /\ ratchet'[s] = v /\ ratchet'[Other(s)] = ratchet[Other(s)]
  BY <1>1, <1>2 DEF TypeOK, ReadsTo
<1>4. /\ made' \in [Sides -> Nat] /\ made[s] \in Nat
      /\ made'[s] = IF Turned(r, l) THEN made[s] + 1 ELSE made[s]
      /\ made'[Other(s)] = made[Other(s)]
  BY <1>1, <1>2 DEF TypeOK, ReadsTo
<1>5. \A t \in Sides : Begun(t)' = Begun(t) /\ Writable(t)' = Writable(t)
  BY DEF ReadsTo, Begun, Writable
<1>6. Begun(s) /\ w = View(Other(s))
  BY DEF ReadsTo
<1>7. View(s)' = v /\ View(Other(s))' = w
  BY <1>1, <1>3, <1>5, <1>6 DEF View, Start
<1>8. /\ Made(Other(s))' = Made(Other(s)) /\ Made(s) = made[s] /\ Made(s)' = made'[s]
  BY <1>1, <1>4, <1>5, <1>6 DEF Made
<1> QED BY <1>3, <1>4, <1>5, <1>7, <1>8

\* Keys, chains and their ends, after a frame is opened. (Ratchet::open, dh_step)
LEMMA ReadKeys ==
  ASSUME IInv, NEW s \in Sides, NEW w, NEW r, NEW l, NEW v, ReadsTo(s, w, r, l, v)
  PROVE  OwnKeys' /\ InChain' /\ Spent'
<1> DEFINE o == Other(s)
<1>1. /\ View(s)' = v /\ View(o)' = w /\ Made(o)' = Made(o)
      /\ Made(s) = made[s] /\ made[s] \in Nat
      /\ Made(s)' = IF Turned(r, l) THEN made[s] + 1 ELSE made[s]
  BY ReadViews
<1>2. /\ o \in Sides /\ o # s /\ Other(o) = s /\ \A t \in Sides : t = s \/ t = o
  BY TheOther
<1>3. r = View(s) /\ w = View(o) /\ UNCHANGED <<sealed, used>>
  BY DEF ReadsTo
<1>4. /\ v \in Ratchets(KeyPairs) /\ r \in Ratchets(KeyPairs) /\ w \in Ratchets(KeyPairs)
      /\ l \in Locks(KeyPairs) /\ l.n < CHAIN /\ v.nr = l.n + 1
  BY <1>3, Ends DEF ReadsTo, OpensTo
<1>5. CHAIN \in Nat /\ l.n \in Nat /\ r.ns \in Nat
      /\ Len(r.root) \in Nat /\ Len(v.root) \in Nat
  <2>1. r.root \in Seq(SUBSET KeyPairs) /\ v.root \in Seq(SUBSET KeyPairs)
    BY <1>4 DEF Ratchets
  <2> QED BY <1>4, <2>1, RatchetAssumption DEF Locks, Ratchets
<1>6. OwnKeys /\ InChain /\ Spent
  BY DEF IInv
<1> HIDE DEF o
<1>7. OwnKeys'
  <2>1. /\ r.dhs[1] = s /\ r.dhs[2] < made[s] /\ w.dhr[1] = s /\ w.dhr[2] < made[s]
        /\ w.dhs[1] = o /\ w.dhs[2] < Made(o) /\ r.dhr[1] = o /\ r.dhr[2] < Made(o)
    BY <1>1, <1>2, <1>3, <1>6 DEF OwnKeys, o
  <2>2. w.dhr[2] \in Nat /\ r.dhs[2] \in Nat
    BY <1>4 DEF Ratchets, KeyPairs
  <2>3. Fresh(s)[1] = s /\ Fresh(s)[2] = made[s]
    BY DEF Fresh
  <2>4. v.dhs[1] = s /\ v.dhs[2] < Made(s)' /\ w.dhr[1] = s /\ w.dhr[2] < Made(s)'
    BY <1>1, <2>1, <2>2, <2>3 DEF ReadsTo, OpensTo
  <2>5. w.dhs[1] = o /\ w.dhs[2] < Made(o)' /\ v.dhr[1] = o /\ v.dhr[2] < Made(o)'
    BY <1>1, <2>1 DEF ReadsTo, OpensTo
  <2>6. ASSUME NEW t \in Sides
        PROVE  /\ View(t)'.dhs[1] = t /\ View(t)'.dhs[2] < Made(t)'
               /\ View(Other(t))'.dhr[1] = t /\ View(Other(t))'.dhr[2] < Made(t)'
    <3>1. CASE t = s
      BY <1>1, <2>4, <3>1 DEF o
    <3>2. CASE t = o
      BY <1>1, <1>2, <2>5, <3>2
    <3> QED BY <1>2, <3>1, <3>2
  <2> QED BY <2>6 DEF OwnKeys
<1>8. /\ v.ns <= CHAIN /\ v.nr <= CHAIN /\ Len(v.root) % 2 = Parity(s)
      /\ Len(v.sending.of) = Len(v.root)
  <2>1. /\ r.ns <= CHAIN /\ Len(r.root) % 2 = Parity(s)
        /\ Len(r.sending.of) = Len(r.root)
    BY <1>3, <1>6 DEF InChain
  <2>2. v.nr <= CHAIN
    BY <1>4, <1>5
  <2>3. CASE Turned(r, l)
    <3>1. /\ v.ns = 0 /\ v.sending = ChainOf(v.root) /\ Len(v.root) = Len(r.root) + 2
      BY <2>3 DEF ReadsTo, OpensTo
    <3>2. \A n \in Nat : (n + 2) % 2 = n % 2
      OBVIOUS
    <3>3. (Len(r.root) + 2) % 2 = Len(r.root) % 2
      BY <1>5, <3>2
    <3>4. Len(v.root) % 2 = Parity(s)
      BY <2>1, <3>1, <3>3
    <3>5. v.ns <= CHAIN
      BY <1>5, <3>1
    <3>6. v.sending.of = v.root
      BY <3>1 DEF ChainOf
    <3> QED BY <2>2, <3>4, <3>5, <3>6
  <2>4. CASE ~ Turned(r, l)
    <3>1. v.ns = r.ns /\ v.sending = r.sending /\ v.root = r.root
      BY <2>4 DEF ReadsTo, OpensTo
    <3> QED BY <2>1, <2>2, <3>1
  <2> QED BY <2>3, <2>4
<1>9. InChain'
  <2>1. ASSUME NEW t \in Sides
        PROVE  /\ View(t)'.ns <= CHAIN /\ View(t)'.nr <= CHAIN
               /\ sealed'[t] # NoFrame => sealed'[t].lock.n < CHAIN
               /\ Len(View(t)'.root) % 2 = Parity(t)
               /\ Len(View(t)'.sending.of) = Len(View(t)'.root)
    <3>1. CASE t = s
      BY <1>1, <1>3, <1>6, <1>8, <3>1 DEF InChain
    <3>2. CASE t = o
      BY <1>1, <1>3, <1>6, <3>2 DEF InChain
    <3> QED BY <1>2, <3>1, <3>2
  <2> QED BY <2>1 DEF InChain
<1>10. Spent'
  <2>1. ASSUME NEW key \in used.keys, NEW t \in Sides, Len(key.of) % 2 = Parity(t)
        PROVE  Behind(key, t)'
    <3>1. Behind(key, t)
      BY <1>6, <2>1 DEF Spent
    <3>2. CASE t = o
      BY <1>1, <1>3, <3>1, <3>2 DEF Behind
    <3>3. CASE t = s
      <4>1. CASE Turned(r, l)
        <5>1. Len(v.root) = Len(r.root) + 2
          BY <4>1 DEF ReadsTo, OpensTo
        <5>2. key \in Chains(KeyPairs)
          BY DEF IInv, TypeOK
        <5>3. Len(key.of) \in Nat
          BY <5>2 DEF Chains
        <5> QED BY <1>1, <1>3, <1>5, <3>1, <3>3, <5>1, <5>3 DEF Behind
      <4>2. CASE ~ Turned(r, l)
        <5>1. v.sending = r.sending /\ v.root = r.root
          BY <4>2 DEF ReadsTo, OpensTo
        <5> QED BY <1>1, <1>3, <3>1, <3>3, <5>1 DEF Behind
      <4> QED BY <4>1, <4>2
    <3> QED BY <1>2, <3>2, <3>3
  <2> QED BY <1>3, <1>6, <2>1 DEF Spent
<1> QED BY <1>7, <1>9, <1>10

\* The ends are still in step. (Ratchet::open)
LEMMA ReadInStep ==
  ASSUME IInv, NEW s \in Sides, NEW w, NEW r, NEW l, NEW v, ReadsTo(s, w, r, l, v),
         Arrives(s, "frame"), wire' = Rest(s)
  PROVE  InStep'
<1> DEFINE o == Other(s)
           q == wire[o]
           going == Writable(o) /\ end[o] = "open"
           ours == Writable(s) /\ end[s] = "open"
<1>1. /\ View(s)' = v /\ View(o)' = w
      /\ \A t \in Sides : Begun(t)' = Begun(t) /\ Writable(t)' = Writable(t)
  BY ReadViews
<1>2. /\ o \in Sides /\ o # s /\ Other(o) = s /\ \A t \in Sides : t = s \/ t = o
  BY TheOther
<1>3. r = View(s) /\ w = View(o) /\ UNCHANGED <<sealed, end>>
  BY DEF ReadsTo
<1>4. /\ v \in Ratchets(KeyPairs) /\ StillFaces(w, r, v) /\ Nearer(KeyPairs, w, r, v)
  BY DEF ReadsTo, OpensTo
<1>5. r \in Ratchets(KeyPairs) /\ w \in Ratchets(KeyPairs)
  BY <1>3, Ends
<1>6. /\ q \in Seq(Messages) /\ q # <<>> /\ Head(q).kind = "frame"
      /\ wire[s] \in Seq(Messages)
      /\ wire'[o] = Tail(q) /\ wire'[s] = wire[s]
  <2>1. TypeOK
    BY DEF IInv
  <2>2. q # <<>> /\ Head(q).kind = "frame"
    BY DEF Arrives
  <2> QED BY <1>2, <2>1, <2>2 DEF TypeOK, Rest
<1>7. /\ sealed[o] \in {NoFrame} \cup SealedFrames /\ sealed[s] \in {NoFrame} \cup SealedFrames
      /\ going \in BOOLEAN /\ ours \in BOOLEAN /\ Begun(o) \in BOOLEAN /\ Begun(s) \in BOOLEAN
  BY <1>2 DEF IInv, TypeOK, Begun
<1>8. /\ Flight(q, w, r, Begun(o), going, sealed[o])
      /\ Flight(wire[s], r, w, Begun(s), ours, sealed[s])
      /\ Writable(o) => Matches(w, r)
      /\ Writable(s) => Matches(r, w)
  <2>1. \A t \in Sides :
          /\ Flight(wire[t], View(t), View(Other(t)), Begun(t),
                    Writable(t) /\ end[t] = "open", sealed[t])
          /\ Writable(t) => Matches(View(t), View(Other(t)))
    BY DEF IInv, InStep
  <2>2. /\ Flight(q, View(o), View(Other(o)), Begun(o), going, sealed[o])
        /\ Writable(o) => Matches(View(o), View(Other(o)))
    BY <1>2, <2>1
  <2>3. /\ Flight(wire[s], View(s), View(o), Begun(s), ours, sealed[s])
        /\ Writable(s) => Matches(View(s), View(o))
    BY <2>1
  <2> QED BY <1>2, <1>3, <2>2, <2>3
<1> HIDE DEF o, q, going, ours
<1>9. Flight(Tail(q), w, v, Begun(o), going, sealed[o])
  <2>1. Unopened(w, v) = Unopened(w, r) - 1
    BY <1>4 DEF StillFaces
  <2>2. \A j \in Nat \ {0}, m \in Locks(KeyPairs) :
          LockIs(w, r, j + 1, m) => LockIs(w, v, j, m)
    BY <1>4 DEF Nearer
  <2> QED BY <1>4, <1>5, <1>6, <1>7, <1>8, <2>1, <2>2, FlightOpens
<1>10. Flight(wire[s], v, w, Begun(s), ours, sealed[s])
  <2>1. Unopened(v, w) = Unopened(r, w)
    BY <1>4 DEF StillFaces
  <2>2. \A j \in Nat \ {0}, m \in Locks(KeyPairs) :
          j <= Unopened(r, w) /\ LockIs(r, w, j, m) => LockIs(v, w, j, m)
    BY <1>4 DEF Nearer
  <2> QED BY <1>4, <1>5, <1>6, <1>7, <1>8, <2>1, <2>2, FlightUnmoved
<1>11. /\ Facing(v, w)
       /\ Writable(o) => Matches(w, v)
       /\ Writable(s) => Matches(v, w)
  BY <1>4, <1>8 DEF StillFaces, Facing
<1>12. going = (Writable(o)' /\ end'[o] = "open") /\ ours = (Writable(s)' /\ end'[s] = "open")
  BY <1>1, <1>2, <1>3 DEF going, ours
<1>13. /\ Flight(wire'[o], View(o)', View(s)', Begun(o)',
                 Writable(o)' /\ end'[o] = "open", sealed'[o])
       /\ Writable(o)' => Matches(View(o)', View(s)')
  <2>1. Begun(o)' = Begun(o) /\ Writable(o)' = Writable(o) /\ sealed'[o] = sealed[o]
    BY <1>1, <1>2, <1>3
  <2> QED BY <1>1, <1>6, <1>9, <1>11, <1>12, <2>1
<1>14. /\ Flight(wire'[s], View(s)', View(o)', Begun(s)',
                 Writable(s)' /\ end'[s] = "open", sealed'[s])
       /\ Writable(s)' => Matches(View(s)', View(o)')
  <2>1. Begun(s)' = Begun(s) /\ Writable(s)' = Writable(s) /\ sealed'[s] = sealed[s]
    BY <1>1, <1>2, <1>3
  <2> QED BY <1>1, <1>6, <1>10, <1>11, <1>12, <2>1
<1>15. Facing(View(s)', View(o)')
  BY <1>1, <1>11
<1>16. \A t \in Sides :
         /\ Flight(wire'[t], View(t)', View(Other(t))', Begun(t)',
                   Writable(t)' /\ end'[t] = "open", sealed'[t])
         /\ Writable(t)' => Matches(View(t)', View(Other(t))')
  <2>1. Other(s) = o
    BY DEF o
  <2> QED BY <1>2, <1>13, <1>14, <2>1
<1> QED BY <1>15, <1>16, OneEndChanged DEF o

\* The invariant is kept when a frame is read. (Link::open)
LEMMA ReadKeeps ==
  ASSUME IInv, NEW s \in Sides, Read(s)
  PROVE  IInv'
<1> DEFINE frame == Head(wire[Other(s)])
           l == frame.lock
           r == ratchet[s]
           w == View(Other(s))
           v == AfterOpen(r, l, Fresh(s))
<1>1. TypeOK /\ Beginnings /\ Honest /\ Met /\ Accepted
  BY DEF IInv
<1>2. Reads(s) /\ Arrives(s, "frame") /\ wire' = Rest(s) /\ wire[Other(s)] # <<>>
  BY DEF Read, Arrives
<1>3. /\ Begun(s) /\ View(s) = r /\ l \in Locks(KeyPairs) /\ l.n < CHAIN
      /\ Opens(r, l, Fresh(s)) /\ OpensTo(s, w, r, l, v)
  BY <1>2, ReadOpens
<1>4. frame.msg \in Nat
  BY <1>1, <1>2, WhatArrives
<1>5. /\ ratchet' = [ratchet EXCEPT ![s] = v]
      /\ made' = [made EXCEPT ![s] = IF Turned(r, l) THEN @ + 1 ELSE @]
      /\ \/ UNCHANGED inbox
         \/ inbox' = [inbox EXCEPT ![s] = Append(@, frame.msg)]
      /\ UNCHANGED reading
  BY <1>3 DEF Read
<1>6. UNCHANGED <<speaks, dialled, claims, phase, known, end, outbox, sealed, writing, clones,
                  budget, said, heard, used>>
  BY DEF Read, envVars, historyVars
<1>7. wire' \in [Sides -> Seq(Messages)] /\ Honest'
  BY <1>1, <1>2, <1>6, RestTypes, RestHonest
<1>8. inbox' \in [Sides -> Seq(Int)] /\ Accepted'
  <2>1. PICK m \in Nat : m = frame.msg
    BY <1>4
  <2> HIDE DEF frame
  <2>2. m \in Int /\ m # Refused
    BY DEF Refused
  <2>3. inbox' = inbox \/ inbox' = [inbox EXCEPT ![s] = Append(@, m)]
    BY <1>5, <2>1
  <2> QED BY <1>1, <2>2, <2>3, InboxGrows
<1> HIDE DEF l, r, w, v, frame
<1>9. ReadsTo(s, w, r, l, v)
  BY <1>3, <1>5, <1>6 DEF ReadsTo, r, w
<1>10. /\ ratchet' \in [Sides -> {<<>>} \cup Ratchets(KeyPairs)]
       /\ made' \in [Sides -> Nat]
       /\ ratchet'[s] = v /\ ratchet'[Other(s)] = ratchet[Other(s)]
       /\ made'[Other(s)] = made[Other(s)]
       /\ \A t \in Sides : Begun(t)' = Begun(t)
  BY <1>9, ReadViews
<1>11. OwnKeys' /\ InChain' /\ Spent' /\ InStep'
  BY <1>2, <1>9, ReadKeys, ReadInStep
<1>12. TypeOK'
  BY <1>1, <1>5, <1>6, <1>7, <1>8, <1>10 DEF TypeOK
<1>13. Beginnings'
  <2>1. v \in Ratchets(KeyPairs)
    BY <1>3 DEF OpensTo
  <2>2. \A t \in Sides : t = s \/ t = Other(s)
    BY TheOther
  <2> QED BY <1>1, <1>3, <1>5, <1>6, <1>10, <2>1, <2>2 DEF Beginnings
<1>14. Met'
  BY <1>1, <1>6, <1>10 DEF Met
<1> QED BY <1>7, <1>8, <1>11, <1>12, <1>13, <1>14 DEF IInv

-----------------------------------------------------------------------------
(***************************************************************************)
(* The theorems.                                                           *)
(***************************************************************************)

\* The two ratchets that start from the handshake face each other.
\* (Ratchet::caller, Ratchet::answerer)
LEMMA StartFaces ==
  LET c == Start("caller") a == Start("answerer")
  IN  /\ Ahead(c, a)
      /\ Unopened(c, a) = 0 /\ Matches(c, a)
      /\ Unopened(a, c) = 0 /\ Matches(a, c)
<1> DEFINE c == Start("caller")
           a == Start("answerer")
           root == Append(FirstRoot, {<<"caller", 1>>, <<"answerer", 0>>})
<1>1. c = [dhs |-> <<"caller", 1>>, dhr |-> <<"answerer", 0>>, root |-> root,
           receiving |-> FirstChain(FirstRoot), sending |-> ChainOf(root),
           ns |-> 0, nr |-> 0, pn |-> 0]
  BY StartIs
<1>2. a = [dhs |-> <<"answerer", 0>>, dhr |-> <<"caller", 0>>, root |-> FirstRoot,
           receiving |-> NoChain, sending |-> FirstChain(FirstRoot),
           ns |-> 0, nr |-> 0, pn |-> 0]
  BY StartIs
<1>3. c \in Ratchets(KeyPairs) /\ a \in Ratchets(KeyPairs)
  BY StartType DEF Sides
<1>4. {<<"caller", 1>>, <<"answerer", 0>>} = {<<"answerer", 0>>, <<"caller", 1>>}
  OBVIOUS
<1>5. FirstChain(FirstRoot) # NoChain
  BY DEF FirstChain, NoChain
<1>6. c.root = Append(a.root, {a.dhs, c.dhs})
  BY <1>1, <1>2, <1>4
<1> HIDE DEF c, a, root
<1>7. <<"caller", 1>> # <<"caller", 0>>
  OBVIOUS
<1>8. Ahead(c, a)
  <2>1. c.dhs # a.dhr /\ c.dhr = a.dhs /\ a.nr <= c.pn /\ a.nr = c.pn
        /\ c.receiving # NoChain
    BY <1>1, <1>2, <1>5, <1>7
  <2> QED BY <1>6, <2>1 DEF Ahead
<1>9. /\ Along(ChainOf(root), 0) = ChainOf(root)
      /\ Along(FirstChain(FirstRoot), 0) = FirstChain(FirstRoot)
  BY DEF Along, ChainOf, FirstChain
<1>10. Unopened(c, a) = 0 /\ Matches(c, a)
  BY <1>1, <1>2, <1>7, <1>9 DEF Unopened, Matches
<1>11. Unopened(a, c) = 0 /\ Matches(a, c)
  BY <1>1, <1>2, <1>9 DEF Unopened, Matches
<1> QED BY <1>8, <1>10, <1>11 DEF c, a

\* A stream of two messages, or of one.
LEMMA TwoParts ==
  ASSUME NEW a \in Messages, NEW b \in Messages
  PROVE  /\ <<a>> \o <<b>> \in Seq(Messages) /\ <<a>> \o <<>> \in Seq(Messages)
         /\ \A i \in 1 .. Len(<<a>> \o <<b>>) :
              (<<a>> \o <<b>>)[i] = a \/ (<<a>> \o <<b>>)[i] = b
         /\ \A i \in 1 .. Len(<<a>> \o <<>>) : (<<a>> \o <<>>)[i] = a
OBVIOUS

\* Two streams, each with what its side says first, start the connection.
LEMMA InitInv == Init => IInv
<1> SUFFICES ASSUME Init PROVE IInv
  OBVIOUS
<1>1. /\ speaks \in [Sides -> Speaks] /\ dialled \in Names /\ claims \in [Sides -> Names]
      /\ phase = [s \in Sides |-> IF Murmure(s) THEN "head" ELSE "deaf"]
      /\ known = [s \in Sides |-> Nobody]
      /\ ratchet = [s \in Sides |-> <<>>]
      /\ wire = [s \in Sides |-> IF speaks[s] = "nothing" THEN <<>> ELSE Hello(s)]
      /\ end = [s \in Sides |-> "open"]
      /\ outbox = [s \in Sides |-> <<>>] /\ inbox = outbox
      /\ sealed = [s \in Sides |-> NoFrame]
      /\ writing = [s \in Sides |-> "no"] /\ reading = writing
      /\ clones = {} /\ budget = Budget
      /\ said = [s \in Sides |-> 0] /\ heard = [s \in Sides |-> <<>>]
      /\ made = [s \in Sides |-> 1]
      /\ used = [keys |-> {}, frames |-> 0]
  BY DEF Init
<1>2. ASSUME NEW s \in Sides
      PROVE  /\ wire[s] \in Seq(Messages)
             /\ \A i \in 1 .. Len(wire[s]) : wire[s][i].kind # "frame" /\ Says(s, wire[s][i])
  <2> DEFINE head == [kind |-> "head", speaks |-> speaks[s]]
             rest == [kind |-> "rest", name |-> claims[s], nonce |-> s, key |-> Ephemeral(s)]
  <2>1. claims[s] \in Names /\ Ephemeral(s) \in KeyPairs /\ speaks[s] \in Speaks
    BY <1>1, SessionAssumption DEF Ephemeral, KeyPairs
  <2>2. /\ head \in Messages /\ head.kind # "frame" /\ Says(s, head)
        /\ rest \in Messages /\ rest.kind # "frame" /\ Says(s, rest)
    BY <2>1 DEF Messages, Says
  <2>3. wire[s] = <<>> \/ wire[s] = <<head>> \o <<rest>> \/ wire[s] = <<head>> \o <<>>
    BY <1>1 DEF Hello
  <2> HIDE DEF head, rest
  <2>4. CASE wire[s] = <<>>
    BY <2>4
  <2>5. CASE wire[s] = <<head>> \o <<rest>>
    BY <2>2, <2>5, TwoParts
  <2>6. CASE wire[s] = <<head>> \o <<>>
    BY <2>2, <2>6, TwoParts
  <2> QED BY <2>3, <2>4, <2>5, <2>6
<1>3. wire \in [Sides -> Seq(Messages)]
  BY <1>1, <1>2
<1>4. TypeOK
  <2>1. used \in [keys : SUBSET Chains(KeyPairs), frames : Nat]
    BY <1>1
  <2>2. budget \in [EventKinds -> Nat]
    BY <1>1, SessionAssumption
  <2> QED BY <1>1, <1>3, <2>1, <2>2 DEF TypeOK, Phases
<1>5. Beginnings
  BY <1>1 DEF Beginnings, Begun
<1>6. Honest
  BY <1>2 DEF Honest
<1>7. Met
  BY <1>1 DEF Met, Begun
<1>8. Accepted
  BY <1>1 DEF Accepted
<1>9. \A s \in Sides : /\ ~ Begun(s) /\ Begun(s) = FALSE /\ View(s) = Start(s)
                       /\ Made(s) = IF s = "caller" THEN 2 ELSE 1
                       /\ Writable(s) /\ sealed[s] = NoFrame /\ end[s] = "open"
  BY <1>1 DEF Begun, View, Made, Writable
<1>10. OwnKeys
  <2>1. /\ Start("caller").dhs = <<"caller", 1>> /\ Start("caller").dhr = <<"answerer", 0>>
        /\ Start("answerer").dhs = <<"answerer", 0>>
        /\ Start("answerer").dhr = <<"caller", 0>>
    BY StartIs
  <2> QED BY <1>9, <2>1 DEF OwnKeys, Sides, Other
<1>11. InStep
  <2>1. "caller" \in Sides /\ "answerer" \in Sides
    BY DEF Sides
  <2>2. Facing(View("caller"), View("answerer"))
    BY <1>9, <2>1, StartFaces DEF Facing
  <2>3. ASSUME NEW s \in Sides
        PROVE  /\ Unopened(View(s), View(Other(s))) = 0
               /\ Matches(View(s), View(Other(s)))
    BY <1>9, StartFaces DEF Sides, Other
  <2>4. ASSUME NEW s \in Sides
        PROVE  Flight(wire[s], View(s), View(Other(s)), Begun(s),
                      Writable(s) /\ end[s] = "open", sealed[s])
    <3> DEFINE h == Len(wire[s])
    <3>1. h \in 0 .. Len(wire[s]) /\ Len(wire[s]) - h = 0
      BY <1>3
    <3>2. \A i \in 1 .. Len(wire[s]) : ~ (i > h)
      BY <1>3
    <3> HIDE DEF h
    <3>3. h = Len(wire[s]) BY DEF h
    <3> QED BY <1>2, <1>9, <2>3, <3>1, <3>2, <3>3 DEF Flight
  <2> QED BY <2>2, <2>3, <2>4 DEF InStep
<1>12. InChain
  <2> DEFINE first == {<<"caller", 0>>, <<"answerer", 0>>}
             next == {<<"caller", 1>>, <<"answerer", 0>>}
             root == Append(FirstRoot, next)
  <2>1. /\ Start("answerer").root = FirstRoot
        /\ Start("answerer").sending = FirstChain(FirstRoot)
        /\ Start("answerer").ns = 0 /\ Start("answerer").nr = 0
        /\ Start("caller").root = root
        /\ Start("caller").sending = ChainOf(root)
        /\ Start("caller").ns = 0 /\ Start("caller").nr = 0
    <3>1. Start("caller") =
            [dhs |-> <<"caller", 1>>, dhr |-> <<"answerer", 0>>, root |-> root,
             receiving |-> FirstChain(FirstRoot), sending |-> ChainOf(root),
             ns |-> 0, nr |-> 0, pn |-> 0]
      BY StartIs
    <3>2. Start("answerer") =
            [dhs |-> <<"answerer", 0>>, dhr |-> <<"caller", 0>>, root |-> FirstRoot,
             receiving |-> NoChain, sending |-> FirstChain(FirstRoot),
             ns |-> 0, nr |-> 0, pn |-> 0]
      BY StartIs
    <3> HIDE DEF root
    <3> QED BY <3>1, <3>2
  <2>2. Len(FirstRoot) = 1 /\ Len(root) = 2
    <3>1. FirstRoot = <<first>>
      BY DEF FirstRoot
    <3> HIDE DEF first, next
    <3> QED BY <3>1
  <2> HIDE DEF root
  <2>3. /\ Len(Start("answerer").sending.of) = 1
        /\ Len(Start("caller").sending.of) = 2
    BY <2>1, <2>2 DEF FirstChain, ChainOf
  <2>4. 1 % 2 = 1 /\ 2 % 2 = 0 /\ 0 <= CHAIN
    BY RatchetAssumption
  <2>5. ASSUME NEW s \in Sides
        PROVE  /\ Start(s).ns <= CHAIN /\ Start(s).nr <= CHAIN
               /\ Len(Start(s).root) % 2 = Parity(s)
               /\ Len(Start(s).sending.of) = Len(Start(s).root)
    BY <2>1, <2>2, <2>3, <2>4 DEF Parity, Sides
  <2> QED BY <1>9, <2>5 DEF InChain
<1>13. Spent
  BY <1>1, FS_EmptySet DEF Spent
<1> QED BY <1>4, <1>5, <1>6, <1>7, <1>8, <1>10, <1>11, <1>12, <1>13 DEF IInv

\* Every step of the connection keeps the invariant.
LEMMA StepInv == IInv /\ [Next]_vars => IInv'
<1> SUFFICES ASSUME IInv, [Next]_vars PROVE IInv'
  OBVIOUS
<1>1. CASE UNCHANGED vars
  <2>1. Quiet /\ UNCHANGED <<wire, known, inbox, phase, sealed>>
    BY <1>1 DEF vars, Quiet, IInv, Beginnings, Begun, Writable
  <2>2. TypeOK' /\ Accepted'
    BY <1>1 DEF vars, IInv, TypeOK, Accepted
  <2> QED BY <2>1, <2>2, StillKeeps
<1>2. ASSUME NEW s \in Sides,
             \/ Handshakes(s) \/ Writes(s) \/ ReaderSteps(s)
             \/ Take(s) \/ CloseReturns(s) \/ UploadEnds(s)
             \/ Queue(s) \/ Beat(s) \/ GiveUpWriting(s)
             \/ Close(s) \/ Cut(s) \/ Upload(s)
      PROVE  IInv'
  <2>1. CASE ReadHead(s)
    BY <2>1, ReadHeadKeeps
  <2>2. CASE ReadRest(s)
    BY <2>2, ReadRestKeeps
  <2>3. CASE ReadProof(s)
    BY <2>3, ReadProofKeeps
  <2>4. CASE HandshakeTimeout(s)
    BY <2>4, HandshakeTimeoutKeeps
  <2>5. CASE SealNext(s)
    BY <2>5, SealNextKeeps
  <2>6. CASE Write(s)
    BY <2>6, WriteKeeps
  <2>7. CASE Read(s)
    BY <2>7, ReadKeeps
  <2>8. CASE ReadEnd(s)
    BY <2>8, ReadEndKeeps
  <2>9. CASE Silence(s)
    BY <2>9, SilenceKeeps
  <2>10. CASE Take(s)
    BY <2>10, TakeKeeps
  <2>11. CASE CloseReturns(s)
    BY <2>11, CloseReturnsKeeps
  <2>12. CASE UploadEnds(s)
    BY <2>12, UploadEndsKeeps
  <2>13. CASE Queue(s)
    BY <2>13, QueueKeeps
  <2>14. CASE Beat(s)
    BY <2>14, BeatKeeps
  <2>15. CASE GiveUpWriting(s)
    BY <2>15, GiveUpWritingKeeps
  <2>16. CASE Close(s)
    BY <2>16, CloseKeeps
  <2>17. CASE Cut(s)
    BY <2>17, CutKeeps
  <2>18. CASE Upload(s)
    BY <2>18, UploadKeeps
  <2> QED
    BY <1>2, <2>1, <2>2, <2>3, <2>4, <2>5, <2>6, <2>7, <2>8, <2>9, <2>10, <2>11, <2>12,
       <2>13, <2>14, <2>15, <2>16, <2>17, <2>18 DEF Handshakes, Writes, ReaderSteps
<1>3. CASE Break
  BY <1>3, BreakKeeps
<1> QED BY <1>1, <1>2, <1>3 DEF Next, Rests

\* The invariant holds of every connection.
LEMMA Invariant == Spec => []IInv
BY InitInv, StepInv, PTL DEF Spec

\* A side with a ratchet has had its proof.
LEMMA OpenedBegun ==
  ASSUME IInv, NEW s \in Sides, Opened(s)
  PROVE  Begun(s)
BY DEF IInv, Beginnings, Opened

\* Every variable keeps its type: no frame, key or counter outgrows its kind.
\* (proto.rs, ratchet.rs, link.rs)
THEOREM TypeCorrect == Spec => []TypeOK
<1>1. IInv => TypeOK
  BY DEF IInv
<1> QED BY <1>1, Invariant, PTL

\* Whatever address is claimed, a side that takes a connection for opened has the
\* address whose key the other side holds, which is the one it dialled, and the key
\* that side made for the connection. (proto.rs handshake)
THEOREM AcquaintedAlways == Spec => []Acquainted
<1>1. IInv => Acquainted
  <2> SUFFICES ASSUME IInv, NEW s \in Sides, Opened(s)
               PROVE  /\ known[s] = [name |-> Address[Other(s)], key |-> Ephemeral(Other(s))]
                      /\ speaks[Other(s)] = speaks[s]
                      /\ s = "caller" => known[s].name = dialled
    BY DEF Acquainted
  <2>1. Begun(s)
    BY OpenedBegun
  <2>2. /\ known[s] = [name |-> claims[Other(s)], key |-> Ephemeral(Other(s))]
        /\ claims[Other(s)] = Address[Other(s)]
        /\ speaks[Other(s)] = speaks[s]
        /\ s = "caller" => known[s].name = dialled
    BY <2>1 DEF IInv, Met
  <2> QED BY <2>2
<1> QED BY <1>1, Invariant, PTL

\* However many frames and turns cross on the wire, and whenever the connection
\* is closed, cut or broken, no frame that arrives is refused. (ratchet.rs open)
THEOREM NobodyRefused == Spec => []NeverRefused
<1>1. IInv => NeverRefused
  <2> SUFFICES ASSUME IInv, NEW s \in Sides, NEW i \in DOMAIN inbox[s]
               PROVE  inbox[s][i] # Refused
    BY DEF NeverRefused
  <2>1. DOMAIN inbox[s] = 1 .. Len(inbox[s])
    BY DEF IInv, TypeOK
  <2> QED BY <2>1 DEF IInv, Accepted
<1> QED BY <1>1, Invariant, PTL

\* No key seals two frames, on one side or across the two, and no chain goes
\* past its end. (ratchet.rs seal)
THEOREM KeysUsedOnce == Spec => []OneKeyOneFrame
<1>1. IInv => OneKeyOneFrame
  <2> SUFFICES ASSUME IInv
               PROVE  /\ Cardinality(used.keys) = used.frames
                      /\ \A s \in Sides : Opened(s) => ratchet[s].nr <= CHAIN
                                                       /\ ratchet[s].ns <= CHAIN
    BY DEF OneKeyOneFrame
  <2>1. Cardinality(used.keys) = used.frames
    BY DEF IInv, Spent
  <2>2. \A s \in Sides : Opened(s) => ratchet[s].nr <= CHAIN /\ ratchet[s].ns <= CHAIN
    BY OpenedBegun DEF IInv, InChain, View
  <2> QED BY <2>1, <2>2
<1> QED BY <1>1, Invariant, PTL

-----------------------------------------------------------------------------
(***************************************************************************)
(* What is heard is what was said, in order.                               *)
(***************************************************************************)

\* What one side says, told apart from the Pings and the handshake.
Said(m) == m.kind = "frame" /\ m.msg # Ping

\* q carries on from n: what is said in it is numbered on, up to m, and
\* nothing in it is past b.
Carries(q, n, m, b) ==
  \E c \in [0 .. Len(q) -> 0 .. b] :
    /\ c[0] = n /\ c[Len(q)] = m
    /\ \A i \in 1 .. Len(q) :
         IF Said(q[i]) THEN c[i] = c[i - 1] + 1 /\ q[i].msg = c[i]
                       ELSE c[i] = c[i - 1]

\* The connection is over for s.
Done(s) == phase[s] \in {"failed", "gone"}

\* The queue q carries on from k, up to n.
Follows(q, k, n) == k + Len(q) = n /\ \A i \in 1 .. Len(q) : q[i] = k + i

\* What w has still to write carries on from m, up to all that was queued.
Leaves(w, m) ==
  \/ sealed[w].msg = Ping /\ Follows(outbox[w], m, said[w])
  \/ sealed[w].msg # Ping /\ sealed[w].msg = m + 1 /\ Follows(outbox[w], m + 1, said[w])

\* How many frames s has taken up or has waiting.
Reached(s) == Len(heard[s]) + Len(inbox[s])

\* While s reads, what w wrote carries on from what s has, and while the stream
\* is whole what w has still to write carries on from there.  A stream that has
\* ended when nothing went wrong was let go by w, with all it had written.
OnItsWay(s, w) ==
  reading[s] # "done" =>
    \E m \in 0 .. said[w] :
      /\ Carries(wire[w], Reached(s), m, said[w])
      /\ Writable(w) /\ end[w] = "open" => Leaves(w, m)
      /\ NothingStruck /\ phase[s] # "failed" /\ end[w] # "open" =>
           Done(w) /\ (writing[w] # "failed" => m = said[w])

\* What s has is what w queued, in order, with the word of the end behind it.
Numbered(s, w) ==
  /\ \A i \in 1 .. Len(heard[s]) :
       \/ heard[s][i] = i /\ i <= said[w]
       \/ /\ heard[s][i] < 0 /\ i = Len(heard[s])
          /\ inbox[s] = <<>> /\ phase[s] \in {"closing", "gone"}
  /\ \A i \in 1 .. Len(inbox[s]) :
       \/ inbox[s][i] = Len(heard[s]) + i /\ inbox[s][i] <= said[w]
       \/ inbox[s][i] < 0 /\ i = Len(inbox[s]) /\ reading[s] = "done"

\* A clean end is told only when all there is was taken before it.
EndTold(s, w) ==
  NothingStruck =>
    /\ inbox[s] # <<>> /\ inbox[s][Len(inbox[s])] = Closed =>
         Done(w) /\ (writing[w] # "failed" => Reached(s) - 1 = said[w])
    /\ heard[s] # <<>> /\ heard[s][Len(heard[s])] = Closed =>
         Done(w) /\ (writing[w] # "failed" => Len(heard[s]) - 1 = said[w])

\* Whoever closes reads no more, whoever is gone writes no more, and nothing is
\* said before the proof is in.
Closings ==
  \A s \in Sides :
    /\ phase[s] \in {"closing", "gone"} => reading[s] = "done"
    /\ phase[s] = "gone" => writing[s] \in {"done", "failed"}
    /\ ~ Begun(s) => said[s] = 0 /\ s \notin clones

OrderInv ==
  /\ budget["event"] <= Budget["event"]
  /\ Closings
  /\ \A s \in Sides :
       Numbered(s, Other(s)) /\ OnItsWay(s, Other(s)) /\ EndTold(s, Other(s))

\* There may be more to come. (Carries)
LEMMA CarriesWider ==
  ASSUME NEW q \in Seq(Messages), NEW n, NEW m, NEW b \in Nat, NEW b2 \in Nat,
         b <= b2, Carries(q, n, m, b)
  PROVE  Carries(q, n, m, b2)
<1>1. PICK c \in [0 .. Len(q) -> 0 .. b] :
        /\ c[0] = n /\ c[Len(q)] = m
        /\ \A i \in 1 .. Len(q) :
             IF Said(q[i]) THEN c[i] = c[i - 1] + 1 /\ q[i].msg = c[i]
                           ELSE c[i] = c[i - 1]
  BY DEF Carries
<1>2. c \in [0 .. Len(q) -> 0 .. b2]
  BY <1>1
<1> QED BY <1>1, <1>2 DEF Carries

\* What is read first is the next to be said, or says nothing. (link.rs)
LEMMA CarriesHead ==
  ASSUME NEW q \in Seq(Messages), q # <<>>, NEW n, NEW m, NEW b \in Nat,
         Carries(q, n, m, b)
  PROVE  IF Said(Head(q)) THEN /\ n \in Nat /\ n + 1 <= b /\ Head(q).msg = n + 1
                               /\ Carries(Tail(q), n + 1, m, b)
                          ELSE Carries(Tail(q), n, m, b)
<1> DEFINE p == Tail(q)
<1>1. /\ p \in Seq(Messages) /\ Len(q) \in Nat \ {0} /\ Len(p) = Len(q) - 1
      /\ \A i \in 1 .. Len(p) : p[i] = q[i + 1]
      /\ Head(q) = q[1]
  OBVIOUS
<1>2. PICK c \in [0 .. Len(q) -> 0 .. b] :
        /\ c[0] = n /\ c[Len(q)] = m
        /\ \A i \in 1 .. Len(q) :
             IF Said(q[i]) THEN c[i] = c[i - 1] + 1 /\ q[i].msg = c[i]
                           ELSE c[i] = c[i - 1]
  BY DEF Carries
<1> HIDE DEF p
<1> DEFINE d == [i \in 0 .. Len(p) |-> c[i + 1]]
<1>3. /\ d \in [0 .. Len(p) -> 0 .. b] /\ d[0] = c[1] /\ d[Len(p)] = m
      /\ \A i \in 1 .. Len(p) : d[i] = c[i + 1] /\ d[i - 1] = c[(i + 1) - 1]
  BY <1>1, <1>2
<1> HIDE DEF d
<1>4. \A i \in 1 .. Len(p) :
        IF Said(p[i]) THEN d[i] = d[i - 1] + 1 /\ p[i].msg = d[i]
                      ELSE d[i] = d[i - 1]
  <2> SUFFICES ASSUME NEW i \in 1 .. Len(p)
               PROVE  IF Said(p[i]) THEN d[i] = d[i - 1] + 1 /\ p[i].msg = d[i]
                                    ELSE d[i] = d[i - 1]
    OBVIOUS
  <2>1. i + 1 \in 1 .. Len(q) /\ p[i] = q[i + 1]
    BY <1>1
  <2> QED BY <1>2, <1>3, <2>1
<1>5. Carries(p, c[1], m, b)
  BY <1>3, <1>4 DEF Carries
<1>6. IF Said(q[1]) THEN c[1] = c[0] + 1 /\ q[1].msg = c[1] ELSE c[1] = c[0]
  <2>1. 1 \in 1 .. Len(q) /\ 1 - 1 = 0
    BY <1>1
  <2> QED BY <1>2, <2>1
<1>7. c[0] \in Nat /\ c[1] <= b
  BY <1>1, <1>2
<1> QED BY <1>1, <1>2, <1>5, <1>6, <1>7 DEF p

\* What is written last carries on from there. (link.rs)
LEMMA CarriesMore ==
  ASSUME NEW q \in Seq(Messages), NEW x \in Messages, NEW n, NEW m, NEW b \in Nat,
         Carries(q, n, m, b), Said(x) => x.msg = m + 1 /\ m + 1 <= b
  PROVE  Carries(Append(q, x), n, IF Said(x) THEN m + 1 ELSE m, b)
<1> DEFINE p == Append(q, x)
           e == IF Said(x) THEN m + 1 ELSE m
<1>1. /\ p \in Seq(Messages) /\ Len(q) \in Nat /\ Len(p) = Len(q) + 1
      /\ \A i \in 1 .. Len(q) : p[i] = q[i]
      /\ p[Len(p)] = x
  OBVIOUS
<1>2. PICK c \in [0 .. Len(q) -> 0 .. b] :
        /\ c[0] = n /\ c[Len(q)] = m
        /\ \A i \in 1 .. Len(q) :
             IF Said(q[i]) THEN c[i] = c[i - 1] + 1 /\ q[i].msg = c[i]
                           ELSE c[i] = c[i - 1]
  BY DEF Carries
<1>3. m \in 0 .. b /\ e \in 0 .. b
  BY <1>1, <1>2
<1> HIDE DEF p, e
<1> DEFINE d == [i \in 0 .. Len(p) |-> IF i = Len(p) THEN e ELSE c[i]]
<1>4. /\ d \in [0 .. Len(p) -> 0 .. b] /\ d[0] = n /\ d[Len(p)] = e /\ d[Len(p) - 1] = m
      /\ \A i \in 1 .. Len(q) : d[i] = c[i] /\ d[i - 1] = c[i - 1]
  BY <1>1, <1>2, <1>3
<1> HIDE DEF d
<1>5. \A i \in 1 .. Len(p) :
        IF Said(p[i]) THEN d[i] = d[i - 1] + 1 /\ p[i].msg = d[i]
                      ELSE d[i] = d[i - 1]
  <2>1. ASSUME NEW i \in 1 .. Len(q)
        PROVE  IF Said(p[i]) THEN d[i] = d[i - 1] + 1 /\ p[i].msg = d[i]
                             ELSE d[i] = d[i - 1]
    BY <1>1, <1>2, <1>4, <2>1
  <2>2. IF Said(p[Len(p)]) THEN d[Len(p)] = d[Len(p) - 1] + 1 /\ p[Len(p)].msg = d[Len(p)]
                           ELSE d[Len(p)] = d[Len(p) - 1]
    BY <1>1, <1>4 DEF e
  <2>3. \A i \in 1 .. Len(p) : i \in 1 .. Len(q) \/ i = Len(p)
    BY <1>1
  <2> QED BY <2>1, <2>2, <2>3
<1> QED BY <1>4, <1>5 DEF Carries, e, p

\* The end of a stream may be lost. (a circuit that dies)
LEMMA CarriesLess ==
  ASSUME NEW q \in Seq(Messages), NEW k \in 0 .. Len(q), NEW n, NEW m, NEW b \in Nat,
         Carries(q, n, m, b)
  PROVE  \E m2 \in 0 .. b : Carries(SubSeq(q, 1, k), n, m2, b)
<1> DEFINE p == SubSeq(q, 1, k)
<1>1. /\ p \in Seq(Messages) /\ Len(q) \in Nat /\ Len(p) = k
      /\ \A i \in 1 .. k : p[i] = q[i]
  OBVIOUS
<1>2. PICK c \in [0 .. Len(q) -> 0 .. b] :
        /\ c[0] = n /\ c[Len(q)] = m
        /\ \A i \in 1 .. Len(q) :
             IF Said(q[i]) THEN c[i] = c[i - 1] + 1 /\ q[i].msg = c[i]
                           ELSE c[i] = c[i - 1]
  BY DEF Carries
<1> HIDE DEF p
<1> DEFINE d == [i \in 0 .. Len(p) |-> c[i]]
<1>3. /\ d \in [0 .. Len(p) -> 0 .. b] /\ d[0] = n /\ d[Len(p)] = c[k] /\ c[k] \in 0 .. b
      /\ \A i \in 1 .. Len(p) : d[i] = c[i] /\ d[i - 1] = c[i - 1]
  <2>1. /\ Len(p) \in 0 .. Len(q) /\ \A i \in 0 .. Len(p) : i \in 0 .. Len(q)
        /\ \A i \in 1 .. Len(p) : i \in 0 .. Len(p) /\ i - 1 \in 0 .. Len(p)
    BY <1>1
  <2>2. \A i \in 0 .. Len(p) : d[i] = c[i] /\ c[i] \in 0 .. b
    BY <1>2, <2>1
  <2>3. d \in [0 .. Len(p) -> 0 .. b]
    BY <2>2
  <2> HIDE DEF d
  <2> QED BY <1>1, <1>2, <2>1, <2>2, <2>3
<1> HIDE DEF d
<1>4. \A i \in 1 .. Len(p) :
        IF Said(p[i]) THEN d[i] = d[i - 1] + 1 /\ p[i].msg = d[i]
                      ELSE d[i] = d[i - 1]
  <2> SUFFICES ASSUME NEW i \in 1 .. Len(p)
               PROVE  IF Said(p[i]) THEN d[i] = d[i - 1] + 1 /\ p[i].msg = d[i]
                                    ELSE d[i] = d[i - 1]
    OBVIOUS
  <2>1. i \in 1 .. Len(q) /\ p[i] = q[i]
    BY <1>1
  <2> QED BY <1>2, <1>3, <2>1
<1>5. Carries(p, n, c[k], b)
  BY <1>3, <1>4 DEF Carries
<1> QED BY <1>3, <1>5 DEF p

\* An empty stream carries nothing.
LEMMA CarriesNothing ==
  ASSUME NEW b \in Nat
  PROVE  /\ \A n \in 0 .. b : Carries(<<>>, n, n, b)
         /\ \A n, m : Carries(<<>>, n, m, b) => m = n
<1>1. Len(<<>>) = 0
  OBVIOUS
<1>2. ASSUME NEW n \in 0 .. b PROVE Carries(<<>>, n, n, b)
  <2> DEFINE c == [i \in 0 .. 0 |-> n]
  <2>1. c \in [0 .. 0 -> 0 .. b] /\ c[0] = n
    OBVIOUS
  <2>2. \A i \in 1 .. Len(<<>>) : FALSE
    BY <1>1
  <2> HIDE DEF c
  <2> QED BY <1>1, <2>1, <2>2 DEF Carries
<1>3. ASSUME NEW n, NEW m, Carries(<<>>, n, m, b) PROVE m = n
  BY <1>1, <1>3 DEF Carries
<1> QED BY <1>2, <1>3

\* One more is queued, and the first is taken. (Link::send)
LEMMA FollowsMore ==
  ASSUME NEW q \in Seq(Nat), NEW k \in Nat, NEW n \in Nat, Follows(q, k, n)
  PROVE  Follows(Append(q, n + 1), k, n + 1)
<1> DEFINE p == Append(q, n + 1)
<1>1. /\ Len(p) = Len(q) + 1 /\ Len(q) \in Nat /\ p[Len(q) + 1] = n + 1
      /\ \A i \in 1 .. Len(q) : p[i] = q[i]
      /\ \A i \in 1 .. Len(p) : i \in 1 .. Len(q) \/ i = Len(q) + 1
  OBVIOUS
<1> HIDE DEF p
<1>2. k + Len(q) = n /\ \A i \in 1 .. Len(q) : q[i] = k + i
  BY DEF Follows
<1>3. k + (Len(q) + 1) = n + 1
  BY SMTT(30), <1>1, <1>2
<1>4. \A i \in 1 .. Len(p) : p[i] = k + i
  BY <1>1, <1>2, <1>3
<1> QED BY <1>1, <1>3, <1>4 DEF Follows, p

\* The first that waits is the next to be said.
LEMMA FollowsHead ==
  ASSUME NEW q \in Seq(Nat), q # <<>>, NEW k \in Nat, NEW n \in Nat, Follows(q, k, n)
  PROVE  Head(q) = k + 1 /\ k + 1 <= n /\ Follows(Tail(q), k + 1, n)
<1> DEFINE p == Tail(q)
<1>1. /\ Len(q) \in Nat /\ Len(p) \in Nat /\ Len(q) = Len(p) + 1 /\ Head(q) = q[1]
      /\ \A i \in 1 .. Len(p) : p[i] = q[i + 1] /\ i + 1 \in 1 .. Len(q)
      /\ 1 \in 1 .. Len(q)
  OBVIOUS
<1> HIDE DEF p
<1>2. k + Len(q) = n /\ \A i \in 1 .. Len(q) : q[i] = k + i
  BY DEF Follows
<1>3. (k + 1) + Len(p) = n /\ k + 1 <= n
  BY <1>1, <1>2
<1>4. \A i \in 1 .. Len(p) : p[i] = (k + 1) + i
  BY <1>1, <1>2
<1> QED BY <1>1, <1>2, <1>3, <1>4 DEF Follows, p

\* A thing that goes wrong is counted. (Strikes)
LEMMA Struck ==
  ASSUME TypeOK, OrderInv, NEW kind \in EventKinds, Strikes(kind)
  PROVE  /\ budget'["event"] <= Budget["event"]
         /\ kind = "event" => ~ NothingStruck'
         /\ kind # "event" => (NothingStruck' <=> NothingStruck)
<1>1. Budget["event"] \in Nat /\ budget["event"] \in Nat /\ "event" \in EventKinds
  BY SessionAssumption DEF TypeOK, EventKinds
<1>2. budget' = [budget EXCEPT ![kind] = @ - 1] /\ budget \in [EventKinds -> Nat]
  BY DEF Strikes, TypeOK
<1>3. kind = "event" => budget'["event"] = budget["event"] - 1
  BY <1>1, <1>2
<1>4. kind # "event" => budget'["event"] = budget["event"]
  BY <1>1, <1>2
<1>5. budget["event"] <= Budget["event"]
  BY DEF OrderInv
<1> QED BY <1>1, <1>3, <1>4, <1>5 DEF NothingStruck

\* Whoever is done says no more, and its writer does not start again.
Settled(w) ==
  /\ said[w] <= said'[w]
  /\ Done(w) => Done(w)' /\ said'[w] = said[w]
                /\ (writing[w] = "failed" => writing'[w] = "failed")

\* What was taken stays as it is. (heard, inbox)
LEMMA NumberedStays ==
  ASSUME TypeOK, TypeOK', NEW s \in Sides, NEW w \in Sides, Numbered(s, w),
         heard'[s] = heard[s], inbox'[s] = inbox[s],
         reading[s] = "done" => reading'[s] = "done",
         phase[s] \in {"closing", "gone"} => phase'[s] \in {"closing", "gone"},
         said[w] <= said'[w]
  PROVE  Numbered(s, w)'
<1>1. said[w] \in Nat /\ said'[w] \in Nat /\ heard[s] \in Seq(Int) /\ inbox[s] \in Seq(Int)
  BY DEF TypeOK
<1>2. /\ \A i \in 1 .. Len(heard[s]) : heard[s][i] \in Int
      /\ \A i \in 1 .. Len(inbox[s]) : inbox[s][i] \in Int
  BY <1>1
<1>3. \A x \in Int : x <= said[w] => x <= said'[w]
  BY <1>1
<1>4. \A i \in 1 .. Len(heard[s]) : i \in Int
  BY <1>1
<1> QED BY <1>2, <1>3, <1>4 DEF Numbered

\* What was told of the end stays true. (heard, inbox)
LEMMA EndToldStays ==
  ASSUME NEW s \in Sides, NEW w \in Sides, EndTold(s, w), Settled(w),
         heard'[s] = heard[s], inbox'[s] = inbox[s], NothingStruck' => NothingStruck
  PROVE  EndTold(s, w)'
BY DEF EndTold, Settled, Reached

\* Nothing of a stream was read or added, and it has not ended.
LEMMA WayStays ==
  ASSUME TypeOK, TypeOK', NEW s \in Sides, NEW w \in Sides, OnItsWay(s, w), Settled(w),
         wire'[w] = wire[w], Reached(s)' = Reached(s), said'[w] = said[w],
         reading[s] = "done" => reading'[s] = "done",
         end'[w] = end[w],
         Writable(w)' => Writable(w),
         Writable(w) /\ Writable(w)' => sealed'[w] = sealed[w] /\ outbox'[w] = outbox[w],
         NothingStruck' => NothingStruck,
         phase[s] = "failed" => phase'[s] = "failed"
  PROVE  OnItsWay(s, w)'
<1> SUFFICES ASSUME reading'[s] # "done"
             PROVE  OnItsWay(s, w)'
  BY DEF OnItsWay
<1>1. PICK m \in 0 .. said[w] :
        /\ Carries(wire[w], Reached(s), m, said[w])
        /\ Writable(w) /\ end[w] = "open" => Leaves(w, m)
        /\ NothingStruck /\ phase[s] # "failed" /\ end[w] # "open" =>
             Done(w) /\ (writing[w] # "failed" => m = said[w])
  BY DEF OnItsWay
<1>2. m \in 0 .. said'[w] /\ Carries(wire'[w], Reached(s)', m, said'[w])
  BY <1>1
<1>3. Writable(w)' /\ end'[w] = "open" => Leaves(w, m)'
  BY <1>1 DEF Leaves
<1>4. NothingStruck' /\ phase'[s] # "failed" /\ end'[w] # "open" =>
        Done(w)' /\ (writing'[w] # "failed" => m = said'[w])
  BY <1>1 DEF Settled
<1> QED BY <1>2, <1>3, <1>4 DEF OnItsWay

\* A stream that is let go by a side that has nothing left to write, or that
\* was told nothing, or in a step that is counted.
LEMMA WayEnds ==
  ASSUME TypeOK, TypeOK', NEW s \in Sides, NEW w \in Sides, OnItsWay(s, w), Settled(w),
         wire'[w] = wire[w], Reached(s)' = Reached(s), said'[w] = said[w],
         reading[s] = "done" => reading'[s] = "done",
         end'[w] # "open",
         \/ ~ NothingStruck' \/ phase'[s] = "failed" \/ reading'[s] = "done"
         \/ NothingStruck /\ phase[s] # "failed" /\ Done(w)' /\
            \/ said[w] = 0
            \/ writing'[w] # "failed" /\ end[w] = "open" =>
                 Writable(w) /\ outbox[w] = <<>> /\ sealed[w].msg = Ping
  PROVE  OnItsWay(s, w)'
<1> SUFFICES ASSUME reading'[s] # "done"
             PROVE  OnItsWay(s, w)'
  BY DEF OnItsWay
<1>1. PICK m \in 0 .. said[w] :
        /\ Carries(wire[w], Reached(s), m, said[w])
        /\ Writable(w) /\ end[w] = "open" => Leaves(w, m)
        /\ NothingStruck /\ phase[s] # "failed" /\ end[w] # "open" =>
             Done(w) /\ (writing[w] # "failed" => m = said[w])
  BY DEF OnItsWay
<1>2. m \in 0 .. said'[w] /\ Carries(wire'[w], Reached(s)', m, said'[w])
  BY <1>1
<1>3. ASSUME NothingStruck', phase'[s] # "failed"
      PROVE  Done(w)' /\ (writing'[w] # "failed" => m = said'[w])
  <2>1. Done(w)' /\ NothingStruck /\ phase[s] # "failed"
    BY <1>3
  <2>2. CASE said[w] = 0
    BY <1>1, <2>1, <2>2
  <2>3. CASE end[w] # "open"
    BY <1>1, <2>1, <2>3 DEF Settled
  <2>4. CASE said[w] # 0 /\ end[w] = "open" /\ writing'[w] # "failed"
    <3>1. Writable(w) /\ outbox[w] = <<>> /\ sealed[w].msg = Ping
      BY <1>3, <2>4
    <3>2. Leaves(w, m)
      BY <1>1, <2>4, <3>1
    <3>3. m = said[w]
      <4>1. m \in Nat /\ Len(outbox[w]) = 0
        BY <1>1, <3>1
      <4> QED BY <3>1, <3>2, <4>1 DEF Leaves, Follows
    <3> QED BY <2>1, <3>3
  <2> QED BY <2>1, <2>2, <2>3, <2>4
<1> QED BY <1>2, <1>3 DEF OnItsWay

\* One more has been read, or taken up. (inbox, heard)
LEMMA ReachedMore ==
  ASSUME TypeOK, NEW s \in Sides, heard'[s] = heard[s],
         Len(inbox'[s]) = Len(inbox[s]) + 1
  PROVE  Reached(s)' = Reached(s) + 1 /\ Reached(s)' - 1 = Reached(s)
<1>1. Len(heard[s]) \in Nat /\ Len(inbox[s]) \in Nat
  BY DEF TypeOK
<1>2. PICK a \in Nat : a = Len(heard[s])
  BY <1>1
<1>3. PICK b \in Nat : b = Len(inbox[s])
  BY <1>1
<1>4. Reached(s) = a + b /\ Reached(s)' = a + (b + 1)
  BY <1>2, <1>3 DEF Reached
<1> QED BY ONLY <1>4

\* What is taken up was read before. (inbox, heard)
LEMMA ReachedSame ==
  ASSUME TypeOK, TypeOK', NEW s \in Sides, Len(heard'[s]) = Len(heard[s]) + 1,
         Len(inbox[s]) = Len(inbox'[s]) + 1
  PROVE  Reached(s)' = Reached(s)
<1>1. Len(heard[s]) \in Nat /\ Len(inbox'[s]) \in Nat
  BY SMTT(30) DEF TypeOK
<1>2. PICK a \in Nat : a = Len(heard[s])
  BY <1>1
<1>3. PICK b \in Nat : b = Len(inbox'[s])
  BY <1>1
<1>4. Reached(s) = a + (b + 1) /\ Reached(s)' = (a + 1) + b
  BY <1>2, <1>3 DEF Reached
<1> QED BY ONLY <1>4

\* Nobody who is done has a writer that runs. (Link::close)
LEMMA SettledIs ==
  ASSUME TypeOK, TypeOK', Beginnings, Closings, NEW w \in Sides,
         said'[w] = said[w] \/ (writing[w] = "runs" /\ said'[w] = said[w] + 1),
         phase'[w] = phase[w] \/ ~ Done(w),
         writing'[w] = writing[w] \/ writing[w] = "runs" \/ ~ Done(w)
  PROVE  Settled(w)
<1>1. said[w] \in Nat
  BY DEF TypeOK
<1>2. Done(w) => writing[w] # "runs"
  BY DEF Done, Closings, Beginnings, Begun
<1> QED BY <1>1, <1>2 DEF Settled, Done

\* What is to be shown of a step in which nobody takes anything up.
LEMMA OrderKept ==
  ASSUME TypeOK, TypeOK', OrderInv, NEW s \in Sides,
         budget'["event"] <= Budget["event"], NothingStruck' => NothingStruck,
         Closings', heard' = heard, inbox' = inbox, Settled(s), Settled(Other(s)),
         \A t \in Sides :
           /\ reading[t] = "done" => reading'[t] = "done"
           /\ phase[t] \in {"closing", "gone"} => phase'[t] \in {"closing", "gone"},
         OnItsWay(s, Other(s))', OnItsWay(Other(s), s)'
  PROVE  OrderInv'
<1>1. ASSUME NEW t \in Sides
      PROVE  Numbered(t, Other(t))' /\ OnItsWay(t, Other(t))' /\ EndTold(t, Other(t))'
  <2>1. Other(t) \in Sides /\ Settled(Other(t)) /\ OnItsWay(t, Other(t))'
    BY TheOther
  <2>2. Numbered(t, Other(t)) /\ EndTold(t, Other(t))
    BY DEF OrderInv
  <2>3. Numbered(t, Other(t))'
    BY <2>1, <2>2, NumberedStays DEF Settled
  <2>4. EndTold(t, Other(t))'
    BY <2>1, <2>2, EndToldStays
  <2> QED BY <2>1, <2>3, <2>4
<1> QED BY <1>1 DEF OrderInv

\* The parts of the invariant, and the two ends.
LEMMA OrderParts ==
  ASSUME IInv, OrderInv, NEW s \in Sides
  PROVE  /\ TypeOK /\ Beginnings /\ Closings /\ budget["event"] <= Budget["event"]
         /\ Other(s) \in Sides /\ Other(s) # s /\ Other(Other(s)) = s
         /\ \A t \in Sides : t = s \/ t = Other(s)
         /\ Numbered(s, Other(s)) /\ OnItsWay(s, Other(s)) /\ EndTold(s, Other(s))
         /\ Numbered(Other(s), s) /\ OnItsWay(Other(s), s) /\ EndTold(Other(s), s)
<1>1. /\ Other(s) \in Sides /\ Other(s) # s /\ Other(Other(s)) = s
      /\ \A t \in Sides : t = s \/ t = Other(s)
  BY TheOther
<1>2. \A t \in Sides : Numbered(t, Other(t)) /\ OnItsWay(t, Other(t)) /\ EndTold(t, Other(t))
  BY DEF OrderInv
<1>3. Numbered(Other(s), s) /\ OnItsWay(Other(s), s) /\ EndTold(Other(s), s)
  BY ONLY <1>1, <1>2
<1> QED BY <1>1, <1>2, <1>3 DEF IInv, OrderInv

\* The order is kept by a line queued. (Link::send)
LEMMA QueueOrders ==
  ASSUME IInv, OrderInv, TypeOK', NEW s \in Sides, Queue(s)
  PROVE  OrderInv'
<1> DEFINE o == Other(s)
<1>1. /\ TypeOK /\ Beginnings /\ Closings /\ budget["event"] <= Budget["event"]
      /\ o \in Sides /\ o # s /\ \A t \in Sides : t = s \/ t = o
      /\ OnItsWay(s, o) /\ OnItsWay(o, s)
  BY OrderParts
<1>2. /\ Strikes("say") /\ writing[s] = "runs"
      /\ said' = [said EXCEPT ![s] = @ + 1]
      /\ outbox' = [outbox EXCEPT ![s] = Append(@, said[s] + 1)]
      /\ UNCHANGED <<phase, wire, end, sealed, writing, reading, inbox, clones, heard>>
  BY DEF Queue, envVars
<1> HIDE DEF o
<1>3. budget'["event"] <= Budget["event"] /\ (NothingStruck' => NothingStruck)
  BY <1>1, <1>2, Struck DEF EventKinds
<1>4. /\ said'[s] = said[s] + 1 /\ said'[o] = said[o] /\ said[s] \in Nat
      /\ outbox'[s] = Append(outbox[s], said[s] + 1) /\ outbox'[o] = outbox[o]
      /\ outbox[s] \in Seq(Nat)
  BY <1>1, <1>2 DEF TypeOK
<1>5. Settled(s) /\ Settled(o)
  BY <1>1, <1>2, <1>4, SettledIs
<1>6. Closings'
  BY <1>1, <1>2, <1>4 DEF Closings, Begun
<1>7. OnItsWay(s, o)'
  BY <1>1, <1>2, <1>3, <1>4, <1>5, WayStays DEF Reached, Writable
<1>8. OnItsWay(o, s)'
  <2> SUFFICES ASSUME reading[o] # "done"
               PROVE  OnItsWay(o, s)'
    BY <1>2 DEF OnItsWay
  <2>1. PICK m \in 0 .. said[s] :
          /\ Carries(wire[s], Reached(o), m, said[s])
          /\ Writable(s) /\ end[s] = "open" => Leaves(s, m)
          /\ NothingStruck /\ phase[o] # "failed" /\ end[s] # "open" =>
               Done(s) /\ (writing[s] # "failed" => m = said[s])
    BY <1>1 DEF OnItsWay
  <2>2. m \in 0 .. said'[s] /\ Carries(wire'[s], Reached(o)', m, said'[s])
    <3>1. wire[s] \in Seq(Messages) /\ said[s] + 1 \in Nat /\ said[s] <= said[s] + 1
      BY <1>1, <1>4 DEF TypeOK
    <3>2. Carries(wire[s], Reached(o), m, said[s] + 1)
      BY <1>4, <2>1, <3>1, CarriesWider
    <3>3. m \in 0 .. said[s] + 1
      BY <1>4, <2>1
    <3> QED BY <1>2, <1>4, <3>2, <3>3 DEF Reached
  <2>3. ASSUME Leaves(s, m)
        PROVE  Leaves(s, m)'
    <3>1. m \in Nat /\ m + 1 \in Nat
      BY <1>4, <2>1
    <3> QED BY <1>2, <1>4, <2>3, <3>1, FollowsMore DEF Leaves
  <2>4. ~ (NothingStruck /\ phase[o] # "failed" /\ end[s] # "open")
    BY <1>1, <1>2, <2>1 DEF Done, Closings, Beginnings, Begun
  <2> QED BY <1>2, <1>3, <2>1, <2>2, <2>3, <2>4 DEF OnItsWay, Writable
<1> QED BY <1>1, <1>2, <1>3, <1>5, <1>6, <1>7, <1>8, OrderKept DEF o

\* The order is kept when a frame is sealed, whether or not the chain has come
\* to its end. (Ratchet::seal)
LEMMA SealOrders ==
  ASSUME IInv, OrderInv, TypeOK', NEW s \in Sides, NEW msg \in Nat, Idle(s), Seal(s, msg),
         UNCHANGED <<phase, wire, end, reading, inbox, clones, said, heard>>,
         \/ /\ msg = Ping /\ outbox' = outbox /\ Strikes("beat")
         \/ /\ outbox[s] # <<>> /\ msg = Head(outbox[s]) /\ UNCHANGED budget
            /\ outbox' = [outbox EXCEPT ![s] = Tail(@)]
  PROVE  OrderInv'
<1> DEFINE o == Other(s)
<1>1. /\ TypeOK /\ Beginnings /\ Closings /\ budget["event"] <= Budget["event"]
      /\ o \in Sides /\ o # s /\ \A t \in Sides : t = s \/ t = o
      /\ OnItsWay(s, o) /\ OnItsWay(o, s)
  BY OrderParts
<1> HIDE DEF o
<1>2. budget'["event"] <= Budget["event"] /\ (NothingStruck' => NothingStruck)
  <2>1. CASE UNCHANGED budget
    BY <1>1, <2>1 DEF NothingStruck
  <2>2. CASE Strikes("beat")
    BY <1>1, <2>2, Struck DEF EventKinds
  <2> QED BY <2>1, <2>2
<1>3. /\ writing[s] = "runs" /\ sealed[s].msg = Ping
      /\ writing'[o] = writing[o] /\ sealed'[o] = sealed[o] /\ outbox'[o] = outbox[o]
      /\ \/ writing'[s] = "failed"
         \/ writing'[s] = "runs" /\ sealed'[s].msg = msg
  <2>1. writing[s] = "runs" /\ sealed[s].msg = Ping
    BY DEF Idle, NoFrame, Ping
  <2>2. outbox'[o] = outbox[o]
    BY ZenonT(30), <1>1 DEF TypeOK
  <2>3. CASE Exhausted(ratchet[s])
    <3>1. writing' = [writing EXCEPT ![s] = "failed"] /\ sealed' = sealed
      BY <2>3 DEF Seal
    <3> QED BY <1>1, <2>1, <2>2, <3>1 DEF TypeOK
  <2>4. CASE ~ Exhausted(ratchet[s])
    <3>1. /\ sealed' = [sealed EXCEPT ![s] = [msg |-> msg, lock |-> Sealed(ratchet[s])]]
          /\ writing' = writing
      BY <2>4 DEF Seal
    <3> QED BY <1>1, <2>1, <2>2, <3>1 DEF TypeOK
  <2> QED BY <2>3, <2>4
<1>4. Settled(s) /\ Settled(o)
  BY <1>1, <1>3, SettledIs
<1>5. Closings'
  BY <1>1, <1>3 DEF Closings, Begun
<1>6. OnItsWay(s, o)'
  BY <1>1, <1>2, <1>3, <1>4, WayStays DEF Reached, Writable
<1>7. OnItsWay(o, s)'
  <2> SUFFICES ASSUME reading[o] # "done"
               PROVE  OnItsWay(o, s)'
    BY DEF OnItsWay
  <2>1. PICK m \in 0 .. said[s] :
          /\ Carries(wire[s], Reached(o), m, said[s])
          /\ Writable(s) /\ end[s] = "open" => Leaves(s, m)
          /\ NothingStruck /\ phase[o] # "failed" /\ end[s] # "open" =>
               Done(s) /\ (writing[s] # "failed" => m = said[s])
    BY <1>1 DEF OnItsWay
  <2>2. m \in 0 .. said'[s] /\ Carries(wire'[s], Reached(o)', m, said'[s])
    BY <2>1 DEF Reached
  <2>3. ASSUME Writable(s)', end'[s] = "open"
        PROVE  Leaves(s, m)'
    <3>1. Follows(outbox[s], m, said[s]) /\ writing'[s] = "runs" /\ sealed'[s].msg = msg
      BY <1>3, <2>1, <2>3 DEF Leaves, Writable
    <3>2. CASE msg = Ping /\ outbox' = outbox
      BY <3>1, <3>2 DEF Leaves
    <3>3. CASE /\ outbox[s] # <<>> /\ msg = Head(outbox[s])
               /\ outbox' = [outbox EXCEPT ![s] = Tail(@)]
      <4>1. outbox[s] \in Seq(Nat) /\ said[s] \in Nat /\ m \in Nat
            /\ outbox'[s] = Tail(outbox[s])
        BY <1>1, <2>1, <3>3 DEF TypeOK
      <4>2. msg = m + 1 /\ Follows(Tail(outbox[s]), m + 1, said[s])
        BY <3>1, <3>3, <4>1, FollowsHead
      <4>3. msg # Ping
        BY <4>1, <4>2 DEF Ping
      <4> QED BY <3>1, <4>1, <4>2, <4>3 DEF Leaves
    <3> QED BY <3>2, <3>3
  <2>4. ~ (NothingStruck /\ phase[o] # "failed" /\ end[s] # "open")
    BY <1>1, <1>3, <2>1 DEF Done, Closings, Beginnings, Begun
  <2> QED BY <1>2, <2>2, <2>3, <2>4 DEF OnItsWay
<1> QED BY <1>1, <1>2, <1>4, <1>5, <1>6, <1>7, OrderKept DEF o

\* The order is kept when the next frame is sealed.
LEMMA SealNextOrders ==
  ASSUME IInv, OrderInv, TypeOK', NEW s \in Sides, SealNext(s)
  PROVE  OrderInv'
<1>1. outbox[s] \in Seq(Nat) /\ outbox[s] # <<>>
  BY DEF IInv, TypeOK, SealNext
<1>2. Head(outbox[s]) \in Nat
  BY <1>1
<1> QED BY <1>1, <1>2, SealOrders DEF SealNext

\* The order is kept by a Ping. (Link::open, the keepalive)
LEMMA BeatOrders ==
  ASSUME IInv, OrderInv, TypeOK', NEW s \in Sides, Beat(s)
  PROVE  OrderInv'
<1>1. Ping \in Nat
  BY DEF Ping
<1> QED BY <1>1, SealOrders DEF Beat

\* The order is kept by a frame that goes out, or goes nowhere.
\* (write_or_give_up)
LEMMA WriteOrders ==
  ASSUME IInv, OrderInv, TypeOK', NEW s \in Sides, Write(s)
  PROVE  OrderInv'
<1> DEFINE o == Other(s)
<1>1. /\ TypeOK /\ Beginnings /\ Closings /\ budget["event"] <= Budget["event"]
      /\ o \in Sides /\ o # s /\ \A t \in Sides : t = s \/ t = o
      /\ OnItsWay(s, o) /\ OnItsWay(o, s)
  BY OrderParts
<1> HIDE DEF o
<1>2. /\ writing[s] = "runs" /\ sealed[s] # NoFrame
      /\ sealed' = [sealed EXCEPT ![s] = NoFrame]
      /\ UNCHANGED <<phase, end, outbox, reading, inbox, clones, budget, said, heard>>
  BY DEF Write, historyVars
<1>3. \/ /\ end[s] = "open" /\ writing' = writing
         /\ wire' = [wire EXCEPT ![s] = Append(@,
              [kind |-> "frame", msg |-> sealed[s].msg, lock |-> sealed[s].lock])]
      \/ /\ end[s] # "open" /\ wire' = wire
         /\ \E after \in {"runs", "failed"} : writing' = [writing EXCEPT ![s] = after]
  BY DEF Write
<1>4. /\ sealed'[s].msg = Ping /\ sealed'[o] = sealed[o]
      /\ writing'[s] \in {"runs", "failed"} /\ writing'[o] = writing[o]
      /\ wire'[o] = wire[o]
  BY ZenonT(30), <1>1, <1>2, <1>3 DEF TypeOK, NoFrame, Ping
<1>5. Settled(s) /\ Settled(o)
  BY <1>1, <1>2, <1>4, SettledIs
<1>6. Closings'
  BY <1>1, <1>2, <1>4 DEF Closings, Begun
<1>7. NothingStruck' <=> NothingStruck
  BY <1>2 DEF NothingStruck
<1>8. OnItsWay(s, o)'
  BY <1>1, <1>2, <1>4, <1>5, <1>7, WayStays DEF Reached, Writable
<1>9. OnItsWay(o, s)'
  <2>1. CASE end[s] # "open"
    <3>1. wire' = wire
      BY <1>3, <2>1
    <3> SUFFICES ASSUME reading[o] # "done"
                 PROVE  OnItsWay(o, s)'
      BY <1>2 DEF OnItsWay
    <3>2. PICK m \in 0 .. said[s] :
            /\ Carries(wire[s], Reached(o), m, said[s])
            /\ NothingStruck /\ phase[o] # "failed" /\ end[s] # "open" =>
                 Done(s) /\ (writing[s] # "failed" => m = said[s])
      BY <1>1 DEF OnItsWay
    <3>3. m \in 0 .. said'[s] /\ Carries(wire'[s], Reached(o)', m, said'[s])
      BY <1>2, <3>1, <3>2 DEF Reached
    <3>4. ~ (NothingStruck /\ phase[o] # "failed" /\ end[s] # "open")
      BY <1>1, <1>2, <3>2 DEF Done, Closings, Beginnings, Begun
    <3> QED BY <1>2, <1>7, <2>1, <3>3, <3>4 DEF OnItsWay
  <2>2. CASE end[s] = "open"
    <3> DEFINE x == [kind |-> "frame", msg |-> sealed[s].msg, lock |-> sealed[s].lock]
    <3>1. /\ sealed[s] \in SealedFrames /\ wire[s] \in Seq(Messages) /\ said[s] \in Nat
      BY <1>1, <1>2 DEF TypeOK
    <3>2. x \in Messages /\ x.kind = "frame" /\ x.msg = sealed[s].msg
      BY <3>1 DEF SealedFrames, Messages
    <3>3. wire'[s] = Append(wire[s], x) /\ writing' = writing
      BY <1>1, <1>3, <2>2 DEF TypeOK
    <3> HIDE DEF x
    <3> SUFFICES ASSUME reading[o] # "done"
                 PROVE  OnItsWay(o, s)'
      BY <1>2 DEF OnItsWay
    <3>4. PICK m \in 0 .. said[s] : Carries(wire[s], Reached(o), m, said[s]) /\ Leaves(s, m)
      BY <1>1, <1>2, <2>2 DEF OnItsWay, Writable
    <3> DEFINE e == IF Said(x) THEN m + 1 ELSE m
    <3>5. /\ Said(x) <=> sealed[s].msg # Ping
          /\ Said(x) => x.msg = m + 1
          /\ Follows(outbox[s], e, said[s])
      BY <3>2, <3>4 DEF Said, Leaves
    <3>6. e \in 0 .. said[s]
      <4>1. Len(outbox[s]) \in Nat
        BY <1>1 DEF TypeOK
      <4>2. e \in Nat
        BY <3>1, <3>4
      <4> HIDE DEF e
      <4> QED BY <3>1, <3>5, <4>1, <4>2 DEF Follows
    <3>7. Said(x) => m + 1 <= said[s]
      BY <3>1, <3>6
    <3>8. Carries(Append(wire[s], x), Reached(o), e, said[s])
      BY <3>1, <3>2, <3>4, <3>5, <3>7, CarriesMore
    <3> HIDE DEF e
    <3>9. PICK k \in 0 .. said[s] :
            /\ Carries(Append(wire[s], x), Reached(o), k, said[s])
            /\ Follows(outbox[s], k, said[s])
      BY <3>5, <3>6, <3>8
    <3>10. said'[s] = said[s] /\ outbox'[s] = outbox[s] /\ Reached(o)' = Reached(o)
           /\ end'[s] = "open"
      BY <1>2, <2>2 DEF Reached
    <3>11. Carries(wire'[s], Reached(o)', k, said'[s]) /\ k \in 0 .. said'[s]
      BY <3>3, <3>9, <3>10
    <3>12. Leaves(s, k)'
      BY <1>4, <3>9, <3>10 DEF Leaves
    <3> QED BY <3>10, <3>11, <3>12 DEF OnItsWay
  <2> QED BY <2>1, <2>2
<1> QED BY <1>1, <1>2, <1>5, <1>6, <1>7, <1>8, <1>9, OrderKept DEF o

\* The order is kept by a side that gives up writing. (write_or_give_up)
LEMMA GiveUpWritingOrders ==
  ASSUME IInv, OrderInv, TypeOK', NEW s \in Sides, GiveUpWriting(s)
  PROVE  OrderInv'
<1> DEFINE o == Other(s)
<1>1. /\ TypeOK /\ Beginnings /\ Closings
      /\ o \in Sides /\ o # s /\ \A t \in Sides : t = s \/ t = o
      /\ OnItsWay(s, o) /\ OnItsWay(o, s)
  BY OrderParts
<1> HIDE DEF o
<1>2. /\ writing[s] = "runs" /\ Strikes("event")
      /\ sealed' = [sealed EXCEPT ![s] = NoFrame]
      /\ writing' = [writing EXCEPT ![s] = "failed"]
      /\ UNCHANGED <<phase, wire, end, outbox, reading, inbox, clones, said, heard>>
  BY DEF GiveUpWriting, historyVars
<1>3. budget'["event"] <= Budget["event"] /\ ~ NothingStruck'
  BY <1>1, <1>2, Struck DEF EventKinds
<1>4. writing'[s] = "failed" /\ writing'[o] = writing[o] /\ sealed'[o] = sealed[o]
  BY <1>1, <1>2 DEF TypeOK
<1>5. Settled(s) /\ Settled(o)
  BY <1>1, <1>2, <1>4, SettledIs
<1>6. Closings'
  BY <1>1, <1>2, <1>4 DEF Closings, Begun
<1>7. OnItsWay(s, o)' /\ OnItsWay(o, s)'
  BY <1>1, <1>2, <1>3, <1>4, <1>5, WayStays DEF Reached, Writable
<1> QED BY <1>1, <1>2, <1>3, <1>5, <1>6, <1>7, OrderKept DEF o

\* The order is kept when a file starts to go out in the background.
LEMMA UploadOrders ==
  ASSUME IInv, OrderInv, TypeOK', NEW s \in Sides, Upload(s)
  PROVE  OrderInv'
<1> DEFINE o == Other(s)
<1>1. /\ TypeOK /\ Beginnings /\ Closings
      /\ o \in Sides /\ o # s /\ \A t \in Sides : t = s \/ t = o
      /\ OnItsWay(s, o) /\ OnItsWay(o, s)
  BY OrderParts
<1> HIDE DEF o
<1>2. /\ phase[s] = "open" /\ Strikes("event") /\ clones' = clones \cup {s}
      /\ UNCHANGED <<phase, wire, end, outbox, sealed, writing, reading, inbox, said, heard>>
  BY DEF Upload, Open, historyVars
<1>3. budget'["event"] <= Budget["event"] /\ ~ NothingStruck'
  BY <1>1, <1>2, Struck DEF EventKinds
<1>4. Settled(s) /\ Settled(o)
  BY <1>1, <1>2, SettledIs
<1>5. Closings'
  BY <1>1, <1>2 DEF Closings, Begun, Beginnings
<1>6. OnItsWay(s, o)' /\ OnItsWay(o, s)'
  BY <1>1, <1>2, <1>3, <1>4, WayStays DEF Reached, Writable
<1> QED BY <1>1, <1>2, <1>3, <1>4, <1>5, <1>6, OrderKept DEF o

\* The order is kept when that file has gone out.
LEMMA UploadEndsOrders ==
  ASSUME IInv, OrderInv, TypeOK', NEW s \in Sides, UploadEnds(s)
  PROVE  OrderInv'
<1> DEFINE o == Other(s)
<1>1. /\ TypeOK /\ Beginnings /\ Closings /\ budget["event"] <= Budget["event"]
      /\ o \in Sides /\ o # s /\ \A t \in Sides : t = s \/ t = o
      /\ OnItsWay(s, o) /\ OnItsWay(o, s)
  BY OrderParts
<1> HIDE DEF o
<1>2. /\ clones' = clones \ {s}
      /\ UNCHANGED <<phase, wire, end, outbox, sealed, writing, reading, inbox, budget,
                     said, heard>>
  BY DEF UploadEnds, historyVars
<1>3. NothingStruck' <=> NothingStruck
  BY <1>2 DEF NothingStruck
<1>4. Settled(s) /\ Settled(o)
  BY <1>1, <1>2, SettledIs
<1>5. Closings'
  BY <1>1, <1>2 DEF Closings, Begun
<1>6. OnItsWay(s, o)' /\ OnItsWay(o, s)'
  BY <1>1, <1>2, <1>3, <1>4, WayStays DEF Reached, Writable
<1> QED BY <1>1, <1>2, <1>3, <1>4, <1>5, <1>6, OrderKept DEF o

\* A stream let go by a side that failed. (proto.rs handshake)
LEMMA FailsOrders ==
  ASSUME IInv, OrderInv, TypeOK', NEW s \in Sides, Opening(s), Fails(s),
         UNCHANGED <<outbox, sealed, writing, reading, inbox, clones, said, heard>>,
         wire'[s] = wire[s],
         \/ wire' = wire
         \/ /\ wire' = Rest(s) /\ wire[Other(s)] # <<>> /\ ~ Said(Head(wire[Other(s)])),
         \/ UNCHANGED budget
         \/ Strikes("event")
  PROVE  OrderInv'
<1> DEFINE o == Other(s)
<1>1. /\ TypeOK /\ Beginnings /\ Closings /\ budget["event"] <= Budget["event"]
      /\ o \in Sides /\ o # s /\ \A t \in Sides : t = s \/ t = o
      /\ OnItsWay(s, o) /\ OnItsWay(o, s)
  BY OrderParts
<1>2. /\ phase' = [phase EXCEPT ![s] = "failed"] /\ end' = Dropped
      /\ phase[s] \in {"head", "rest", "proof"}
  BY DEF Fails, Opening
<1>3. \/ wire'[o] = wire[o]
      \/ wire'[o] = Tail(wire[o]) /\ wire[o] # <<>> /\ ~ Said(Head(wire[o]))
  BY ZenonT(30), <1>1 DEF Rest, TypeOK
<1> HIDE DEF o
<1>4. budget'["event"] <= Budget["event"] /\ (NothingStruck' => NothingStruck)
  <2>1. CASE UNCHANGED budget
    BY <1>1, <2>1 DEF NothingStruck
  <2>2. CASE Strikes("event")
    BY <1>1, <2>2, Struck DEF EventKinds
  <2> QED BY <2>1, <2>2
<1>5. /\ phase'[s] = "failed" /\ phase'[o] = phase[o]
      /\ end'[s] # "open" /\ end'[o] # "open"
  BY <1>1, <1>2 DEF TypeOK, Dropped, Ended
<1>6. Settled(s) /\ Settled(o)
  BY <1>1, <1>2, <1>5, SettledIs DEF Done
<1>7. Closings'
  BY <1>1, <1>5 DEF Closings, Begun
<1>8. said[s] = 0
  BY <1>1, <1>2 DEF Closings, Beginnings
<1>9. OnItsWay(s, o)'
  <2> SUFFICES ASSUME reading[s] # "done"
               PROVE  OnItsWay(s, o)'
    BY DEF OnItsWay
  <2>1. PICK m \in 0 .. said[o] : Carries(wire[o], Reached(s), m, said[o])
    BY <1>1 DEF OnItsWay
  <2>2. Carries(wire'[o], Reached(s), m, said[o])
    <3>1. wire[o] \in Seq(Messages) /\ said[o] \in Nat
      BY <1>1 DEF TypeOK
    <3> QED BY <1>3, <2>1, <3>1, CarriesHead
  <2> QED BY <1>5, <2>1, <2>2 DEF OnItsWay, Reached
<1>10. OnItsWay(o, s)'
  <2> SUFFICES ASSUME reading[o] # "done"
               PROVE  OnItsWay(o, s)'
    BY DEF OnItsWay
  <2>1. PICK m \in 0 .. said[s] : Carries(wire[s], Reached(o), m, said[s])
    BY <1>1 DEF OnItsWay
  <2>2. m = said[s] /\ Done(s)'
    BY <1>5, <1>8, <2>1 DEF Done
  <2> QED BY <1>5, <2>1, <2>2 DEF OnItsWay, Reached
<1>11. \A t \in Sides :
         phase[t] \in {"closing", "gone"} => phase'[t] \in {"closing", "gone"}
  BY <1>1, <1>2, <1>5
<1> QED BY <1>1, <1>4, <1>6, <1>7, <1>9, <1>10, <1>11, OrderKept DEF o

\* The order is kept by a handshake that is given up. (HANDSHAKE_TIMEOUT)
LEMMA HandshakeTimeoutOrders ==
  ASSUME IInv, OrderInv, TypeOK', NEW s \in Sides, HandshakeTimeout(s)
  PROVE  OrderInv'
BY FailsOrders DEF HandshakeTimeout, linkVars, historyVars

\* A message of the handshake is read, and perhaps answered with another.
LEMMA HelloOrders ==
  ASSUME IInv, OrderInv, TypeOK', NEW s \in Sides, phase[s] \in {"head", "rest", "proof"},
         wire[Other(s)] # <<>>, ~ Said(Head(wire[Other(s)])),
         \/ wire' = Rest(s)
         \/ \E x \in Messages :
              ~ Said(x) /\ wire' = [Rest(s) EXCEPT ![s] = Append(@, x)],
         \/ phase' = [phase EXCEPT ![s] = "rest"] \/ phase' = [phase EXCEPT ![s] = "proof"]
         \/ phase' = [phase EXCEPT ![s] = "open"],
         \/ UNCHANGED <<writing, reading>>
         \/ /\ writing' = [writing EXCEPT ![s] = "runs"]
            /\ reading' = [reading EXCEPT ![s] = "runs"],
         UNCHANGED <<end, outbox, sealed, inbox, clones, budget, said, heard>>
  PROVE  OrderInv'
<1> DEFINE o == Other(s)
<1>1. /\ TypeOK /\ Beginnings /\ Closings /\ budget["event"] <= Budget["event"]
      /\ o \in Sides /\ o # s /\ \A t \in Sides : t = s \/ t = o
      /\ OnItsWay(s, o) /\ OnItsWay(o, s)
  BY OrderParts
<1>2. /\ wire'[o] = Tail(wire[o]) /\ wire[o] # <<>> /\ ~ Said(Head(wire[o]))
      /\ \/ wire'[s] = wire[s]
         \/ \E x \in Messages : ~ Said(x) /\ wire'[s] = Append(wire[s], x)
  <2>1. Rest(s)[o] = Tail(wire[o]) /\ Rest(s)[s] = wire[s] /\ Rest(s) \in [Sides -> Seq(Messages)]
    BY <1>1, RestTypes DEF Rest, TypeOK
  <2> QED BY <1>1, <2>1
<1> HIDE DEF o
<1>3. /\ phase'[s] \in {"rest", "proof", "open"} /\ phase'[o] = phase[o]
      /\ writing[s] = "no" /\ reading[s] = "no"
      /\ writing'[s] \in {"no", "runs"} /\ writing'[o] = writing[o]
      /\ reading'[s] \in {"no", "runs"} /\ reading'[o] = reading[o]
  <2>1. /\ phase \in [Sides -> Phases] /\ writing \in [Sides -> {"no", "runs", "failed", "done"}]
        /\ reading \in [Sides -> {"no", "runs", "done"}]
    BY <1>1 DEF TypeOK
  <2>2. writing[s] = "no" /\ reading[s] = "no"
    BY <1>1 DEF Beginnings, Begun
  <2>3. phase'[s] \in {"rest", "proof", "open"} /\ phase'[o] = phase[o]
    BY <1>1, <2>1
  <2>4. CASE UNCHANGED <<writing, reading>>
    BY <2>2, <2>3, <2>4
  <2>5. CASE /\ writing' = [writing EXCEPT ![s] = "runs"]
             /\ reading' = [reading EXCEPT ![s] = "runs"]
    BY <1>1, <2>1, <2>2, <2>3, <2>5
  <2> QED BY <2>4, <2>5
<1>4. Settled(s) /\ Settled(o)
  BY <1>1, <1>3, SettledIs DEF Done
<1>5. Closings'
  BY <1>1, <1>3 DEF Closings, Begun
<1>6. wire[s] \in Seq(Messages) /\ wire[o] \in Seq(Messages) /\ said[o] \in Nat /\ said[s] \in Nat
  BY <1>1 DEF TypeOK
<1>7. NothingStruck' <=> NothingStruck
  BY DEF NothingStruck
<1>8. OnItsWay(s, o)'
  <2>1. PICK m \in 0 .. said[o] :
          /\ Carries(wire[o], Reached(s), m, said[o])
          /\ Writable(o) /\ end[o] = "open" => Leaves(o, m)
          /\ NothingStruck /\ phase[s] # "failed" /\ end[o] # "open" =>
               Done(o) /\ (writing[o] # "failed" => m = said[o])
    BY <1>1, <1>3 DEF OnItsWay
  <2>2. Carries(wire'[o], Reached(s)', m, said'[o])
    <3>1. Carries(Tail(wire[o]), Reached(s), m, said[o])
      BY <1>2, <1>6, <2>1, CarriesHead
    <3>2. Reached(s)' = Reached(s) /\ said'[o] = said[o]
      BY DEF Reached
    <3> QED BY <1>2, <3>1, <3>2
  <2>3. Writable(o)' /\ end'[o] = "open" => Leaves(o, m)'
    BY <1>3, <2>1 DEF Writable, Leaves
  <2>4. NothingStruck' /\ phase'[s] # "failed" /\ end'[o] # "open" =>
          Done(o)' /\ (writing'[o] # "failed" => m = said'[o])
    BY <1>3, <1>7, <2>1 DEF Done
  <2> QED BY <2>1, <2>2, <2>3, <2>4 DEF OnItsWay
<1>9. OnItsWay(o, s)'
  <2> SUFFICES ASSUME reading[o] # "done"
               PROVE  OnItsWay(o, s)'
    BY <1>3 DEF OnItsWay
  <2>1. PICK m \in 0 .. said[s] :
          /\ Carries(wire[s], Reached(o), m, said[s])
          /\ Writable(s) /\ end[s] = "open" => Leaves(s, m)
          /\ NothingStruck /\ phase[o] # "failed" /\ end[s] # "open" =>
               Done(s) /\ (writing[s] # "failed" => m = said[s])
    BY <1>1 DEF OnItsWay
  <2>2. Carries(wire'[s], Reached(o)', m, said'[s])
    <3>1. Reached(o)' = Reached(o) /\ said'[s] = said[s]
      BY DEF Reached
    <3>2. CASE wire'[s] = wire[s]
      BY <2>1, <3>1, <3>2
    <3>3. ASSUME NEW x \in Messages, ~ Said(x), wire'[s] = Append(wire[s], x)
          PROVE  Carries(wire'[s], Reached(o)', m, said'[s])
      <4>1. Carries(Append(wire[s], x), Reached(o), m, said[s])
        BY <1>6, <2>1, <3>3, CarriesMore
      <4> QED BY <3>1, <3>3, <4>1
    <3> QED BY <1>2, <3>2, <3>3
  <2>3. Writable(s)' /\ end'[s] = "open" => Leaves(s, m)'
    BY <1>3, <2>1 DEF Writable, Leaves
  <2>4. ~ (NothingStruck' /\ phase'[o] # "failed" /\ end'[s] # "open")
    BY <1>3, <1>7, <2>1 DEF Done
  <2> QED BY <2>1, <2>2, <2>3, <2>4 DEF OnItsWay
<1> QED BY <1>1, <1>3, <1>4, <1>5, <1>7, <1>8, <1>9, OrderKept DEF o

\* The order is kept when it is learnt what the other speaks. (proto.rs)
LEMMA ReadHeadOrders ==
  ASSUME IInv, OrderInv, TypeOK', NEW s \in Sides, ReadHead(s)
  PROVE  OrderInv'
<1>1. /\ wire[Other(s)] # <<>> /\ ~ Said(Head(wire[Other(s)])) /\ wire' = Rest(s)
      /\ phase[s] = "head"
      /\ UNCHANGED <<outbox, sealed, writing, reading, inbox, clones, budget, said, heard>>
  BY DEF ReadHead, Arrives, Said, linkVars, historyVars
<1>2. wire'[s] = wire[s]
  BY <1>1, TheOther DEF Rest, IInv, TypeOK
<1>3. CASE Fails(s)
  BY <1>1, <1>2, <1>3, FailsOrders DEF Opening
<1>4. CASE ~ Fails(s)
  <2>1. phase' = [phase EXCEPT ![s] = "rest"] /\ UNCHANGED end
    BY <1>4 DEF ReadHead
  <2> QED BY <1>1, <2>1, HelloOrders
<1> QED BY <1>3, <1>4

\* The order is kept when it is learnt who the other claims to be.
LEMMA ReadRestOrders ==
  ASSUME IInv, OrderInv, TypeOK', NEW s \in Sides, ReadRest(s)
  PROVE  OrderInv'
<1> DEFINE theirs == Head(wire[Other(s)])
<1>1. /\ wire[Other(s)] # <<>> /\ ~ Said(theirs) /\ phase[s] = "rest"
      /\ UNCHANGED <<outbox, sealed, writing, reading, inbox, clones, budget, said, heard>>
  BY DEF ReadRest, Arrives, Said, linkVars, historyVars
<1>2. CASE Fails(s) /\ wire' = Rest(s)
  <2>1. wire'[s] = wire[s]
    BY <1>2, TheOther DEF Rest, IInv, TypeOK
  <2> QED BY <1>1, <1>2, <2>1, FailsOrders DEF Opening
<1>3. CASE ~ (Fails(s) /\ wire' = Rest(s))
  <2>1. PICK x \in Proofs(s, theirs) :
        /\ phase' = [phase EXCEPT ![s] = "proof"] /\ UNCHANGED end
        /\ wire' = [Rest(s) EXCEPT ![s] = IF end[s] # "open" THEN @ ELSE Append(@, x)]
    BY <1>3 DEF ReadRest
  <2>2. x \in Messages /\ ~ Said(x)
    <3>1. theirs.name \in Names /\ theirs.nonce \in Sides
      BY WhatArrives DEF ReadRest, IInv
    <3>2. x \in Messages /\ x.kind = "proof"
      BY <3>1, ProofIs DEF IInv
    <3> QED BY <3>2 DEF Said
  <2>3. Rest(s) \in [Sides -> Seq(Messages)]
    BY <1>1, RestTypes DEF IInv
  <2>4. \/ wire' = Rest(s)
        \/ wire' = [Rest(s) EXCEPT ![s] = Append(@, x)]
    BY <2>1, <2>3
  <2> QED BY <1>1, <2>1, <2>2, <2>4, HelloOrders
<1> QED BY <1>2, <1>3

\* The order is kept when the proof is in. (proto.rs handshake)
LEMMA ReadProofOrders ==
  ASSUME IInv, OrderInv, TypeOK', NEW s \in Sides, ReadProof(s)
  PROVE  OrderInv'
<1>1. /\ wire[Other(s)] # <<>> /\ ~ Said(Head(wire[Other(s)])) /\ wire' = Rest(s)
      /\ phase[s] = "proof"
      /\ UNCHANGED <<outbox, sealed, inbox, clones, budget, said, heard>>
  BY DEF ReadProof, Arrives, Said, historyVars
<1>2. wire'[s] = wire[s]
  BY <1>1, TheOther DEF Rest, IInv, TypeOK
<1>3. CASE Fails(s) /\ UNCHANGED <<writing, reading>>
  BY <1>1, <1>2, <1>3, FailsOrders DEF Opening
<1>4. CASE ~ (Fails(s) /\ UNCHANGED <<writing, reading>>)
  <2>1. /\ phase' = [phase EXCEPT ![s] = "open"] /\ UNCHANGED end
        /\ writing' = [writing EXCEPT ![s] = "runs"]
        /\ reading' = [reading EXCEPT ![s] = "runs"]
    BY <1>4 DEF ReadProof
  <2> QED BY <1>1, <2>1, HelloOrders
<1> QED BY <1>3, <1>4

\* The order is kept when the circuit dies. (a broken stream)
LEMMA BreakOrders ==
  ASSUME IInv, OrderInv, TypeOK', Break
  PROVE  OrderInv'
<1>1. PICK s \in Sides : end[s] = "open"
  BY DEF Break
<1> DEFINE o == Other(s)
<1>2. /\ TypeOK /\ Beginnings /\ Closings
      /\ o \in Sides /\ o # s /\ \A t \in Sides : t = s \/ t = o
      /\ OnItsWay(s, o) /\ OnItsWay(o, s)
  BY <1>1, OrderParts
<1> HIDE DEF o
<1>3. /\ Strikes("event")
      /\ \E how \in {"clean", "torn"} : end' = Ended([t \in Sides |-> how])
      /\ \A t \in Sides : wire'[t] \in Prefixes(wire[t])
      /\ UNCHANGED <<phase, outbox, sealed, writing, reading, inbox, clones, said, heard>>
  BY DEF Break, linkVars, historyVars
<1>4. budget'["event"] <= Budget["event"] /\ ~ NothingStruck'
  BY <1>2, <1>3, Struck DEF EventKinds
<1>5. Settled(s) /\ Settled(o)
  BY <1>1, <1>2, <1>3, SettledIs
<1>6. Closings'
  BY <1>2, <1>3 DEF Closings, Begun
<1>7. \A t \in Sides : end'[t] # "open"
  BY <1>2, <1>3 DEF Ended, TypeOK
<1>8. ASSUME NEW t \in Sides, NEW w \in Sides, OnItsWay(t, w)
      PROVE  OnItsWay(t, w)'
  <2> SUFFICES ASSUME reading[t] # "done"
               PROVE  OnItsWay(t, w)'
    BY <1>3 DEF OnItsWay
  <2>1. PICK m \in 0 .. said[w] : Carries(wire[w], Reached(t), m, said[w])
    BY <1>8 DEF OnItsWay
  <2>2. wire[w] \in Seq(Messages) /\ said[w] \in Nat
    BY <1>2 DEF TypeOK
  <2>3. PICK k \in 0 .. Len(wire[w]) : wire'[w] = SubSeq(wire[w], 1, k)
    BY <1>3, <2>2, PrefixIs
  <2>4. PICK m2 \in 0 .. said[w] : Carries(SubSeq(wire[w], 1, k), Reached(t), m2, said[w])
    BY <2>1, <2>2, CarriesLess
  <2>5. Reached(t)' = Reached(t) /\ said'[w] = said[w]
    BY <1>3 DEF Reached
  <2> QED BY <1>4, <1>7, <2>3, <2>4, <2>5 DEF OnItsWay
<1>9. OnItsWay(s, o)' /\ OnItsWay(o, s)'
  BY <1>1, <1>2, <1>8
<1> QED BY <1>1, <1>2, <1>3, <1>4, <1>5, <1>6, <1>9, OrderKept DEF o

\* The order is kept by a link that has been closed. (Link::close)
LEMMA CloseReturnsOrders ==
  ASSUME IInv, OrderInv, TypeOK', NEW s \in Sides, CloseReturns(s)
  PROVE  OrderInv'
<1> DEFINE o == Other(s)
<1>1. /\ TypeOK /\ Beginnings /\ Closings /\ budget["event"] <= Budget["event"]
      /\ o \in Sides /\ o # s /\ \A t \in Sides : t = s \/ t = o
      /\ OnItsWay(s, o) /\ OnItsWay(o, s)
  BY OrderParts
<1>2. /\ phase[s] = "closing"
      /\ \/ writing[s] = "runs" /\ outbox[s] = <<>> /\ sealed[s] = NoFrame
         \/ writing[s] = "failed"
      /\ phase' = [phase EXCEPT ![s] = "gone"]
      /\ end' = Dropped
      /\ wire' = [wire EXCEPT ![o] = <<>>]
      /\ outbox' = [outbox EXCEPT ![s] = <<>>]
      /\ writing' = [writing EXCEPT ![s] = IF @ = "runs" THEN "done" ELSE @]
      /\ UNCHANGED <<sealed, reading, inbox, clones, budget, said, heard>>
  BY DEF CloseReturns, historyVars
<1> HIDE DEF o
<1>3. /\ phase'[s] = "gone" /\ phase'[o] = phase[o]
      /\ wire'[s] = wire[s] /\ writing'[o] = writing[o]
      /\ writing'[s] = (IF writing[s] = "runs" THEN "done" ELSE "failed")
      /\ end'[s] # "open"
  BY <1>1, <1>2 DEF TypeOK, Dropped, Ended
<1>4. NothingStruck' <=> NothingStruck
  BY <1>2 DEF NothingStruck
<1>5. Settled(s) /\ Settled(o)
  BY <1>1, <1>2, <1>3, SettledIs DEF Done
<1>6. Closings'
  BY <1>1, <1>2, <1>3 DEF Closings, Begun
<1>7. OnItsWay(s, o)'
  <2>1. reading'[s] = "done"
    BY <1>1, <1>2 DEF Closings
  <2> QED BY <2>1 DEF OnItsWay
<1>8. OnItsWay(o, s)'
  <2>1. Reached(o)' = Reached(o) /\ said'[s] = said[s]
    BY <1>2 DEF Reached
  <2>2. writing'[s] # "failed" => Writable(s) /\ outbox[s] = <<>> /\ sealed[s].msg = Ping
    BY <1>2, <1>3 DEF Writable, NoFrame, Ping
  <2>3. \/ ~ NothingStruck' \/ phase'[o] = "failed"
        \/ NothingStruck /\ phase[o] # "failed" /\ Done(s)'
    BY <1>3, <1>4 DEF Done
  <2> QED BY <1>1, <1>2, <1>3, <1>5, <2>1, <2>2, <2>3, WayEnds
<1>9. \A t \in Sides :
        phase[t] \in {"closing", "gone"} => phase'[t] \in {"closing", "gone"}
  BY <1>1, <1>3
<1> QED BY <1>1, <1>2, <1>4, <1>5, <1>6, <1>7, <1>8, <1>9, OrderKept DEF o

\* What is to be shown of a step in which one side takes something up.
LEMMA OrderTaken ==
  ASSUME TypeOK, TypeOK', OrderInv, NEW s \in Sides,
         budget'["event"] <= Budget["event"], NothingStruck' => NothingStruck, Closings',
         heard'[Other(s)] = heard[Other(s)], inbox'[Other(s)] = inbox[Other(s)],
         reading'[Other(s)] = reading[Other(s)], phase'[Other(s)] = phase[Other(s)],
         Settled(s), OnItsWay(s, Other(s))', OnItsWay(Other(s), s)',
         Numbered(s, Other(s))', EndTold(s, Other(s))'
  PROVE  OrderInv'
<1> DEFINE o == Other(s)
<1>1. o \in Sides /\ Other(o) = s /\ \A t \in Sides : t = s \/ t = o
  BY TheOther
<1>2. Numbered(o, s) /\ EndTold(o, s)
  BY <1>1 DEF OrderInv
<1>3. Numbered(o, s)'
  BY <1>1, <1>2, NumberedStays DEF Settled
<1>4. EndTold(o, s)'
  BY <1>1, <1>2, EndToldStays
<1>5. \A t \in Sides : Numbered(t, Other(t))' /\ OnItsWay(t, Other(t))' /\ EndTold(t, Other(t))'
  <2> SUFFICES ASSUME NEW t \in Sides
               PROVE  Numbered(t, Other(t))' /\ OnItsWay(t, Other(t))' /\ EndTold(t, Other(t))'
    OBVIOUS
  <2>1. CASE t = s
    BY <2>1
  <2>2. CASE t = o
    <3>1. Other(t) = s
      BY <1>1, <2>2
    <3> QED BY <1>3, <1>4, <2>2, <3>1
  <2> QED BY <1>1, <2>1, <2>2
<1> QED BY <1>5 DEF OrderInv

\* A reader that stops puts a last word behind what it has read; if it is that
\* of a clean end, there was no more. (Link::open)
LEMMA StopOrders ==
  ASSUME IInv, OrderInv, TypeOK', NEW s \in Sides, NEW why \in Int,
         why < 0, reading[s] = "runs", Stops(s, why),
         UNCHANGED <<phase, heard, clones, said>>, Closings', Settled(s), Settled(Other(s)),
         budget'["event"] <= Budget["event"], NothingStruck' => NothingStruck,
         NothingStruck /\ NothingStruck' /\ why = Closed =>
           Done(Other(s)) /\ (writing[Other(s)] # "failed" => Reached(s) = said[Other(s)]),
         OnItsWay(Other(s), s)'
  PROVE  OrderInv'
<1> DEFINE o == Other(s)
<1>1. /\ TypeOK /\ Beginnings /\ Closings
      /\ o \in Sides /\ o # s /\ \A t \in Sides : t = s \/ t = o
      /\ Numbered(s, o) /\ EndTold(s, o)
  BY OrderParts
<1>2. /\ reading' = [reading EXCEPT ![s] = "done"]
      /\ inbox' = [inbox EXCEPT ![s] = Append(@, why)]
  BY DEF Stops
<1> HIDE DEF o
<1>3. /\ reading'[s] = "done" /\ reading'[o] = reading[o]
      /\ inbox'[s] = Append(inbox[s], why) /\ inbox'[o] = inbox[o]
      /\ inbox[s] \in Seq(Int) /\ heard[s] \in Seq(Int) /\ said[o] \in Nat
  BY <1>1, <1>2 DEF TypeOK
<1> DEFINE q == inbox[s]
           p == inbox'[s]
<1>4. /\ Len(p) = Len(q) + 1 /\ Len(q) \in Nat /\ p[Len(p)] = why /\ p # <<>>
      /\ \A i \in 1 .. Len(q) : p[i] = q[i]
      /\ \A i \in 1 .. Len(p) : i \in 1 .. Len(q) \/ i = Len(p)
  <2>1. p = Append(q, why) /\ q \in Seq(Int)
    BY <1>3
  <2> HIDE DEF p, q
  <2>2. Len(p) = Len(q) + 1 /\ Len(q) \in Nat /\ p \in Seq(Int)
    BY <2>1
  <2>3. p[Len(p)] = why /\ \A i \in 1 .. Len(q) : p[i] = q[i]
    BY <2>1, <2>2
  <2>4. p # <<>>
    BY <2>2
  <2> QED BY <2>2, <2>3, <2>4
<1>5. ~ (phase[s] \in {"closing", "gone"})
  BY <1>1 DEF Closings
<1> HIDE DEF p, q
<1>6. Numbered(s, o)'
  <2>1. \A i \in 1 .. Len(heard[s]) : heard[s][i] = i /\ i <= said[o]
    BY <1>1, <1>5 DEF Numbered
  <2>2. \A i \in 1 .. Len(q) : q[i] = Len(heard[s]) + i /\ q[i] <= said[o]
    BY <1>1 DEF Numbered, q
  <2>3. \A i \in 1 .. Len(p) : \/ p[i] = Len(heard[s]) + i /\ p[i] <= said[o]
                               \/ p[i] < 0 /\ i = Len(p)
    BY <1>4, <2>2
  <2> QED BY <1>3, <2>1, <2>3 DEF Numbered, p
<1>7. EndTold(s, o)'
  <2>1. CASE ~ NothingStruck'
    BY <2>1 DEF EndTold
  <2>2. CASE NothingStruck'
    <3>1. /\ heard[s] # <<>> /\ heard[s][Len(heard[s])] = Closed =>
               Done(o)' /\ (writing'[o] # "failed" => Len(heard[s]) - 1 = said'[o])
      BY <1>1, <2>2 DEF EndTold, Settled, o
    <3>2. why = Closed => Done(o)' /\ (writing'[o] # "failed" => Reached(s) = said'[o])
      BY <2>2 DEF Settled, o
    <3>3. Reached(s)' - 1 = Reached(s)
      <4>1. heard'[s] = heard[s] /\ Len(inbox'[s]) = Len(inbox[s]) + 1
        BY <1>4 DEF p, q
      <4> QED BY <1>1, <4>1, ReachedMore
    <3>4. inbox'[s][Len(inbox'[s])] = why
      BY <1>4 DEF p
    <3> QED BY <3>1, <3>2, <3>3, <3>4 DEF EndTold
  <2> QED BY <2>1, <2>2
<1>8. OnItsWay(s, o)'
  BY <1>3 DEF OnItsWay
<1> QED BY <1>1, <1>3, <1>6, <1>7, <1>8, OrderTaken DEF o

\* The order is kept by a stream that ends. (Link::open)
LEMMA ReadEndOrders ==
  ASSUME IInv, OrderInv, TypeOK', NEW s \in Sides, ReadEnd(s)
  PROVE  OrderInv'
<1> DEFINE o == Other(s)
           why == IF end[o] = "clean" THEN Closed ELSE Fault
<1>1. /\ TypeOK /\ Beginnings /\ Closings /\ budget["event"] <= Budget["event"]
      /\ o \in Sides /\ o # s /\ \A t \in Sides : t = s \/ t = o
      /\ OnItsWay(s, o) /\ OnItsWay(o, s)
  BY OrderParts
<1>2. /\ reading[s] = "runs" /\ wire[o] = <<>> /\ end[o] # "open" /\ Stops(s, why)
      /\ UNCHANGED <<phase, wire, end, outbox, sealed, writing, clones, budget, said, heard>>
  BY DEF ReadEnd, Reads, historyVars
<1>3. why \in Int /\ why < 0
  BY DEF Closed, Fault
<1> HIDE DEF o, why
<1>4. reading'[s] = "done" /\ reading'[o] = reading[o] /\ inbox'[o] = inbox[o]
  BY <1>1, <1>2 DEF Stops, TypeOK
<1>5. NothingStruck' <=> NothingStruck
  BY <1>2 DEF NothingStruck
<1>6. Settled(s) /\ Settled(o)
  BY <1>1, <1>2, SettledIs
<1>7. Closings'
  BY <1>1, <1>2, <1>4 DEF Closings, Begun
<1>8. OnItsWay(o, s)'
  BY <1>1, <1>2, <1>4, <1>5, <1>6, WayStays DEF Reached, Writable
<1>9. NothingStruck => Done(o) /\ (writing[o] # "failed" => Reached(s) = said[o])
  <2>1. PICK m \in 0 .. said[o] :
          /\ Carries(wire[o], Reached(s), m, said[o])
          /\ NothingStruck /\ phase[s] # "failed" /\ end[o] # "open" =>
               Done(o) /\ (writing[o] # "failed" => m = said[o])
    BY <1>1, <1>2 DEF OnItsWay
  <2>2. said[o] \in Nat
    BY <1>1 DEF TypeOK
  <2>3. m = Reached(s)
    BY <1>2, <2>1, <2>2, CarriesNothing
  <2>4. phase[s] # "failed"
    BY <1>1, <1>2 DEF Beginnings, Begun
  <2> QED BY <1>2, <2>1, <2>3, <2>4
<1> QED BY <1>1, <1>2, <1>3, <1>5, <1>6, <1>7, <1>8, <1>9, StopOrders DEF o

\* The order is kept by a reader that has heard nothing. (SILENCE)
LEMMA SilenceOrders ==
  ASSUME IInv, OrderInv, TypeOK', NEW s \in Sides, Silence(s)
  PROVE  OrderInv'
<1> DEFINE o == Other(s)
<1>1. /\ TypeOK /\ Beginnings /\ Closings /\ budget["event"] <= Budget["event"]
      /\ o \in Sides /\ o # s /\ \A t \in Sides : t = s \/ t = o
      /\ OnItsWay(s, o) /\ OnItsWay(o, s)
  BY OrderParts
<1>2. /\ reading[s] = "runs" /\ Stops(s, Fault)
      /\ UNCHANGED budget \/ Strikes("event")
      /\ UNCHANGED <<phase, wire, end, outbox, sealed, writing, clones, said, heard>>
  BY DEF Silence, Reads, historyVars
<1>3. Fault \in Int /\ Fault < 0 /\ Fault # Closed
  BY DEF Closed, Fault
<1> HIDE DEF o
<1>4. reading'[s] = "done" /\ reading'[o] = reading[o] /\ inbox'[o] = inbox[o]
  BY <1>1, <1>2 DEF Stops, TypeOK
<1>5. budget'["event"] <= Budget["event"] /\ (NothingStruck' => NothingStruck)
  <2>1. CASE UNCHANGED budget
    BY <1>1, <2>1 DEF NothingStruck
  <2>2. CASE Strikes("event")
    BY <1>1, <2>2, Struck DEF EventKinds
  <2> QED BY <1>2, <2>1, <2>2
<1>6. Settled(s) /\ Settled(o)
  BY <1>1, <1>2, SettledIs
<1>7. Closings'
  BY <1>1, <1>2, <1>4 DEF Closings, Begun
<1>8. OnItsWay(o, s)'
  BY <1>1, <1>2, <1>4, <1>5, <1>6, WayStays DEF Reached, Writable
<1> QED BY <1>1, <1>2, <1>3, <1>5, <1>6, <1>7, <1>8, StopOrders DEF o

\* The order is kept by a link that is cut. (Link::cut)
LEMMA CutOrders ==
  ASSUME IInv, OrderInv, TypeOK', NEW s \in Sides, Cut(s)
  PROVE  OrderInv'
<1> DEFINE o == Other(s)
<1>1. /\ TypeOK /\ Beginnings /\ Closings
      /\ o \in Sides /\ o # s /\ \A t \in Sides : t = s \/ t = o
      /\ OnItsWay(s, o) /\ OnItsWay(o, s)
  BY OrderParts
<1>2. /\ reading[s] = "runs" /\ writing[s] = "runs" /\ Stops(s, Closed) /\ Strikes("event")
      /\ writing' = [writing EXCEPT ![s] = "failed"]
      /\ wire' = [wire EXCEPT ![o] = <<>>]
      /\ end' = Ended([t \in Sides |-> IF sealed[s] = NoFrame THEN "clean" ELSE "torn"])
      /\ UNCHANGED <<phase, clones, said, heard>>
  BY DEF Cut, historyVars
<1>3. Closed \in Int /\ Closed < 0
  BY DEF Closed
<1> HIDE DEF o
<1>4. /\ reading'[s] = "done" /\ reading'[o] = reading[o] /\ inbox'[o] = inbox[o]
      /\ writing'[s] = "failed" /\ writing'[o] = writing[o] /\ wire'[s] = wire[s]
      /\ end'[s] # "open"
  BY <1>1, <1>2 DEF Stops, TypeOK, Ended
<1>5. budget'["event"] <= Budget["event"] /\ ~ NothingStruck'
  BY <1>1, <1>2, Struck DEF EventKinds
<1>6. Settled(s) /\ Settled(o)
  BY <1>1, <1>2, <1>4, SettledIs
<1>7. Closings'
  BY <1>1, <1>2, <1>4 DEF Closings, Begun
<1>8. OnItsWay(o, s)'
  BY <1>1, <1>2, <1>4, <1>5, <1>6, WayEnds DEF Reached
<1> QED BY <1>1, <1>2, <1>3, <1>5, <1>6, <1>7, <1>8, StopOrders DEF o

\* The order is kept by a frame that is read. (Link::open, Ratchet::open)
LEMMA ReadOrders ==
  ASSUME IInv, OrderInv, TypeOK', NEW s \in Sides, Read(s)
  PROVE  OrderInv'
<1> DEFINE o == Other(s)
           frame == Head(wire[o])
<1>1. /\ TypeOK /\ Beginnings /\ Closings /\ budget["event"] <= Budget["event"]
      /\ o \in Sides /\ o # s /\ \A t \in Sides : t = s \/ t = o
      /\ Numbered(s, o) /\ OnItsWay(s, o) /\ EndTold(s, o) /\ OnItsWay(o, s)
  BY OrderParts
<1>2. /\ reading[s] = "runs" /\ wire[o] # <<>> /\ frame.kind = "frame" /\ frame.msg \in Nat
      /\ wire' = [wire EXCEPT ![o] = Tail(@)]
      /\ \/ Stops(s, Refused)
         \/ frame.msg = Ping /\ UNCHANGED <<reading, inbox>>
         \/ /\ frame.msg # Ping /\ inbox' = [inbox EXCEPT ![s] = Append(@, frame.msg)]
            /\ UNCHANGED reading
      /\ UNCHANGED <<phase, end, outbox, sealed, writing, clones, budget, said, heard>>
  <2>1. Arrives(s, "frame")
    BY DEF Read
  <2>2. frame.kind = "frame" /\ frame.msg \in Nat
    BY <1>1, <2>1, WhatArrives
  <2> QED BY <2>1, <2>2 DEF Read, Reads, Arrives, Rest, historyVars
<1>3. /\ wire'[o] = Tail(wire[o]) /\ wire'[s] = wire[s] /\ wire[o] \in Seq(Messages)
      /\ inbox[s] \in Seq(Int) /\ heard[s] \in Seq(Int) /\ said[o] \in Nat
      /\ inbox'[o] = inbox[o] /\ reading'[o] = reading[o]
  <2>1. /\ wire[o] \in Seq(Messages) /\ inbox[s] \in Seq(Int) /\ heard[s] \in Seq(Int)
        /\ said[o] \in Nat /\ wire'[o] = Tail(wire[o]) /\ wire'[s] = wire[s]
    BY <1>1, <1>2 DEF TypeOK
  <2>2. inbox'[o] = inbox[o] /\ reading'[o] = reading[o]
    <3>1. \/ reading' = reading
          \/ reading' = [reading EXCEPT ![s] = "done"]
      BY <1>2 DEF Stops
    <3>2. inbox' = inbox \/ \E x : inbox' = [inbox EXCEPT ![s] = x]
      BY <1>2 DEF Stops
    <3> QED BY ZenonT(30), <1>1, <3>1, <3>2 DEF TypeOK
  <2> QED BY <2>1, <2>2
<1>4. Said(frame) <=> frame.msg # Ping
  BY <1>2 DEF Said
<1> HIDE DEF o, frame
<1>5. NothingStruck' <=> NothingStruck
  BY <1>2 DEF NothingStruck
<1>6. Settled(s) /\ Settled(o)
  BY <1>1, <1>2, SettledIs
<1>7. ~ (phase[s] \in {"closing", "gone"}) /\ phase[s] # "failed"
  BY <1>1, <1>2 DEF Closings, Beginnings, Begun
<1>8. Closings'
  BY <1>1, <1>2, <1>3, <1>7 DEF Closings, Begun
<1>9. OnItsWay(o, s)'
  BY <1>1, <1>2, <1>3, <1>5, <1>6, WayStays DEF Reached, Writable
<1>10. CASE Stops(s, Refused)
  <2>1. Refused \in Int /\ Refused < 0 /\ Refused # Closed
    BY DEF Refused, Closed
  <2> QED BY <1>1, <1>2, <1>5, <1>6, <1>8, <1>9, <1>10, <2>1, StopOrders DEF o
<1>11. PICK m \in 0 .. said[o] :
         /\ Carries(wire[o], Reached(s), m, said[o])
         /\ Writable(o) /\ end[o] = "open" => Leaves(o, m)
         /\ NothingStruck /\ phase[s] # "failed" /\ end[o] # "open" =>
              Done(o) /\ (writing[o] # "failed" => m = said[o])
  BY <1>1, <1>2 DEF OnItsWay
<1>12. IF Said(frame) THEN /\ Reached(s) + 1 <= said[o] /\ frame.msg = Reached(s) + 1
                           /\ Carries(wire'[o], Reached(s) + 1, m, said[o])
                      ELSE Carries(wire'[o], Reached(s), m, said[o])
  BY <1>2, <1>3, <1>11, CarriesHead DEF frame
<1>13. ASSUME Carries(wire'[o], Reached(s)', m, said[o])
       PROVE  OnItsWay(s, o)'
  <2>1. said'[o] = said[o] /\ (Leaves(o, m) => Leaves(o, m)')
    BY <1>2 DEF Leaves
  <2>2. NothingStruck' /\ phase'[s] # "failed" /\ end'[o] # "open" =>
          Done(o)' /\ (writing'[o] # "failed" => m = said'[o])
    BY <1>2, <1>5, <1>11 DEF Done
  <2>3. Writable(o)' /\ end'[o] = "open" => Writable(o) /\ end[o] = "open"
    BY <1>2 DEF Writable
  <2> QED BY <1>11, <1>13, <2>1, <2>2, <2>3 DEF OnItsWay
<1>14. CASE frame.msg = Ping /\ UNCHANGED <<reading, inbox>>
  <2>1. Reached(s)' = Reached(s)
    BY <1>2, <1>14 DEF Reached
  <2>2. OnItsWay(s, o)'
    BY <1>4, <1>12, <1>13, <1>14, <2>1
  <2> QED BY <1>1, <1>2, <1>5, <1>6, <1>8, <1>9, <1>14, <2>2, OrderKept DEF o
<1>15. CASE /\ frame.msg # Ping /\ inbox' = [inbox EXCEPT ![s] = Append(@, frame.msg)]
            /\ UNCHANGED reading
  <2> DEFINE q == inbox[s]
             p == inbox'[s]
  <2>1. p = Append(q, frame.msg) /\ q \in Seq(Int) /\ frame.msg \in Int
    BY <1>1, <1>2, <1>3, <1>15 DEF TypeOK
  <2> HIDE DEF p, q
  <2>2. Len(p) = Len(q) + 1 /\ Len(q) \in Nat /\ p \in Seq(Int)
    BY <2>1
  <2>3. p[Len(p)] = frame.msg /\ \A i \in 1 .. Len(q) : p[i] = q[i]
    BY <2>1, <2>2
  <2>4. Len(heard[s]) \in Nat /\ Reached(s)' = Len(heard[s]) + Len(p)
    BY <1>2, <1>3 DEF Reached, p
  <2>5. Reached(s)' = Reached(s) + 1
    <3>1. heard'[s] = heard[s] /\ Len(inbox'[s]) = Len(inbox[s]) + 1
      BY <1>2, <2>2 DEF p, q
    <3> QED BY <1>1, <3>1, ReachedMore
  <2>6. OnItsWay(s, o)'
    BY <1>4, <1>12, <1>13, <1>15, <2>5
  <2>7. \A i \in 1 .. Len(heard[s]) : heard[s][i] = i /\ i <= said[o]
    BY <1>1, <1>7 DEF Numbered
  <2>8. \A i \in 1 .. Len(q) : q[i] = Len(heard[s]) + i /\ q[i] <= said[o]
    BY <1>1, <1>2 DEF Numbered, q
  <2>9. \A i \in 1 .. Len(p) : p[i] = Len(heard[s]) + i /\ p[i] <= said[o]
    <3>1. p[Len(p)] = Len(heard[s]) + Len(p) /\ p[Len(p)] <= said[o]
      BY <1>4, <1>12, <1>15, <2>3, <2>4, <2>5
    <3>2. \A i \in 1 .. Len(p) : i \in 1 .. Len(q) \/ i = Len(p)
      BY <2>2
    <3> QED BY <2>3, <2>8, <3>1, <3>2
  <2>10. Numbered(s, o)'
    BY <1>2, <2>7, <2>9 DEF Numbered, p
  <2>11. EndTold(s, o)'
    <3>1. inbox'[s][Len(inbox'[s])] # Closed
      BY <1>2, <2>3 DEF p, Closed
    <3>2. NothingStruck /\ heard[s] # <<>> /\ heard[s][Len(heard[s])] = Closed =>
            Done(o)' /\ (writing'[o] # "failed" => Len(heard[s]) - 1 = said'[o])
      BY <1>1, <1>6 DEF EndTold, Settled
    <3> QED BY <1>2, <1>5, <3>1, <3>2 DEF EndTold
  <2> QED BY <1>1, <1>2, <1>3, <1>5, <1>6, <1>8, <1>9, <2>6, <2>10, <2>11, OrderTaken DEF o
<1> QED BY <1>2, <1>10, <1>14, <1>15

\* The order is kept by a frame that is taken up. (Link::recv)
LEMMA TakeOrders ==
  ASSUME IInv, OrderInv, TypeOK', NEW s \in Sides, Take(s)
  PROVE  OrderInv'
<1> DEFINE o == Other(s)
           q == inbox[s]
           h == heard[s]
<1>1. /\ TypeOK /\ Beginnings /\ Closings /\ budget["event"] <= Budget["event"]
      /\ o \in Sides /\ o # s /\ \A t \in Sides : t = s \/ t = o
      /\ Numbered(s, o) /\ OnItsWay(s, o) /\ EndTold(s, o) /\ OnItsWay(o, s)
  BY OrderParts
<1>2. /\ phase[s] = "open" /\ inbox[s] # <<>>
      /\ heard' = [heard EXCEPT ![s] = Append(@, Head(inbox[s]))]
      /\ inbox' = [inbox EXCEPT ![s] = Tail(@)]
      /\ phase' = [phase EXCEPT ![s] = IF Head(inbox[s]) > 0 THEN @ ELSE "closing"]
      /\ UNCHANGED <<wire, end, outbox, sealed, writing, reading, clones, budget, said>>
  BY DEF Take, Hears, Open
<1> HIDE DEF o, q, h
<1>3. /\ inbox'[s] = Tail(q) /\ heard'[s] = Append(h, Head(q)) /\ q \in Seq(Int) /\ q # <<>>
      /\ h \in Seq(Int) /\ said[o] \in Nat
      /\ inbox'[o] = inbox[o] /\ heard'[o] = heard[o] /\ phase'[o] = phase[o]
      /\ phase'[s] = IF Head(q) > 0 THEN "open" ELSE "closing"
  BY <1>1, <1>2 DEF TypeOK, q, h
<1> DEFINE p == inbox'[s]
           g == heard'[s]
<1>4. /\ Len(q) \in Nat /\ Len(p) \in Nat /\ Len(q) = Len(p) + 1 /\ Head(q) = q[1]
      /\ \A i \in 1 .. Len(p) : p[i] = q[i + 1] /\ i + 1 \in 1 .. Len(q)
      /\ 1 \in 1 .. Len(q)
      /\ p = <<>> <=> Len(p) = 0
  <2>1. p = Tail(q) /\ q \in Seq(Int) /\ q # <<>>
    BY <1>3
  <2> HIDE DEF p
  <2>2. Len(q) \in Nat /\ Len(q) # 0 /\ p \in Seq(Int) /\ Len(p) = Len(q) - 1 /\ Head(q) = q[1]
    BY <2>1
  <2>3. /\ Len(p) \in Nat /\ Len(q) = Len(p) + 1 /\ 1 \in 1 .. Len(q)
        /\ \A i \in 1 .. Len(p) : i + 1 \in 1 .. Len(q)
    BY <2>2
  <2>4. \A i \in 1 .. Len(p) : p[i] = q[i + 1]
    BY <2>1
  <2>5. p = <<>> <=> Len(p) = 0
    BY <2>2, EmptySeq
  <2> QED BY <2>2, <2>3, <2>4, <2>5
<1>5. /\ Len(h) \in Nat /\ Len(g) = Len(h) + 1 /\ g[Len(g)] = q[1] /\ g # <<>>
      /\ \A i \in 1 .. Len(h) : g[i] = h[i]
      /\ \A i \in 1 .. Len(g) : i \in 1 .. Len(h) \/ i = Len(g)
  <2>1. g = Append(h, Head(q)) /\ Head(q) = q[1] /\ h \in Seq(Int) /\ Head(q) \in Int
    BY <1>3, <1>4
  <2> HIDE DEF g
  <2>2. Len(g) = Len(h) + 1 /\ Len(h) \in Nat /\ g \in Seq(Int)
    BY <2>1
  <2>3. g[Len(g)] = q[1] /\ \A i \in 1 .. Len(h) : g[i] = h[i]
    BY <2>1, <2>2
  <2> QED BY <2>2, <2>3
<1> HIDE DEF p, g
<1>6. \A i \in 1 .. Len(h) : h[i] = i /\ i <= said[o]
  BY <1>1, <1>2 DEF Numbered, h
<1>7. \A i \in 1 .. Len(q) : \/ q[i] = Len(h) + i /\ q[i] <= said[o]
                             \/ q[i] < 0 /\ i = Len(q) /\ reading[s] = "done"
  BY <1>1 DEF Numbered, q, h
<1>8. \/ q[1] = Len(g) /\ q[1] <= said[o] /\ phase'[s] = "open"
      \/ /\ q[1] < 0 /\ p = <<>> /\ reading[s] = "done" /\ phase'[s] = "closing"
  <2>1. CASE q[1] = Len(h) + 1 /\ q[1] <= said[o]
    BY <1>3, <1>4, <1>5, <2>1
  <2>2. CASE q[1] < 0 /\ 1 = Len(q) /\ reading[s] = "done"
    BY <1>3, <1>4, <2>2
  <2> QED BY <1>4, <1>7, <2>1, <2>2
<1>9. Numbered(s, o)'
  <2>1. \A i \in 1 .. Len(g) :
          \/ g[i] = i /\ i <= said[o]
          \/ g[i] < 0 /\ i = Len(g) /\ p = <<>> /\ phase'[s] \in {"closing", "gone"}
    BY <1>5, <1>6, <1>8
  <2>2. \A i \in 1 .. Len(p) : \/ p[i] = Len(g) + i /\ p[i] <= said[o]
                               \/ p[i] < 0 /\ i = Len(p) /\ reading[s] = "done"
    <3> SUFFICES ASSUME NEW i \in 1 .. Len(p)
                 PROVE  \/ p[i] = Len(g) + i /\ p[i] <= said[o]
                        \/ p[i] < 0 /\ i = Len(p) /\ reading[s] = "done"
      OBVIOUS
    <3>1. p[i] = q[i + 1] /\ i + 1 \in 1 .. Len(q) /\ Len(h) + (i + 1) = Len(g) + i
          /\ (i + 1 = Len(q) => i = Len(p))
      BY <1>4, <1>5
    <3> QED BY <1>7, <3>1
  <2> QED BY <1>2, <2>1, <2>2 DEF Numbered, p, g
<1>10. Reached(s)' = Reached(s)
  <2>1. Len(heard'[s]) = Len(heard[s]) + 1 /\ Len(inbox[s]) = Len(inbox'[s]) + 1
    BY <1>4, <1>5 DEF g, h, p, q
  <2> QED BY <1>1, <2>1, ReachedSame
<1>11. NothingStruck' <=> NothingStruck
  BY <1>2 DEF NothingStruck
<1>12. Settled(s) /\ Settled(o)
  BY <1>1, <1>2, <1>3, SettledIs DEF Done
<1>13. Closings'
  BY <1>1, <1>2, <1>3, <1>8 DEF Closings, Begun
<1>14. OnItsWay(s, o)' /\ OnItsWay(o, s)'
  <2>1. Reached(o)' = Reached(o)
    BY <1>3 DEF Reached
  <2>2. phase[s] = "failed" => phase'[s] = "failed"
    BY <1>2
  <2> QED BY <1>1, <1>2, <1>3, <1>10, <1>11, <1>12, <2>1, <2>2, WayStays DEF Writable
<1>15. EndTold(s, o)'
  <2> SUFFICES ASSUME NothingStruck'
               PROVE  EndTold(s, o)'
    BY DEF EndTold
  <2>1. q[Len(q)] = Closed =>
          Done(o)' /\ (writing'[o] # "failed" => Reached(s) - 1 = said'[o])
    BY <1>1, <1>2, <1>11, <1>12 DEF EndTold, Settled, q
  <2>2. p # <<>> => p[Len(p)] = q[Len(q)]
    <3>1. p # <<>> => Len(p) \in 1 .. Len(p) /\ Len(p) + 1 = Len(q)
      BY <1>4
    <3> QED BY <1>4, <3>1
  <2>3. g[Len(g)] = Closed => q[Len(q)] = Closed /\ Reached(s)' = Len(g)
    <3> SUFFICES ASSUME g[Len(g)] = Closed
                 PROVE  q[Len(q)] = Closed /\ Reached(s)' = Len(g)
      OBVIOUS
    <3>1. q[1] < 0
      BY <1>5 DEF Closed
    <3>2. Len(p) = 0 /\ Len(q) = 1
      BY <1>4, <1>5, <1>8, <3>1
    <3>3. Reached(s)' = Len(g) + Len(p) /\ Len(g) \in Nat
      BY <1>5 DEF Reached, g, p
    <3> QED BY <1>5, <3>2, <3>3
  <2> QED BY <1>10, <2>1, <2>2, <2>3 DEF EndTold, p, g
<1> QED BY <1>1, <1>2, <1>3, <1>9, <1>11, <1>12, <1>13, <1>14, <1>15, OrderTaken DEF o

\* The order is kept by a link that starts to close. (Link::close)
LEMMA CloseOrders ==
  ASSUME IInv, OrderInv, TypeOK', NEW s \in Sides, Close(s)
  PROVE  OrderInv'
<1> DEFINE o == Other(s)
<1>1. /\ TypeOK /\ Beginnings /\ Closings /\ budget["event"] <= Budget["event"]
      /\ o \in Sides /\ o # s /\ \A t \in Sides : t = s \/ t = o
      /\ Numbered(s, o) /\ OnItsWay(s, o) /\ EndTold(s, o) /\ OnItsWay(o, s)
  BY OrderParts
<1>2. /\ phase[s] = "open"
      /\ phase' = [phase EXCEPT ![s] = "closing"]
      /\ reading' = [reading EXCEPT ![s] = "done"]
      /\ inbox' = [inbox EXCEPT ![s] = <<>>]
      /\ UNCHANGED <<wire, end, outbox, sealed, writing, clones, budget, said, heard>>
  BY DEF Close, Open, historyVars
<1> HIDE DEF o
<1>3. /\ phase'[s] = "closing" /\ phase'[o] = phase[o]
      /\ reading'[s] = "done" /\ reading'[o] = reading[o]
      /\ inbox'[s] = <<>> /\ inbox'[o] = inbox[o]
  BY <1>1, <1>2 DEF TypeOK
<1>4. NothingStruck' <=> NothingStruck
  BY <1>2 DEF NothingStruck
<1>5. Settled(s) /\ Settled(o)
  BY <1>1, <1>2, <1>3, SettledIs DEF Done
<1>6. Closings'
  BY <1>1, <1>2, <1>3 DEF Closings, Begun
<1>7. OnItsWay(s, o)' /\ OnItsWay(o, s)'
  <2>1. OnItsWay(s, o)'
    BY <1>3 DEF OnItsWay
  <2>2. OnItsWay(o, s)'
    BY <1>1, <1>2, <1>3, <1>4, <1>5, WayStays DEF Reached, Writable
  <2> QED BY <2>1, <2>2
<1>8. Numbered(s, o)'
  <2>1. \A i \in 1 .. Len(heard[s]) : heard[s][i] = i /\ i <= said[o]
    BY <1>1, <1>2 DEF Numbered
  <2>2. \A i \in 1 .. Len(inbox'[s]) : FALSE
    BY <1>3
  <2> QED BY <1>2, <2>1, <2>2 DEF Numbered
<1>9. EndTold(s, o)'
  BY <1>1, <1>2, <1>3, <1>4, <1>5 DEF EndTold, Settled
<1> QED BY <1>1, <1>2, <1>3, <1>4, <1>5, <1>6, <1>7, <1>8, <1>9, OrderTaken DEF o

\* Nothing is said in a handshake. (proto.rs)
LEMMA OrderFirst ==
  ASSUME Init, TypeOK
  PROVE  OrderInv
<1>1. /\ phase = [s \in Sides |-> IF Murmure(s) THEN "head" ELSE "deaf"]
      /\ wire = [s \in Sides |-> IF speaks[s] = "nothing" THEN <<>> ELSE Hello(s)]
      /\ end = [s \in Sides |-> "open"]
      /\ outbox = [s \in Sides |-> <<>>] /\ inbox = outbox
      /\ sealed = [s \in Sides |-> NoFrame]
      /\ writing = [s \in Sides |-> "no"] /\ reading = writing
      /\ clones = {} /\ budget = Budget
      /\ said = [s \in Sides |-> 0] /\ heard = [s \in Sides |-> <<>>]
  BY DEF Init
<1>2. budget["event"] <= Budget["event"]
  <2>1. Budget["event"] \in Nat
    BY SessionAssumption DEF EventKinds
  <2> QED BY <1>1, <2>1
<1>3. \A s \in Sides :
        /\ phase[s] \in {"head", "deaf"} /\ writing[s] = "no" /\ reading[s] = "no"
        /\ said[s] = 0 /\ heard[s] = <<>> /\ inbox[s] = <<>> /\ outbox[s] = <<>>
        /\ end[s] = "open" /\ sealed[s] = NoFrame
  BY <1>1
<1>4. Closings
  BY <1>1, <1>3 DEF Closings, Begun
<1>5. ASSUME NEW s \in Sides, NEW w \in Sides
      PROVE  Numbered(s, w) /\ OnItsWay(s, w) /\ EndTold(s, w)
  <2>1. Len(<<>>) = 0 /\ \A i \in 1 .. 0 : FALSE
    OBVIOUS
  <2>2. Numbered(s, w) /\ EndTold(s, w)
    BY <1>3, <2>1 DEF Numbered, EndTold
  <2>3. Carries(wire[w], 0, 0, 0)
    <3> DEFINE q == wire[w]
    <3>1. q \in Seq(Messages)
      BY DEF TypeOK
    <3>2. \A i \in 1 .. Len(q) : ~ Said(q[i])
      <4>1. CASE q = <<>>
        BY <2>1, <4>1
      <4>2. CASE q # <<>>
        <5>1. q = Hello(w)
          BY <1>1, <4>2
        <5> QED BY <5>1 DEF Hello, Said
      <4> QED BY <4>1, <4>2
    <3> HIDE DEF q
    <3> DEFINE c == [i \in 0 .. Len(q) |-> 0]
    <3>3. /\ c \in [0 .. Len(q) -> 0 .. 0] /\ c[0] = 0 /\ c[Len(q)] = 0
          /\ \A i \in 1 .. Len(q) : c[i] = c[i - 1]
      BY <3>1
    <3> HIDE DEF c
    <3>4. Carries(q, 0, 0, 0)
      BY <3>2, <3>3 DEF Carries
    <3> QED BY <3>4 DEF q
  <2>4. Reached(s) = 0
    <3>1. Len(heard[s]) = 0 /\ Len(inbox[s]) = 0 /\ 0 + 0 = 0
      BY <1>3, <2>1
    <3> QED BY ONLY <3>1 DEF Reached
  <2>5. Leaves(w, 0)
    BY <1>3, <2>1 DEF Leaves, Follows, NoFrame, Ping
  <2>6. OnItsWay(s, w)
    BY <1>3, <2>3, <2>4, <2>5 DEF OnItsWay
  <2> QED BY <2>2, <2>6
<1> QED BY <1>2, <1>4, <1>5, TheOther DEF OrderInv

\* and no step disturbs the order.
LEMMA OrderNext ==
  ASSUME IInv, OrderInv, TypeOK', [Next]_vars
  PROVE  OrderInv'
<1>1. CASE UNCHANGED vars
  <2> DEFINE s == "caller"
  <2>1. s \in Sides
    BY DEF Sides
  <2>2. /\ TypeOK /\ Beginnings /\ Closings /\ budget["event"] <= Budget["event"]
        /\ Other(s) \in Sides /\ OnItsWay(s, Other(s)) /\ OnItsWay(Other(s), s)
    BY <2>1, OrderParts
  <2> HIDE DEF s
  <2>3. UNCHANGED <<phase, wire, end, outbox, sealed, writing, reading, inbox, clones, budget,
                    said, heard>>
    BY <1>1 DEF vars
  <2>4. Settled(s) /\ Settled(Other(s))
    BY <2>1, <2>2, <2>3, SettledIs
  <2>5. (NothingStruck' <=> NothingStruck) /\ Closings'
    BY <2>2, <2>3 DEF NothingStruck, Closings, Begun
  <2>6. OnItsWay(s, Other(s))' /\ OnItsWay(Other(s), s)'
    BY <2>1, <2>2, <2>3, <2>4, <2>5, WayStays DEF Reached, Writable
  <2> QED BY <2>1, <2>2, <2>3, <2>4, <2>5, <2>6, OrderKept
<1>2. ASSUME NEW s \in Sides,
             \/ Handshakes(s) \/ Writes(s) \/ ReaderSteps(s)
             \/ Take(s) \/ CloseReturns(s) \/ UploadEnds(s)
             \/ Queue(s) \/ Beat(s) \/ GiveUpWriting(s)
             \/ Close(s) \/ Cut(s) \/ Upload(s)
      PROVE  OrderInv'
  <2>1. CASE ReadHead(s)
    BY <2>1, ReadHeadOrders
  <2>2. CASE ReadRest(s)
    BY <2>2, ReadRestOrders
  <2>3. CASE ReadProof(s)
    BY <2>3, ReadProofOrders
  <2>4. CASE HandshakeTimeout(s)
    BY <2>4, HandshakeTimeoutOrders
  <2>5. CASE SealNext(s)
    BY <2>5, SealNextOrders
  <2>6. CASE Write(s)
    BY <2>6, WriteOrders
  <2>7. CASE Read(s)
    BY <2>7, ReadOrders
  <2>8. CASE ReadEnd(s)
    BY <2>8, ReadEndOrders
  <2>9. CASE Silence(s)
    BY <2>9, SilenceOrders
  <2>10. CASE Take(s)
    BY <2>10, TakeOrders
  <2>11. CASE CloseReturns(s)
    BY <2>11, CloseReturnsOrders
  <2>12. CASE UploadEnds(s)
    BY <2>12, UploadEndsOrders
  <2>13. CASE Queue(s)
    BY <2>13, QueueOrders
  <2>14. CASE Beat(s)
    BY <2>14, BeatOrders
  <2>15. CASE GiveUpWriting(s)
    BY <2>15, GiveUpWritingOrders
  <2>16. CASE Close(s)
    BY <2>16, CloseOrders
  <2>17. CASE Cut(s)
    BY <2>17, CutOrders
  <2>18. CASE Upload(s)
    BY <2>18, UploadOrders
  <2> QED
    BY <1>2, <2>1, <2>2, <2>3, <2>4, <2>5, <2>6, <2>7, <2>8, <2>9, <2>10, <2>11, <2>12,
       <2>13, <2>14, <2>15, <2>16, <2>17, <2>18 DEF Handshakes, Writes, ReaderSteps
<1>3. CASE Break
  BY <1>3, BreakOrders
<1> QED BY <1>1, <1>2, <1>3 DEF Next, Rests

\* What one side takes is what the other queued, in order and with nothing
\* missing, whatever is lost, cut or given up; and a clean end is told of only
\* behind all of it. (Link::open, Link::close)
THEOREM HeardAsSaid == Spec => []HeardInOrder
<1>1. Init => IInv /\ OrderInv
  BY InitInv, OrderFirst DEF IInv
<1>2. IInv /\ OrderInv /\ [Next]_vars => (IInv /\ OrderInv)'
  <2> SUFFICES ASSUME IInv, OrderInv, [Next]_vars
               PROVE  IInv' /\ OrderInv'
    OBVIOUS
  <2>1. IInv'
    BY StepInv
  <2>2. TypeOK'
    BY <2>1 DEF IInv
  <2> QED BY <2>1, <2>2, OrderNext
<1>3. IInv /\ OrderInv => HeardInOrder
  <2> SUFFICES ASSUME IInv, OrderInv, NEW s \in Sides
               PROVE  /\ \A i \in DOMAIN heard[s] :
                           \/ heard[s][i] = i /\ i <= said[Other(s)]
                           \/ heard[s][i] < 0 /\ i = Len(heard[s])
                      /\ NothingStruck /\ heard[s] # <<>> /\ Last(heard[s]) = Closed
                           /\ writing[Other(s)] # "failed"
                         => Len(heard[s]) - 1 = said[Other(s)]
    BY DEF HeardInOrder
  <2>1. Numbered(s, Other(s)) /\ EndTold(s, Other(s)) /\ heard[s] \in Seq(Int)
    BY DEF OrderInv, IInv, TypeOK
  <2>2. DOMAIN heard[s] = 1 .. Len(heard[s])
    BY <2>1
  <2> QED BY <2>1, <2>2 DEF Numbered, EndTold, Last
<1> QED BY <1>1, <1>2, <1>3, PTL DEF Spec
=============================================================================
