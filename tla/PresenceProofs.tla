--------------------------- MODULE PresenceProofs ---------------------------
(***************************************************************************)
(* That nobody holds an agreement the other never asked for, however many  *)
(* requests, withdrawals, calls, broken connections, crashes, failed       *)
(* writes and forgotten contacts there are, and in whatever order what was *)
(* said arrives; that a dial that lands is kept under an agreement only;   *)
(* and that once everything has arrived, with nothing broken, they agree.  *)
(***************************************************************************)
EXTENDS Presence, SequenceTheorems, TLAPS

-----------------------------------------------------------------------------
(***************************************************************************)
(* The invariant: every state and every frame is backed by the word of     *)
(* those it speaks for.                                                    *)
(***************************************************************************)

\* What p may have sent, given who ever asked.
SaidIn(p, asked) ==
  {f \in Frames : /\ f \in {"Ask", "Yes"} => p \in asked
                  /\ f = "Yes" => Other(p) \in asked}

\* Where p may stand.
StandsIn(p, asked) ==
  {s \in Agreement \cup {NoContact} :
     /\ s \in {"WeAsked", "On"} => p \in asked
     /\ s \in {"TheyAsked", "On"} => Other(p) \in asked}

\* Frames on their way to each peer.
GoodWire(w, asked) ==
  /\ w \in [Peers -> Seq(Frames)]
  /\ \A p \in Peers : w[p] \in Seq(SaidIn(Other(p), asked))

\* Frames each peer holds back.
GoodWaiting(w, asked) ==
  /\ w \in [Peers -> Seq(Frames)]
  /\ \A p \in Peers : w[p] \in Seq(SaidIn(p, asked)) /\ Len(w[p]) <= WAITING

GoodBook(b, asked) ==
  /\ b \in [Peers -> Agreement \cup {NoContact}]
  /\ \A p \in Peers : b[p] \in StandsIn(p, asked)

Backed ==
  /\ GoodBook(agreement, everAsked) /\ GoodBook(file, everAsked)
  /\ GoodWaiting(waiting, everAsked)
  /\ GoodWire(wire, everAsked) /\ GoodWire(aside, everAsked)

Plain ==
  /\ link \in [Peers -> LinkStates]
  /\ up \in BOOLEAN
  /\ budget \in [Kinds -> Nat]
  /\ word \in [Peers -> {"nothing", "ask", "stop", "unsure"}]
  /\ everAsked \subseteq Peers

IInv == Plain /\ Backed

-----------------------------------------------------------------------------
LEMMA OtherIsOther ==
  ASSUME NEW p \in Peers
  PROVE  Other(p) \in Peers /\ Other(p) # p /\ Other(Other(p)) = p
<1>1. PICK a, b \in Peers : a # b /\ Peers = {a, b}
  BY PresenceAssumption
<1>2. \A x \in Peers : \E q \in Peers : q # x
  BY <1>1
<1>3. \A x \in Peers : Other(x) \in Peers /\ Other(x) # x
  BY <1>2 DEF Other
<1>4. QED
  BY <1>1, <1>3

\* Who has asked once has asked for ever.
LEMMA MoreAsked ==
  ASSUME NEW asked, NEW more, asked \subseteq more
  PROVE  /\ \A p : Seq(SaidIn(p, asked)) \subseteq Seq(SaidIn(p, more))
         /\ \A w : GoodWire(w, asked) => GoodWire(w, more)
         /\ \A w : GoodWaiting(w, asked) => GoodWaiting(w, more)
         /\ \A b : GoodBook(b, asked) => GoodBook(b, more)
<1>1. \A p : SaidIn(p, asked) \subseteq SaidIn(p, more)
  BY DEF SaidIn
<1>2. \A S, T : S \subseteq T => Seq(S) \subseteq Seq(T)
  OBVIOUS
<1>3. \A p : Seq(SaidIn(p, asked)) \subseteq Seq(SaidIn(p, more))
  BY <1>1, <1>2
<1>4. \A p : StandsIn(p, asked) \subseteq StandsIn(p, more)
  BY DEF StandsIn
<1>5. QED
  BY <1>3, <1>4 DEF GoodWire, GoodWaiting, GoodBook

LEMMA SaidAreFrames == \A p, asked : Seq(SaidIn(p, asked)) \subseteq Seq(Frames)
<1>1. \A p, asked : SaidIn(p, asked) \subseteq Frames
  BY DEF SaidIn
<1>2. \A S, T : S \subseteq T => Seq(S) \subseteq Seq(T)
  OBVIOUS
<1>3. QED
  BY <1>1, <1>2

\* One peer's channel changes to something that peer may be sent.
LEMMA WireExcept ==
  ASSUME NEW asked, NEW w, GoodWire(w, asked), NEW p \in Peers,
         NEW s \in Seq(SaidIn(Other(p), asked))
  PROVE  GoodWire([w EXCEPT ![p] = s], asked)
<1>1. s \in Seq(Frames)
  BY SaidAreFrames
<1>2. QED
  BY <1>1 DEF GoodWire

LEMMA WaitingExcept ==
  ASSUME NEW asked, NEW w, GoodWaiting(w, asked), NEW p \in Peers,
         NEW s \in Seq(SaidIn(p, asked)), Len(s) <= WAITING
  PROVE  GoodWaiting([w EXCEPT ![p] = s], asked)
<1>1. s \in Seq(Frames)
  BY SaidAreFrames
<1>2. QED
  BY <1>1 DEF GoodWaiting

LEMMA EmptyIsGood ==
  \A S : <<>> \in Seq(S) /\ Len(<<>>) = 0
OBVIOUS

LEMMA TailIsGood ==
  ASSUME NEW S, NEW s \in Seq(S), s # <<>>
  PROVE  Head(s) \in S /\ Tail(s) \in Seq(S)
OBVIOUS

LEMMA PrefixIsGood ==
  ASSUME NEW S, NEW s \in Seq(S), NEW t \in Prefixes(s)
  PROVE  t \in Seq(S)
<1>1. PICK l \in 0 .. Len(s) : t = SubSeq(s, 1, l)
  BY DEF Prefixes
<1>2. Len(s) \in Nat /\ \A i \in 1 .. l : s[i] \in S
  BY <1>1, LenProperties, ElementOfSeq
<1>3. QED
  BY <1>1, <1>2, SubSeqProperties

LEMMA ConcatIsGood ==
  ASSUME NEW S, NEW s \in Seq(S), NEW t \in Seq(S)
  PROVE  s \o t \in Seq(S)
BY ConcatProperties

LEMMA WaitingEmptied ==
  ASSUME NEW asked, NEW w, GoodWaiting(w, asked), NEW p \in Peers
  PROVE  GoodWaiting([w EXCEPT ![p] = <<>>], asked)
<1>1. <<>> \in Seq(SaidIn(p, asked)) /\ Len(<<>>) <= WAITING
  BY PresenceAssumption
<1>2. QED
  BY <1>1, WaitingExcept

\* Pool::send's ceiling.
LEMMA HeldIsGood ==
  ASSUME NEW asked, GoodWaiting(waiting, asked), NEW p \in Peers,
         NEW frames \in Seq(SaidIn(p, asked))
  PROVE  GoodWaiting(Held(p, frames), asked)
<1> DEFINE all == waiting[p] \o frames
<1>1. waiting[p] \in Seq(SaidIn(p, asked)) /\ Len(waiting[p]) <= WAITING
  BY DEF GoodWaiting
<1>2. all \in Seq(SaidIn(p, asked))
  BY <1>1, ConcatIsGood
<1>3. Held(p, frames) = [waiting EXCEPT ![p] = IF Len(all) <= WAITING THEN all ELSE waiting[p]]
  BY DEF Held, GoodWaiting
<1> HIDE DEF all
<1>4. CASE Len(all) <= WAITING
  <2>1. Held(p, frames) = [waiting EXCEPT ![p] = all]
    BY <1>3, <1>4
  <2>2. GoodWaiting([waiting EXCEPT ![p] = all], asked)
    BY <1>2, <1>4, WaitingExcept
  <2>3. QED
    BY <2>1, <2>2
<1>5. CASE ~ Len(all) <= WAITING
  <2>1. Held(p, frames) = [waiting EXCEPT ![p] = waiting[p]]
    BY <1>3, <1>5
  <2>2. Held(p, frames) = waiting
    BY <2>1 DEF GoodWaiting
  <2>3. QED
    BY <2>2
<1>6. QED
  BY <1>4, <1>5

-----------------------------------------------------------------------------
(***************************************************************************)
(* The operations.                                                         *)
(***************************************************************************)

\* Whatever becomes of what p sends, and of its connection.
LEMMA SendKeeps ==
  ASSUME NEW asked, NEW p \in Peers, NEW frames \in Seq(SaidIn(p, asked)),
         NEW unread, NEW letGo \in BOOLEAN, NEW purse \in [Kinds -> Nat],
         GoodWire(unread, asked), GoodWaiting(waiting, asked),
         link \in [Peers -> LinkStates], up \in BOOLEAN,
         Send(p, frames, unread, letGo, purse)
  PROVE  /\ GoodWire(wire', asked) /\ GoodWaiting(waiting', asked)
         /\ link' \in [Peers -> LinkStates] /\ up' \in BOOLEAN
         /\ budget' \in [Kinds -> Nat]
<1> DEFINE closes == letGo /\ link[p] = "idle"
           left == [unread EXCEPT ![p] = IF closes THEN <<>> ELSE @]
           q == Other(p)
           sent == [left EXCEPT ![q] = @ \o frames]
           Kept(w) == IF letGo THEN [w EXCEPT ![p] = <<>>] ELSE w
<1>1. q \in Peers /\ Other(q) = p
  BY OtherIsOther
<1>2. GoodWire(left, asked)
  <2>1. CASE closes
    <3>1. left = [unread EXCEPT ![p] = <<>>]
      BY <2>1
    <3>2. GoodWire([unread EXCEPT ![p] = <<>>], asked)
      BY EmptyIsGood, WireExcept
    <3>3. QED
      BY <3>1, <3>2
  <2>2. CASE ~ closes
    <3>1. left = unread
      BY <2>2 DEF GoodWire
    <3>2. QED
      BY <3>1
  <2>3. QED
    BY <2>1, <2>2
<1>3. GoodWire(sent, asked)
  <2> HIDE DEF left
  <2>1. left[q] \in Seq(SaidIn(p, asked))
    BY <1>1, <1>2 DEF GoodWire
  <2>2. left[q] \o frames \in Seq(SaidIn(Other(q), asked))
    BY <1>1, <2>1, ConcatIsGood
  <2> DEFINE more == left[q] \o frames
  <2>3. sent = [left EXCEPT ![q] = more]
    OBVIOUS
  <2> HIDE DEF more, sent
  <2>4. GoodWire([left EXCEPT ![q] = more], asked)
    BY <1>1, <1>2, <2>2, WireExcept DEF more
  <2>5. QED
    BY <2>3, <2>4
<1>4. \A w : GoodWaiting(w, asked) => GoodWaiting(Kept(w), asked)
  <2> SUFFICES ASSUME NEW w, GoodWaiting(w, asked)
               PROVE  GoodWaiting(Kept(w), asked)
    OBVIOUS
  <2>1. GoodWaiting([w EXCEPT ![p] = <<>>], asked)
    BY WaitingEmptied
  <2>2. Kept(w) = [w EXCEPT ![p] = <<>>] \/ Kept(w) = w
    OBVIOUS
  <2>3. QED
    BY <2>1, <2>2
<1>5. GoodWaiting(Held(p, frames), asked)
  BY HeldIsGood
<1>6. wire' \in {sent, left}
  BY DEF Send
<1>7. waiting' \in {Kept(waiting), Kept(Held(p, frames))}
  BY DEF Send
<1>8. link' = (IF closes THEN [link EXCEPT ![p] = "none"] ELSE link)
      /\ up' = (up /\ ~ closes)
  BY DEF Send
<1>9. budget' \in [Kinds -> Nat]
  <2>1. \/ budget' = purse
        \/ purse["break"] > 0 /\ budget' = [purse EXCEPT !["break"] = @ - 1]
    BY DEF Send
  <2>2. QED
    BY <2>1 DEF Kinds
<1> HIDE DEF sent, left, closes, Kept
<1>10. GoodWire(wire', asked)
  BY <1>2, <1>3, <1>6
<1>11. GoodWaiting(waiting', asked)
  BY <1>4, <1>5, <1>7
<1>12. link' \in [Peers -> LinkStates] /\ up' \in BOOLEAN
  BY <1>8 DEF LinkStates, closes
<1>13. QED
  BY <1>9, <1>10, <1>11, <1>12

\* Where a step leaves an agreement is backed, and so is the answer, if what
\* was typed or heard is.
LEMMA StepIsBacked ==
  ASSUME NEW asked, NEW p \in Peers, NEW was \in StandsIn(p, asked), was # NoContact,
         NEW said,
         \/ said = "WeStop"
         \/ said = "WeAsk" /\ p \in asked
         \/ said \in SaidIn(Other(p), asked)
  PROVE  /\ To(was, said) \in StandsIn(p, asked)
         /\ To(was, said) \in Agreement
         /\ Reply(was, said) \in Seq(SaidIn(p, asked))
<1>1. Other(p) \in Peers /\ Other(Other(p)) = p
  BY OtherIsOther
<1>2. /\ said \in Frames \cup {"WeAsk", "WeStop"}
      /\ said = "WeAsk" => p \in asked
      /\ said \in {"Ask", "Yes"} => Other(p) \in asked
      /\ said = "Yes" => p \in asked
  BY <1>1 DEF SaidIn, Frames
<1>3. /\ was \in Agreement
      /\ was \in {"WeAsked", "On"} => p \in asked
      /\ was \in {"TheyAsked", "On"} => Other(p) \in asked
  BY DEF StandsIn
<1>4. /\ To(was, said) \in Agreement
      /\ To(was, said) \in {"WeAsked", "On"} => p \in asked
      /\ To(was, said) \in {"TheyAsked", "On"} => Other(p) \in asked
  BY <1>2, <1>3 DEF To, Agreement, Frames
<1>5. \/ Reply(was, said) = <<>>
      \/ Reply(was, said) = <<"Ask">> /\ p \in asked
      \/ Reply(was, said) = <<"Yes">> /\ p \in asked /\ Other(p) \in asked
      \/ Reply(was, said) = <<"No">>
  BY <1>2, <1>3 DEF Reply, Agreement, Frames
<1>6. /\ "No" \in SaidIn(p, asked)
      /\ p \in asked => "Ask" \in SaidIn(p, asked)
      /\ p \in asked /\ Other(p) \in asked => "Yes" \in SaidIn(p, asked)
  BY DEF SaidIn, Frames
<1>7. \A S, x : x \in S => <<x>> \in Seq(S)
  OBVIOUS
<1>8. Reply(was, said) \in Seq(SaidIn(p, asked))
  BY <1>5, <1>6, <1>7, EmptyIsGood
<1>9. QED
  BY <1>4, <1>8 DEF StandsIn

\* presence in main.rs, written down or not.
LEMMA StepKeeps ==
  ASSUME NEW asked, NEW p \in Peers, NEW said,
         \/ said = "WeStop"
         \/ said = "WeAsk" /\ p \in asked
         \/ said \in SaidIn(Other(p), asked),
         NEW unread, NEW purse \in [Kinds -> Nat],
         GoodBook(agreement, asked), GoodBook(file, asked), Filed(p),
         GoodWire(unread, asked), GoodWaiting(waiting, asked),
         link \in [Peers -> LinkStates], up \in BOOLEAN,
         Stored(p, said, unread, purse) \/ NotStored(p, said, unread, purse)
  PROVE  /\ GoodBook(agreement', asked) /\ GoodBook(file', asked)
         /\ GoodWire(wire', asked) /\ GoodWaiting(waiting', asked)
         /\ link' \in [Peers -> LinkStates] /\ up' \in BOOLEAN
         /\ budget' \in [Kinds -> Nat]
<1> DEFINE was == PresenceOf(p)
           to == To(was, said)
<1>1. was = agreement[p] /\ was \in StandsIn(p, asked) /\ was # NoContact
  BY DEF PresenceOf, Filed, GoodBook
<1>2. /\ to \in StandsIn(p, asked) /\ to \in Agreement
      /\ Reply(was, said) \in Seq(SaidIn(p, asked))
  BY <1>1, StepIsBacked
<1>3. /\ agreement' = [agreement EXCEPT ![p] = to]
      /\ file' = file \/ file' = [file EXCEPT ![p] = to]
  BY DEF Stored, NotStored
<1>4. GoodBook(agreement', asked) /\ GoodBook(file', asked)
  <2> HIDE DEF to
  <2>1. QED
    BY <1>2, <1>3 DEF GoodBook
<1>5. CASE Stored(p, said, unread, purse)
  <2> DEFINE letGo == to = "Off" /\ was # "Off"
  <2>1. Send(p, Reply(was, said), unread, letGo, purse)
    BY <1>5 DEF Stored
  <2>2. letGo \in BOOLEAN
    OBVIOUS
  <2> HIDE DEF letGo, to, was
  <2>3. QED
    BY <1>2, <1>4, <2>1, <2>2, SendKeeps
<1>6. CASE NotStored(p, said, unread, purse)
  <2>1. /\ wire' = unread /\ purse["save"] > 0
        /\ budget' = [purse EXCEPT !["save"] = @ - 1]
        /\ waiting' = waiting /\ link' = link /\ up' = up
    BY <1>6 DEF NotStored
  <2>2. budget' \in [Kinds -> Nat]
    BY <2>1 DEF Kinds
  <2>3. QED
    BY <1>4, <2>1, <2>2
<1>7. QED
  BY <1>5, <1>6

LEMMA SpendKeeps ==
  ASSUME NEW purse \in [Kinds -> Nat], NEW kind \in Kinds, purse[kind] > 0
  PROVE  [purse EXCEPT ![kind] = @ - 1] \in [Kinds -> Nat]
OBVIOUS

\* A frame of the other's, on the connection or from a call.
LEMMA HandleKeeps ==
  ASSUME IInv, NEW p \in Peers, NEW frame \in SaidIn(Other(p), everAsked),
         NEW unread, GoodWire(unread, everAsked), Handle(p, frame, unread)
  PROVE  /\ GoodBook(agreement', everAsked) /\ GoodBook(file', everAsked)
         /\ GoodWire(wire', everAsked) /\ GoodWaiting(waiting', everAsked)
         /\ link' \in [Peers -> LinkStates] /\ up' \in BOOLEAN
         /\ budget' \in [Kinds -> Nat]
<1> USE DEF IInv, Plain, Backed
<1>1. CASE Filed(p) /\ (Stored(p, frame, unread, budget) \/ NotStored(p, frame, unread, budget))
  BY <1>1, StepKeeps
<1>2. CASE ~ Filed(p) /\ wire' = unread
           /\ UNCHANGED <<agreement, file, waiting, link, up, budget>>
  BY <1>2
<1>3. QED
  BY <1>1, <1>2 DEF Handle

-----------------------------------------------------------------------------
LEMMA InitHolds == Init => IInv
<1> SUFFICES ASSUME Init PROVE IInv
  OBVIOUS
<1>1. Plain
  BY PresenceAssumption DEF Init, Plain, LinkStates
<1>2. \A p \in Peers : "Off" \in StandsIn(p, everAsked) /\ "Off" \in Agreement
  BY DEF StandsIn, Agreement
<1>3. GoodBook(agreement, everAsked) /\ GoodBook(file, everAsked)
  BY <1>2 DEF Init, GoodBook
<1>4. GoodWire(wire, everAsked) /\ GoodWire(aside, everAsked)
  BY EmptyIsGood DEF Init, GoodWire
<1>5. GoodWaiting(waiting, everAsked)
  BY EmptyIsGood, PresenceAssumption DEF Init, GoodWaiting
<1>6. QED
  BY <1>1, <1>3, <1>4, <1>5 DEF IInv, Backed

\* A connection opens, whatever it takes with it.
LEMMA ConnectKeeps ==
  ASSUME IInv, NEW p \in Peers, NEW role \in LinkStates,
         NEW frames \in Seq(SaidIn(p, everAsked)),
         NEW purse \in [Kinds -> Nat], Connect(p, role, frames, purse)
  PROVE  /\ GoodWire(wire', everAsked)
         /\ link' \in [Peers -> LinkStates] /\ up' \in BOOLEAN
         /\ budget' \in [Kinds -> Nat]
<1> DEFINE q == Other(p)
<1>1. q \in Peers /\ q # p /\ Other(q) = p
  BY OtherIsOther
<1>2. /\ wire' = [wire EXCEPT ![p] = <<>>, ![q] = frames]
      /\ link' = [link EXCEPT ![p] = role, ![q] = "taken"]
      /\ up' = TRUE
      /\ \/ budget' = purse
         \/ purse["break"] > 0 /\ budget' = [purse EXCEPT !["break"] = @ - 1]
  BY DEF Connect
<1>3. GoodWire([wire EXCEPT ![p] = <<>>], everAsked)
  BY EmptyIsGood, WireExcept DEF IInv, Backed
<1>4. GoodWire([[wire EXCEPT ![p] = <<>>] EXCEPT ![q] = frames], everAsked)
  BY <1>1, <1>3, WireExcept
<1>5. wire' = [[wire EXCEPT ![p] = <<>>] EXCEPT ![q] = frames]
  BY <1>1, <1>2 DEF IInv, Backed, GoodWire
<1>6. "break" \in Kinds
  BY DEF Kinds
<1>7. budget' \in [Kinds -> Nat]
  BY <1>2, <1>6, SpendKeeps
<1>8. link' \in [Peers -> LinkStates]
  BY <1>1, <1>2 DEF IInv, Plain, LinkStates
<1>9. QED
  BY <1>2, <1>4, <1>5, <1>7, <1>8

\* What waited goes out, over a connection that still carries it or not.
LEMMA DrainKeeps ==
  ASSUME IInv, NEW p \in Peers,
         waiting' = [waiting EXCEPT ![p] = <<>>],
         wire' = IF up THEN [wire EXCEPT ![Other(p)] = @ \o waiting[p]] ELSE wire
  PROVE  GoodWire(wire', everAsked) /\ GoodWaiting(waiting', everAsked)
<1> DEFINE q == Other(p)
           all == wire[q] \o waiting[p]
<1>1. q \in Peers /\ Other(q) = p
  BY OtherIsOther
<1>2. wire[q] \in Seq(SaidIn(p, everAsked)) /\ waiting[p] \in Seq(SaidIn(p, everAsked))
  BY <1>1 DEF IInv, Backed, GoodWire, GoodWaiting
<1>3. all \in Seq(SaidIn(Other(q), everAsked))
  BY <1>1, <1>2, ConcatIsGood
<1>4. wire' = wire \/ wire' = [wire EXCEPT ![q] = all]
  OBVIOUS
<1> HIDE DEF all
<1>5. GoodWire([wire EXCEPT ![q] = all], everAsked)
  BY <1>1, <1>3, WireExcept DEF IInv, Backed
<1>6. GoodWire(wire', everAsked)
  BY <1>4, <1>5 DEF IInv, Backed
<1>7. QED
  BY <1>6, WaitingEmptied DEF IInv, Backed

LEMMA StepHolds == IInv /\ [Next]_vars => IInv'
<1> SUFFICES ASSUME IInv, [Next]_vars PROVE IInv'
  OBVIOUS
<1> USE DEF IInv, Plain, Backed
<1>1. CASE UNCHANGED vars
  BY <1>1 DEF vars, GoodBook, GoodWire, GoodWaiting
<1>2. CASE Break
  <2>1. \A p \in Peers : wire'[p] \in Seq(SaidIn(Other(p), everAsked))
    BY <1>2, PrefixIsGood DEF Break, GoodWire
  <2>2. wire' \in [Peers -> Seq(Frames)]
    <3>1. wire' \in [Peers -> UNION {Prefixes(wire[p]) : p \in Peers}]
      BY <1>2 DEF Break
    <3>2. \A p \in Peers : wire'[p] \in Seq(Frames)
      BY <2>1, SaidAreFrames
    <3>3. QED
      BY <3>1, <3>2
  <2>3. GoodWire(wire', everAsked)
    BY <2>1, <2>2 DEF GoodWire
  <2>4. /\ up' = FALSE /\ budget' \in [Kinds -> Nat]
        /\ UNCHANGED <<agreement, file, waiting, link, aside, word, everAsked>>
    BY <1>2, SpendKeeps DEF Break, Strikes, Afford, Spend, Kinds, history
  <2>5. QED
    BY <2>3, <2>4 DEF GoodBook, GoodWire, GoodWaiting
<1>3. ASSUME NEW p \in Peers, Ask(p) \/ Stop(p) PROVE IInv'
  <2> DEFINE said == IF Ask(p) THEN "WeAsk" ELSE "WeStop"
             asked == IF Ask(p) THEN everAsked \cup {p} ELSE everAsked
             kind == IF Ask(p) THEN "ask" ELSE "stop"
  <2>1. /\ Filed(p) /\ aside' = aside /\ everAsked' = asked
        /\ Afford(kind)
        /\ \/ Stored(p, said, wire, Spend(kind))
           \/ NotStored(p, said, wire, Spend(kind))
        /\ word' \in [Peers -> {"nothing", "ask", "stop", "unsure"}]
    BY <1>3 DEF Ask, Stop
  <2>2. Spend(kind) \in [Kinds -> Nat]
    BY <2>1, SpendKeeps DEF Spend, Afford, Kinds
  <2>3. everAsked \subseteq asked /\ asked \subseteq Peers
    OBVIOUS
  <2>4. said = "WeStop" \/ (said = "WeAsk" /\ p \in asked)
    <3>1. CASE Ask(p)
      BY <3>1
    <3>2. CASE ~ Ask(p)
      BY <3>2
    <3>3. QED
      BY <3>1, <3>2
  <2> HIDE DEF said, asked, kind
  <2>5. /\ GoodBook(agreement, asked) /\ GoodBook(file, asked)
        /\ GoodWire(wire, asked) /\ GoodWire(aside, asked)
        /\ GoodWaiting(waiting, asked)
    BY <2>3, MoreAsked
  <2>6. /\ GoodBook(agreement', asked) /\ GoodBook(file', asked)
        /\ GoodWire(wire', asked) /\ GoodWaiting(waiting', asked)
        /\ link' \in [Peers -> LinkStates] /\ up' \in BOOLEAN
        /\ budget' \in [Kinds -> Nat]
    BY <2>1, <2>2, <2>4, <2>5, StepKeeps
  <2>7. QED
    BY <2>1, <2>3, <2>5, <2>6 DEF GoodBook, GoodWire, GoodWaiting
<1>4. ASSUME NEW p \in Peers, Forget(p) PROVE IInv'
  <2>1. /\ agreement' = [agreement EXCEPT ![p] = NoContact]
        /\ file' \in {file, [file EXCEPT ![p] = NoContact]}
        /\ word' \in [Peers -> {"nothing", "ask", "stop", "unsure"}]
        /\ aside' = aside /\ everAsked' = everAsked
        /\ Afford("forget")
    BY <1>4 DEF Forget
  <2>2. NoContact \in StandsIn(p, everAsked)
    BY DEF StandsIn, NoContact
  <2>3. GoodBook(agreement', everAsked) /\ GoodBook(file', everAsked)
    BY <2>1, <2>2 DEF GoodBook
  <2>4. Spend("forget") \in [Kinds -> Nat]
    BY <2>1, SpendKeeps DEF Spend, Afford, Kinds
  <2>5. /\ GoodWire(wire', everAsked) /\ GoodWaiting(waiting', everAsked)
        /\ link' \in [Peers -> LinkStates] /\ up' \in BOOLEAN
        /\ budget' \in [Kinds -> Nat]
    <3>1. CASE Send(p, <<>>, wire, TRUE, Spend("forget"))
      BY <2>4, <3>1, EmptyIsGood, SendKeeps
    <3>2. CASE /\ Afford("save")
               /\ budget' = [Spend("forget") EXCEPT !["save"] = @ - 1]
               /\ UNCHANGED <<waiting, link, up, wire>>
      <4>1. Spend("forget")["save"] > 0
        BY <3>2 DEF Spend, Afford, Kinds
      <4>2. budget' \in [Kinds -> Nat]
        BY <2>4, <3>2, <4>1, SpendKeeps DEF Kinds
      <4>3. QED
        BY <3>2, <4>2
    <3>3. QED
      BY <1>4, <3>1, <3>2 DEF Forget
  <2>6. QED
    BY <2>1, <2>3, <2>5 DEF GoodBook, GoodWire, GoodWaiting
<1>5. ASSUME NEW p \in Peers, Add(p) PROVE IInv'
  <2>1. "Off" \in StandsIn(p, everAsked)
    BY DEF StandsIn, Agreement
  <2>2. GoodBook(agreement', everAsked) /\ GoodBook(file', everAsked)
    <3>1. /\ agreement' = [agreement EXCEPT ![p] = "Off"]
          /\ file' = file \/ file' = [file EXCEPT ![p] = "Off"]
      BY <1>5 DEF Add
    <3>2. QED
      BY <2>1, <3>1 DEF GoodBook, Agreement
  <2>3. budget' \in [Kinds -> Nat]
    BY <1>5, SpendKeeps DEF Add, Strikes, Afford, Spend, Kinds
  <2>4. /\ word' \in [Peers -> {"nothing", "ask", "stop", "unsure"}]
        /\ UNCHANGED <<waiting, link, up, wire, aside, everAsked>>
    BY <1>5 DEF Add, connection
  <2>5. QED
    BY <2>2, <2>3, <2>4 DEF GoodBook, GoodWire, GoodWaiting
<1>6. ASSUME NEW p \in Peers, Hear(p) PROVE IInv'
  <2> DEFINE unread == [wire EXCEPT ![p] = Tail(@)]
             frame == Head(wire[p])
  <2>1. wire[p] # <<>> /\ wire[p] \in Seq(SaidIn(Other(p), everAsked))
    BY <1>6 DEF Hear, GoodWire
  <2>2. frame \in SaidIn(Other(p), everAsked)
        /\ Tail(wire[p]) \in Seq(SaidIn(Other(p), everAsked))
    BY <2>1, TailIsGood
  <2>3. GoodWire(unread, everAsked)
    BY <2>2, WireExcept
  <2>4. /\ Handle(p, frame, unread)
        /\ UNCHANGED <<aside, word, everAsked>>
    BY <1>6 DEF Hear, history
  <2> HIDE DEF unread, frame
  <2>5. /\ GoodBook(agreement', everAsked) /\ GoodBook(file', everAsked)
        /\ GoodWire(wire', everAsked) /\ GoodWaiting(waiting', everAsked)
        /\ link' \in [Peers -> LinkStates] /\ up' \in BOOLEAN
        /\ budget' \in [Kinds -> Nat]
    BY <2>2, <2>3, <2>4, HandleKeeps
  <2>6. QED
    BY <2>4, <2>5 DEF GoodBook, GoodWire, GoodWaiting
<1>7. ASSUME NEW p \in Peers, HandOver(p) PROVE IInv'
  <2>1. wire[p] # <<>> /\ wire[p] \in Seq(SaidIn(Other(p), everAsked))
    BY <1>7 DEF HandOver, GoodWire
  <2>2. /\ Head(wire[p]) \in SaidIn(Other(p), everAsked)
        /\ Tail(wire[p]) \in Seq(SaidIn(Other(p), everAsked))
    BY <2>1, TailIsGood
  <2>3. GoodWire([wire EXCEPT ![p] = Tail(@)], everAsked)
    BY <2>2, WireExcept
  <2>4. Append(aside[p], Head(wire[p])) \in Seq(SaidIn(Other(p), everAsked))
    BY <2>2, AppendProperties DEF GoodWire
  <2>5. GoodWire([aside EXCEPT ![p] = Append(@, Head(wire[p]))], everAsked)
    BY <2>4, WireExcept
  <2>6. GoodWire(wire', everAsked) /\ GoodWire(aside', everAsked)
    BY <1>7, <2>3, <2>5 DEF HandOver
  <2>7. UNCHANGED <<agreement, file, waiting, link, up, budget, word, everAsked>>
    BY <1>7 DEF HandOver, history
  <2>8. QED
    BY <2>6, <2>7 DEF GoodBook, GoodWire, GoodWaiting
<1>8. ASSUME NEW p \in Peers, HearAside(p) PROVE IInv'
  <2> DEFINE frame == Head(aside[p])
  <2>1. aside[p] # <<>> /\ aside[p] \in Seq(SaidIn(Other(p), everAsked))
    BY <1>8 DEF HearAside, GoodWire
  <2>2. frame \in SaidIn(Other(p), everAsked)
        /\ Tail(aside[p]) \in Seq(SaidIn(Other(p), everAsked))
    BY <2>1, TailIsGood
  <2>3. GoodWire([aside EXCEPT ![p] = Tail(@)], everAsked)
    BY <2>2, WireExcept
  <2>4. /\ Handle(p, frame, wire)
        /\ aside' = [aside EXCEPT ![p] = Tail(@)]
        /\ UNCHANGED <<word, everAsked>>
    BY <1>8 DEF HearAside, history
  <2> HIDE DEF frame
  <2>5. /\ GoodBook(agreement', everAsked) /\ GoodBook(file', everAsked)
        /\ GoodWire(wire', everAsked) /\ GoodWaiting(waiting', everAsked)
        /\ link' \in [Peers -> LinkStates] /\ up' \in BOOLEAN
        /\ budget' \in [Kinds -> Nat]
    BY <2>2, <2>4, HandleKeeps
  <2>6. GoodWire(aside', everAsked)
    BY <2>3, <2>4
  <2>7. QED
    BY <2>4, <2>5, <2>6 DEF GoodBook, GoodWire, GoodWaiting
<1>9. ASSUME NEW p \in Peers, Reach(p) \/ CallDials(p) PROVE IInv'
  <2>1. \E role \in LinkStates, frames \in Seq(SaidIn(p, everAsked)),
           purse \in [Kinds -> Nat] : Connect(p, role, frames, purse)
    <3>1. CASE Reach(p)
      <4>1. Connect(p, "dialled", <<>>, budget)
        BY <3>1 DEF Reach
      <4>2. QED
        BY <4>1, EmptyIsGood DEF LinkStates
    <3>2. CASE CallDials(p)
      <4>1. Connect(p, "lent", waiting[p], Spend("call")) /\ Afford("call")
        BY <3>2 DEF CallDials
      <4>2. Spend("call") \in [Kinds -> Nat]
        BY <4>1, SpendKeeps DEF Spend, Afford, Kinds
      <4>3. waiting[p] \in Seq(SaidIn(p, everAsked))
        BY DEF GoodWaiting
      <4>4. QED
        BY <4>1, <4>2, <4>3 DEF LinkStates
    <3>3. QED
      BY <1>9, <3>1, <3>2
  <2>2. /\ GoodWire(wire', everAsked)
        /\ link' \in [Peers -> LinkStates] /\ up' \in BOOLEAN
        /\ budget' \in [Kinds -> Nat]
    BY <2>1, ConnectKeeps
  <2>3. GoodWaiting(waiting', everAsked)
    <3>1. waiting' = waiting \/ waiting' = [waiting EXCEPT ![p] = <<>>]
      BY <1>9 DEF Reach, CallDials
    <3>2. QED
      BY <3>1, WaitingEmptied
  <2>4. UNCHANGED <<agreement, file, aside, word, everAsked>>
    BY <1>9 DEF Reach, CallDials, Connect, history
  <2>5. QED
    BY <2>2, <2>3, <2>4 DEF GoodBook, GoodWire, GoodWaiting
<1>10. ASSUME NEW p \in Peers, Keep(p) \/ GiveBack(p) PROVE IInv'
  <2>1. link' \in [Peers -> LinkStates]
    BY <1>10 DEF Keep, GiveBack, LinkStates
  <2>2. UNCHANGED <<agreement, file, up, aside, budget, word, everAsked>>
    BY <1>10 DEF Keep, GiveBack, history
  <2>3. \/ /\ waiting' = [waiting EXCEPT ![p] = <<>>]
           /\ wire' = IF up THEN [wire EXCEPT ![Other(p)] = @ \o waiting[p]] ELSE wire
        \/ waiting' = waiting /\ wire' = wire
    BY <1>10 DEF Keep, GiveBack
  <2>4. GoodWire(wire', everAsked) /\ GoodWaiting(waiting', everAsked)
    BY <2>3, DrainKeeps
  <2>5. QED
    BY <2>1, <2>2, <2>4 DEF GoodBook, GoodWire, GoodWaiting
<1>11. ASSUME NEW p \in Peers, Refuse(p) \/ Lend(p) \/ Notice(p) PROVE IInv'
  <2>1. link' \in [Peers -> LinkStates] /\ up' \in BOOLEAN
    BY <1>11 DEF Refuse, Lend, Notice, LinkStates
  <2>2. budget' \in [Kinds -> Nat]
    BY <1>11, SpendKeeps DEF Refuse, Lend, Notice, Strikes, Afford, Spend, Kinds
  <2>3. wire' = wire \/ wire' = [wire EXCEPT ![p] = <<>>]
    BY <1>11 DEF Refuse, Lend, Notice
  <2>4. GoodWire(wire', everAsked)
    <3>1. GoodWire([wire EXCEPT ![p] = <<>>], everAsked)
      BY EmptyIsGood, WireExcept
    <3>2. QED
      BY <2>3, <3>1
  <2>5. UNCHANGED <<agreement, file, waiting, aside, word, everAsked>>
    BY <1>11 DEF Refuse, Lend, Notice, history
  <2>6. QED
    BY <2>1, <2>2, <2>4, <2>5 DEF GoodBook, GoodWire, GoodWaiting
<1>12. ASSUME NEW p \in Peers, Restart(p) PROVE IInv'
  <2>1. /\ agreement' = [agreement EXCEPT ![p] = file[p]]
        /\ waiting' = [waiting EXCEPT ![p] = <<>>]
        /\ aside' = [aside EXCEPT ![p] = <<>>]
        /\ link' \in [Peers -> LinkStates] /\ up' \in BOOLEAN
        /\ UNCHANGED <<file, word, everAsked>>
    BY <1>12 DEF Restart, history, LinkStates
  <2>2. budget' \in [Kinds -> Nat]
    BY <1>12, SpendKeeps DEF Restart, Strikes, Afford, Spend, Kinds
  <2>3. PICK some \in Prefixes(wire[Other(p)]) :
          wire' = [wire EXCEPT ![p] = <<>>, ![Other(p)] = some]
    BY <1>12 DEF Restart
  <2>4. Other(p) \in Peers /\ Other(p) # p
    BY OtherIsOther
  <2>5. some \in Seq(SaidIn(Other(Other(p)), everAsked))
    BY <2>4, PrefixIsGood DEF GoodWire
  <2>6. GoodWire([wire EXCEPT ![p] = <<>>], everAsked)
    BY EmptyIsGood, WireExcept
  <2>7. GoodWire([[wire EXCEPT ![p] = <<>>] EXCEPT ![Other(p)] = some], everAsked)
    BY <2>4, <2>5, <2>6, WireExcept
  <2>8. wire' = [[wire EXCEPT ![p] = <<>>] EXCEPT ![Other(p)] = some]
    BY <2>3, <2>4 DEF GoodWire
  <2>9. GoodWire(wire', everAsked)
    BY <2>7, <2>8
  <2>10. GoodWire(aside', everAsked)
    BY <2>1, EmptyIsGood, WireExcept
  <2>11. GoodWaiting(waiting', everAsked)
    BY <2>1, WaitingEmptied
  <2>12. GoodBook(agreement', everAsked)
    BY <2>1 DEF GoodBook
  <2>13. QED
    BY <2>1, <2>2, <2>9, <2>10, <2>11, <2>12 DEF GoodBook, GoodWire, GoodWaiting
<1>13. QED
  BY <1>1, <1>2, <1>3, <1>4, <1>5, <1>6, <1>7, <1>8, <1>9, <1>10, <1>11, <1>12
  DEF Next

-----------------------------------------------------------------------------
LEMMA InvariantHolds == Spec => []IInv
<1>1. QED
  BY InitHolds, StepHolds, PTL DEF Spec

\* The state keeps its type, and no peer holds back more than WAITING frames.
THEOREM PresenceTypeCorrect == Spec => []TypeOK
<1>1. IInv => TypeOK
  BY SaidAreFrames DEF IInv, Plain, Backed, GoodBook, GoodWire, GoodWaiting, TypeOK
<1>2. QED
  BY <1>1, InvariantHolds, PTL

\* Consent is mutual whatever goes wrong: an agreement one side holds, in
\* memory or on disk, was once asked for by both (Presence::step in
\* contacts.rs, presence in main.rs).
THEOREM ConsentIsMutual == Spec => []NeverAlone
<1>1. IInv => NeverAlone
  BY DEF IInv, Backed, GoodBook, StandsIn, NeverAlone
<1>2. QED
  BY <1>1, InvariantHolds, PTL
-----------------------------------------------------------------------------
(***************************************************************************)
(* What has not happened yet.                                              *)
(***************************************************************************)

\* No more happens than the bound lets.
Bounded == \A kind \in Kinds : budget[kind] <= Budget[kind]

\* What a frame sent may cost: a broken connection.
LEMMA SendSpends ==
  ASSUME NEW p, NEW frames, NEW unread, NEW letGo, NEW purse \in [Kinds -> Nat],
         Send(p, frames, unread, letGo, purse)
  PROVE  \A kind \in Kinds : budget'[kind] <= purse[kind]
<1>1. \/ budget' = purse
      \/ budget' = [purse EXCEPT !["break"] = @ - 1]
  BY DEF Send
<1>2. CASE budget' = purse
  BY <1>2
<1>3. CASE budget' = [purse EXCEPT !["break"] = @ - 1]
  BY <1>3
<1>4. QED
  BY <1>1, <1>2, <1>3

LEMMA StoredSpends ==
  ASSUME NEW p, NEW said, NEW unread, NEW purse \in [Kinds -> Nat],
         Stored(p, said, unread, purse) \/ NotStored(p, said, unread, purse)
  PROVE  /\ \A kind \in Kinds : budget'[kind] <= purse[kind]
         /\ NotStored(p, said, unread, purse) => budget'["save"] < purse["save"]
<1>1. ASSUME Stored(p, said, unread, purse)
      PROVE  \A kind \in Kinds : budget'[kind] <= purse[kind]
  BY <1>1, SendSpends DEF Stored
<1>2. ASSUME NotStored(p, said, unread, purse)
      PROVE  /\ \A kind \in Kinds : budget'[kind] <= purse[kind]
             /\ budget'["save"] < purse["save"]
  <2>1. budget' = [purse EXCEPT !["save"] = @ - 1]
    BY <1>2 DEF NotStored
  <2>2. QED
    BY <2>1 DEF Kinds
<1>3. NotStored(p, said, unread, purse) => budget'["save"] < purse["save"]
  BY <1>2
<1>4. QED
  BY <1>1, <1>2, <1>3

LEMMA ConnectSpends ==
  ASSUME NEW p, NEW role, NEW frames, NEW purse \in [Kinds -> Nat],
         Connect(p, role, frames, purse)
  PROVE  \A kind \in Kinds : budget'[kind] <= purse[kind]
<1>1. \/ budget' = purse
      \/ budget' = [purse EXCEPT !["break"] = @ - 1]
  BY DEF Connect
<1>2. CASE budget' = purse
  BY <1>2
<1>3. CASE budget' = [purse EXCEPT !["break"] = @ - 1]
  BY <1>3
<1>4. QED
  BY <1>1, <1>2, <1>3

LEMMA SpendsOne ==
  ASSUME budget \in [Kinds -> Nat], NEW kind \in Kinds, Afford(kind)
  PROVE  /\ Spend(kind) \in [Kinds -> Nat]
         /\ \A k \in Kinds : Spend(kind)[k] <= budget[k]
         /\ Spend(kind)[kind] < budget[kind]
<1>1. Spend(kind) = [budget EXCEPT ![kind] = @ - 1] /\ budget[kind] \in Nat \ {0}
  BY DEF Spend, Afford
<1>2. \A k \in Kinds : Spend(kind)[k] = IF k = kind THEN budget[k] - 1 ELSE budget[k]
  BY <1>1
<1>3. Spend(kind) \in [Kinds -> Nat]
  BY <1>1
<1>4. QED
  BY <1>1, <1>2, <1>3

\* What each step uses up.
LEMMA NeverRefunded ==
  ASSUME IInv, [Next]_vars
  PROVE  /\ \A kind \in Kinds : budget'[kind] <= budget[kind]
         /\ Break => budget'["break"] < budget["break"]
         /\ \A p \in Peers :
              /\ Stop(p) => budget'["stop"] < budget["stop"]
              /\ Forget(p) => budget'["forget"] < budget["forget"]
              /\ Restart(p) => budget'["crash"] < budget["crash"]
              /\ Lend(p) \/ CallDials(p) => budget'["call"] < budget["call"]
<1> DEFINE Falls == \A kind \in Kinds : budget'[kind] <= budget[kind]
<1>1. {"ask", "stop", "call", "break", "crash", "save", "forget"} = Kinds
  BY DEF Kinds
<1>2. budget \in [Kinds -> Nat] /\ budget' \in [Kinds -> Nat]
  BY StepHolds DEF IInv, Plain
<1>3. ASSUME NEW kind \in Kinds, Afford(kind),
             \A k \in Kinds : budget'[k] <= Spend(kind)[k]
      PROVE  Falls /\ budget'[kind] < budget[kind]
  <2>1. /\ Spend(kind) \in [Kinds -> Nat]
        /\ \A k \in Kinds : Spend(kind)[k] <= budget[k]
        /\ Spend(kind)[kind] < budget[kind]
    BY <1>2, <1>3, SpendsOne
  <2>2. \A k \in Kinds : budget'[k] \in Nat /\ Spend(kind)[k] \in Nat /\ budget[k] \in Nat
    BY <1>2, <2>1
  <2>3. QED
    BY <1>3, <2>1, <2>2
<1>4. \A kind \in Kinds : Strikes(kind) => Falls /\ budget'[kind] < budget[kind]
  BY <1>2, SpendsOne DEF Strikes
<1>5. UNCHANGED budget => Falls
  BY <1>2
<1>6. ASSUME Break PROVE Falls /\ budget'["break"] < budget["break"]
  <2>1. Strikes("break")
    BY <1>6 DEF Break
  <2>2. QED
    BY <1>1, <1>4, <2>1
<1>7. ASSUME NEW p \in Peers, Ask(p) PROVE Falls
  <2>1. /\ Afford("ask")
        /\ \/ Stored(p, "WeAsk", wire, Spend("ask"))
           \/ NotStored(p, "WeAsk", wire, Spend("ask"))
    BY <1>7 DEF Ask
  <2>2. \A k \in Kinds : budget'[k] <= Spend("ask")[k]
    BY <1>2, <1>1, <2>1, SpendsOne, StoredSpends
  <2>3. QED
    BY <1>1, <1>3, <2>1, <2>2
<1>8. ASSUME NEW p \in Peers, Stop(p) PROVE Falls /\ budget'["stop"] < budget["stop"]
  <2>1. /\ Afford("stop")
        /\ \/ Stored(p, "WeStop", wire, Spend("stop"))
           \/ NotStored(p, "WeStop", wire, Spend("stop"))
    BY <1>8 DEF Stop
  <2>2. \A k \in Kinds : budget'[k] <= Spend("stop")[k]
    BY <1>2, <1>1, <2>1, SpendsOne, StoredSpends
  <2>3. QED
    BY <1>1, <1>3, <2>1, <2>2
<1>9. ASSUME NEW p \in Peers, Forget(p) PROVE Falls /\ budget'["forget"] < budget["forget"]
  <2>1. /\ Afford("forget")
        /\ \/ Send(p, <<>>, wire, TRUE, Spend("forget"))
           \/ budget' = [Spend("forget") EXCEPT !["save"] = @ - 1]
    BY <1>9 DEF Forget
  <2>2. Spend("forget") \in [Kinds -> Nat]
    BY <1>2, <1>1, <2>1, SpendsOne
  <2>3. \A k \in Kinds : budget'[k] <= Spend("forget")[k]
    <3>1. CASE Send(p, <<>>, wire, TRUE, Spend("forget"))
      BY <2>2, <3>1, SendSpends
    <3>2. CASE budget' = [Spend("forget") EXCEPT !["save"] = @ - 1]
      BY <2>2, <3>2
    <3>3. QED
      BY <2>1, <3>1, <3>2
  <2>4. QED
    BY <1>1, <1>3, <2>1, <2>3
<1>10. ASSUME NEW p \in Peers, Add(p) PROVE Falls
  <2>1. UNCHANGED budget \/ Strikes("save")
    BY <1>10 DEF Add
  <2>2. QED
    BY <1>1, <1>4, <1>5, <2>1
<1>11. ASSUME NEW p \in Peers, Hear(p) \/ HearAside(p) PROVE Falls
  <2>1. \E frame, unread : Handle(p, frame, unread)
    BY <1>11 DEF Hear, HearAside
  <2>2. UNCHANGED budget \/
        \E frame, unread : \/ Stored(p, frame, unread, budget)
                           \/ NotStored(p, frame, unread, budget)
    BY <2>1 DEF Handle
  <2>3. QED
    BY <1>2, <1>5, <2>2, StoredSpends
<1>12. ASSUME NEW p \in Peers, HandOver(p) \/ Keep(p) \/ Refuse(p) \/ GiveBack(p) \/ Notice(p)
       PROVE  Falls
  BY <1>5, <1>12 DEF HandOver, Keep, Refuse, GiveBack, Notice
<1>13. ASSUME NEW p \in Peers, Reach(p) PROVE Falls
  BY <1>2, <1>13, ConnectSpends DEF Reach
<1>14. ASSUME NEW p \in Peers, CallDials(p) PROVE Falls /\ budget'["call"] < budget["call"]
  <2>1. Afford("call") /\ Connect(p, "lent", waiting[p], Spend("call"))
    BY <1>14 DEF CallDials
  <2>2. \A k \in Kinds : budget'[k] <= Spend("call")[k]
    BY <1>2, <1>1, <2>1, SpendsOne, ConnectSpends
  <2>3. QED
    BY <1>1, <1>3, <2>1, <2>2
<1>15. ASSUME NEW p \in Peers, Lend(p) PROVE Falls /\ budget'["call"] < budget["call"]
  <2>1. Strikes("call")
    BY <1>15 DEF Lend
  <2>2. QED
    BY <1>1, <1>4, <2>1
<1>16. ASSUME NEW p \in Peers, Restart(p) PROVE Falls /\ budget'["crash"] < budget["crash"]
  <2>1. Strikes("crash")
    BY <1>16 DEF Restart
  <2>2. QED
    BY <1>1, <1>4, <2>1
<1>17. Falls
  <2>1. CASE UNCHANGED vars
    BY <1>5, <2>1 DEF vars
  <2>2. CASE Next
    BY <1>6, <1>7, <1>8, <1>9, <1>10, <1>11, <1>12, <1>13, <1>14, <1>15, <1>16, <2>2 DEF Next
  <2>3. QED
    BY <2>1, <2>2
<1>18. QED
  BY <1>6, <1>8, <1>9, <1>14, <1>15, <1>16, <1>17

\* What has not happened by the end of a step had not happened before it.
LEMMA StillUnstruck ==
  ASSUME IInv, Bounded, [Next]_vars
  PROVE  /\ Bounded'
         /\ \A kind \in Kinds : Unstruck(kind)' => /\ Unstruck(kind)
                                                   /\ ~ budget'[kind] < budget[kind]
<1>1. budget \in [Kinds -> Nat] /\ budget' \in [Kinds -> Nat]
  BY StepHolds DEF IInv, Plain
<1>2. Budget \in [Kinds -> Nat]
  BY PresenceAssumption
<1>3. \A kind \in Kinds : budget'[kind] <= budget[kind]
  BY <1>1, NeverRefunded
<1>4. \A kind \in Kinds : budget[kind] <= Budget[kind]
  BY DEF Bounded
<1>5. \A kind \in Kinds :
        /\ budget[kind] \in Nat /\ budget'[kind] \in Nat /\ Budget[kind] \in Nat
        /\ budget'[kind] <= budget[kind] /\ budget[kind] <= Budget[kind]
  BY <1>1, <1>2, <1>3, <1>4
<1>6. \A kind \in Kinds : budget'[kind] <= Budget[kind]
  BY <1>5
<1>7. \A kind \in Kinds : budget'[kind] = Budget[kind] =>
        budget[kind] = Budget[kind] /\ ~ budget'[kind] < budget[kind]
  BY <1>5
<1>8. QED
  BY <1>6, <1>7 DEF Bounded, Unstruck

-----------------------------------------------------------------------------
(***************************************************************************)
(* A dial lands under an agreement.                                        *)
(***************************************************************************)

\* Frames that end nothing.
Requests == {"Ask", "Yes"}
Channel(S) == [Peers -> Seq(S)]

\* Nothing that ends an agreement is on its way,
NoneEnds ==
  /\ wire \in Channel(Requests) /\ aside \in Channel(Requests)
  /\ waiting \in Channel(Requests)

\* and whoever's dial has landed is agreed.
DialledIfAgreed == \A p \in Peers : link[p] = "dialled" => agreement[p] = "On"

NoneTakenBack == Unstruck("stop") /\ Unstruck("forget")

DialInv == Bounded /\ (NoneTakenBack => NoneEnds /\ DialledIfAgreed)

LEMMA ChannelExcept ==
  ASSUME NEW S, NEW w \in Channel(S), NEW p, NEW s \in Seq(S)
  PROVE  [w EXCEPT ![p] = s] \in Channel(S)
BY DEF Channel

LEMMA ChannelTail ==
  ASSUME NEW S, NEW w \in Channel(S), NEW p \in Peers, w[p] # <<>>
  PROVE  /\ Head(w[p]) \in S /\ Tail(w[p]) \in Seq(S)
         /\ [w EXCEPT ![p] = Tail(@)] \in Channel(S)
<1>1. w[p] \in Seq(S)
  BY DEF Channel
<1>2. Head(w[p]) \in S /\ Tail(w[p]) \in Seq(S)
  BY <1>1, TailIsGood
<1>3. QED
  BY <1>2, ChannelExcept

LEMMA ChannelConcat ==
  ASSUME NEW S, NEW w \in Channel(S), NEW p \in Peers, NEW s \in Seq(S)
  PROVE  [w EXCEPT ![p] = @ \o s] \in Channel(S)
<1>1. w[p] \o s \in Seq(S)
  BY ConcatIsGood DEF Channel
<1>2. QED
  BY <1>1, ChannelExcept

\* Whatever becomes of what p sends, no other frames come of it.
LEMMA SendCarries ==
  ASSUME NEW S, NEW p \in Peers, NEW frames \in Seq(S), NEW unread \in Channel(S),
         NEW letGo \in BOOLEAN, NEW purse, waiting \in Channel(S),
         Send(p, frames, unread, letGo, purse)
  PROVE  wire' \in Channel(S) /\ waiting' \in Channel(S)
<1> DEFINE closes == letGo /\ link[p] = "idle"
           left == [unread EXCEPT ![p] = IF closes THEN <<>> ELSE @]
           Kept(w) == IF letGo THEN [w EXCEPT ![p] = <<>>] ELSE w
<1>1. left \in Channel(S)
  BY EmptyIsGood DEF Channel
<1>2. [left EXCEPT ![Other(p)] = @ \o frames] \in Channel(S)
  <2> HIDE DEF left
  <2>1. QED
    BY <1>1, OtherIsOther, ChannelConcat
<1>3. wire' \in {left, [left EXCEPT ![Other(p)] = @ \o frames]}
  BY DEF Send
<1>4. waiting' \in {Kept(waiting), Kept(Held(p, frames))}
  BY DEF Send
<1>5. Held(p, frames) \in Channel(S)
  <2>1. waiting[p] \in Seq(S) /\ waiting[p] \o frames \in Seq(S)
    BY ConcatIsGood DEF Channel
  <2>2. \/ Held(p, frames) = [waiting EXCEPT ![p] = waiting[p] \o frames]
        \/ Held(p, frames) = [waiting EXCEPT ![p] = waiting[p]]
    BY DEF Held
  <2> DEFINE all == waiting[p] \o frames
  <2> HIDE DEF all
  <2>3. all \in Seq(S) /\ (Held(p, frames) = [waiting EXCEPT ![p] = all]
                           \/ Held(p, frames) = [waiting EXCEPT ![p] = waiting[p]])
    BY <2>1, <2>2 DEF all
  <2>4. QED
    BY <2>1, <2>3 DEF Channel
<1>6. \A w \in Channel(S) : Kept(w) \in Channel(S)
  BY EmptyIsGood, ChannelExcept
<1> HIDE DEF left, Kept
<1>7. QED
  BY <1>1, <1>2, <1>3, <1>4, <1>5, <1>6

\* Asking, or hearing an answer, ends nothing.
LEMMA RequestsOnly ==
  ASSUME NEW was \in Agreement, NEW said \in Requests \cup {"WeAsk"}
  PROVE  /\ To(was, said) \in Agreement \ {"Off"} \/ (was = "Off" /\ said = "Yes")
         /\ was = "On" => To(was, said) = "On"
         /\ Reply(was, said) \in Seq(Requests)
<1>1. /\ To(was, said) \in Agreement \ {"Off"} \/ (was = "Off" /\ said = "Yes")
      /\ was = "On" => To(was, said) = "On"
  BY DEF To, Agreement, Requests
<1>2. Reply(was, said) \in {<<>>, <<"Ask">>, <<"Yes">>}
  BY DEF Reply, Agreement, Requests
<1>3. \A x \in Requests : <<x>> \in Seq(Requests)
  OBVIOUS
<1>4. Reply(was, said) \in Seq(Requests)
  BY <1>2, <1>3, EmptyIsGood DEF Requests
<1>5. QED
  BY <1>1, <1>4

\* What p types or hears, written down or not: its connection stays what it
\* is, and an agreement it holds stands.
LEMMA RequestKept ==
  ASSUME IInv, NEW p \in Peers, Filed(p), NEW said \in Requests \cup {"WeAsk"},
         NEW unread \in Channel(Requests), waiting \in Channel(Requests), NEW purse,
         Stored(p, said, unread, purse) \/ NotStored(p, said, unread, purse)
  PROVE  /\ wire' \in Channel(Requests) /\ waiting' \in Channel(Requests)
         /\ link' = link
         /\ \A x \in Peers : agreement[x] = "On" => agreement'[x] = "On"
<1> DEFINE was == PresenceOf(p)
           to == To(was, said)
           letGo == to = "Off" /\ was # "Off"
<1>1. was = agreement[p] /\ was \in Agreement
  BY DEF PresenceOf, Filed, IInv, Backed, GoodBook
<1>2. /\ to # "Off" \/ was = "Off"
      /\ was = "On" => to = "On"
      /\ Reply(was, said) \in Seq(Requests)
  BY <1>1, RequestsOnly
<1>3. agreement' = [agreement EXCEPT ![p] = to]
  BY DEF Stored, NotStored
<1> HIDE DEF was, to
<1>4. \A x \in Peers : agreement[x] = "On" => agreement'[x] = "On"
  BY <1>1, <1>2, <1>3 DEF IInv, Backed, GoodBook
<1>5. CASE Stored(p, said, unread, purse)
  <2>1. Send(p, Reply(was, said), unread, letGo, purse)
    BY <1>5 DEF Stored, was, to
  <2>2. letGo = FALSE
    BY <1>2
  <2> HIDE DEF letGo
  <2>3. wire' \in Channel(Requests) /\ waiting' \in Channel(Requests)
    BY <1>2, <2>1, <2>2, SendCarries
  <2>4. link' = link
    BY <2>1, <2>2 DEF Send
  <2>5. QED
    BY <1>4, <2>3, <2>4
<1>6. CASE NotStored(p, said, unread, purse)
  BY <1>4, <1>6 DEF NotStored
<1>7. QED
  BY <1>5, <1>6

\* The same of a frame handled, whoever it is from.
LEMMA RequestHandled ==
  ASSUME IInv, NEW p \in Peers, NEW frame \in Requests,
         NEW unread \in Channel(Requests), waiting \in Channel(Requests),
         Handle(p, frame, unread)
  PROVE  /\ wire' \in Channel(Requests) /\ waiting' \in Channel(Requests)
         /\ link' = link
         /\ \A x \in Peers : agreement[x] = "On" => agreement'[x] = "On"
<1>1. CASE Filed(p) /\ (Stored(p, frame, unread, budget) \/ NotStored(p, frame, unread, budget))
  BY <1>1, RequestKept
<1>2. CASE ~ Filed(p) /\ wire' = unread
           /\ UNCHANGED <<agreement, file, waiting, link, up, budget>>
  BY <1>2
<1>3. QED
  BY <1>1, <1>2 DEF Handle

LEMMA PrefixCarries ==
  ASSUME NEW S, NEW w \in Channel(S), NEW p \in Peers, NEW s \in Prefixes(w[p])
  PROVE  s \in Seq(S)
BY PrefixIsGood DEF Channel

LEMMA DialStep == IInv /\ DialInv /\ [Next]_vars => DialInv'
<1> SUFFICES ASSUME IInv, DialInv, [Next]_vars, NoneTakenBack'
             PROVE  NoneEnds' /\ DialledIfAgreed'
  BY StillUnstruck DEF DialInv
<1> USE DEF NoneEnds, DialledIfAgreed
<1>1. {"stop", "forget"} \subseteq Kinds
  BY DEF Kinds
<1>2. /\ NoneEnds /\ DialledIfAgreed
      /\ \A p \in Peers : ~ Stop(p) /\ ~ Forget(p)
  <2>1. NoneTakenBack /\ ~ budget'["stop"] < budget["stop"]
        /\ ~ budget'["forget"] < budget["forget"]
    BY <1>1, StillUnstruck DEF NoneTakenBack, DialInv
  <2>2. QED
    BY <2>1, NeverRefunded DEF DialInv
<1>3. CASE UNCHANGED vars
  BY <1>2, <1>3 DEF vars
<1>4. CASE Break
  <2>1. wire' \in Channel(Requests)
    <3>1. wire' \in [Peers -> UNION {Prefixes(wire[p]) : p \in Peers}]
          /\ \A p \in Peers : wire'[p] \in Prefixes(wire[p])
      BY <1>4 DEF Break
    <3>2. \A p \in Peers : wire'[p] \in Seq(Requests)
      BY <1>2, <3>1, PrefixCarries
    <3>3. QED
      BY <3>1, <3>2 DEF Channel
  <2>2. QED
    BY <1>2, <1>4, <2>1 DEF Break
<1>5. ASSUME NEW p \in Peers, Ask(p) PROVE NoneEnds' /\ DialledIfAgreed'
  <2>1. /\ Filed(p) /\ aside' = aside
        /\ \/ Stored(p, "WeAsk", wire, Spend("ask"))
           \/ NotStored(p, "WeAsk", wire, Spend("ask"))
    BY <1>5 DEF Ask
  <2>2. /\ wire' \in Channel(Requests) /\ waiting' \in Channel(Requests)
        /\ link' = link
        /\ \A x \in Peers : agreement[x] = "On" => agreement'[x] = "On"
    BY <1>2, <2>1, RequestKept
  <2>3. QED
    BY <1>2, <2>1, <2>2
<1>6. ASSUME NEW p \in Peers, Add(p) PROVE NoneEnds' /\ DialledIfAgreed'
  <2>1. /\ UNCHANGED <<waiting, link, wire, aside>>
        /\ agreement[p] # "On" /\ agreement' = [agreement EXCEPT ![p] = "Off"]
    BY <1>6 DEF Add, connection, Filed, NoContact
  <2>2. \A x \in Peers : agreement[x] = "On" => agreement'[x] = "On"
    BY <2>1 DEF IInv, Backed, GoodBook
  <2>3. QED
    BY <1>2, <2>1, <2>2
<1>7. ASSUME NEW p \in Peers, Hear(p) PROVE NoneEnds' /\ DialledIfAgreed'
  <2>1. /\ wire[p] # <<>> /\ aside' = aside
        /\ Handle(p, Head(wire[p]), [wire EXCEPT ![p] = Tail(@)])
    BY <1>7 DEF Hear
  <2>2. Head(wire[p]) \in Requests /\ [wire EXCEPT ![p] = Tail(@)] \in Channel(Requests)
    BY <1>2, <2>1, ChannelTail
  <2>3. /\ wire' \in Channel(Requests) /\ waiting' \in Channel(Requests)
        /\ link' = link
        /\ \A x \in Peers : agreement[x] = "On" => agreement'[x] = "On"
    BY <1>2, <2>1, <2>2, RequestHandled
  <2>4. QED
    BY <1>2, <2>1, <2>3
<1>8. ASSUME NEW p \in Peers, HearAside(p) PROVE NoneEnds' /\ DialledIfAgreed'
  <2>1. /\ aside[p] # <<>> /\ aside' = [aside EXCEPT ![p] = Tail(@)]
        /\ Handle(p, Head(aside[p]), wire)
    BY <1>8 DEF HearAside
  <2>2. Head(aside[p]) \in Requests /\ aside' \in Channel(Requests)
    BY <1>2, <2>1, ChannelTail
  <2>3. /\ wire' \in Channel(Requests) /\ waiting' \in Channel(Requests)
        /\ link' = link
        /\ \A x \in Peers : agreement[x] = "On" => agreement'[x] = "On"
    BY <1>2, <2>1, <2>2, RequestHandled
  <2>4. QED
    BY <1>2, <2>2, <2>3
<1>9. ASSUME NEW p \in Peers, HandOver(p) PROVE NoneEnds' /\ DialledIfAgreed'
  <2>1. /\ wire[p] # <<>> /\ wire' = [wire EXCEPT ![p] = Tail(@)]
        /\ aside' = [aside EXCEPT ![p] = Append(@, Head(wire[p]))]
        /\ UNCHANGED <<agreement, waiting, link>>
    BY <1>9 DEF HandOver
  <2>2. Head(wire[p]) \in Requests /\ wire' \in Channel(Requests)
    BY <1>2, <2>1, ChannelTail
  <2>3. Append(aside[p], Head(wire[p])) \in Seq(Requests)
    BY <1>2, <2>2, AppendProperties DEF Channel
  <2>4. aside' \in Channel(Requests)
    BY <1>2, <2>1, <2>3, ChannelExcept
  <2>5. QED
    BY <1>2, <2>1, <2>2, <2>4
<1>10. ASSUME NEW p \in Peers, Reach(p) \/ CallDials(p) PROVE NoneEnds' /\ DialledIfAgreed'
  <2> DEFINE q == Other(p)
             role == IF Reach(p) THEN "dialled" ELSE "lent"
  <2>1. q \in Peers /\ q # p
    BY OtherIsOther
  <2>2. \E frames \in {<<>>, waiting[p]} :
          wire' = [wire EXCEPT ![p] = <<>>, ![q] = frames]
    BY <1>10 DEF Reach, CallDials, Connect
  <2>3. /\ waiting' = waiting \/ waiting' = [waiting EXCEPT ![p] = <<>>]
        /\ agreement' = agreement /\ aside' = aside
    BY <1>10 DEF Reach, CallDials, Connect
  <2>4. /\ link' = [link EXCEPT ![p] = role, ![q] = "taken"]
        /\ role = "dialled" => agreement[p] = "On"
    <3>1. CASE Reach(p)
      BY <3>1 DEF Reach, Connect
    <3>2. CASE ~ Reach(p)
      BY <1>10, <3>2 DEF CallDials, Connect
    <3>3. QED
      BY <3>1, <3>2
  <2>5. waiting[p] \in Seq(Requests) /\ <<>> \in Seq(Requests)
    BY <1>2 DEF Channel
  <2>6. wire' \in Channel(Requests)
    <3>1. PICK frames \in Seq(Requests) : wire' = [wire EXCEPT ![p] = <<>>, ![q] = frames]
      BY <2>2, <2>5
    <3>2. QED
      BY <1>2, <2>5, <3>1 DEF Channel
  <2>7. waiting' \in Channel(Requests)
    BY <1>2, <2>3, <2>5 DEF Channel
  <2> HIDE DEF q, role
  <2>8. \A x \in Peers : link'[x] = "dialled" => agreement[x] = "On"
    BY <1>2, <2>1, <2>4 DEF IInv, Plain
  <2>9. QED
    BY <1>2, <2>3, <2>6, <2>7, <2>8
<1>11. ASSUME NEW p \in Peers, Keep(p) \/ GiveBack(p) PROVE NoneEnds' /\ DialledIfAgreed'
  <2>1. /\ \E state \in {"idle", "none"} : link' = [link EXCEPT ![p] = state]
        /\ waiting' = waiting \/ waiting' = [waiting EXCEPT ![p] = <<>>]
        /\ wire' = wire \/ wire' = [wire EXCEPT ![Other(p)] = @ \o waiting[p]]
        /\ UNCHANGED <<agreement, aside>>
    BY <1>11 DEF Keep, GiveBack
  <2>2. waiting[p] \in Seq(Requests)
    BY <1>2 DEF Channel
  <2>3. wire' \in Channel(Requests)
    <3>1. [wire EXCEPT ![Other(p)] = @ \o waiting[p]] \in Channel(Requests)
      BY <1>2, <2>2, OtherIsOther, ChannelConcat
    <3>2. QED
      BY <1>2, <2>1, <3>1
  <2>4. waiting' \in Channel(Requests)
    <3>1. waiting' = waiting \/ waiting' = [waiting EXCEPT ![p] = <<>>]
      BY <2>1
    <3>2. QED
      BY <1>2, <3>1, EmptyIsGood DEF Channel
  <2>5. \A x \in Peers : link'[x] = "dialled" => link[x] = "dialled"
    BY <2>1 DEF IInv, Plain
  <2>6. QED
    BY <1>2, <2>1, <2>3, <2>4, <2>5
<1>12. ASSUME NEW p \in Peers, Refuse(p) \/ Lend(p) \/ Notice(p)
       PROVE  NoneEnds' /\ DialledIfAgreed'
  <2>1. /\ \E state \in {"lent", "none"} : link' = [link EXCEPT ![p] = state]
        /\ wire' = wire \/ wire' = [wire EXCEPT ![p] = <<>>]
        /\ UNCHANGED <<agreement, waiting, aside>>
    BY <1>12 DEF Refuse, Lend, Notice
  <2>2. wire' \in Channel(Requests)
    BY <1>2, <2>1, EmptyIsGood DEF Channel
  <2>3. \A x \in Peers : link'[x] = "dialled" => link[x] = "dialled"
    BY <2>1 DEF IInv, Plain
  <2>4. QED
    BY <1>2, <2>1, <2>2, <2>3
<1>13. ASSUME NEW p \in Peers, Restart(p) PROVE NoneEnds' /\ DialledIfAgreed'
  <2>1. /\ agreement' = [agreement EXCEPT ![p] = file[p]]
        /\ waiting' = [waiting EXCEPT ![p] = <<>>]
        /\ aside' = [aside EXCEPT ![p] = <<>>]
        /\ link' = [link EXCEPT ![p] = "none"]
    BY <1>13 DEF Restart
  <2>2. PICK some \in Prefixes(wire[Other(p)]) :
          wire' = [wire EXCEPT ![p] = <<>>, ![Other(p)] = some]
    BY <1>13 DEF Restart
  <2>3. some \in Seq(Requests) /\ <<>> \in Seq(Requests)
    BY <1>2, OtherIsOther, PrefixCarries, EmptyIsGood
  <2>4. NoneEnds'
    <3>1. wire' \in Channel(Requests)
      BY <1>2, <2>2, <2>3 DEF Channel
    <3>2. QED
      BY <1>2, <2>1, <2>3, <3>1, ChannelExcept
  <2>5. \A x \in Peers : link'[x] = "dialled" => x # p /\ link[x] = "dialled"
    BY <2>1 DEF IInv, Plain
  <2>6. \A x \in Peers : x # p => agreement'[x] = agreement[x]
    BY <2>1 DEF IInv, Backed, GoodBook
  <2>7. QED
    BY <1>2, <2>4, <2>5, <2>6
<1>14. QED
  BY <1>2, <1>3, <1>4, <1>5, <1>6, <1>7, <1>8, <1>9, <1>10, <1>11, <1>12, <1>13
  DEF Next

LEMMA InitDial == Init => DialInv
<1> SUFFICES ASSUME Init PROVE DialInv
  OBVIOUS
<1>1. Bounded
  <2>1. Budget \in [Kinds -> Nat] /\ budget = Budget
    BY PresenceAssumption DEF Init
  <2>2. QED
    BY <2>1 DEF Bounded
<1>2. NoneEnds
  BY EmptyIsGood DEF Init, NoneEnds, Channel
<1>3. DialledIfAgreed
  BY DEF Init, DialledIfAgreed
<1>4. QED
  BY <1>1, <1>2, <1>3 DEF DialInv

LEMMA DialsHold == Spec => [](IInv /\ DialInv)
BY InitHolds, StepHolds, InitDial, DialStep, PTL DEF Spec

\* A connection dialled because of an agreement is kept only under one, as
\* long as nobody has ended one or forgotten the other: whatever broke,
\* crashed or could not be written while the dial was under way (Pool::reach,
\* Pool::landed, presence in main.rs).
THEOREM KeptUnderAgreement == Spec => HeldWhileAgreed
<1>1. ASSUME IInv, DialInv, [Next]_vars
      PROVE  [\A p \in Peers : link[p] = "dialled" /\ link'[p] = "idle" =>
                \/ agreement[p] = "On"
                \/ ~ Unstruck("stop") \/ ~ Unstruck("forget")]_vars
  BY <1>1 DEF DialInv, DialledIfAgreed, NoneTakenBack
<1>2. QED
  BY <1>1, DialsHold, PTL DEF Spec, HeldWhileAgreed

-----------------------------------------------------------------------------
(***************************************************************************)
(* Agreed by both, once everything has arrived.                            *)
(*                                                                         *)
(* As long as everything goes smoothly they have one connection at most    *)
(* that nobody has let go of.  While it lasts nothing has ended, and what  *)
(* one of them needs to agree as well is on its way; once it is let go, an *)
(* end is the last thing that is read of it.                               *)
(***************************************************************************)

\* What p has yet to hear: on the connection, handed aside, or held back.
UnderWay(p) == Range(wire[p]) \cup Range(aside[p]) \cup Range(waiting[Other(p)])

\* Before an agreement was ever ended.
Talking ==
  \A p \in Peers :
    /\ p \in everAsked => agreement[p] \in {"WeAsked", "On"} /\ word[p] = "ask"
    /\ UnderWay(p) \subseteq Requests
    /\ "Yes" \in UnderWay(p) => agreement[Other(p)] = "On"
    /\ agreement[Other(p)] = "On" => agreement[p] = "On" \/ UnderWay(p) # {}

\* On a connection that carries frames.
Joined ==
  \A p \in Peers :
    /\ link[p] # "none"
    /\ agreement[p] \in {"TheyAsked", "On"} \/ aside[p] # <<>> => Open(p)
    /\ Unstruck("call") => link[p] = "idle" /\ aside[p] = <<>>

\* Without one: never had, or let go of.
Parted ==
  \A p \in Peers :
    /\ aside[p] = <<>> /\ link[p] \in {"none", "idle"}
    /\ wire[p] = <<>> => agreement[p] \in {"Off", "WeAsked"}
    /\ wire[p] # <<>> => link[p] = "idle" /\ Last(wire[p]) = "No"
    /\ Unstruck("stop") => link[p] = "none"

Agreeing ==
  /\ \A p \in Peers : Filed(p)
  /\ up \/ Unstruck("stop") => Talking
  /\ IF up THEN Joined ELSE Parted

AgreeInv == Bounded /\ (Smooth => Agreeing)

LEMMA RangeEmpty ==
  ASSUME NEW S, NEW s \in Seq(S)
  PROVE  (Range(s) = {}) = (s = <<>>)
BY RangeEquality, EmptySeq, LenProperties

LEMMA RangeTail ==
  ASSUME NEW S, NEW s \in Seq(S), s # <<>>
  PROVE  Range(s) = {Head(s)} \cup Range(Tail(s))
<1>1. s = <<Head(s)>> \o Tail(s) /\ <<Head(s)>> \in Seq(S) /\ Tail(s) \in Seq(S)
  <2>1. s = Append(<<>>, Head(s)) \o Tail(s) /\ Append(<<>>, Head(s)) = <<Head(s)>>
    OBVIOUS
  <2>2. <<Head(s)>> \in Seq(S) /\ Tail(s) \in Seq(S)
    OBVIOUS
  <2>3. QED
    BY <2>1, <2>2
<1> DEFINE one == <<Head(s)>>
           rest == Tail(s)
<1>2. Range(one) = {Head(s)}
  BY DEF Range
<1> HIDE DEF one, rest
<1>3. s = one \o rest /\ one \in Seq(S) /\ rest \in Seq(S)
  BY <1>1 DEF one, rest
<1>4. Range(s) = Range(one) \cup Range(rest)
  BY <1>3, RangeConcatenation
<1>5. QED
  BY <1>2, <1>4 DEF rest

\* A smooth step has neither broken, crashed, failed nor forgotten anything;
\* one that stops, or calls, is not the one that rules it out.
LEMMA SmoothStep ==
  ASSUME IInv, Bounded, [Next]_vars, Smooth'
  PROVE  /\ Smooth /\ ~ Break
         /\ ~ budget'["break"] < budget["break"] /\ ~ budget'["save"] < budget["save"]
         /\ Unstruck("stop")' => Unstruck("stop")
         /\ Unstruck("call")' => Unstruck("call")
         /\ \A p \in Peers :
              /\ ~ Forget(p) /\ ~ Restart(p)
              /\ Stop(p) => Unstruck("call") /\ ~ Unstruck("stop")'
              /\ Lend(p) \/ CallDials(p) => Unstruck("stop") /\ ~ Unstruck("call")'
<1>1. {"stop", "call", "break", "crash", "save", "forget"} \subseteq Kinds
  BY DEF Kinds
<1>2. \A kind \in Kinds : Unstruck(kind)' => Unstruck(kind) /\ ~ budget'[kind] < budget[kind]
  BY StillUnstruck
<1>3. /\ \A kind \in {"break", "crash", "save", "forget"} : Unstruck(kind)'
      /\ Unstruck("call")' \/ Unstruck("stop")'
  BY DEF Smooth
<1>4. Smooth
  BY <1>1, <1>2, <1>3 DEF Smooth
<1>5. /\ ~ budget'["break"] < budget["break"] /\ ~ budget'["save"] < budget["save"]
      /\ ~ budget'["crash"] < budget["crash"] /\ ~ budget'["forget"] < budget["forget"]
  BY <1>1, <1>2, <1>3
<1>6. ~ Break /\ \A p \in Peers : ~ Forget(p) /\ ~ Restart(p)
  BY <1>5, NeverRefunded
<1>7. \A p \in Peers : Stop(p) => ~ Unstruck("stop")'
  BY <1>1, <1>2, NeverRefunded
<1>8. \A p \in Peers : Lend(p) \/ CallDials(p) => ~ Unstruck("call")'
  BY <1>1, <1>2, NeverRefunded
<1>9. QED
  BY <1>1, <1>2, <1>3, <1>4, <1>5, <1>6, <1>7, <1>8

-----------------------------------------------------------------------------
\* What nobody ended is still on its way, or was heard by somebody who had
\* asked and agrees by it.
LEMMA TalkOn ==
  ASSUME IInv, Talking, \A x \in Peers : Filed(x),
         NEW p \in Peers, NEW said \in Requests \cup {"WeAsk", "WeStop"},
         agreement' = [agreement EXCEPT ![p] = To(agreement[p], said)],
         said = "WeStop" => agreement[p] = "Off",
         IF said \in Requests THEN everAsked' = everAsked /\ word' = word
         ELSE IF said = "WeAsk"
           THEN everAsked' = everAsked \cup {p} /\ word' = [word EXCEPT ![p] = "ask"]
         ELSE everAsked' = everAsked /\ word' = [word EXCEPT ![p] = "stop"],
         UnderWay(Other(p)) \subseteq UnderWay(Other(p))',
         UnderWay(Other(p))' \subseteq UnderWay(Other(p)) \cup Range(Reply(agreement[p], said)),
         UnderWay(p)' \subseteq UnderWay(p), UnderWay(p) \subseteq UnderWay(p)' \cup {said},
         said \in Requests => said \in UnderWay(p),
         agreement[p] # "On" /\ agreement'[p] = "On" =>
           Range(Reply(agreement[p], said)) \subseteq UnderWay(Other(p))'
  PROVE  Talking'
<1> DEFINE q == Other(p)
           was == agreement[p]
           to == To(was, said)
           reply == Reply(was, said)
<1>1. /\ q \in Peers /\ q # p /\ Other(q) = p
      /\ \A x \in Peers : x = p \/ x = q
  <2>1. q \in Peers /\ q # p /\ Other(q) = p
    BY OtherIsOther
  <2>2. QED
    BY <2>1, PresenceAssumption
<1>2. /\ was \in Agreement /\ agreement[q] \in Agreement
      /\ was \in {"WeAsked", "On"} => p \in everAsked
      /\ agreement[q] = "On" => p \in everAsked
  BY <1>1 DEF IInv, Backed, GoodBook, StandsIn, Filed
<1>3. /\ agreement'[p] = to /\ agreement'[q] = agreement[q]
      /\ q \in everAsked' <=> q \in everAsked
      /\ word'[q] = word[q]
  BY <1>1, <1>2 DEF IInv, Plain, Backed, GoodBook
<1>4. Range(reply) \subseteq Requests /\ ("Yes" \in Range(reply) => to = "On")
      /\ (said \in {"WeAsk", "Ask"} /\ was # "On" /\ to = "On" => Range(reply) = {"Yes"})
  <2>1. \/ reply = <<>>
        \/ reply = <<"Ask">> /\ said = "WeAsk" /\ to # "On"
        \/ reply = <<"Yes">> /\ to = "On"
    BY <1>2 DEF Reply, To, Agreement, Requests
  <2>2. reply = <<>> => ~ (said \in {"WeAsk", "Ask"} /\ was # "On" /\ to = "On")
    BY <1>2 DEF Reply, To, Agreement
  <2> HIDE DEF reply, to, was
  <2>3. /\ Range(<<>>) = {} /\ Range(<<"Ask">>) = {"Ask"} /\ Range(<<"Yes">>) = {"Yes"}
    BY DEF Range
  <2>4. QED
    BY <2>1, <2>2, <2>3 DEF Requests
<1>5. /\ was = "On" => to = "On"
      /\ said \in Requests /\ was \in {"WeAsked", "On"} => to = "On"
      /\ said = "WeAsk" => to \in {"WeAsked", "On"}
      /\ said = "WeStop" => to = "Off" /\ was = "Off"
  BY <1>2 DEF To, Requests
<1> HIDE DEF q, was, to, reply
<1>6. ASSUME p \in everAsked' PROVE agreement'[p] \in {"WeAsked", "On"} /\ word'[p] = "ask"
  <2>1. CASE said \in Requests
    BY <1>3, <1>5, <1>6, <2>1 DEF Talking, was
  <2>2. CASE said = "WeAsk"
    BY <1>3, <1>5, <2>2 DEF IInv, Plain, Requests
  <2>3. CASE said = "WeStop"
    BY <1>3, <1>5, <1>6, <2>3 DEF Talking, was, Requests
  <2>4. QED
    BY <2>1, <2>2, <2>3
<1>7. UnderWay(p)' \subseteq Requests /\ UnderWay(q)' \subseteq Requests
  BY <1>1, <1>4 DEF Talking, q, reply, was
<1>8. "Yes" \in UnderWay(p)' => agreement'[q] = "On"
  BY <1>3 DEF Talking, q
<1>9. "Yes" \in UnderWay(q)' => agreement'[p] = "On"
  BY <1>1, <1>3, <1>4, <1>5 DEF Talking, q, was, reply
<1>10. ASSUME agreement'[q] = "On" PROVE agreement'[p] = "On" \/ UnderWay(p)' # {}
  <2>1. agreement[p] = "On" \/ UnderWay(p) # {}
    BY <1>3, <1>10 DEF Talking, q
  <2>2. p \in everAsked
    BY <1>2, <1>3, <1>10
  <2>3. was \in {"WeAsked", "On"}
    BY <2>2 DEF Talking, was
  <2>4. CASE said \in Requests
    BY <1>3, <1>5, <2>3, <2>4
  <2>5. CASE said \notin Requests
    <3>1. UnderWay(p) \subseteq UnderWay(p)'
      BY <2>5 DEF Talking
    <3>2. QED
      BY <1>3, <1>5, <2>1, <3>1 DEF was
  <2>6. QED
    BY <2>4, <2>5
<1>11. ASSUME agreement'[p] = "On" PROVE agreement'[q] = "On" \/ UnderWay(q)' # {}
  <2>1. CASE was = "On"
    BY <1>1, <1>3, <2>1 DEF Talking, q, was
  <2>2. CASE was # "On" /\ said = "Yes"
    BY <1>3, <2>2 DEF Talking, q, Requests
  <2>3. CASE was # "On" /\ said # "Yes"
    <3>1. said \in {"WeAsk", "Ask"}
      BY <1>3, <1>5, <1>11, <2>3 DEF Requests
    <3>2. Range(reply) = {"Yes"}
      BY <1>3, <1>4, <1>11, <2>3, <3>1
    <3>3. Range(reply) \subseteq UnderWay(q)'
      BY <1>11, <2>3 DEF was, reply, q
    <3>4. QED
      BY <3>2, <3>3
  <2>4. QED
    BY <2>1, <2>2, <2>3
<1>12. \A x \in Peers :
         /\ x \in everAsked' => agreement'[x] \in {"WeAsked", "On"} /\ word'[x] = "ask"
         /\ UnderWay(x)' \subseteq Requests
         /\ "Yes" \in UnderWay(x)' => agreement'[Other(x)] = "On"
         /\ agreement'[Other(x)] = "On" => agreement'[x] = "On" \/ UnderWay(x)' # {}
  <2>1. Other(p) = q
    BY DEF q
  <2>2. q \in everAsked' => agreement'[q] \in {"WeAsked", "On"} /\ word'[q] = "ask"
    BY <1>1, <1>3 DEF Talking
  <2>3. QED
    BY <1>1, <1>6, <1>7, <1>8, <1>9, <1>10, <1>11, <2>1, <2>2
<1>13. QED
  BY <1>12 DEF Talking

\* Frames that only move change nothing.
LEMMA TalkSame ==
  ASSUME Talking, UNCHANGED <<agreement, everAsked, word>>,
         \A x \in Peers : UnderWay(x)' = UnderWay(x)
  PROVE  Talking'
BY DEF Talking

\* What p says with nothing breaking reaches the other's end, or waits.
LEMMA Spoken ==
  ASSUME IInv, NEW p \in Peers, NEW frames \in Seq(Frames), NEW unread \in Channel(Frames),
         NEW purse, Send(p, frames, unread, FALSE, purse),
         ~ (purse["break"] > 0 /\ budget' = [purse EXCEPT !["break"] = @ - 1])
  PROVE  /\ link' = link /\ up' = up
         /\ wire'[p] = unread[p] /\ waiting'[Other(p)] = waiting[Other(p)]
         /\ Range(unread[Other(p)]) \cup Range(waiting[p])
              \subseteq Range(wire'[Other(p)]) \cup Range(waiting'[p])
         /\ Range(wire'[Other(p)]) \cup Range(waiting'[p])
              \subseteq Range(unread[Other(p)]) \cup Range(waiting[p]) \cup Range(frames)
         /\ up /\ Open(p) => Range(frames) \subseteq Range(wire'[Other(p)])
         /\ ~ up => wire' = unread
<1> DEFINE q == Other(p)
           sent == unread[q] \o frames
           all == waiting[p] \o frames
<1>1. q \in Peers /\ q # p
  BY OtherIsOther
<1>2. [unread EXCEPT ![p] = IF FALSE THEN <<>> ELSE @] = unread
  BY DEF Channel
<1>3. /\ link' = link /\ up' = up
      /\ \/ /\ Open(p) /\ up
            /\ wire' = [unread EXCEPT ![q] = sent] /\ waiting' = waiting
         \/ Open(p) /\ ~ up /\ wire' = unread /\ waiting' = waiting
         \/ (~ Open(p) \/ ~ up) /\ wire' = unread /\ waiting' = Held(p, frames)
  <2> DEFINE left == [unread EXCEPT ![p] = IF FALSE THEN <<>> ELSE @]
  <2>1. link' = link
    BY DEF Send
  <2>2. up' = up
    BY DEF Send, IInv, Plain
  <2>3. \/ /\ Open(p) /\ up
           /\ wire' = [left EXCEPT ![q] = @ \o frames] /\ waiting' = waiting
        \/ Open(p) /\ ~ up /\ wire' = left /\ waiting' = waiting
        \/ (~ Open(p) \/ ~ up) /\ wire' = left /\ waiting' = Held(p, frames)
    BY DEF Send
  <2>4. left = unread
    BY <1>2
  <2> HIDE DEF left, q
  <2>5. QED
    BY <2>1, <2>2, <2>3, <2>4 DEF q
<1>4. unread[q] \in Seq(Frames) /\ waiting[p] \in Seq(Frames)
  BY <1>1 DEF Channel, IInv, Backed, GoodWaiting
<1>5. Range(sent) = Range(unread[q]) \cup Range(frames)
  BY <1>4, RangeConcatenation
<1>6. Range(all) = Range(waiting[p]) \cup Range(frames)
  BY <1>4, RangeConcatenation
<1>7. Held(p, frames) = [waiting EXCEPT ![p] = all]
      \/ Held(p, frames) = [waiting EXCEPT ![p] = waiting[p]]
  BY DEF Held
<1> HIDE DEF q, sent, all
<1>8. /\ Held(p, frames)[q] = waiting[q]
      /\ Held(p, frames)[p] = all \/ Held(p, frames)[p] = waiting[p]
  BY <1>1, <1>7 DEF IInv, Backed, GoodWaiting
<1>9. CASE Open(p) /\ up /\ wire' = [unread EXCEPT ![q] = sent] /\ waiting' = waiting
  <2>1. wire'[q] = sent /\ wire'[p] = unread[p]
    BY <1>1, <1>9 DEF Channel
  <2>2. QED
    BY <1>3, <1>5, <1>9, <2>1 DEF q
<1>10. CASE (~ Open(p) \/ ~ up) /\ wire' = unread /\ waiting' \in {waiting, Held(p, frames)}
  <2>1. waiting'[q] = waiting[q] /\ (waiting'[p] = all \/ waiting'[p] = waiting[p])
    BY <1>8, <1>10
  <2>2. QED
    BY <1>3, <1>6, <1>10, <2>1 DEF q
<1>11. QED
  BY <1>3, <1>9, <1>10

LEMMA ToIsAgreement == \A was \in Agreement : \A said : To(was, said) \in Agreement
BY DEF To, Agreement

LEMMA ReplyIsFrames == \A was, said : Reply(was, said) \in Seq(Frames)
<1>1. \A was, said : Reply(was, said) \in {<<>>, <<"Ask">>, <<"Yes">>, <<"No">>}
  BY DEF Reply
<1>2. \A x \in Frames : <<x>> \in Seq(Frames)
  OBVIOUS
<1>3. QED
  BY <1>1, <1>2, EmptyIsGood DEF Frames

\* A step that keeps it smooth, from where it was.
Going == IInv /\ AgreeInv /\ [Next]_vars /\ Smooth'

LEMMA GoingOn ==
  ASSUME Going
  PROVE  /\ Agreeing /\ \A x \in Peers : Filed(x) /\ agreement[x] \in Agreement
         /\ wire \in Channel(Frames) /\ aside \in Channel(Frames)
         /\ waiting \in Channel(Frames) /\ budget \in [Kinds -> Nat]
         /\ link \in [Peers -> LinkStates]
<1>1. Agreeing
  BY SmoothStep DEF Going, AgreeInv
<1>2. \A x \in Peers : Filed(x) /\ agreement[x] \in Agreement
  BY <1>1 DEF Agreeing, Filed, Going, IInv, Backed, GoodBook
<1>3. QED
  BY <1>1, <1>2 DEF Going, IInv, Plain, Backed, GoodWire, GoodWaiting, Channel

\* What is typed or heard is written down, and what comes of it sent.
LEMMA Written ==
  ASSUME Going, NEW p \in Peers, NEW said, NEW unread, NEW purse \in [Kinds -> Nat],
         \A kind \in Kinds : purse[kind] <= budget[kind],
         Stored(p, said, unread, purse) \/ NotStored(p, said, unread, purse)
  PROVE  /\ ~ NotStored(p, said, unread, purse)
         /\ agreement' = [agreement EXCEPT ![p] = To(agreement[p], said)]
         /\ \A x \in Peers : Filed(x)'
         /\ Send(p, Reply(agreement[p], said), unread,
                 To(agreement[p], said) = "Off" /\ agreement[p] # "Off", purse)
         /\ ~ (purse["break"] > 0 /\ budget' = [purse EXCEPT !["break"] = @ - 1])
<1>1. {"break", "save"} \subseteq Kinds
  BY DEF Kinds
<1>2. /\ budget["break"] \in Nat /\ budget["save"] \in Nat
      /\ purse["break"] \in Nat /\ purse["save"] \in Nat
      /\ purse["break"] <= budget["break"] /\ purse["save"] <= budget["save"]
  BY <1>1, GoingOn
<1>3. ~ budget'["break"] < budget["break"] /\ ~ budget'["save"] < budget["save"]
  BY SmoothStep DEF Going, AgreeInv
<1>4. budget' \in [Kinds -> Nat]
  BY StepHolds DEF Going, IInv, Plain
<1>5. ~ NotStored(p, said, unread, purse)
  <2>1. budget'["save"] \in Nat
    BY <1>1, <1>4
  <2>2. QED
    BY <1>2, <1>3, <2>1, StoredSpends
<1>6. ~ (purse["break"] > 0 /\ budget' = [purse EXCEPT !["break"] = @ - 1])
  <2>1. SUFFICES ASSUME purse["break"] > 0, budget' = [purse EXCEPT !["break"] = @ - 1]
                 PROVE  FALSE
    OBVIOUS
  <2>2. budget'["break"] = purse["break"] - 1
    BY <1>1, <2>1
  <2>3. QED
    BY <1>2, <1>3, <2>1, <2>2
<1>7. PresenceOf(p) = agreement[p] /\ agreement[p] \in Agreement
  BY GoingOn DEF PresenceOf, Filed
<1>8. /\ agreement' = [agreement EXCEPT ![p] = To(agreement[p], said)]
      /\ Send(p, Reply(agreement[p], said), unread,
              To(agreement[p], said) = "Off" /\ agreement[p] # "Off", purse)
  BY <1>5, <1>7 DEF Stored
<1>9. \A x \in Peers : Filed(x)'
  <2>1. To(agreement[p], said) \in Agreement
    BY <1>7, ToIsAgreement
  <2>2. \A x \in Peers : agreement'[x] \in Agreement
    BY <1>8, <2>1, GoingOn DEF Going, IInv, Backed, GoodBook
  <2>3. QED
    BY <2>2 DEF Filed, NoContact, Agreement
<1>10. QED
  BY <1>5, <1>6, <1>8, <1>9

-----------------------------------------------------------------------------
\* ... and what is under way after it, if p let nobody go by it.
LEMMA Said ==
  ASSUME Going, NEW p \in Peers, NEW said, NEW unread \in Channel(Frames),
         NEW purse \in [Kinds -> Nat], \A kind \in Kinds : purse[kind] <= budget[kind],
         Stored(p, said, unread, purse) \/ NotStored(p, said, unread, purse),
         To(agreement[p], said) = "Off" => agreement[p] = "Off",
         unread[Other(p)] = wire[Other(p)], aside'[Other(p)] = aside[Other(p)]
  PROVE  /\ link' = link /\ up' = up
         /\ agreement' = [agreement EXCEPT ![p] = To(agreement[p], said)]
         /\ \A x \in Peers : Filed(x)'
         /\ UnderWay(Other(p)) \subseteq UnderWay(Other(p))'
         /\ UnderWay(Other(p))' \subseteq
              UnderWay(Other(p)) \cup Range(Reply(agreement[p], said))
         /\ up /\ Open(p) =>
              Range(Reply(agreement[p], said)) \subseteq UnderWay(Other(p))'
         /\ UnderWay(p)' = Range(unread[p]) \cup Range(aside'[p]) \cup Range(waiting[Other(p)])
<1> DEFINE q == Other(p)
           reply == Reply(agreement[p], said)
           letGo == To(agreement[p], said) = "Off" /\ agreement[p] # "Off"
<1>1. Other(q) = p
  BY OtherIsOther
<1>2. /\ agreement' = [agreement EXCEPT ![p] = To(agreement[p], said)]
      /\ \A x \in Peers : Filed(x)'
      /\ Send(p, reply, unread, letGo, purse)
      /\ ~ (purse["break"] > 0 /\ budget' = [purse EXCEPT !["break"] = @ - 1])
  BY Written
<1>3. letGo = FALSE
  OBVIOUS
<1>4. reply \in Seq(Frames)
  BY ReplyIsFrames
<1> HIDE DEF reply, letGo
<1>5. Send(p, reply, unread, FALSE, purse)
  BY <1>2, <1>3
<1>6. /\ link' = link /\ up' = up
      /\ wire'[p] = unread[p] /\ waiting'[q] = waiting[q]
      /\ Range(unread[q]) \cup Range(waiting[p]) \subseteq Range(wire'[q]) \cup Range(waiting'[p])
      /\ Range(wire'[q]) \cup Range(waiting'[p])
           \subseteq Range(unread[q]) \cup Range(waiting[p]) \cup Range(reply)
      /\ up /\ Open(p) => Range(reply) \subseteq Range(wire'[q])
  BY <1>2, <1>4, <1>5, Spoken DEF Going
<1>7. UnderWay(q) = Range(wire[q]) \cup Range(aside[q]) \cup Range(waiting[p])
      /\ UnderWay(q)' = Range(wire'[q]) \cup Range(aside'[q]) \cup Range(waiting'[p])
  BY <1>1 DEF UnderWay
<1>8. UnderWay(p)' = Range(wire'[p]) \cup Range(aside'[p]) \cup Range(waiting'[q])
  BY DEF UnderWay
<1>9. QED
  BY <1>2, <1>6, <1>7, <1>8 DEF reply

\* A connection is let go of, or was before: what is left to read ends with
\* the end of it.
LEMMA PartedOn ==
  ASSUME Going, ~ up, NEW p \in Peers, NEW said, NEW unread \in Channel(Frames),
         NEW purse \in [Kinds -> Nat], \A kind \in Kinds : purse[kind] <= budget[kind],
         Stored(p, said, unread, purse) \/ NotStored(p, said, unread, purse),
         unread[Other(p)] = wire[Other(p)], aside' = aside,
         unread[p] = <<>> => To(agreement[p], said) \in {"Off", "WeAsked"},
         unread[p] # <<>> => link[p] = "idle" /\ Last(unread[p]) = "No"
  PROVE  Parted' /\ up' = FALSE /\ \A x \in Peers : Filed(x)'
<1> DEFINE q == Other(p)
           to == To(agreement[p], said)
           letGo == to = "Off" /\ agreement[p] # "Off"
           closes == letGo /\ link[p] = "idle"
           left == [unread EXCEPT ![p] = IF closes THEN <<>> ELSE @]
<1>1. /\ q \in Peers /\ q # p
      /\ \A x \in Peers : x = p \/ x = q
  BY OtherIsOther, PresenceAssumption
<1>2. /\ Parted /\ wire \in Channel(Frames) /\ link \in [Peers -> LinkStates]
  BY GoingOn DEF Agreeing
<1>3. /\ agreement' = [agreement EXCEPT ![p] = to]
      /\ \A x \in Peers : Filed(x)'
      /\ Send(p, Reply(agreement[p], said), unread, letGo, purse)
  BY Written
<1>4. agreement'[p] = to /\ agreement'[q] = agreement[q]
  BY <1>1, <1>3 DEF Going, IInv, Backed, GoodBook
<1>5. /\ link' = (IF closes THEN [link EXCEPT ![p] = "none"] ELSE link)
      /\ up' = FALSE /\ wire' = left
  <2>1. link' = (IF closes THEN [link EXCEPT ![p] = "none"] ELSE link)
    BY <1>3 DEF Send
  <2>2. up' = FALSE
    BY <1>3 DEF Send
  <2>3. wire' = left
    BY <1>3 DEF Send
  <2>4. QED
    BY <2>1, <2>2, <2>3
<1>6. left[p] = (IF closes THEN <<>> ELSE unread[p]) /\ left[q] = unread[q]
  BY <1>1 DEF Channel
<1> HIDE DEF left, to, q
<1>7. Unstruck("stop")' => Unstruck("stop")
  BY SmoothStep DEF Going, AgreeInv
<1>8. /\ aside'[p] = <<>> /\ link'[p] \in {"none", "idle"}
      /\ wire'[p] = <<>> => agreement'[p] \in {"Off", "WeAsked"}
      /\ wire'[p] # <<>> => link'[p] = "idle" /\ Last(wire'[p]) = "No"
      /\ Unstruck("stop")' => link'[p] = "none"
  <2>1. CASE closes
    <3>1. wire'[p] = <<>> /\ link'[p] = "none" /\ to = "Off"
      BY <1>2, <1>5, <1>6, <2>1
    <3>2. QED
      BY <1>2, <1>4, <3>1 DEF Parted
  <2>2. CASE ~ closes
    <3>1. wire'[p] = unread[p] /\ link' = link
      BY <1>5, <1>6, <2>2
    <3>2. QED
      BY <1>2, <1>4, <1>7, <3>1 DEF Parted, to
  <2>3. QED
    BY <2>1, <2>2
<1>9. /\ aside'[q] = <<>> /\ link'[q] \in {"none", "idle"}
      /\ wire'[q] = <<>> => agreement'[q] \in {"Off", "WeAsked"}
      /\ wire'[q] # <<>> => link'[q] = "idle" /\ Last(wire'[q]) = "No"
      /\ Unstruck("stop")' => link'[q] = "none"
  <2>1. wire'[q] = wire[q] /\ link'[q] = link[q]
    BY <1>1, <1>2, <1>5, <1>6 DEF q
  <2>2. QED
    BY <1>1, <1>2, <1>4, <1>7, <2>1 DEF Parted
<1>10. Parted'
  <2>1. \A x \in Peers :
          /\ aside'[x] = <<>> /\ link'[x] \in {"none", "idle"}
          /\ wire'[x] = <<>> => agreement'[x] \in {"Off", "WeAsked"}
          /\ wire'[x] # <<>> => link'[x] = "idle" /\ Last(wire'[x]) = "No"
          /\ Unstruck("stop")' => link'[x] = "none"
    BY <1>1, <1>8, <1>9
  <2>2. QED
    BY <2>1 DEF Parted
<1>11. QED
  BY <1>3, <1>5, <1>10

LEMMA Purse ==
  ASSUME Going, NEW kind \in Kinds, Afford(kind)
  PROVE  Spend(kind) \in [Kinds -> Nat] /\ \A k \in Kinds : Spend(kind)[k] <= budget[k]
BY GoingOn, SpendsOne

LEMMA AskGoesOn ==
  ASSUME Going, NEW p \in Peers, Ask(p)
  PROVE  Agreeing'
<1> DEFINE q == Other(p)
           was == agreement[p]
           to == To(was, "WeAsk")
           reply == Reply(was, "WeAsk")
<1>1. /\ Afford("ask") /\ everAsked' = everAsked \cup {p} /\ aside' = aside
      /\ \/ Stored(p, "WeAsk", wire, Spend("ask")) /\ word' = [word EXCEPT ![p] = "ask"]
         \/ NotStored(p, "WeAsk", wire, Spend("ask"))
  BY DEF Ask
<1>2. "ask" \in Kinds
  BY DEF Kinds
<1>3. /\ Spend("ask") \in [Kinds -> Nat]
      /\ \A kind \in Kinds : Spend("ask")[kind] <= budget[kind]
  BY <1>1, <1>2, Purse
<1>4. /\ Agreeing /\ wire \in Channel(Frames) /\ aside \in Channel(Frames)
      /\ was \in Agreement /\ \A x \in Peers : Filed(x)
  BY GoingOn
<1>5. /\ to \in {"WeAsked", "On"}
      /\ to = "On" <=> was \in {"TheyAsked", "On"}
  BY <1>4 DEF To, Agreement
<1>6. /\ link' = link /\ up' = up
      /\ agreement' = [agreement EXCEPT ![p] = to]
      /\ \A x \in Peers : Filed(x)'
      /\ UnderWay(q) \subseteq UnderWay(q)' /\ UnderWay(q)' \subseteq UnderWay(q) \cup Range(reply)
      /\ up /\ Open(p) => Range(reply) \subseteq UnderWay(q)'
      /\ UnderWay(p)' = Range(wire[p]) \cup Range(aside'[p]) \cup Range(waiting[q])
  BY <1>1, <1>3, <1>4, <1>5, Said
<1>7. word' = [word EXCEPT ![p] = "ask"]
  BY <1>1, <1>3, Written
<1>8. UnderWay(p)' = UnderWay(p)
  BY <1>1, <1>6 DEF UnderWay
<1>9. agreement'[p] = to /\ \A x \in Peers : x # p => agreement'[x] = agreement[x]
  BY <1>6 DEF Going, IInv, Backed, GoodBook
<1>10. Unstruck("stop")' => Unstruck("stop")
  BY SmoothStep DEF Going, AgreeInv
<1>11. ASSUME up \/ Unstruck("stop"), was # "On", to = "On"
       PROVE  up /\ Open(p)
  <2>1. CASE up
    BY <1>4, <1>5, <1>11, <2>1 DEF Agreeing, Joined
  <2>2. CASE ~ up
    <3>1. was \in {"Off", "WeAsked"}
      BY <1>4, <1>11, <2>2 DEF Agreeing, Parted
    <3>2. QED
      BY <1>5, <1>11, <3>1
  <2>3. QED
    BY <2>1, <2>2
<1>12. ASSUME up \/ Unstruck("stop") PROVE Talking'
  <2>1. Talking
    BY <1>4, <1>12 DEF Agreeing
  <2>2. was # "On" /\ agreement'[p] = "On" => Range(reply) \subseteq UnderWay(q)'
    BY <1>6, <1>9, <1>11, <1>12
  <2>3. "WeAsk" \notin Requests
    BY DEF Requests
  <2>4. UnderWay(p)' \subseteq UnderWay(p) /\ UnderWay(p) \subseteq UnderWay(p)' \cup {"WeAsk"}
    BY <1>8
  <2>5. QED
    BY <1>1, <1>4, <1>6, <1>7, <2>1, <2>2, <2>3, <2>4, TalkOn DEF Going
<1>13. CASE up
  <2>1. Joined'
    <3>1. Joined /\ (Unstruck("call")' => Unstruck("call"))
      BY <1>4, <1>13, SmoothStep DEF Agreeing, Going, AgreeInv
    <3>2. \A x \in Peers : agreement'[x] \in {"TheyAsked", "On"} =>
                             agreement[x] \in {"TheyAsked", "On"}
      BY <1>5, <1>9
    <3> HIDE DEF was, to
    <3>3. QED
      BY <1>1, <1>6, <3>1, <3>2 DEF Joined, Open
  <2>2. QED
    BY <1>6, <1>12, <1>13, <2>1 DEF Agreeing
<1>14. CASE ~ up
  <2>1. Parted
    BY <1>4, <1>14 DEF Agreeing
  <2>2. /\ wire[p] = <<>> => to \in {"Off", "WeAsked"}
        /\ wire[p] # <<>> => link[p] = "idle" /\ Last(wire[p]) = "No"
    BY <1>5, <2>1 DEF Parted
  <2>3. Parted' /\ up' = FALSE
    BY <1>1, <1>3, <1>4, <1>14, <2>2, PartedOn
  <2>4. QED
    BY <1>6, <1>10, <1>12, <1>14, <2>3 DEF Agreeing
<1>15. QED
  BY <1>13, <1>14

\* Ended for nothing, or with the connection.
LEMMA StopGoesOn ==
  ASSUME Going, NEW p \in Peers, Stop(p)
  PROVE  Agreeing'
<1> DEFINE q == Other(p)
           was == agreement[p]
           reply == Reply(was, "WeStop")
<1>1. /\ Afford("stop") /\ everAsked' = everAsked /\ aside' = aside
      /\ \/ Stored(p, "WeStop", wire, Spend("stop")) /\ word' = [word EXCEPT ![p] = "stop"]
         \/ NotStored(p, "WeStop", wire, Spend("stop"))
  BY DEF Stop
<1>2. "stop" \in Kinds
  BY DEF Kinds
<1>3. /\ Spend("stop") \in [Kinds -> Nat]
      /\ \A kind \in Kinds : Spend("stop")[kind] <= budget[kind]
  BY <1>1, <1>2, Purse
<1>4. /\ Agreeing /\ wire \in Channel(Frames) /\ aside \in Channel(Frames)
      /\ link \in [Peers -> LinkStates]
      /\ was \in Agreement /\ \A x \in Peers : Filed(x)
  BY GoingOn
<1>5. /\ Unstruck("call") /\ ~ Unstruck("stop")'
      /\ Unstruck("call")' => Unstruck("call")
  BY SmoothStep DEF Going, AgreeInv
<1>6. To(was, "WeStop") = "Off"
  BY DEF To
<1>7. /\ word' = [word EXCEPT ![p] = "stop"]
      /\ agreement' = [agreement EXCEPT ![p] = "Off"]
      /\ \A x \in Peers : Filed(x)'
      /\ Send(p, reply, wire, was # "Off", Spend("stop"))
  BY <1>1, <1>3, <1>6, Written
<1>8. /\ q \in Peers /\ q # p /\ Other(q) = p
      /\ \A x \in Peers : x = p \/ x = q
  BY OtherIsOther, PresenceAssumption
<1>9. CASE ~ up
  <2>1. Parted
    BY <1>4, <1>9 DEF Agreeing
  <2>2. wire[p] # <<>> => link[p] = "idle" /\ Last(wire[p]) = "No"
    BY <2>1 DEF Parted
  <2>3. Parted' /\ up' = FALSE
    BY <1>1, <1>3, <1>4, <1>6, <1>9, <2>2, PartedOn
  <2>4. QED
    BY <1>5, <1>7, <2>3 DEF Agreeing
<1>10. CASE up /\ was = "Off"
  <2>1. Talking /\ Joined
    BY <1>4, <1>10 DEF Agreeing
  <2>2. reply = <<>>
    BY <1>10 DEF Reply
  <2>3. Range(reply) = {}
    BY <2>2 DEF Range
  <2>4. /\ link' = link /\ up' = up
        /\ UnderWay(q) \subseteq UnderWay(q)' /\ UnderWay(q)' \subseteq UnderWay(q) \cup Range(reply)
        /\ UnderWay(p)' = Range(wire[p]) \cup Range(aside'[p]) \cup Range(waiting[q])
    BY <1>1, <1>3, <1>4, <1>10, Said
  <2>5. UnderWay(p)' = UnderWay(p)
    BY <1>1, <2>4 DEF UnderWay
  <2>6. "WeStop" \notin Requests \cup {"WeAsk"} /\ was # "On"
    BY <1>10 DEF Requests
  <2>7. agreement'[p] = "Off" /\ \A x \in Peers : agreement'[x] = agreement[x]
    BY <1>7, <1>10 DEF Going, IInv, Backed, GoodBook
  <2>8. Talking'
    <3>1. agreement' = [agreement EXCEPT ![p] = To(was, "WeStop")]
      BY <1>6, <1>7
    <3>2. UnderWay(p)' \subseteq UnderWay(p) /\ UnderWay(p) \subseteq UnderWay(p)' \cup {"WeStop"}
      BY <2>5
    <3>3. IInv /\ "WeStop" \in Requests \cup {"WeAsk", "WeStop"}
      BY DEF Going
    <3>4. agreement'[p] # "On"
      BY <2>7
    <3> HIDE DEF q, reply
    <3>5. QED
      BY <1>1, <1>4, <1>7, <1>10, <2>1, <2>4, <2>6, <3>1, <3>2, <3>3, <3>4, TalkOn
      DEF q, reply
  <2>9. Joined'
    BY <1>1, <1>5, <2>1, <2>4, <2>7 DEF Joined, Open
  <2>10. QED
    BY <1>7, <1>10, <2>4, <2>8, <2>9 DEF Agreeing
<1>11. CASE up /\ was # "Off"
  <2>1. \A x \in Peers : link[x] = "idle" /\ aside[x] = <<>>
    BY <1>4, <1>5, <1>11 DEF Agreeing, Joined
  <2>2. reply = <<"No">>
    BY <1>11 DEF Reply
  <2> DEFINE left == [wire EXCEPT ![p] = <<>>]
             sent == wire[q] \o <<"No">>
  <2>3. link' = [link EXCEPT ![p] = "none"]
    BY <1>7, <1>11, <2>1 DEF Send
  <2>4. up' = FALSE
    BY <1>7, <1>11, <2>1 DEF Send
  <2>5. wire' = [left EXCEPT ![q] = @ \o reply]
    BY <1>7, <1>11, <2>1 DEF Send, Open
  <2>6. wire'[p] = <<>> /\ wire'[q] = sent
    BY <1>4, <1>8, <2>2, <2>5 DEF Channel
  <2>7. sent # <<>> /\ Last(sent) = "No"
    <3>1. wire[q] \in Seq(Frames) /\ <<"No">> \in Seq(Frames) /\ Len(<<"No">>) = 1
      BY <1>4, <1>8 DEF Channel, Frames
    <3> DEFINE one == <<"No">>
    <3>2. one[1] = "No"
      OBVIOUS
    <3> HIDE DEF one
    <3>3. PICK n \in Nat : n = Len(wire[q])
      BY <3>1, LenProperties
    <3>4. Len(wire[q] \o one) = n + 1 /\ (wire[q] \o one)[n + 1] = one[1]
      BY <3>1, <3>3, ConcatProperties DEF one
    <3>5. wire[q] \o one # <<>>
      BY <3>3, <3>4
    <3>6. QED
      BY <3>2, <3>3, <3>4, <3>5 DEF Last, one
  <2>8. link'[p] = "none" /\ link'[q] = "idle"
    BY <1>4, <1>8, <2>1, <2>3
  <2>9. agreement'[p] = "Off"
    BY <1>7 DEF Going, IInv, Backed, GoodBook
  <2>10. Parted'
    <3>1. \A x \in Peers :
            /\ aside'[x] = <<>> /\ link'[x] \in {"none", "idle"}
            /\ wire'[x] = <<>> => agreement'[x] \in {"Off", "WeAsked"}
            /\ wire'[x] # <<>> => link'[x] = "idle" /\ Last(wire'[x]) = "No"
            /\ Unstruck("stop")' => link'[x] = "none"
      <4> HIDE DEF sent, q
      <4>1. QED
        BY <1>1, <1>5, <1>8, <2>1, <2>6, <2>7, <2>8, <2>9
    <3>2. QED
      BY <3>1 DEF Parted
  <2>11. QED
    BY <1>5, <1>7, <2>4, <2>10 DEF Agreeing
<1>12. QED
  BY <1>9, <1>10, <1>11

LEMMA LastOfTail ==
  ASSUME NEW S, NEW s \in Seq(S), s # <<>>
  PROVE  /\ Tail(s) = <<>> => Head(s) = Last(s)
         /\ Tail(s) # <<>> => Last(Tail(s)) = Last(s)
<1>1. PICK n \in Nat : n = Len(s)
  BY LenProperties
<1>2. n # 0
  BY <1>1, EmptySeq
<1>3. /\ Tail(s) \in Seq(S) /\ Len(Tail(s)) = n - 1
      /\ \A i \in 1 .. n - 1 : Tail(s)[i] = s[i + 1]
  BY <1>1, HeadTailProperties
<1>4. Head(s) = s[1]
  BY HeadTailProperties
<1>5. Tail(s) = <<>> <=> n - 1 = 0
  BY <1>1, <1>2, <1>3, EmptySeq
<1>6. QED
  BY <1>1, <1>2, <1>3, <1>4, <1>5 DEF Last

\* A frame on the connection, or one a call handed over.
LEMMA HearGoesOn ==
  ASSUME Going, NEW p \in Peers, NEW w \in Channel(Frames), w[p] # <<>>,
         NEW unread \in Channel(Frames), unread[Other(p)] = wire[Other(p)],
         Handle(p, Head(w[p]), unread), UNCHANGED <<word, everAsked>>,
         \/ w = wire /\ unread = [wire EXCEPT ![p] = Tail(@)] /\ aside' = aside
            /\ link[p] = "idle"
         \/ w = aside /\ unread = wire /\ aside' = [aside EXCEPT ![p] = Tail(@)]
  PROVE  Agreeing'
<1> DEFINE q == Other(p)
           frame == Head(w[p])
           was == agreement[p]
           to == To(was, frame)
           reply == Reply(was, frame)
<1>1. /\ Agreeing /\ wire \in Channel(Frames) /\ aside \in Channel(Frames)
      /\ link \in [Peers -> LinkStates] /\ budget \in [Kinds -> Nat]
      /\ was \in Agreement /\ \A x \in Peers : Filed(x)
  BY GoingOn
<1>2. Stored(p, frame, unread, budget) \/ NotStored(p, frame, unread, budget)
  BY <1>1 DEF Handle
<1>3. /\ q \in Peers /\ q # p /\ Other(q) = p
      /\ \A x \in Peers : x = p \/ x = q
  BY OtherIsOther, PresenceAssumption
<1>4. w[p] \in Seq(Frames) /\ frame \in Frames
  BY TailIsGood DEF Channel
<1>5. \A kind \in Kinds : budget[kind] <= budget[kind]
  BY <1>1
<1>6. /\ agreement' = [agreement EXCEPT ![p] = to]
      /\ \A x \in Peers : Filed(x)'
  BY <1>1, <1>2, <1>5, Written
<1>7. agreement'[p] = to /\ \A x \in Peers : x # p => agreement'[x] = agreement[x]
  BY <1>6 DEF Going, IInv, Backed, GoodBook
<1>8. Range(w[p]) = {frame} \cup Range(Tail(w[p]))
  BY <1>4, RangeTail
<1>9. aside'[q] = aside[q]
  BY <1>1, <1>3 DEF Channel
<1>10. UnderWay(p) = {frame} \cup (Range(unread[p]) \cup Range(aside'[p]) \cup Range(waiting[q]))
  <2>1. CASE w = wire /\ unread = [wire EXCEPT ![p] = Tail(@)] /\ aside' = aside
    <3>1. unread[p] = Tail(w[p])
      BY <1>1, <2>1 DEF Channel
    <3> HIDE DEF frame
    <3>2. QED
      BY <1>8, <2>1, <3>1 DEF UnderWay
  <2>2. CASE w = aside /\ unread = wire /\ aside' = [aside EXCEPT ![p] = Tail(@)]
    <3>1. aside'[p] = Tail(w[p])
      BY <1>1, <2>2 DEF Channel
    <3> HIDE DEF frame
    <3>2. QED
      BY <1>8, <2>2, <3>1 DEF UnderWay
  <2>3. QED
    BY <2>1, <2>2
<1>11. Unstruck("stop")' => Unstruck("stop")
  BY SmoothStep DEF Going, AgreeInv
<1>12. CASE up
  <2>1. Talking /\ Joined
    BY <1>1, <1>12 DEF Agreeing
  <2>2. frame \in Requests
    BY <1>10, <2>1 DEF Talking
  <2>3. /\ to = "Off" => was = "Off"
        /\ to = "TheyAsked" \/ to = "On" \/ to = was
    BY <1>1, <2>2 DEF To, Requests, Agreement
  <2>4. Open(p)
    <3>1. w = aside => aside[p] # <<>>
      OBVIOUS
    <3>2. QED
      BY <2>1, <3>1 DEF Joined, Open
  <2>5. /\ link' = link /\ up' = up
        /\ UnderWay(q) \subseteq UnderWay(q)' /\ UnderWay(q)' \subseteq UnderWay(q) \cup Range(reply)
        /\ up /\ Open(p) => Range(reply) \subseteq UnderWay(q)'
        /\ UnderWay(p)' = Range(unread[p]) \cup Range(aside'[p]) \cup Range(waiting[q])
    <3> HIDE DEF frame
    <3>1. QED
      BY <1>1, <1>2, <1>5, <1>9, <2>3, Said
  <2>6. Talking'
    <3>1. UnderWay(p)' \subseteq UnderWay(p) /\ UnderWay(p) \subseteq UnderWay(p)' \cup {frame}
          /\ frame \in UnderWay(p)
      BY <1>10, <2>5
    <3>2. IInv /\ frame # "WeStop" /\ everAsked' = everAsked /\ word' = word
      BY <2>2 DEF Going, Requests
    <3> HIDE DEF q, reply, frame
    <3>3. QED
      BY <1>1, <1>6, <1>12, <2>1, <2>2, <2>4, <2>5, <3>1, <3>2, TalkOn
      DEF q, reply
  <2>7. Joined'
    <3>1. Unstruck("call")' => Unstruck("call")
      BY SmoothStep DEF Going, AgreeInv
    <3>2. Unstruck("call") => aside'[p] = <<>>
      <4>1. Unstruck("call") => aside[p] = <<>>
        BY <2>1 DEF Joined
      <4>2. QED
        BY <4>1
    <3>3. /\ link'[p] # "none" /\ Open(p)'
          /\ Unstruck("call")' => link'[p] = "idle" /\ aside'[p] = <<>>
      BY <2>1, <2>4, <2>5, <3>1, <3>2 DEF Joined, Open
    <3>4. /\ link'[q] # "none"
          /\ agreement'[q] \in {"TheyAsked", "On"} \/ aside'[q] # <<>> => Open(q)'
          /\ Unstruck("call")' => link'[q] = "idle" /\ aside'[q] = <<>>
      BY <1>3, <1>7, <1>9, <2>1, <2>5, <3>1 DEF Joined, Open
    <3> HIDE DEF q
    <3>5. QED
      BY <1>3, <3>3, <3>4 DEF Joined
  <2>8. QED
    BY <1>6, <1>12, <2>5, <2>6, <2>7 DEF Agreeing
<1>13. CASE ~ up
  <2>1. Parted
    BY <1>1, <1>13 DEF Agreeing
  <2>2. /\ w = wire /\ unread = [wire EXCEPT ![p] = Tail(@)] /\ aside' = aside
        /\ link[p] = "idle" /\ Last(wire[p]) = "No"
    BY <2>1 DEF Parted
  <2>3. unread[p] = Tail(wire[p])
    BY <1>1, <2>2 DEF Channel
  <2>4. /\ unread[p] = <<>> => frame = "No"
        /\ unread[p] # <<>> => Last(unread[p]) = "No"
    BY <1>4, <2>2, <2>3, LastOfTail
  <2>5. unread[p] = <<>> => to = "Off"
    BY <2>4 DEF To
  <2>6. Parted' /\ up' = FALSE
    <3> HIDE DEF frame
    <3>1. QED
      BY <1>1, <1>2, <1>5, <1>13, <2>2, <2>4, <2>5, PartedOn
  <2>7. ~ Unstruck("stop")'
    BY <1>11, <2>1, <2>2 DEF Parted
  <2>8. QED
    BY <1>6, <2>6, <2>7 DEF Agreeing
<1>14. QED
  BY <1>12, <1>13

\* A call hands a frame over.
LEMMA HandOverGoesOn ==
  ASSUME Going, NEW p \in Peers, HandOver(p)
  PROVE  Agreeing'
<1> DEFINE frame == Head(wire[p])
<1>1. /\ link[p] = "lent" /\ wire[p] # <<>>
      /\ aside' = [aside EXCEPT ![p] = Append(@, frame)]
      /\ wire' = [wire EXCEPT ![p] = Tail(@)]
      /\ UNCHANGED <<agreement, waiting, link, up, word, everAsked>>
  BY DEF HandOver, history
<1>2. /\ Agreeing /\ wire \in Channel(Frames) /\ aside \in Channel(Frames)
  BY GoingOn
<1>3. /\ up /\ Talking /\ Joined
      /\ \A x \in Peers : Filed(x)
  BY <1>1, <1>2 DEF Agreeing, Parted
<1>4. wire[p] \in Seq(Frames) /\ aside[p] \in Seq(Frames) /\ frame \in Frames
  BY <1>1, <1>2, TailIsGood DEF Channel
<1>5. Range(wire[p]) = {frame} \cup Range(Tail(wire[p]))
  BY <1>1, <1>4, RangeTail
<1> HIDE DEF frame
<1>6. Range(Append(aside[p], frame)) = Range(aside[p]) \cup {frame}
  <2> DEFINE one == <<frame>>
  <2>1. Append(aside[p], frame) = aside[p] \o one
    BY <1>4
  <2>2. one \in Seq(Frames) /\ Range(one) = {frame}
    BY <1>4 DEF Range
  <2> HIDE DEF one
  <2>3. QED
    BY <1>4, <2>1, <2>2, RangeConcatenation
<1>7. /\ wire'[p] = Tail(wire[p]) /\ aside'[p] = Append(aside[p], frame)
      /\ \A x \in Peers : x # p => wire'[x] = wire[x] /\ aside'[x] = aside[x]
  BY <1>1, <1>2 DEF Channel
<1>8. \A x \in Peers : UnderWay(x)' = UnderWay(x)
  BY <1>1, <1>5, <1>6, <1>7 DEF UnderWay
<1>9. Talking'
  BY <1>1, <1>3, <1>8, TalkSame
<1>10. Unstruck("call")' => Unstruck("call")
  BY SmoothStep DEF Going, AgreeInv
<1>11. Joined'
  BY <1>1, <1>3, <1>7, <1>10 DEF Joined, Open
<1>12. QED
  BY <1>1, <1>3, <1>9, <1>11 DEF Agreeing, Filed

\* A dial that lands is a call's, the first they have: nobody is agreed whom
\* the sweep could dial.
LEMMA ConnectGoesOn ==
  ASSUME Going, NEW p \in Peers, Reach(p) \/ CallDials(p)
  PROVE  Agreeing'
<1> DEFINE q == Other(p)
<1>1. ~ up /\ link[p] = "none"
  BY DEF Reach, CallDials, Connect
<1>2. /\ Agreeing /\ wire \in Channel(Frames) /\ waiting \in Channel(Frames)
      /\ link \in [Peers -> LinkStates]
  BY GoingOn
<1>3. Parted /\ \A x \in Peers : Filed(x)
  BY <1>1, <1>2 DEF Agreeing
<1>4. agreement[p] \in {"Off", "WeAsked"} /\ wire[p] = <<>>
  BY <1>1, <1>3 DEF Parted
<1>5. CallDials(p)
  BY <1>4 DEF Reach
<1>6. /\ up' = TRUE
      /\ link' = [link EXCEPT ![p] = "lent", ![q] = "taken"]
      /\ wire' = [wire EXCEPT ![p] = <<>>, ![q] = waiting[p]]
      /\ waiting' = [waiting EXCEPT ![p] = <<>>]
      /\ UNCHANGED <<agreement, aside, word, everAsked>>
  BY <1>5 DEF CallDials, Connect, history
<1>7. Unstruck("stop") /\ ~ Unstruck("call")'
  BY <1>5, SmoothStep DEF Going, AgreeInv
<1>8. /\ q \in Peers /\ q # p /\ Other(q) = p
      /\ \A x \in Peers : x = p \/ x = q
  BY OtherIsOther, PresenceAssumption
<1>9. \A x \in Peers : wire[x] = <<>> /\ aside[x] = <<>> /\ agreement[x] \in {"Off", "WeAsked"}
  BY <1>3, <1>7 DEF Parted
<1> HIDE DEF q
<1>10. /\ wire'[p] = <<>> /\ wire'[q] = waiting[p]
       /\ waiting'[p] = <<>> /\ waiting'[q] = waiting[q]
       /\ link'[p] = "lent" /\ link'[q] = "taken"
  BY <1>2, <1>6, <1>8 DEF Channel
<1>11. Range(<<>>) = {}
  BY DEF Range
<1>12. UnderWay(p)' = UnderWay(p) /\ UnderWay(q)' = UnderWay(q)
  <2>1. /\ UnderWay(p) = Range(wire[p]) \cup Range(aside[p]) \cup Range(waiting[q])
        /\ UnderWay(p)' = Range(wire'[p]) \cup Range(aside'[p]) \cup Range(waiting'[q])
    BY DEF UnderWay, q
  <2>2. /\ UnderWay(q) = Range(wire[q]) \cup Range(aside[q]) \cup Range(waiting[p])
        /\ UnderWay(q)' = Range(wire'[q]) \cup Range(aside'[q]) \cup Range(waiting'[p])
    BY <1>8 DEF UnderWay
  <2>3. QED
    BY <1>6, <1>8, <1>9, <1>10, <1>11, <2>1, <2>2
<1>13. Talking'
  <2>1. Talking
    BY <1>2, <1>7 DEF Agreeing
  <2>2. QED
    BY <1>6, <1>8, <1>12, <2>1, TalkSame
<1>14. Joined'
  <2>1. \A x \in Peers :
          /\ link'[x] # "none"
          /\ ~ (agreement'[x] \in {"TheyAsked", "On"} \/ aside'[x] # <<>>)
    BY <1>6, <1>8, <1>9, <1>10
  <2>2. QED
    BY <1>7, <2>1 DEF Joined
<1>15. QED
  BY <1>3, <1>6, <1>13, <1>14 DEF Agreeing, Filed

\* What waited goes out.
LEMMA KeepGoesOn ==
  ASSUME Going, NEW p \in Peers, Keep(p) \/ GiveBack(p)
  PROVE  Agreeing'
<1> DEFINE q == Other(p)
           sent == wire[q] \o waiting[p]
<1>1. link[p] \in {"dialled", "taken", "lent"}
  BY DEF Keep, GiveBack
<1>2. /\ Agreeing /\ wire \in Channel(Frames) /\ waiting \in Channel(Frames)
      /\ link \in [Peers -> LinkStates]
  BY GoingOn
<1>3. /\ up /\ Talking /\ Joined
      /\ \A x \in Peers : Filed(x)
  BY <1>1, <1>2 DEF Agreeing, Parted
<1>4. /\ link' = [link EXCEPT ![p] = "idle"]
      /\ waiting' = [waiting EXCEPT ![p] = <<>>]
      /\ wire' = [wire EXCEPT ![q] = sent]
      /\ UNCHANGED <<agreement, up, aside, word, everAsked>>
  BY <1>3 DEF Keep, GiveBack, history
<1>5. /\ q \in Peers /\ q # p /\ Other(q) = p
      /\ \A x \in Peers : x = p \/ x = q
  BY OtherIsOther, PresenceAssumption
<1>6. wire[q] \in Seq(Frames) /\ waiting[p] \in Seq(Frames)
  BY <1>2, <1>5 DEF Channel
<1>7. Range(sent) = Range(wire[q]) \cup Range(waiting[p])
  BY <1>6, RangeConcatenation
<1>8. Range(<<>>) = {}
  BY DEF Range
<1> HIDE DEF q, sent
<1>9. /\ wire'[p] = wire[p] /\ wire'[q] = sent
      /\ waiting'[p] = <<>> /\ waiting'[q] = waiting[q]
      /\ link'[p] = "idle" /\ link'[q] = link[q]
  BY <1>2, <1>4, <1>5 DEF Channel
<1>10. UnderWay(p)' = UnderWay(p) /\ UnderWay(q)' = UnderWay(q)
  <2>1. /\ UnderWay(p) = Range(wire[p]) \cup Range(aside[p]) \cup Range(waiting[q])
        /\ UnderWay(p)' = Range(wire'[p]) \cup Range(aside'[p]) \cup Range(waiting'[q])
    BY DEF UnderWay, q
  <2>2. /\ UnderWay(q) = Range(wire[q]) \cup Range(aside[q]) \cup Range(waiting[p])
        /\ UnderWay(q)' = Range(wire'[q]) \cup Range(aside'[q]) \cup Range(waiting'[p])
    BY <1>5 DEF UnderWay
  <2>3. QED
    BY <1>4, <1>7, <1>8, <1>9, <2>1, <2>2
<1>11. Talking'
  BY <1>3, <1>4, <1>5, <1>10, TalkSame
<1>12. Joined'
  <2>1. Unstruck("call")' => Unstruck("call")
    BY SmoothStep DEF Going, AgreeInv
  <2>2. \A x \in Peers : link'[x] = link[x] \/ link'[x] = "idle"
    BY <1>5, <1>9
  <2>3. QED
    BY <1>3, <1>4, <2>1, <2>2 DEF Joined, Open
<1>13. QED
  BY <1>3, <1>4, <1>11, <1>12 DEF Agreeing, Filed

\* A call begins, on the connection there is.
LEMMA LendGoesOn ==
  ASSUME Going, NEW p \in Peers, Lend(p)
  PROVE  Agreeing'
<1>1. /\ link[p] = "idle" /\ link' = [link EXCEPT ![p] = "lent"]
      /\ UNCHANGED <<agreement, waiting, up, wire, aside, word, everAsked>>
  BY DEF Lend, history
<1>2. Unstruck("stop") /\ ~ Unstruck("call")'
  BY SmoothStep DEF Going, AgreeInv
<1>3. Agreeing /\ link \in [Peers -> LinkStates]
  BY GoingOn
<1>4. up /\ Talking /\ Joined /\ \A x \in Peers : Filed(x)
  BY <1>1, <1>2, <1>3 DEF Agreeing, Parted
<1>5. Talking'
  <2>1. \A x \in Peers : UnderWay(x)' = UnderWay(x)
    BY <1>1 DEF UnderWay
  <2>2. QED
    BY <1>1, <1>4, <2>1, TalkSame
<1>6. Joined'
  <2>1. \A x \in Peers : link'[x] = link[x] \/ link'[x] = "lent"
    BY <1>1, <1>3
  <2>2. QED
    BY <1>1, <1>2, <1>4, <2>1 DEF Joined, Open
<1>7. QED
  BY <1>1, <1>4, <1>5, <1>6 DEF Agreeing, Filed

\* The end of the connection is noticed.
LEMMA NoticeGoesOn ==
  ASSUME Going, NEW p \in Peers, Notice(p)
  PROVE  Agreeing'
<1>1. /\ ~ up /\ link[p] = "idle" /\ wire[p] = <<>> /\ link' = [link EXCEPT ![p] = "none"]
      /\ UNCHANGED <<agreement, waiting, up, wire, aside>>
  BY DEF Notice
<1>2. Agreeing /\ link \in [Peers -> LinkStates]
  BY GoingOn
<1>3. Parted /\ ~ Unstruck("stop") /\ \A x \in Peers : Filed(x)
  BY <1>1, <1>2 DEF Agreeing, Parted
<1>4. ~ Unstruck("stop")'
  BY <1>3, SmoothStep DEF Going, AgreeInv
<1>5. Parted'
  BY <1>1, <1>2, <1>3, <1>4 DEF Parted
<1>6. QED
  BY <1>1, <1>3, <1>4, <1>5 DEF Agreeing, Filed

LEMMA AgreeStep == IInv /\ AgreeInv /\ [Next]_vars => AgreeInv'
<1> SUFFICES ASSUME Going PROVE Agreeing'
  BY StillUnstruck DEF AgreeInv, Going
<1>1. Agreeing /\ \A x \in Peers : Filed(x)
  BY GoingOn
<1>2. ~ Break /\ \A p \in Peers : ~ Forget(p) /\ ~ Restart(p) /\ ~ Add(p) /\ ~ Refuse(p)
  BY <1>1, SmoothStep DEF Going, AgreeInv, Add, Refuse
<1>3. CASE UNCHANGED vars
  BY <1>1, <1>3 DEF vars, Agreeing, Talking, Joined, Parted, UnderWay, Filed, Open, Unstruck
<1>4. ASSUME NEW p \in Peers, Hear(p) PROVE Agreeing'
  <2> DEFINE unread == [wire EXCEPT ![p] = Tail(@)]
  <2>1. /\ link[p] = "idle" /\ wire[p] # <<>> /\ Handle(p, Head(wire[p]), unread)
        /\ UNCHANGED <<aside, word, everAsked>>
    BY <1>4 DEF Hear, history
  <2>2. wire \in Channel(Frames)
    BY GoingOn
  <2>3. unread \in Channel(Frames)
    BY <2>1, <2>2, ChannelTail
  <2>4. unread[Other(p)] = wire[Other(p)]
    BY <2>2, OtherIsOther DEF Channel
  <2>5. QED
    BY <2>1, <2>2, <2>3, <2>4, HearGoesOn
<1>5. ASSUME NEW p \in Peers, HearAside(p) PROVE Agreeing'
  <2>1. /\ aside[p] # <<>> /\ aside' = [aside EXCEPT ![p] = Tail(@)]
        /\ Handle(p, Head(aside[p]), wire) /\ UNCHANGED <<word, everAsked>>
    BY <1>5 DEF HearAside, history
  <2>2. wire \in Channel(Frames) /\ aside \in Channel(Frames)
    BY GoingOn
  <2>3. QED
    BY <2>1, <2>2, HearGoesOn
<1>6. QED
  BY <1>2, <1>3, <1>4, <1>5, AskGoesOn, StopGoesOn, HandOverGoesOn, ConnectGoesOn,
     KeepGoesOn, LendGoesOn, NoticeGoesOn
  DEF Going, Next

LEMMA InitAgrees == Init => AgreeInv
<1> SUFFICES ASSUME Init PROVE AgreeInv
  OBVIOUS
<1>1. Bounded
  BY InitDial DEF DialInv
<1>2. /\ \A x \in Peers : agreement[x] = "Off" /\ wire[x] = <<>> /\ aside[x] = <<>>
                          /\ waiting[x] = <<>> /\ link[x] = IF up THEN "idle" ELSE "none"
      /\ everAsked = {}
  BY DEF Init
<1>3. \A x \in Peers : UnderWay(x) = {}
  <2>1. Range(<<>>) = {}
    BY DEF Range
  <2>2. QED
    BY <1>2, <2>1, OtherIsOther DEF UnderWay
<1>4. Talking
  BY <1>2, <1>3, OtherIsOther DEF Talking
<1>5. up => Joined
  BY <1>2 DEF Joined
<1>6. ~ up => Parted
  BY <1>2 DEF Parted
<1>7. \A x \in Peers : Filed(x)
  BY <1>2 DEF Filed, NoContact
<1>8. QED
  BY <1>1, <1>4, <1>5, <1>6, <1>7 DEF AgreeInv, Agreeing

\* "Both halves have to be On before either side holds a connection open":
\* as long as nothing broke, failed or was forgotten, once everything said has
\* arrived, whoever takes it for agreed is right, and the last the other typed
\* was no end of it (Presence::step in contacts.rs, presence in main.rs).
THEOREM AgreedByBoth == Spec => []MutualAtRest
<1>1. IInv /\ AgreeInv => MutualAtRest
  <2> SUFFICES ASSUME IInv, AgreeInv, AtRest, Smooth,
                      NEW p \in Peers, agreement[p] = "On"
               PROVE  agreement[Other(p)] = "On" /\ word[Other(p)] # "stop"
    BY DEF MutualAtRest
  <2> DEFINE q == Other(p)
  <2>1. Agreeing /\ q \in Peers /\ Other(q) = p
    BY OtherIsOther DEF AgreeInv
  <2>2. \A x \in Peers : wire[x] = <<>> /\ aside[x] = <<>> /\ waiting[x] = <<>>
    BY DEF AtRest
  <2>3. UnderWay(q) = {}
    <3>1. Range(<<>>) = {}
      BY DEF Range
    <3>2. QED
      BY <2>1, <2>2, <3>1 DEF UnderWay
  <2>4. Talking
    BY <2>1, <2>2 DEF Agreeing, Parted
  <2>5. agreement[q] = "On"
    BY <2>1, <2>3, <2>4 DEF Talking
  <2>6. q \in everAsked
    BY <2>1 DEF IInv, Backed, GoodBook, StandsIn
  <2>7. word[q] = "ask"
    BY <2>1, <2>4, <2>6 DEF Talking
  <2>8. QED
    BY <2>5, <2>7
<1>2. QED
  BY <1>1, InitHolds, StepHolds, InitAgrees, AgreeStep, PTL DEF Spec
=============================================================================
