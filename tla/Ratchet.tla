------------------------------ MODULE Ratchet ------------------------------
(***************************************************************************)
(* One side of one connection's ratchet (ratchet.rs): a key for every      *)
(* frame, and a new Diffie-Hellman agreement whenever the conversation     *)
(* changes direction.  Only the next frame is ever accepted: there are no  *)
(* keys kept for frames that have not arrived.                             *)
(*                                                                         *)
(* Keys are terms.  A key pair is <<whose, number>>, its public half is    *)
(* the same term, an agreement is the set of the two pairs that made it, a *)
(* root is the sequence of the agreements mixed into it, and a chain is    *)
(* the root it came from with the number of steps taken on it.             *)
(***************************************************************************)
EXTENDS Naturals, Sequences

CONSTANT CHAIN   \* frames one sending chain may carry (u32::MAX)

ASSUME RatchetAssumption == CHAIN \in Nat

NoChain == [of |-> <<>>, first |-> FALSE, at |-> 0]

\* A chain's key from its root step, before any frame.
ChainOf(root) == [of |-> root, first |-> FALSE, at |-> 0]

\* What the answerer may send on before it has heard anything.
FirstChain(root) == [of |-> root, first |-> TRUE, at |-> 0]

\* Mutant: the chain stays where it is.
StepStuck(chain) == chain

\* The chain one frame on; the key of that frame is the chain before the step.
Step(chain) == [chain EXCEPT !.at = @ + 1]

RootStep(root, ours, theirs) == Append(root, {ours, theirs})

\* Ratchet::caller: turns at once, so that its first frame rides a new key.
Caller(root, fresh, theirs) ==
  [dhs |-> fresh, dhr |-> theirs,
   root |-> RootStep(root, fresh, theirs),
   receiving |-> FirstChain(root),
   sending |-> ChainOf(RootStep(root, fresh, theirs)),
   ns |-> 0, nr |-> 0, pn |-> 0]

\* Ratchet::answerer: keeps its handshake key until the caller's first frame.
Answerer(root, handshake, theirs) ==
  [dhs |-> handshake, dhr |-> theirs, root |-> root,
   receiving |-> NoChain, sending |-> FirstChain(root),
   ns |-> 0, nr |-> 0, pn |-> 0]

\* Ratchet::seal.  A chain at its end seals nothing, and has stepped.
Exhausted(r) == r.ns = CHAIN

Sealed(r) == [dh |-> r.dhs, pn |-> r.pn, n |-> r.ns, key |-> r.sending]

AfterSeal(r) ==
  [r EXCEPT !.sending = Step(@), !.ns = IF Exhausted(r) THEN @ ELSE @ + 1]

\* Mutant: the length of the chain we leave is not noted.
TurnUnnoted(r, theirs, fresh) ==
  LET root == RootStep(r.root, r.dhs, theirs)
  IN  [dhs |-> fresh, dhr |-> theirs,
       root |-> RootStep(root, fresh, theirs),
       receiving |-> ChainOf(root),
       sending |-> ChainOf(RootStep(root, fresh, theirs)),
       ns |-> 0, nr |-> 0, pn |-> r.pn]

\* Ratchet::dh_step: they turned, and so do we.
Turn(r, theirs, fresh) ==
  LET root == RootStep(r.root, r.dhs, theirs)
  IN  [dhs |-> fresh, dhr |-> theirs,
       root |-> RootStep(root, fresh, theirs),
       receiving |-> ChainOf(root),
       sending |-> ChainOf(RootStep(root, fresh, theirs)),
       ns |-> 0, nr |-> 0, pn |-> r.ns]

Turned(r, frame) == frame.dh # r.dhr

\* Ratchet::open, what is asked of a frame before and after the turn it may
\* bring: nothing of their last chain is missing, it is the next of this one,
\* and it was sealed with the key we have come to.
Accounted(r, frame) == Turned(r, frame) => frame.pn = r.nr \/ r.receiving = NoChain

Opens(r, frame, fresh) ==
  LET now == IF Turned(r, frame) THEN Turn(r, frame.dh, fresh) ELSE r
  IN  /\ Accounted(r, frame)
      /\ frame.n = now.nr
      /\ now.receiving # NoChain
      /\ frame.key = now.receiving

AfterOpen(r, frame, fresh) ==
  LET now == IF Turned(r, frame) THEN Turn(r, frame.dh, fresh) ELSE r
  IN  [now EXCEPT !.receiving = Step(@), !.nr = @ + 1]
=============================================================================
