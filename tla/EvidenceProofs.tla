--------------------------- MODULE EvidenceProofs ---------------------------
(***************************************************************************)
(* Proofs about the evidence a trail leaves outside it.  Of Verifier, for  *)
(* any verifiers, sinks and witnesses: history that verify once confirmed  *)
(* keeps its place, a trail nobody touched raises no alarm, and what a run *)
(* counts as corroborated was really published.  Of Ledger, for any sets   *)
(* of writers, trails and hashes, any amounts, delays and nesting of       *)
(* payouts: a writer that signs the heads of one chain per trail is never  *)
(* slashed, evidence exists exactly of heads that contradict each other,   *)
(* the heads the public record has shown for a trail are one chain,        *)
(* neither delay can be cut short, and the contract's ether is what it     *)
(* owes and what it burned.                                                *)
(***************************************************************************)
EXTENDS Ledger, Verifier, FiniteSetTheorems, NaturalsInduction,
        WellFoundedInduction, TLAPS

Comparable(a, b) == IsPrefixOf(a, b) \/ IsPrefixOf(b, a)

Bond == [amount : Nat, unlockAt : Nat, withdrawRequested : BOOLEAN, slashed : BOOLEAN]

Frame == [to : Writer, bonds : [Writer -> Bond], balance : Nat,
          burnedTotal : Nat, depositedAt : [Writer -> Nat]]

\* The parts of the state the properties depend on have their types.
Shape ==
    /\ now \in Nat
    /\ balance \in Nat
    /\ burnedTotal \in Nat
    /\ depositedAt \in [Writer -> Nat]
    /\ signed \subseteq [writer : Writer, trail : Trail, leaves : Leaves]
    /\ bonds \in [Writer -> Bond]
    /\ stack \in Seq(Frame)
    /\ head \in [Trail -> SUBSET [leaves : Leaves, blockTime : Nat]]
    /\ recorded \in [Trail -> SUBSET Leaves]

\* What an honest writer has signed for a trail is one chain.
HonestHeadsAreOneChain ==
    \A g, h \in signed :
        g.writer = h.writer /\ g.trail = h.trail /\ g.writer \in Honest =>
            Comparable(g.leaves, h.leaves)

\* A payout that fails puts back bonds of which no honest one is slashed.
FramesAreClean ==
    \A i \in DOMAIN stack : \A w \in Honest : ~stack[i].bonds[w].slashed

\* Every head ever recorded is a beginning of the current one.
RecordedUpToHead ==
    \A t \in Trail : \A r \in recorded[t] :
        /\ head[t] # {}
        /\ \A h \in head[t] : IsPrefixOf(r, h.leaves)

IInv ==
    /\ Shape
    /\ HonestHeadsAreOneChain
    /\ HonestIsNeverSlashed
    /\ FramesAreClean
    /\ RecordedUpToHead

-----------------------------------------------------------------------------
(* Heads.                                                                  *)

\* A head is a non-empty sequence of hashes.
LEMMA LeavesAreSequences ==
    ASSUME NEW s \in Leaves
    PROVE  /\ s \in Seq(Hash) /\ DOMAIN s = 1 .. Len(s)
           /\ Len(s) \in Nat \ {0} /\ Len(s) <= MaxLeaves
<1>1. PICK n \in 1 .. MaxLeaves : s \in [1 .. n -> Hash]
  BY DEF Leaves
<1>2. n \in Nat \ {0}
  BY <1>1, LedgerAssumption
<1>3. s \in Seq(Hash)
  BY <1>1, <1>2
<1>4. Len(s) = n
  BY <1>1, <1>2, <1>3
<1> QED
  BY <1>1, <1>2, <1>3, <1>4

\* A prefix, element by element.
LEMMA PrefixByElements ==
    ASSUME NEW a \in Leaves, NEW b \in Leaves
    PROVE  IsPrefixOf(a, b) <=>
             Len(a) <= Len(b) /\ \A i \in 1 .. Len(a) : a[i] = b[i]
<1>1. a \in Seq(Hash) /\ b \in Seq(Hash)
  BY LeavesAreSequences
<1> SUFFICES ASSUME Len(a) <= Len(b)
             PROVE  SubSeq(b, 1, Len(a)) = a <=> \A i \in 1 .. Len(a) : a[i] = b[i]
  BY DEF IsPrefixOf
<1> DEFINE p == SubSeq(b, 1, Len(a))
<1>2. p \in Seq(Hash) /\ Len(p) = Len(a) /\ \A i \in 1 .. Len(a) : p[i] = b[i]
  BY <1>1
<1>3. (\A i \in 1 .. Len(a) : a[i] = p[i]) => p = a
  BY <1>1, <1>2
<1> QED
  BY <1>2, <1>3

LEMMA PrefixIsReflexive ==
    ASSUME NEW a \in Leaves
    PROVE  IsPrefixOf(a, a)
  BY PrefixByElements, LeavesAreSequences

LEMMA PrefixIsTransitive ==
    ASSUME NEW a \in Leaves, NEW b \in Leaves, NEW c \in Leaves,
           IsPrefixOf(a, b), IsPrefixOf(b, c)
    PROVE  IsPrefixOf(a, c)
<1>1. Len(a) \in Nat /\ Len(b) \in Nat /\ Len(c) \in Nat
  BY LeavesAreSequences
<1>2. Len(a) <= Len(b) /\ \A i \in 1 .. Len(a) : a[i] = b[i]
  BY PrefixByElements
<1>3. Len(b) <= Len(c) /\ \A i \in 1 .. Len(b) : b[i] = c[i]
  BY PrefixByElements
<1>4. Len(a) <= Len(c) /\ \A i \in 1 .. Len(a) : a[i] = c[i]
  BY <1>1, <1>2, <1>3
<1> QED
  BY <1>4, PrefixByElements

\* Two beginnings of one head are comparable.
LEMMA PrefixesOfOneHead ==
    ASSUME NEW a \in Leaves, NEW b \in Leaves, NEW c \in Leaves,
           IsPrefixOf(a, c), IsPrefixOf(b, c)
    PROVE  Comparable(a, b)
<1>1. Len(a) \in Nat /\ Len(b) \in Nat
  BY LeavesAreSequences
<1>2. (\A i \in 1 .. Len(a) : a[i] = c[i]) /\ (\A i \in 1 .. Len(b) : b[i] = c[i])
  BY PrefixByElements
<1>3. CASE Len(a) <= Len(b)
  <2>1. \A i \in 1 .. Len(a) : a[i] = b[i]
    BY <1>1, <1>2, <1>3
  <2> QED
    BY <2>1, <1>3, PrefixByElements DEF Comparable
<1>4. CASE Len(b) <= Len(a)
  <2>1. \A i \in 1 .. Len(b) : b[i] = a[i]
    BY <1>1, <1>2, <1>4
  <2> QED
    BY <2>1, <1>4, PrefixByElements DEF Comparable
<1> QED
  BY <1>1, <1>3, <1>4

\* Comparable heads are no evidence, in either order.
LEMMA ComparableIsNoEvidence ==
    ASSUME NEW a \in Leaves, NEW b \in Leaves, Comparable(a, b)
    PROVE  ~Equivocate(a, b) /\ ~NotExtended(a, b)
<1>1. /\ Len(a) \in Nat /\ Len(b) \in Nat
      /\ a \in Seq(Hash) /\ b \in Seq(Hash)
  BY LeavesAreSequences
<1>2. ~Equivocate(a, b)
  <2> SUFFICES ASSUME Len(a) = Len(b) PROVE a = b
    BY DEF Equivocate
  <2>1. \A i \in 1 .. Len(a) : a[i] = b[i]
    BY PrefixByElements DEF Comparable
  <2> QED
    BY <1>1, <2>1
<1>3. ~NotExtended(a, b)
  <2> SUFFICES ASSUME Len(a) < Len(b), NEW i \in 0 .. MaxLeaves, i <= Len(a) - 1
               PROVE  a[i + 1] = b[i + 1]
    BY DEF NotExtended, LeafInOlderTree
  <2>1. \A k \in 1 .. Len(a) : a[k] = b[k]
    BY <1>1, PrefixByElements DEF Comparable
  <2>2. i + 1 \in 1 .. Len(a)
    BY <1>1, LedgerAssumption
  <2> QED
    BY <2>1, <2>2
<1> QED
  BY <1>2, <1>3

\* What slashes a writer is a pair of heads it has signed for one trail that
\* contradict each other ...
LEMMA EvidenceIsAContradiction ==
    ASSUME IInv, NEW w \in Writer, EvidenceAgainst(w)
    PROVE  \E g, h \in signed :
               /\ g.writer = w /\ h.writer = w /\ g.trail = h.trail
               /\ ~Comparable(g.leaves, h.leaves)
<1>1. PICK t \in Trail, a \in {h.leaves : h \in signed}, b \in {h.leaves : h \in signed} :
         /\ w \in recoverSigner(t, a) /\ w \in recoverSigner(t, b)
         /\ Equivocate(a, b) \/ NotExtended(a, b)
  BY DEF EvidenceAgainst
<1>2. PICK g \in signed : g.writer = w /\ signingDigest(g.trail, g.leaves) = signingDigest(t, a)
  BY <1>1 DEF recoverSigner
<1>3. PICK h \in signed : h.writer = w /\ signingDigest(h.trail, h.leaves) = signingDigest(t, b)
  BY <1>1 DEF recoverSigner
<1>4. g.trail = t /\ g.leaves = a /\ h.trail = t /\ h.leaves = b
  BY <1>2, <1>3 DEF signingDigest
<1>5. a \in Leaves /\ b \in Leaves
  BY <1>4 DEF IInv, Shape
<1>6. ~Comparable(a, b)
  BY <1>1, <1>5, ComparableIsNoEvidence
<1> QED
  BY <1>2, <1>3, <1>4, <1>6

\* ... which no honest writer has signed.
LEMMA NoEvidenceAgainstHonest ==
    ASSUME IInv, NEW w \in Honest
    PROVE  ~EvidenceAgainst(w)
<1>1. w \in Writer
  BY DEF Writer
<1> QED
  BY <1>1, EvidenceIsAContradiction DEF IInv, HonestHeadsAreOneChain

-----------------------------------------------------------------------------
(* Bonds.                                                                  *)

\* Halving a bond loses nothing and stays within the naturals.
LEMMA HalvesAreNaturals ==
    ASSUME NEW n \in Nat
    PROVE  n \div 2 \in Nat /\ BurnedShare(n) \in Nat
<1>1. n \div 2 \in Nat /\ n \div 2 <= n
  OBVIOUS
<1> QED
  BY <1>1 DEF BurnedShare

\* What a payout does to the money and to the stack of payouts.
LEMMA PayKeeps ==
    ASSUME IInv, NEW to \in Writer, NEW v \in Nat, Pay(to, v)
    PROVE  /\ balance' \in Nat
           /\ stack' \in Seq(Frame)
           /\ FramesAreClean'
<1> DEFINE f == [to |-> to, bonds |-> bonds, balance |-> balance,
                 burnedTotal |-> burnedTotal, depositedAt |-> depositedAt]
<1>1. balance' \in Nat
  BY DEF Pay, IInv, Shape
<1>2. f \in Frame /\ f.bonds = bonds
  BY DEF Frame, IInv, Shape
<1>3. stack \in Seq(Frame) /\ stack' = Append(stack, f)
  BY DEF Pay, IInv, Shape
<1> HIDE DEF f
<1>4. stack' \in Seq(Frame) /\ DOMAIN stack' = 1 .. Len(stack) + 1
  BY <1>2, <1>3
<1>5. ASSUME NEW i \in DOMAIN stack', NEW w \in Honest
      PROVE  ~stack'[i].bonds[w].slashed
  <2>1. CASE i = Len(stack) + 1
    <3>1. stack'[i] = f
      BY <2>1, <1>2, <1>3
    <3> QED
      BY <3>1, <1>2 DEF IInv, HonestIsNeverSlashed
  <2>2. CASE i # Len(stack) + 1
    <3>1. i \in DOMAIN stack /\ stack'[i] = stack[i]
      BY <2>2, <1>2, <1>3, <1>4
    <3> QED
      BY <3>1 DEF IInv, FramesAreClean
  <2> QED
    BY <2>1, <2>2
<1>6. FramesAreClean'
  BY <1>5 DEF FramesAreClean
<1> QED
  BY <1>1, <1>4, <1>6

\* Ending the innermost payout leaves the outer ones as they were.
LEMMA PopKeeps ==
    ASSUME IInv, stack # << >>, stack' = SubSeq(stack, 1, Len(stack) - 1)
    PROVE  /\ stack' \in Seq(Frame)
           /\ FramesAreClean'
           /\ Len(stack) \in DOMAIN stack
           /\ stack[Len(stack)] \in Frame
<1>1. stack \in Seq(Frame) /\ Len(stack) \in Nat \ {0}
  BY DEF IInv, Shape
<1>2. /\ stack' \in Seq(Frame)
      /\ \A i \in DOMAIN stack' : i \in DOMAIN stack /\ stack'[i] = stack[i]
  BY <1>1
<1>3. FramesAreClean'
  BY <1>2 DEF IInv, FramesAreClean
<1> QED
  BY <1>1, <1>2, <1>3

-----------------------------------------------------------------------------
(* The invariant.                                                          *)

LEMMA InitEstablishes ==
    ASSUME Init
    PROVE  IInv
<1>1. NoBond \in Bond /\ ~NoBond.slashed
  BY DEF NoBond, Bond
<1>2. Shape
  BY <1>1 DEF Init, Shape
<1>3. HonestIsNeverSlashed
  BY <1>1 DEF Init, HonestIsNeverSlashed, Writer
<1>4. HonestHeadsAreOneChain /\ FramesAreClean /\ RecordedUpToHead
  BY DEF Init, HonestHeadsAreOneChain, FramesAreClean, RecordedUpToHead
<1> QED
  BY <1>2, <1>3, <1>4 DEF IInv

\* Signing: an honest writer adds to the chain it has signed already.
LEMMA SignKeeps ==
    ASSUME IInv, NEW w \in Writer, NEW t \in Trail, NEW s \in Leaves, Sign(w, t, s)
    PROVE  IInv'
<1> DEFINE n == [writer |-> w, trail |-> t, leaves |-> s]
<1>1. Shape'
  BY DEF Sign, contract, liveness, IInv, Shape
<1>2. ASSUME NEW g \in signed', NEW h \in signed',
             g.writer = h.writer, g.trail = h.trail, g.writer \in Honest
      PROVE  Comparable(g.leaves, h.leaves)
  <2>1. signed' = signed \cup {n}
    BY DEF Sign
  <2>2. CASE g \in signed /\ h \in signed
    BY <1>2, <2>2 DEF IInv, HonestHeadsAreOneChain
  <2>3. CASE g = n /\ h = n
    BY <2>3, PrefixIsReflexive DEF Comparable
  <2>4. CASE g = n /\ h \in signed
    BY <1>2, <2>4 DEF Sign, FitsChain, Comparable
  <2>5. CASE g \in signed /\ h = n
    BY <1>2, <2>5 DEF Sign, FitsChain, Comparable
  <2> QED
    BY <2>1, <2>2, <2>3, <2>4, <2>5
<1>3. HonestHeadsAreOneChain'
  BY <1>2 DEF HonestHeadsAreOneChain
<1>4. HonestIsNeverSlashed' /\ FramesAreClean' /\ RecordedUpToHead'
  BY DEF Sign, contract, liveness, IInv, HonestIsNeverSlashed, FramesAreClean, RecordedUpToHead
<1> QED
  BY <1>1, <1>3, <1>4 DEF IInv

\* Recording: the new head extends the current one, and so all before it.
LEMMA SubmitKeeps ==
    ASSUME IInv, NEW g \in signed, submit(g.trail, g.leaves)
    PROVE  IInv'
<1> DEFINE t == g.trail
           s == g.leaves
<1>1. t \in Trail /\ s \in Leaves
  BY DEF IInv, Shape
<1>2. Shape'
  BY <1>1 DEF submit, contract, IInv, Shape
<1>3. ASSUME NEW u \in Trail, NEW r \in recorded'[u]
      PROVE  head'[u] # {} /\ \A h \in head'[u] : IsPrefixOf(r, h.leaves)
  <2>1. CASE u # t
    BY <1>1, <1>3, <2>1 DEF submit, IInv, Shape, RecordedUpToHead
  <2>2. CASE u = t
    <3>1. head'[t] = {[leaves |-> s, blockTime |-> now]}
      BY <1>1 DEF submit, IInv, Shape
    <3>2. r \in recorded[t] \/ r = s
      BY <1>1, <1>3, <2>2 DEF submit, IInv, Shape
    <3>3. IsPrefixOf(r, s)
      <4>1. CASE r = s
        BY <1>1, <4>1, PrefixIsReflexive
      <4>2. CASE r \in recorded[t]
        <5>1. PICK h \in head[t] : IsPrefixOf(r, h.leaves)
          BY <1>1, <4>2 DEF IInv, RecordedUpToHead
        <5>2. r \in Leaves /\ h.leaves \in Leaves
          BY <1>1, <4>2, <5>1 DEF IInv, Shape
        <5>3. IsPrefixOf(h.leaves, s)
          BY <5>1 DEF submit, Extends
        <5> QED
          BY <1>1, <5>1, <5>2, <5>3, PrefixIsTransitive
      <4> QED
        BY <3>2, <4>1, <4>2
    <3> QED
      BY <2>2, <3>1, <3>3
  <2> QED
    BY <2>1, <2>2
<1>4. RecordedUpToHead'
  BY <1>3 DEF RecordedUpToHead
<1>5. HonestHeadsAreOneChain' /\ HonestIsNeverSlashed' /\ FramesAreClean'
  BY DEF submit, contract, IInv, HonestHeadsAreOneChain, HonestIsNeverSlashed, FramesAreClean
<1> QED
  BY <1>2, <1>4, <1>5 DEF IInv

\* What deposits, requests and payouts make of one bond.
LEMMA BondsStayBonds ==
    ASSUME NEW b \in Bond, NEW v \in Nat
    PROVE  /\ ToppedUp(b, v) \in Bond /\ ToppedUp(b, v).slashed = b.slashed
           /\ Cleared(b) \in Bond /\ Cleared(b).slashed = b.slashed
           /\ [Cleared(b) EXCEPT !.slashed = TRUE] \in Bond
           /\ [b EXCEPT !.withdrawRequested = TRUE, !.unlockAt = v] \in Bond
           /\ [b EXCEPT !.withdrawRequested = TRUE, !.unlockAt = v].slashed = b.slashed
<1> DEFINE r == [b EXCEPT !.withdrawRequested = TRUE, !.unlockAt = v]
<1>1. ToppedUp(b, v) \in Bond /\ ToppedUp(b, v).slashed = b.slashed
  <2>1. b.amount + v \in Nat
    BY DEF Bond
  <2>2. ASSUME NEW n \in Nat
        PROVE  LET c == [b EXCEPT !.amount = n, !.withdrawRequested = FALSE, !.unlockAt = 0]
               IN  c \in Bond /\ c.slashed = b.slashed
    BY DEF Bond
  <2> QED
    BY <2>1, <2>2 DEF ToppedUp
<1>2. Cleared(b) \in Bond /\ Cleared(b).slashed = b.slashed
  BY DEF Bond, Cleared
<1>3. [Cleared(b) EXCEPT !.slashed = TRUE] \in Bond
  BY <1>2 DEF Bond
<1>4. r \in Bond /\ r.slashed = b.slashed
  BY DEF Bond
<1> QED
  BY <1>1, <1>2, <1>3, <1>4

\* A step of the bond contract leaves signatures and the public record alone.
LEMMA BondStepKeepsTheRest ==
    ASSUME IInv, UNCHANGED <<signed, liveness>>
    PROVE  /\ signed' \subseteq [writer : Writer, trail : Trail, leaves : Leaves]
           /\ head' \in [Trail -> SUBSET [leaves : Leaves, blockTime : Nat]]
           /\ recorded' \in [Trail -> SUBSET Leaves]
           /\ HonestHeadsAreOneChain'
           /\ RecordedUpToHead'
  BY DEF liveness, IInv, Shape, HonestHeadsAreOneChain, RecordedUpToHead

\* Every step keeps the invariant.
LEMMA NextKeeps ==
    ASSUME IInv, [Next]_vars
    PROVE  IInv'
<1> USE DEF IInv
<1>1. CASE Tick
  BY <1>1 DEF Tick, contract, liveness, Shape, HonestHeadsAreOneChain,
              HonestIsNeverSlashed, FramesAreClean, RecordedUpToHead
<1>2. ASSUME NEW w \in Writer, NEW t \in Trail, NEW s \in Leaves, Sign(w, t, s)
      PROVE  IInv'
  BY <1>2, SignKeeps
<1>3. ASSUME NEW a \in Writer, NEW v \in Amounts, deposit(a, v)
      PROVE  IInv'
  <2>1. v \in Nat
    BY LedgerAssumption
  <2>2. /\ bonds' = [bonds EXCEPT ![a] = ToppedUp(bonds[a], v)]
        /\ UNCHANGED <<now, signed, burnedTotal, stack, liveness>>
        /\ balance' = balance + v /\ depositedAt' = [depositedAt EXCEPT ![a] = now]
    BY <1>3 DEF deposit
  <2>3. ToppedUp(bonds[a], v) \in Bond /\ ToppedUp(bonds[a], v).slashed = bonds[a].slashed
    BY <2>1, BondsStayBonds DEF Shape
  <2>4. Shape'
    BY <2>1, <2>2, <2>3, BondStepKeepsTheRest DEF Shape
  <2>5. HonestIsNeverSlashed'
    BY <2>2, <2>3 DEF Shape, HonestIsNeverSlashed, Writer
  <2>6. FramesAreClean'
    BY <2>2 DEF FramesAreClean
  <2> QED
    BY <2>2, <2>4, <2>5, <2>6, BondStepKeepsTheRest
<1>4. ASSUME NEW a \in Writer, requestWithdraw(a)
      PROVE  IInv'
  <2> DEFINE b == [bonds[a] EXCEPT !.withdrawRequested = TRUE, !.unlockAt = UnlockAt(a)]
  <2>1. UnlockAt(a) \in Nat
    BY LedgerAssumption DEF UnlockAt, Shape
  <2>2. b \in Bond /\ b.slashed = bonds[a].slashed
    BY <2>1, BondsStayBonds DEF Shape
  <2>3. /\ bonds' = [bonds EXCEPT ![a] = b]
        /\ UNCHANGED <<now, signed, balance, burnedTotal, stack, liveness, depositedAt>>
    BY <1>4 DEF requestWithdraw, Shape
  <2> HIDE DEF b
  <2>4. Shape'
    BY <2>2, <2>3, BondStepKeepsTheRest DEF Shape
  <2>5. HonestIsNeverSlashed'
    BY <2>2, <2>3 DEF Shape, HonestIsNeverSlashed, Writer
  <2>6. FramesAreClean'
    BY <2>3 DEF FramesAreClean
  <2> QED
    BY <2>3, <2>4, <2>5, <2>6, BondStepKeepsTheRest
<1>5. ASSUME NEW a \in Writer, withdraw(a)
      PROVE  IInv'
  <2>1. /\ bonds' = [bonds EXCEPT ![a] = Cleared(bonds[a])]
        /\ Pay(a, bonds[a].amount)
        /\ UNCHANGED <<now, signed, burnedTotal, liveness, depositedAt>>
    BY <1>5 DEF withdraw
  <2>2. Cleared(bonds[a]) \in Bond /\ Cleared(bonds[a]).slashed = bonds[a].slashed
    BY BondsStayBonds DEF Shape
  <2>3. bonds[a].amount \in Nat
    BY DEF Shape, Bond
  <2>4. balance' \in Nat /\ stack' \in Seq(Frame) /\ FramesAreClean'
    BY <2>1, <2>3, PayKeeps
  <2>5. Shape'
    BY <2>1, <2>2, <2>4, BondStepKeepsTheRest DEF Shape
  <2>6. HonestIsNeverSlashed'
    BY <2>1, <2>2 DEF Shape, HonestIsNeverSlashed, Writer
  <2> QED
    BY <2>1, <2>4, <2>5, <2>6, BondStepKeepsTheRest
<1>6. ASSUME NEW a \in Writer, NEW p \in Writer, prove(a, p)
      PROVE  IInv'
  <2> DEFINE b == [Cleared(bonds[a]) EXCEPT !.slashed = TRUE]
  <2>1. /\ bonds' = [bonds EXCEPT ![a] = b]
        /\ burnedTotal' = burnedTotal + BurnedShare(bonds[a].amount)
        /\ Pay(p, bonds[a].amount \div 2)
        /\ UNCHANGED <<now, signed, liveness, depositedAt>>
    BY <1>6 DEF prove, Slash
  <2>2. a \notin Honest
    BY <1>6, NoEvidenceAgainstHonest DEF prove
  <2>3. b \in Bond
    BY BondsStayBonds DEF Shape
  <2>4. bonds[a].amount \in Nat
    BY DEF Shape, Bond
  <2>5. bonds[a].amount \div 2 \in Nat /\ BurnedShare(bonds[a].amount) \in Nat
    BY <2>4, HalvesAreNaturals
  <2>6. balance' \in Nat /\ stack' \in Seq(Frame) /\ FramesAreClean'
    BY <2>1, <2>5, PayKeeps
  <2> HIDE DEF b
  <2>7. Shape'
    BY <2>1, <2>3, <2>5, <2>6, BondStepKeepsTheRest DEF Shape
  <2>8. HonestIsNeverSlashed'
    BY <2>1, <2>2 DEF Shape, HonestIsNeverSlashed, Writer
  <2> QED
    BY <2>1, <2>6, <2>7, <2>8, BondStepKeepsTheRest
<1>7. CASE PayoutReturns
  <2>1. stack' \in Seq(Frame) /\ FramesAreClean'
    BY <1>7, PopKeeps DEF PayoutReturns
  <2>2. UNCHANGED <<now, signed, bonds, balance, burnedTotal, liveness, depositedAt>>
    BY <1>7 DEF PayoutReturns, contract
  <2>3. Shape' /\ HonestIsNeverSlashed'
    BY <2>1, <2>2, BondStepKeepsTheRest DEF Shape, HonestIsNeverSlashed
  <2> QED
    BY <2>1, <2>2, <2>3, BondStepKeepsTheRest
<1>8. CASE PayoutFails
  <2> DEFINE f == stack[Len(stack)]
  <2>1. /\ bonds' = f.bonds /\ balance' = f.balance
        /\ burnedTotal' = f.burnedTotal /\ depositedAt' = f.depositedAt
        /\ UNCHANGED <<now, signed, liveness>>
    BY <1>8 DEF PayoutFails
  <2>2. /\ stack' \in Seq(Frame) /\ FramesAreClean'
        /\ Len(stack) \in DOMAIN stack /\ f \in Frame
    BY <1>8, PopKeeps DEF PayoutFails
  <2>3. Shape'
    BY <2>1, <2>2, BondStepKeepsTheRest DEF Shape, Frame
  <2>4. HonestIsNeverSlashed'
    BY <2>1, <2>2 DEF HonestIsNeverSlashed, FramesAreClean
  <2> QED
    BY <2>1, <2>2, <2>3, <2>4, BondStepKeepsTheRest
<1>9. ASSUME NEW t \in Trail, NEW w \in Writer, registerTrail(t, w)
      PROVE  IInv'
  BY <1>9 DEF registerTrail, contract, Shape, HonestHeadsAreOneChain,
              HonestIsNeverSlashed, FramesAreClean, RecordedUpToHead
<1>10. ASSUME NEW h \in signed, submit(h.trail, h.leaves)
       PROVE  IInv'
  BY <1>10, SubmitKeeps
<1>11. CASE UNCHANGED vars
  BY <1>11 DEF vars, Shape, HonestHeadsAreOneChain, HonestIsNeverSlashed,
               FramesAreClean, RecordedUpToHead
<1> QED
  BY <1>1, <1>2, <1>3, <1>4, <1>5, <1>6, <1>7, <1>8, <1>9, <1>10, <1>11 DEF Next

LEMMA Invariance ==
    Spec => []IInv
<1>1. Init => IInv
  BY InitEstablishes
<1>2. IInv /\ [Next]_vars => IInv'
  BY NextKeeps
<1> QED
  BY <1>1, <1>2, PTL DEF Spec

-----------------------------------------------------------------------------
(* Results.                                                                *)

\* A writer that signs the heads of one chain per trail is never slashed,
\* whoever shows which of its heads to BondedCheckpoints, and whatever the
\* recipients of payouts call or refuse.
THEOREM HonestWritersAreSafe == Spec => []HonestIsNeverSlashed
<1>1. IInv => HonestIsNeverSlashed
  BY DEF IInv
<1> QED
  BY <1>1, Invariance, PTL

\* The heads AnchoringLiveness.submit has recorded for a trail are one
\* chain, although a writer may sign anything and anyone may submit it.
THEOREM PublicRecordIsOneChain == Spec => []PublicHeadsAreOneChain
<1>1. ASSUME IInv PROVE PublicHeadsAreOneChain
  <2> SUFFICES ASSUME NEW t \in Trail, NEW a \in recorded[t], NEW b \in recorded[t]
               PROVE  Comparable(a, b)
    BY DEF PublicHeadsAreOneChain, Comparable
  <2>1. PICK h \in head[t] : IsPrefixOf(a, h.leaves) /\ IsPrefixOf(b, h.leaves)
    BY <1>1 DEF IInv, RecordedUpToHead
  <2>2. a \in Leaves /\ b \in Leaves /\ h.leaves \in Leaves
    BY <1>1, <2>1 DEF IInv, Shape
  <2> QED
    BY <2>1, <2>2, PrefixesOfOneHead
<1>2. IInv => PublicHeadsAreOneChain
  BY <1>1
<1> QED
  BY <1>2, Invariance, PTL

-----------------------------------------------------------------------------
(* What evidence there is.                                                 *)

\* Two heads that contradict each other are evidence in one order or the
\* other: of one length they equivocate, of two lengths the shorter one has
\* a leaf the longer one has not kept.
LEMMA IncomparableIsEvidence ==
    ASSUME NEW a \in Leaves, NEW b \in Leaves, ~Comparable(a, b)
    PROVE  Equivocate(a, b) \/ NotExtended(a, b) \/ NotExtended(b, a)
<1>1. /\ Len(a) \in Nat \ {0} /\ Len(b) \in Nat \ {0}
      /\ Len(a) <= MaxLeaves /\ Len(b) <= MaxLeaves
  BY LeavesAreSequences
<1>2. ASSUME NEW older \in Leaves, NEW newer \in Leaves,
             Len(older) < Len(newer), Len(older) \in Nat, Len(older) <= MaxLeaves,
             ~IsPrefixOf(older, newer)
      PROVE  NotExtended(older, newer)
  <2>1. PICK k \in 1 .. Len(older) : older[k] # newer[k]
    BY <1>2, PrefixByElements, LeavesAreSequences
  <2>2. k - 1 \in 0 .. MaxLeaves /\ k - 1 <= Len(older) - 1 /\ (k - 1) + 1 = k
    BY <1>2, LedgerAssumption
  <2> QED
    BY <1>2, <2>1, <2>2 DEF NotExtended, LeafInOlderTree
<1>3. CASE Len(a) = Len(b)
  <2>1. a # b
    BY PrefixIsReflexive DEF Comparable
  <2> QED
    BY <1>3, <2>1 DEF Equivocate
<1>4. CASE Len(a) < Len(b)
  BY <1>1, <1>2, <1>4 DEF Comparable
<1>5. CASE Len(b) < Len(a)
  BY <1>1, <1>2, <1>5 DEF Comparable
<1> QED
  BY <1>1, <1>3, <1>4, <1>5

-----------------------------------------------------------------------------
(* The delays.                                                             *)

\* Bonds bs last added to at ds, at time n: nobody has added to a bond in
\* the future, and a pending withdrawal waits withdrawDelay after the last
\* addition at least.
Delayed(bs, ds, n) ==
    \A w \in Writer :
        /\ ds[w] <= n
        /\ bs[w].withdrawRequested => bs[w].unlockAt >= ds[w] + withdrawDelay

\* So it is with the bonds, and with those a failing payout puts back.
BondsAreDelayed ==
    /\ Delayed(bonds, depositedAt, now)
    /\ \A i \in DOMAIN stack : Delayed(stack[i].bonds, stack[i].depositedAt, now)

\* Changing one bond of all.
LEMMA DelayedExcept ==
    ASSUME NEW bs \in [Writer -> Bond], NEW ds \in [Writer -> Nat], NEW n \in Nat,
           Delayed(bs, ds, n), NEW a \in Writer, NEW b \in Bond, NEW d \in Nat,
           d <= n, b.withdrawRequested => b.unlockAt >= d + withdrawDelay
    PROVE  Delayed([bs EXCEPT ![a] = b], [ds EXCEPT ![a] = d], n)
  BY DEF Delayed

\* A payout remembers bonds that are delayed.
LEMMA PayKeepsDelays ==
    ASSUME IInv, BondsAreDelayed, NEW to \in Writer, NEW v \in Nat, Pay(to, v), now' = now
    PROVE  \A i \in DOMAIN stack' : Delayed(stack'[i].bonds, stack'[i].depositedAt, now)
<1> DEFINE f == [to |-> to, bonds |-> bonds, balance |-> balance,
                 burnedTotal |-> burnedTotal, depositedAt |-> depositedAt]
<1>1. f \in Frame /\ f.bonds = bonds /\ f.depositedAt = depositedAt
  BY DEF Frame, IInv, Shape
<1>2. stack \in Seq(Frame) /\ stack' = Append(stack, f)
  BY DEF Pay, IInv, Shape
<1> HIDE DEF f
<1> SUFFICES ASSUME NEW i \in DOMAIN stack'
             PROVE  Delayed(stack'[i].bonds, stack'[i].depositedAt, now)
  OBVIOUS
<1>3. CASE i = Len(stack) + 1
  <2>1. stack'[i] = f
    BY <1>1, <1>2, <1>3
  <2> QED
    BY <1>1, <2>1 DEF BondsAreDelayed
<1>4. CASE i # Len(stack) + 1
  <2>1. i \in DOMAIN stack /\ stack'[i] = stack[i]
    BY <1>1, <1>2, <1>4
  <2> QED
    BY <2>1 DEF BondsAreDelayed
<1> QED
  BY <1>3, <1>4

\* Every step keeps the delays, a top-up by withdrawing the request, a
\* request by counting from now, a failing payout by what it remembered.
LEMMA NextKeepsDelays ==
    ASSUME IInv, IInv', BondsAreDelayed, [Next]_vars
    PROVE  BondsAreDelayed'
<1> USE DEF IInv
<1>1. CASE Tick
  <2>1. now' = now + 1 /\ UNCHANGED <<bonds, depositedAt, stack>>
    BY <1>1 DEF Tick, contract
  <2>2. ASSUME NEW bs \in [Writer -> Bond], NEW ds \in [Writer -> Nat], Delayed(bs, ds, now)
        PROVE  Delayed(bs, ds, now + 1)
    BY <2>2 DEF Delayed, Shape
  <2>3. Delayed(bonds, depositedAt, now + 1)
    BY <2>2 DEF BondsAreDelayed, Shape
  <2>4. ASSUME NEW i \in DOMAIN stack
        PROVE  Delayed(stack[i].bonds, stack[i].depositedAt, now + 1)
    <3>1. stack[i] \in Frame
      BY DEF Shape
    <3>2. stack[i].bonds \in [Writer -> Bond] /\ stack[i].depositedAt \in [Writer -> Nat]
      BY <3>1 DEF Frame
    <3> QED
      BY <2>2, <3>2 DEF BondsAreDelayed
  <2> QED
    BY <2>1, <2>3, <2>4 DEF BondsAreDelayed
<1>2. ASSUME UNCHANGED <<bonds, depositedAt, stack, now>>
      PROVE  BondsAreDelayed'
  BY <1>2 DEF BondsAreDelayed, Delayed
<1>3. ASSUME NEW a \in Writer, NEW v \in Amounts, deposit(a, v)
      PROVE  BondsAreDelayed'
  <2>1. v \in Nat
    BY LedgerAssumption
  <2>2. PICK b \in Bond : b = ToppedUp(bonds[a], v)
    BY <2>1, BondsStayBonds DEF Shape
  <2>3. ~b.withdrawRequested
    BY <2>2 DEF ToppedUp, Bond, Shape
  <2>4. /\ bonds' = [bonds EXCEPT ![a] = b] /\ depositedAt' = [depositedAt EXCEPT ![a] = now]
        /\ now' = now /\ stack' = stack
    BY <1>3, <2>2 DEF deposit
  <2>5. Delayed([bonds EXCEPT ![a] = b], [depositedAt EXCEPT ![a] = now], now)
    <3>1. now \in Nat /\ now <= now
      BY DEF Shape
    <3>2. b.withdrawRequested => b.unlockAt >= now + withdrawDelay
      BY <2>3
    <3>3. bonds \in [Writer -> Bond] /\ depositedAt \in [Writer -> Nat]
      BY DEF Shape
    <3>4. Delayed(bonds, depositedAt, now)
      BY DEF BondsAreDelayed
    <3> QED
      BY <3>1, <3>2, <3>3, <3>4, DelayedExcept
  <2> QED
    BY <2>4, <2>5 DEF BondsAreDelayed
<1>4. ASSUME NEW a \in Writer, requestWithdraw(a)
      PROVE  BondsAreDelayed'
  <2>1. PICK u \in Nat : u = now + withdrawDelay
    BY LedgerAssumption DEF Shape
  <2>2. PICK b \in Bond : b = [bonds[a] EXCEPT !.withdrawRequested = TRUE, !.unlockAt = u]
    BY <2>1, BondsStayBonds DEF Shape
  <2>3. b.unlockAt = u
    BY <2>2 DEF Bond, Shape
  <2>4. depositedAt[a] \in Nat /\ depositedAt[a] <= now
    BY DEF Shape, BondsAreDelayed, Delayed
  <2>5. b.unlockAt >= depositedAt[a] + withdrawDelay
    BY <2>1, <2>3, <2>4, LedgerAssumption DEF Shape
  <2>6. /\ bonds' = [bonds EXCEPT ![a] = b] /\ depositedAt' = depositedAt
        /\ now' = now /\ stack' = stack
    BY <1>4, <2>1, <2>2 DEF requestWithdraw, UnlockAt, Shape
  <2>7. Delayed([bonds EXCEPT ![a] = b], [depositedAt EXCEPT ![a] = depositedAt[a]], now)
    BY <2>4, <2>5, DelayedExcept DEF Shape, BondsAreDelayed
  <2>8. [depositedAt EXCEPT ![a] = depositedAt[a]] = depositedAt
    BY DEF Shape
  <2> QED
    BY <2>6, <2>7, <2>8 DEF BondsAreDelayed
<1>5. ASSUME NEW a \in Writer, NEW p \in Writer, NEW v \in Nat, NEW b \in Bond,
             Pay(p, v), ~b.withdrawRequested, bonds' = [bonds EXCEPT ![a] = b],
             UNCHANGED <<now, depositedAt>>
      PROVE  BondsAreDelayed'
  <2>1. \A i \in DOMAIN stack' : Delayed(stack'[i].bonds, stack'[i].depositedAt, now)
    BY <1>5, PayKeepsDelays
  <2>2. depositedAt[a] \in Nat /\ depositedAt[a] <= now
    BY DEF Shape, BondsAreDelayed, Delayed
  <2>3. Delayed([bonds EXCEPT ![a] = b], [depositedAt EXCEPT ![a] = depositedAt[a]], now)
    BY <1>5, <2>2, DelayedExcept DEF Shape, BondsAreDelayed
  <2>4. [depositedAt EXCEPT ![a] = depositedAt[a]] = depositedAt
    BY DEF Shape
  <2> QED
    BY <1>5, <2>1, <2>3, <2>4 DEF BondsAreDelayed
<1>6. ASSUME NEW a \in Writer, withdraw(a)
      PROVE  BondsAreDelayed'
  <2>1. PICK b \in Bond : b = Cleared(bonds[a])
    BY BondsStayBonds DEF Shape
  <2>2. ~b.withdrawRequested
    BY <2>1 DEF Cleared, Bond, Shape
  <2>3. bonds[a].amount \in Nat
    BY DEF Shape, Bond
  <2>4. /\ Pay(a, bonds[a].amount) /\ bonds' = [bonds EXCEPT ![a] = b]
        /\ UNCHANGED <<now, depositedAt>>
    BY <1>6, <2>1 DEF withdraw
  <2> QED
    BY <1>5, <2>2, <2>3, <2>4
<1>7. ASSUME NEW a \in Writer, NEW p \in Writer, prove(a, p)
      PROVE  BondsAreDelayed'
  <2>1. PICK b \in Bond : b = [Cleared(bonds[a]) EXCEPT !.slashed = TRUE]
    BY BondsStayBonds DEF Shape
  <2>2. ~b.withdrawRequested
    BY <2>1 DEF Cleared, Bond, Shape
  <2>3. bonds[a].amount \div 2 \in Nat
    BY HalvesAreNaturals DEF Shape, Bond
  <2>4. /\ Pay(p, bonds[a].amount \div 2) /\ bonds' = [bonds EXCEPT ![a] = b]
        /\ UNCHANGED <<now, depositedAt>>
    BY <1>7, <2>1 DEF prove, Slash
  <2> QED
    BY <1>5, <2>2, <2>3, <2>4
<1>8. ASSUME stack # << >>, stack' = SubSeq(stack, 1, Len(stack) - 1), now' = now
      PROVE  /\ Len(stack) \in DOMAIN stack
             /\ \A i \in DOMAIN stack' : Delayed(stack'[i].bonds, stack'[i].depositedAt, now)
  <2>1. stack \in Seq(Frame) /\ Len(stack) \in Nat \ {0}
    BY <1>8 DEF Shape
  <2>2. \A i \in DOMAIN stack' : i \in DOMAIN stack /\ stack'[i] = stack[i]
    BY <1>8, <2>1
  <2> QED
    BY <2>1, <2>2 DEF BondsAreDelayed
<1>9. CASE PayoutReturns
  BY <1>8, <1>9 DEF PayoutReturns, contract, BondsAreDelayed
<1>10. CASE PayoutFails
  BY <1>8, <1>10 DEF PayoutFails, BondsAreDelayed
<1>11. ASSUME NEW t \in Trail, NEW w \in Writer, registerTrail(t, w)
       PROVE  BondsAreDelayed'
  BY <1>2, <1>11 DEF registerTrail, contract
<1>12. ASSUME NEW h \in signed, submit(h.trail, h.leaves)
       PROVE  BondsAreDelayed'
  BY <1>2, <1>12 DEF submit, contract
<1>13. ASSUME NEW w \in Writer, NEW t \in Trail, NEW s \in Leaves, Sign(w, t, s)
       PROVE  BondsAreDelayed'
  BY <1>2, <1>13 DEF Sign, contract
<1>14. CASE UNCHANGED vars
  BY <1>2, <1>14 DEF vars
<1> QED
  BY <1>1, <1>3, <1>4, <1>6, <1>7, <1>9, <1>10, <1>11, <1>12, <1>13, <1>14 DEF Next

\* Only withdraw() empties a bond and pays without slashing it.
LEMMA WithdrawalsWait ==
    ASSUME IInv, BondsAreDelayed, [Next]_vars
    PROVE  DepositStaysAtRisk
<1> USE DEF IInv
<1> SUFFICES ASSUME NEW w \in Writer, Len(stack') > Len(stack), bonds[w].amount # 0,
                    bonds'[w].amount = 0, ~bonds'[w].slashed
             PROVE  now >= depositedAt[w] + withdrawDelay
  BY DEF DepositStaysAtRisk
<1>0. stack \in Seq(Frame) /\ Len(stack) \in Nat
  BY DEF Shape
<1>1. ~UNCHANGED stack
  BY <1>0
<1>2. ~PayoutReturns /\ ~PayoutFails
  <2>1. stack # << >> => Len(SubSeq(stack, 1, Len(stack) - 1)) < Len(stack)
    BY <1>0
  <2> QED
    BY <1>0, <2>1 DEF PayoutReturns, PayoutFails
<1>3. ASSUME NEW a \in Writer, NEW p \in Writer, prove(a, p)
      PROVE  FALSE
  <2>1. PICK b \in Bond : b = [Cleared(bonds[a]) EXCEPT !.slashed = TRUE]
    BY BondsStayBonds DEF Shape
  <2>2. b.slashed
    BY <2>1 DEF Cleared, Bond, Shape
  <2>3. bonds' = [bonds EXCEPT ![a] = b]
    BY <1>3, <2>1 DEF prove, Slash
  <2> QED
    BY <2>2, <2>3 DEF Shape
<1>4. PICK a \in Writer : withdraw(a)
  BY <1>1, <1>2, <1>3 DEF Next, vars, Tick, Sign, deposit, requestWithdraw, registerTrail, submit
<1>5. a = w
  BY <1>4 DEF withdraw, Shape
<1>6. bonds[w].withdrawRequested /\ now >= bonds[w].unlockAt
  BY <1>4, <1>5 DEF withdraw
<1>7. bonds[w].unlockAt >= depositedAt[w] + withdrawDelay
  BY <1>6 DEF BondsAreDelayed, Delayed
<1>8. bonds[w].unlockAt \in Nat /\ depositedAt[w] \in Nat
  BY DEF Shape, Bond
<1> QED
  BY <1>6, <1>7, <1>8, LedgerAssumption DEF Shape

\* Only submit() changes the head of a trail, and what it accepts is longer
\* than everything it has recorded.
LEMMA OnlyNewHeadsRevive ==
    ASSUME IInv, [Next]_vars
    PROVE  ReplayIsNoSignOfLife
<1> USE DEF IInv
<1> SUFFICES ASSUME NEW t \in Trail, isDelinquent(t), ~isDelinquent(t)'
             PROVE  recorded'[t] # recorded[t]
  BY DEF ReplayIsNoSignOfLife
<1>1. PICK h \in head[t] : now > h.blockTime + deadline
  BY DEF isDelinquent
<1>2. h.leaves \in Leaves /\ h.blockTime \in Nat
  BY <1>1 DEF Shape
<1>3. ASSUME head'[t] = head[t], now' = now \/ now' = now + 1
      PROVE  FALSE
  <2>1. now' > h.blockTime + deadline
    BY <1>1, <1>2, <1>3, LedgerAssumption DEF Shape
  <2> QED
    BY <1>1, <1>3, <2>1 DEF isDelinquent
<1>4. PICK g \in signed : submit(g.trail, g.leaves)
  BY <1>3 DEF Next, vars, liveness, Tick, Sign, deposit, requestWithdraw, withdraw, prove,
              Slash, PayoutReturns, PayoutFails, registerTrail
<1>5. g.trail \in Trail /\ g.leaves \in Leaves
  BY DEF Shape
<1>6. now' = now
  BY <1>4 DEF submit
<1>7. g.trail = t
  <2> SUFFICES ASSUME g.trail # t PROVE FALSE
    OBVIOUS
  <2>1. head'[t] = head[t]
    BY <1>4, <1>5 DEF submit, Shape
  <2> QED
    BY <1>3, <1>6, <2>1
<1>8. Len(g.leaves) > Len(h.leaves)
  BY <1>1, <1>4, <1>7 DEF submit, SeqIncreases
<1>9. g.leaves \notin recorded[t]
  <2> SUFFICES ASSUME g.leaves \in recorded[t] PROVE FALSE
    OBVIOUS
  <2>1. IsPrefixOf(g.leaves, h.leaves)
    BY <1>1 DEF RecordedUpToHead
  <2>2. Len(g.leaves) <= Len(h.leaves)
    BY <2>1 DEF IsPrefixOf
  <2> QED
    BY <1>2, <1>5, <1>8, <2>2, LeavesAreSequences
<1>10. g.leaves \in recorded'[t]
  BY <1>4, <1>5, <1>7 DEF submit, Shape
<1> QED
  BY <1>9, <1>10

\* Evidence exists against a writer exactly when two heads it has signed for
\* one trail contradict each other: proveEquivocation and proveNonExtension
\* together leave no fork out and convict no chain that only grew.
THEOREM EvidenceIsComplete == Spec => []EvidenceIsExact
<1>1. ASSUME IInv PROVE EvidenceIsExact
  <2> SUFFICES ASSUME NEW w \in Writer
               PROVE  EvidenceAgainst(w) <=>
                        \E a, b \in signed :
                            /\ a.writer = w /\ b.writer = w /\ a.trail = b.trail
                            /\ ~Comparable(a.leaves, b.leaves)
    BY DEF EvidenceIsExact, Comparable
  <2>1. ASSUME EvidenceAgainst(w)
        PROVE  \E a, b \in signed :
                   /\ a.writer = w /\ b.writer = w /\ a.trail = b.trail
                   /\ ~Comparable(a.leaves, b.leaves)
    BY <1>1, <2>1, EvidenceIsAContradiction
  <2>2. ASSUME NEW a \in signed, NEW b \in signed, a.writer = w, b.writer = w,
               a.trail = b.trail, ~Comparable(a.leaves, b.leaves)
        PROVE  EvidenceAgainst(w)
    <3>1. a.leaves \in Leaves /\ b.leaves \in Leaves /\ a.trail \in Trail
      BY <1>1 DEF IInv, Shape
    <3>2. /\ a.leaves \in {h.leaves : h \in signed}
          /\ b.leaves \in {h.leaves : h \in signed}
      OBVIOUS
    <3>3. w \in recoverSigner(a.trail, a.leaves) /\ w \in recoverSigner(a.trail, b.leaves)
      BY <2>2 DEF recoverSigner
    <3>4. \/ Equivocate(a.leaves, b.leaves) \/ NotExtended(a.leaves, b.leaves)
          \/ NotExtended(b.leaves, a.leaves)
      BY <2>2, <3>1, IncomparableIsEvidence
    <3> QED
      BY <3>1, <3>2, <3>3, <3>4 DEF EvidenceAgainst
  <2> QED
    BY <2>1, <2>2
<1>2. IInv => EvidenceIsExact
  BY <1>1
<1> QED
  BY <1>2, Invariance, PTL

\* No step pays a bond out before withdrawDelay has passed since it was last
\* added to, nested and failing payouts included, and no step makes a
\* delinquent trail look alive but a submit() of a head never shown before.
THEOREM DelaysHold == Spec => DelaysStand
<1>1. ASSUME Init PROVE BondsAreDelayed
  <2>1. /\ now = 0 /\ stack = << >> /\ bonds = [a \in Writer |-> NoBond]
        /\ depositedAt = [a \in Writer |-> 0]
    BY <1>1 DEF Init
  <2>2. Delayed(bonds, depositedAt, now)
    BY <2>1 DEF Delayed, NoBond
  <2> QED
    BY <2>1, <2>2 DEF BondsAreDelayed
<1>2. Init => BondsAreDelayed
  BY <1>1
<1>3. IInv /\ IInv' /\ BondsAreDelayed /\ [Next]_vars => BondsAreDelayed'
  BY NextKeepsDelays
<1>4. IInv /\ BondsAreDelayed /\ [Next]_vars => [DepositStaysAtRisk /\ ReplayIsNoSignOfLife]_vars
  BY WithdrawalsWait, OnlyNewHeadsRevive
<1> QED
  BY <1>2, <1>3, <1>4, Invariance, PTL DEF Spec, DelaysStand

-----------------------------------------------------------------------------
(* Least and greatest numbers.                                             *)

\* A set of numbers that is not empty has a least one.
LEMMA LeastNat ==
  ASSUME NEW T \in SUBSET Nat, T # {}
  PROVE  \E x \in T : \A y \in T : x <= y
<1> DEFINE R == OpToRel(<, Nat)
<1>1. IsWellFoundedOn(R, Nat)
  BY NatLessThanWellFounded
<1>2. PICK x \in T : \A y \in T : ~(<<y, x>> \in R)
  BY <1>1, WFMin
<1>3. \A y \in T : ~(y < x)
  BY <1>2 DEF OpToRel
<1> QED
  BY <1>3

\* One that is bounded as well has a greatest one, ...
LEMMA GreatestNat ==
  ASSUME NEW T \in SUBSET Nat, T # {}, NEW n \in Nat, \A t \in T : t <= n
  PROVE  \E x \in T : \A y \in T : y <= x
<1> DEFINE U == {u \in Nat : \E t \in T : t = n - u}
<1>1. \A t \in T : t \in Nat /\ n - t \in Nat /\ t = n - (n - t)
  OBVIOUS
<1>2. U \in SUBSET Nat /\ U # {}
  BY <1>1
<1>3. PICK u \in U : \A v \in U : u <= v
  BY <1>2, LeastNat
<1>4. PICK x \in T : x = n - u
  BY <1>3
<1>5. ASSUME NEW y \in T PROVE y <= x
  <2>1. y \in Nat /\ n - y \in U
    BY <1>1
  <2>2. u <= n - y
    BY <2>1, <1>3
  <2> QED
    BY <2>1, <2>2, <1>3, <1>4
<1> QED
  BY <1>5

\* ... and Max is that.
LEMMA MaxIsGreatest ==
  ASSUME NEW T \in SUBSET Nat, T # {}, NEW n \in Nat, \A t \in T : t <= n
  PROVE  Max(T) \in T /\ \A y \in T : y <= Max(T)
<1>1. \E x \in T : \A y \in T : x >= y
  <2>1. PICK x \in T : \A y \in T : y <= x
    BY GreatestNat
  <2> QED
    BY <2>1
<1>2. Max(T) \in T /\ \A y \in T : Max(T) >= y
  BY <1>1 DEF Max
<1> QED
  BY <1>2

-----------------------------------------------------------------------------
(* Sums over a finite set: SumFunction takes the summands in the order in  *)
(* which CHOOSE picks them, and the order makes no difference.             *)

\* One summand of a set and the sum of the rest.
Summed(f, s, it) ==
    IF s = {} THEN 0 ELSE f[CHOOSE x \in s : TRUE] + it[s \ {CHOOSE x \in s : TRUE}]

Sums(f, S) == CHOOSE it : it = [s \in SUBSET S |-> Summed(f, s, it)]

\* The library's SumFunction is this recursion.
LEMMA SumFunctionIsSums ==
  ASSUME NEW f
  PROVE  SumFunction(f) = Sums(f, DOMAIN f)[DOMAIN f]
BY DEF SumFunction, SumFunctionOnSet, FoldFunctionOnSet, MapThenFoldSet, Sums, Summed

\* The recursion of a sum has a solution: level by level of cardinality.
LEMMA SumsExist ==
  ASSUME NEW f, NEW S, IsFiniteSet(S)
  PROVE  \E it : it = [s \in SUBSET S |-> Summed(f, s, it)]
<1> DEFINE Low(n) == {s \in SUBSET S : Cardinality(s) <= n}
           Solved(n) == \E it : it = [s \in Low(n) |-> Summed(f, s, it)]
           Bad == {n \in Nat : ~Solved(n)}
<1>1. \A s \in SUBSET S : IsFiniteSet(s) /\ Cardinality(s) \in Nat
  BY FS_Subset, FS_CardinalityType
<1>2. \A s \in SUBSET S : s # {} =>
        LET x == CHOOSE x \in s : TRUE
        IN  x \in s /\ s \ {x} \in SUBSET S /\ Cardinality(s \ {x}) = Cardinality(s) - 1
                    /\ Cardinality(s) # 0
  <2> SUFFICES ASSUME NEW s \in SUBSET S, s # {}, NEW x, x = CHOOSE y \in s : TRUE
               PROVE  /\ x \in s /\ s \ {x} \in SUBSET S
                      /\ Cardinality(s \ {x}) = Cardinality(s) - 1 /\ Cardinality(s) # 0
    OBVIOUS
  <2>1. x \in s
    OBVIOUS
  <2>2. Cardinality(s \ {x}) = Cardinality(s) - 1
    BY <2>1, <1>1, FS_RemoveElement
  <2>3. Cardinality(s) # 0
    BY <1>1, FS_EmptySet
  <2> QED
    BY <2>1, <2>2, <2>3
<1>3. Solved(0)
  <2> DEFINE it == [s \in Low(0) |-> 0]
  <2>1. ASSUME NEW s \in Low(0) PROVE s = {}
    <3>1. s \in SUBSET S /\ Cardinality(s) = 0
      BY <1>1
    <3> QED
      BY <3>1, <1>1, FS_EmptySet
  <2>2. \A s \in Low(0) : Summed(f, s, it) = 0
    BY <2>1 DEF Summed
  <2>3. it = [s \in Low(0) |-> Summed(f, s, it)]
    BY <2>2
  <2> QED
    BY <2>3
<1>4. ASSUME NEW n \in Nat, Solved(n)
      PROVE  Solved(n + 1)
  <2>1. PICK it : it = [s \in Low(n) |-> Summed(f, s, it)]
    BY <1>4
  <2> DEFINE up == [s \in Low(n + 1) |-> Summed(f, s, it)]
  <2>2. Low(n) \subseteq Low(n + 1)
    BY <1>1
  <2>3. \A s \in Low(n) : up[s] = it[s]
    BY <2>1, <2>2
  <2>4. ASSUME NEW s \in Low(n + 1) PROVE Summed(f, s, it) = Summed(f, s, up)
    <3>1. CASE s = {}
      BY <3>1 DEF Summed
    <3>2. CASE s # {}
      <4> DEFINE x == CHOOSE x \in s : TRUE
      <4>1. Cardinality(s \ {x}) = Cardinality(s) - 1 /\ s \ {x} \in SUBSET S
        BY <3>2, <1>2
      <4>2. s \ {x} \in Low(n)
        BY <4>1, <1>1
      <4> QED
        BY <4>2, <2>3 DEF Summed
    <3> QED
      BY <3>1, <3>2
  <2>5. up = [s \in Low(n + 1) |-> Summed(f, s, up)]
    BY <2>4
  <2> QED
    BY <2>5
<1>5. Bad = {}
  <2> SUFFICES ASSUME Bad # {} PROVE FALSE
    OBVIOUS
  <2> HIDE DEF Solved
  <2>1. PICK n \in Bad : \A m \in Bad : n <= m
    BY LeastNat
  <2>2. n # 0
    BY <2>1, <1>3
  <2>3. n - 1 \in Nat /\ ~(n - 1 \in Bad)
    BY <2>1, <2>2
  <2>4. Solved(n - 1)
    BY <2>3
  <2>5. Solved((n - 1) + 1)
    BY <2>3, <2>4, <1>4
  <2>6. (n - 1) + 1 = n
    BY <2>1
  <2> QED
    BY <2>1, <2>5, <2>6
<1>6. Solved(Cardinality(S))
  <2> HIDE DEF Solved
  <2> QED
    BY <1>5, <1>1
<1>7. Low(Cardinality(S)) = SUBSET S
  BY FS_Subset, <1>1
<1> QED
  BY <1>6, <1>7

\* A sum is the summand CHOOSE picks and the sum of the rest.
LEMMA SumsAreSteps ==
  ASSUME NEW f, NEW S, IsFiniteSet(S)
  PROVE  \A s \in SUBSET S : Sums(f, S)[s] = Summed(f, s, Sums(f, S))
<1> DEFINE it == Sums(f, S)
<1>1. it = [s \in SUBSET S |-> Summed(f, s, it)]
  BY SumsExist DEF Sums
<1> HIDE DEF it
<1>2. \A s \in SUBSET S : it[s] = Summed(f, s, it)
  BY <1>1
<1> QED
  BY <1>2 DEF it

\* Of the subsets of a finite set that lack a property one is smallest.
LEMMA SmallestSubset ==
  ASSUME NEW S, IsFiniteSet(S), NEW Bad \in SUBSET (SUBSET S), Bad # {}
  PROVE  \E s \in Bad : \A x \in s : ~(s \ {x} \in Bad)
<1> DEFINE Sizes == {n \in Nat : \E s \in Bad : Cardinality(s) = n}
<1>1. \A s \in SUBSET S : IsFiniteSet(s) /\ Cardinality(s) \in Nat
  BY FS_Subset, FS_CardinalityType
<1>2. Sizes # {}
  BY <1>1
<1>3. PICK n \in Sizes : \A m \in Sizes : n <= m
  BY <1>2, LeastNat
<1>4. PICK s \in Bad : Cardinality(s) = n
  BY <1>3
<1>5. ASSUME NEW x \in s, s \ {x} \in Bad PROVE FALSE
  <2>1. Cardinality(s \ {x}) = n - 1
    BY <1>1, <1>4, FS_RemoveElement
  <2>2. Cardinality(s \ {x}) \in Sizes
    BY <1>5, <1>1
  <2>3. n <= n - 1
    BY <2>1, <2>2, <1>3
  <2> QED
    BY <2>3, <1>3
<1> QED
  BY <1>4, <1>5

\* Sums of natural numbers are natural numbers.
LEMMA SumsAreNaturals ==
  ASSUME NEW S, IsFiniteSet(S), NEW f \in [S -> Nat]
  PROVE  \A s \in SUBSET S : Sums(f, S)[s] \in Nat
<1> DEFINE it == Sums(f, S)
           Bad == {s \in SUBSET S : ~(it[s] \in Nat)}
<1>1. \A s \in SUBSET S : it[s] = Summed(f, s, it)
  BY SumsAreSteps
<1> HIDE DEF it
<1>2. SUFFICES ASSUME Bad # {} PROVE FALSE
  BY DEF it
<1>3. PICK s \in Bad : \A x \in s : ~(s \ {x} \in Bad)
  BY <1>2, SmallestSubset
<1>4. it[s] = Summed(f, s, it)
  BY <1>1, <1>3
<1>5. s # {}
  BY <1>3, <1>4 DEF Summed
<1> DEFINE x == CHOOSE x \in s : TRUE
<1>6. x \in s /\ x \in S
  BY <1>3, <1>5
<1>7. it[s \ {x}] \in Nat
  BY <1>3, <1>6
<1>8. it[s] = f[x] + it[s \ {x}]
  BY <1>4, <1>5 DEF Summed
<1> QED
  BY <1>3, <1>6, <1>7, <1>8

\* A sum is any one of its summands and the sum of the rest.
LEMMA SumsInAnyOrder ==
  ASSUME NEW S, IsFiniteSet(S), NEW f \in [S -> Nat], NEW a \in S
  PROVE  Sums(f, S)[S] = f[a] + Sums(f, S)[S \ {a}]
<1> DEFINE it == Sums(f, S)
           Bad == {s \in SUBSET S : \E x \in s : it[s] # f[x] + it[s \ {x}]}
<1>1. \A s \in SUBSET S : it[s] = Summed(f, s, it)
  BY SumsAreSteps
<1>2. \A s \in SUBSET S : it[s] \in Nat
  BY SumsAreNaturals
<1> HIDE DEF it
<1>3. SUFFICES ASSUME Bad # {} PROVE FALSE
  BY DEF it
<1>4. PICK s \in Bad : \A x \in s : ~(s \ {x} \in Bad)
  BY <1>3, SmallestSubset
<1>5. PICK x \in s : it[s] # f[x] + it[s \ {x}]
  BY <1>4
<1> DEFINE c == CHOOSE y \in s : TRUE
<1>6. c \in s
  BY <1>5
<1>7. it[s] = f[c] + it[s \ {c}]
  BY <1>1, <1>4, <1>5 DEF Summed
<1> HIDE DEF c
<1>8. c # x
  BY <1>5, <1>7
<1>9. it[s \ {c}] = f[x] + it[(s \ {c}) \ {x}]
  BY <1>4, <1>5, <1>6, <1>8
<1>10. it[s \ {x}] = f[c] + it[(s \ {c}) \ {x}]
  <2>1. (s \ {c}) \ {x} = (s \ {x}) \ {c}
    OBVIOUS
  <2>2. it[s \ {x}] = f[c] + it[(s \ {x}) \ {c}]
    BY <1>4, <1>5, <1>6, <1>8
  <2> QED
    BY <2>1, <2>2
<1>11. f[c] \in Nat /\ f[x] \in Nat /\ it[(s \ {c}) \ {x}] \in Nat
  BY <1>2, <1>4, <1>5, <1>6
<1>12. f[c] + (f[x] + it[(s \ {c}) \ {x}]) = f[x] + (f[c] + it[(s \ {c}) \ {x}])
  BY <1>11
<1> QED
  BY <1>5, <1>7, <1>9, <1>10, <1>12

\* Sums over sets on which two functions agree are equal.
LEMMA SumsAgree ==
  ASSUME NEW S, IsFiniteSet(S), NEW f \in [S -> Nat], NEW g \in [S -> Nat],
         NEW a \in S, \A x \in S : x # a => f[x] = g[x]
  PROVE  Sums(f, S)[S \ {a}] = Sums(g, S)[S \ {a}]
<1> DEFINE it == Sums(f, S)
           ig == Sums(g, S)
           Bad == {s \in SUBSET S : ~(a \in s) /\ it[s] # ig[s]}
<1>1. /\ \A s \in SUBSET S : it[s] = Summed(f, s, it)
      /\ \A s \in SUBSET S : ig[s] = Summed(g, s, ig)
  BY SumsAreSteps
<1> HIDE DEF it, ig
<1>2. SUFFICES ASSUME Bad # {} PROVE FALSE
  BY DEF it, ig
<1>3. PICK s \in Bad : \A x \in s : ~(s \ {x} \in Bad)
  BY <1>2, SmallestSubset
<1>4. it[s] = Summed(f, s, it) /\ ig[s] = Summed(g, s, ig)
  BY <1>1, <1>3
<1>5. s # {}
  BY <1>3, <1>4 DEF Summed
<1> DEFINE c == CHOOSE y \in s : TRUE
<1>6. c \in s
  BY <1>5
<1>7. it[s] = f[c] + it[s \ {c}] /\ ig[s] = g[c] + ig[s \ {c}]
  BY <1>4, <1>5 DEF Summed
<1> HIDE DEF c
<1>8. c \in S /\ c # a /\ f[c] = g[c] /\ it[s \ {c}] = ig[s \ {c}]
  BY <1>3, <1>6
<1> QED
  BY <1>3, <1>7, <1>8

\* Changing one summand changes the sum by as much.
LEMMA SumChanges ==
  ASSUME NEW S, IsFiniteSet(S), NEW f \in [S -> Nat], NEW g \in [S -> Nat],
         NEW a \in S, \A x \in S : x # a => f[x] = g[x]
  PROVE  /\ SumFunction(f) \in Nat /\ SumFunction(g) \in Nat
         /\ SumFunction(g) + f[a] = SumFunction(f) + g[a]
<1>1. SumFunction(f) = Sums(f, S)[S] /\ SumFunction(g) = Sums(g, S)[S]
  <2>1. DOMAIN f = S /\ DOMAIN g = S
    OBVIOUS
  <2> QED
    BY <2>1, SumFunctionIsSums
<1> DEFINE rest == Sums(f, S)[S \ {a}]
<1>2. rest \in Nat
  BY SumsAreNaturals
<1>3. Sums(f, S)[S] = f[a] + rest
  BY SumsInAnyOrder
<1>4. Sums(g, S)[S] = g[a] + rest
  BY SumsInAnyOrder, SumsAgree
<1> HIDE DEF rest
<1> QED
  BY <1>1, <1>2, <1>3, <1>4

\* No summand but zero, no sum.
LEMMA SumOfNothing ==
  ASSUME NEW S, IsFiniteSet(S)
  PROVE  SumFunction([x \in S |-> 0]) = 0
<1> DEFINE f == [x \in S |-> 0]
           it == Sums(f, S)
           Bad == {s \in SUBSET S : it[s] # 0}
<1>1. \A s \in SUBSET S : it[s] = Summed(f, s, it)
  BY SumsAreSteps
<1>2. \A x \in S : f[x] = 0
  OBVIOUS
<1>3. SumFunction(f) = it[S]
  <2>1. DOMAIN f = S
    OBVIOUS
  <2> HIDE DEF f
  <2> QED
    BY <2>1, SumFunctionIsSums
<1> HIDE DEF it, f
<1>4. SUFFICES ASSUME Bad # {} PROVE FALSE
  BY <1>3 DEF f
<1>5. PICK s \in Bad : \A x \in s : ~(s \ {x} \in Bad)
  BY <1>4, SmallestSubset
<1>6. it[s] = Summed(f, s, it)
  BY <1>1, <1>5
<1>7. s # {}
  BY <1>5, <1>6 DEF Summed
<1> DEFINE c == CHOOSE y \in s : TRUE
<1>8. c \in s
  BY <1>7
<1>9. it[s] = f[c] + it[s \ {c}]
  BY <1>6, <1>7 DEF Summed
<1> HIDE DEF c
<1>10. c \in S /\ f[c] = 0 /\ it[s \ {c}] = 0
  BY <1>2, <1>5, <1>8
<1> QED
  BY <1>5, <1>9, <1>10

-----------------------------------------------------------------------------
(* The bond contract's money.                                              *)

\* What a set of bonds owes their writers.
Owed(bs) == SumFunction([a \in Writer |-> bs[a].amount])

Covered(bs, funds, burned) == funds = Owed(bs) + burned

\* The contract is solvent, and a failing payout puts a solvent state back.
MoneyHolds ==
    /\ Covered(bonds, balance, burnedTotal)
    /\ \A i \in DOMAIN stack :
          Covered(stack[i].bonds, stack[i].balance, stack[i].burnedTotal)

\* Changing one bond changes what is owed by as much.
LEMMA OwedChanges ==
    ASSUME NEW bs \in [Writer -> Bond], NEW a \in Writer, NEW b \in Bond
    PROVE  /\ Owed(bs) \in Nat /\ Owed([bs EXCEPT ![a] = b]) \in Nat
           /\ Owed([bs EXCEPT ![a] = b]) + bs[a].amount = Owed(bs) + b.amount
<1> DEFINE cs == [bs EXCEPT ![a] = b]
           f == [x \in Writer |-> bs[x].amount]
           g == [x \in Writer |-> cs[x].amount]
<1>1. cs \in [Writer -> Bond] /\ cs[a] = b /\ \A x \in Writer : x # a => cs[x] = bs[x]
  OBVIOUS
<1> HIDE DEF cs
<1>2. f \in [Writer -> Nat] /\ g \in [Writer -> Nat]
  BY <1>1 DEF Bond
<1>3. f[a] = bs[a].amount /\ g[a] = b.amount /\ \A x \in Writer : x # a => f[x] = g[x]
  BY <1>1
<1>4. IsFiniteSet(Writer)
  BY LedgerAssumption
<1>5. Owed(bs) = SumFunction(f) /\ Owed(cs) = SumFunction(g)
  BY DEF Owed
<1> HIDE DEF f, g
<1>6. /\ SumFunction(f) \in Nat /\ SumFunction(g) \in Nat
      /\ SumFunction(g) + f[a] = SumFunction(f) + g[a]
  BY <1>2, <1>3, <1>4, SumChanges
<1> QED
  BY <1>3, <1>5, <1>6 DEF cs

\* Nothing was paid in yet.
LEMMA InitIsSolvent ==
    ASSUME Init
    PROVE  MoneyHolds
<1>1. \A a \in Writer : bonds[a].amount = 0
  BY DEF Init, NoBond
<1>2. [a \in Writer |-> bonds[a].amount] = [a \in Writer |-> 0]
  BY <1>1
<1>3. Owed(bonds) = 0
  BY <1>2, LedgerAssumption, SumOfNothing DEF Owed
<1> QED
  BY <1>3 DEF Init, MoneyHolds, Covered

\* A payout remembers a solvent state.
LEMMA PayKeepsMoney ==
    ASSUME IInv, MoneyHolds, NEW to \in Writer, NEW v \in Nat, Pay(to, v)
    PROVE  /\ v <= balance /\ balance' = balance - v
           /\ \A i \in DOMAIN stack' :
                 Covered(stack'[i].bonds, stack'[i].balance, stack'[i].burnedTotal)
<1> DEFINE f == [to |-> to, bonds |-> bonds, balance |-> balance,
                 burnedTotal |-> burnedTotal, depositedAt |-> depositedAt]
<1>1. f \in Frame /\ f.bonds = bonds /\ f.balance = balance /\ f.burnedTotal = burnedTotal
  BY DEF Frame, IInv, Shape
<1>2. stack \in Seq(Frame) /\ stack' = Append(stack, f)
  BY DEF Pay, IInv, Shape
<1> HIDE DEF f
<1>3. ASSUME NEW i \in DOMAIN stack'
      PROVE  Covered(stack'[i].bonds, stack'[i].balance, stack'[i].burnedTotal)
  <2>1. CASE i = Len(stack) + 1
    <3>1. stack'[i] = f
      BY <2>1, <1>1, <1>2
    <3> QED
      BY <1>1, <3>1 DEF MoneyHolds
  <2>2. CASE i # Len(stack) + 1
    <3>1. i \in DOMAIN stack /\ stack'[i] = stack[i]
      BY <1>1, <1>2, <2>2
    <3> QED
      BY <3>1 DEF MoneyHolds
  <2> QED
    BY <2>1, <2>2
<1> QED
  BY <1>3 DEF Pay

\* Every step keeps the contract solvent: what a bond loses is paid or
\* burned before its recipient gets control.
LEMMA NextKeepsMoney ==
    ASSUME IInv, MoneyHolds, [Next]_vars
    PROVE  MoneyHolds'
<1> USE DEF IInv
<1>0. /\ balance \in Nat /\ burnedTotal \in Nat /\ bonds \in [Writer -> Bond]
      /\ stack \in Seq(Frame) /\ balance = Owed(bonds) + burnedTotal
  BY DEF Shape, MoneyHolds, Covered
<1>1. ASSUME UNCHANGED <<contract, stack>>
      PROVE  MoneyHolds'
  BY <1>1 DEF contract, MoneyHolds, Covered, Owed
<1>2. ASSUME NEW a \in Writer, NEW v \in Amounts, deposit(a, v)
      PROVE  MoneyHolds'
  <2>1. v \in Nat
    BY LedgerAssumption
  <2>2. PICK b \in Bond : b = ToppedUp(bonds[a], v)
    BY <2>1, BondsStayBonds DEF Shape
  <2>3. bonds[a].amount \in Nat /\ b.amount = bonds[a].amount + v
    BY <1>0, <2>1, <2>2 DEF ToppedUp, Bond
  <2>4. /\ bonds' = [bonds EXCEPT ![a] = b] /\ balance' = balance + v
        /\ burnedTotal' = burnedTotal /\ stack' = stack
    BY <1>2, <2>2 DEF deposit
  <2>5. /\ Owed(bonds) \in Nat /\ Owed(bonds') \in Nat
        /\ Owed(bonds') + bonds[a].amount = Owed(bonds) + b.amount
    BY <1>0, <2>4, OwedChanges
  <2>6. balance' = Owed(bonds') + burnedTotal'
    <3>1. PICK old \in Nat, new \in Nat : old = Owed(bonds) /\ new = Owed(bonds')
      BY <2>5
    <3>2. PICK n \in Nat : n = bonds[a].amount
      BY <2>3
    <3>3. new + n = old + (n + v) /\ balance = old + burnedTotal
      BY <1>0, <2>3, <2>5, <3>1, <3>2
    <3>4. new = old + v
      BY <2>1, <3>3
    <3>5. balance + v = new + burnedTotal
      BY <1>0, <2>1, <3>3, <3>4
    <3> QED
      BY <2>4, <3>1, <3>5
  <2> QED
    BY <2>4, <2>6 DEF MoneyHolds, Covered
<1>3. ASSUME NEW a \in Writer, requestWithdraw(a)
      PROVE  MoneyHolds'
  <2>1. PICK u \in Nat : u = now + withdrawDelay
    BY LedgerAssumption DEF Shape
  <2>2. PICK b \in Bond : b = [bonds[a] EXCEPT !.withdrawRequested = TRUE, !.unlockAt = u]
    BY <2>1, BondsStayBonds DEF Shape
  <2>3. bonds[a].amount \in Nat /\ b.amount = bonds[a].amount
    BY <1>0, <2>2 DEF Bond
  <2>4. /\ bonds' = [bonds EXCEPT ![a] = b] /\ balance' = balance
        /\ burnedTotal' = burnedTotal /\ stack' = stack
    BY <1>3, <2>1, <2>2 DEF requestWithdraw, UnlockAt, Shape
  <2>5. /\ Owed(bonds) \in Nat /\ Owed(bonds') \in Nat
        /\ Owed(bonds') + bonds[a].amount = Owed(bonds) + b.amount
    BY <1>0, <2>4, OwedChanges
  <2>6. balance' = Owed(bonds') + burnedTotal'
    BY <1>0, <2>3, <2>4, <2>5
  <2> QED
    BY <2>4, <2>6 DEF MoneyHolds, Covered
<1>4. ASSUME NEW a \in Writer, withdraw(a)
      PROVE  MoneyHolds'
  <2>1. PICK b \in Bond : b = Cleared(bonds[a])
    BY BondsStayBonds DEF Shape
  <2>2. bonds[a].amount \in Nat /\ b.amount = 0
    BY <1>0, <2>1 DEF Cleared, Bond
  <2>3. /\ Pay(a, bonds[a].amount) /\ bonds' = [bonds EXCEPT ![a] = b]
        /\ burnedTotal' = burnedTotal
    BY <1>4, <2>1 DEF withdraw
  <2>4. /\ balance' = balance - bonds[a].amount
        /\ \A i \in DOMAIN stack' :
              Covered(stack'[i].bonds, stack'[i].balance, stack'[i].burnedTotal)
    BY <2>2, <2>3, PayKeepsMoney
  <2>5. /\ Owed(bonds) \in Nat /\ Owed(bonds') \in Nat
        /\ Owed(bonds') + bonds[a].amount = Owed(bonds) + b.amount
    BY <1>0, <2>3, OwedChanges
  <2>6. balance' = Owed(bonds') + burnedTotal'
    BY <1>0, <2>2, <2>3, <2>4, <2>5
  <2> QED
    BY <2>4, <2>6 DEF MoneyHolds, Covered
<1>5. ASSUME NEW a \in Writer, NEW p \in Writer, prove(a, p)
      PROVE  MoneyHolds'
  <2>1. PICK b \in Bond : b = [Cleared(bonds[a]) EXCEPT !.slashed = TRUE]
    BY BondsStayBonds DEF Shape
  <2>2. bonds[a].amount \in Nat /\ b.amount = 0
    BY <1>0, <2>1 DEF Cleared, Bond
  <2>3. /\ Pay(p, bonds[a].amount \div 2) /\ bonds' = [bonds EXCEPT ![a] = b]
        /\ burnedTotal' = burnedTotal + BurnedShare(bonds[a].amount)
    BY <1>5, <2>1 DEF prove, Slash
  <2>4. PICK half \in Nat : half = bonds[a].amount \div 2 /\ half <= bonds[a].amount
    <3>1. ASSUME NEW n \in Nat PROVE n \div 2 \in Nat /\ n \div 2 <= n
      OBVIOUS
    <3> QED
      BY <2>2, <3>1
  <2>5. /\ balance' = balance - half
        /\ \A i \in DOMAIN stack' :
              Covered(stack'[i].bonds, stack'[i].balance, stack'[i].burnedTotal)
    BY <2>3, <2>4, PayKeepsMoney
  <2>6. burnedTotal' = burnedTotal + (bonds[a].amount - half)
    BY <2>3, <2>4 DEF BurnedShare
  <2>7. /\ Owed(bonds) \in Nat /\ Owed(bonds') \in Nat
        /\ Owed(bonds') + bonds[a].amount = Owed(bonds) + b.amount
    BY <1>0, <2>3, OwedChanges
  <2>8. balance' = Owed(bonds') + burnedTotal'
    <3>1. PICK old \in Nat, new \in Nat : old = Owed(bonds) /\ new = Owed(bonds')
      BY <2>7
    <3>2. PICK n \in Nat : n = bonds[a].amount
      BY <2>2
    <3>3. old = new + n /\ balance = old + burnedTotal
      BY <1>0, <2>2, <2>7, <3>1, <3>2
    <3>4. balance - half = new + (burnedTotal + (n - half))
      BY <1>0, <3>3
    <3> QED
      BY <2>5, <2>6, <3>1, <3>2, <3>4
  <2> QED
    BY <2>5, <2>8 DEF MoneyHolds, Covered
<1>6. ASSUME stack # << >>, stack' = SubSeq(stack, 1, Len(stack) - 1)
      PROVE  /\ Len(stack) \in DOMAIN stack
             /\ \A i \in DOMAIN stack' : i \in DOMAIN stack /\ stack'[i] = stack[i]
  BY <1>0, <1>6
<1>7. CASE PayoutReturns
  <2>1. UNCHANGED <<bonds, balance, burnedTotal>>
    BY <1>7 DEF PayoutReturns, contract
  <2>2. \A i \in DOMAIN stack' : i \in DOMAIN stack /\ stack'[i] = stack[i]
    BY <1>6, <1>7 DEF PayoutReturns
  <2> QED
    BY <2>1, <2>2 DEF MoneyHolds, Covered, Owed
<1>8. CASE PayoutFails
  <2>1. /\ bonds' = stack[Len(stack)].bonds /\ balance' = stack[Len(stack)].balance
        /\ burnedTotal' = stack[Len(stack)].burnedTotal
    BY <1>8 DEF PayoutFails
  <2>2. /\ Len(stack) \in DOMAIN stack
        /\ \A i \in DOMAIN stack' : i \in DOMAIN stack /\ stack'[i] = stack[i]
    BY <1>6, <1>8 DEF PayoutFails
  <2> QED
    BY <2>1, <2>2 DEF MoneyHolds
<1>9. CASE Tick
  BY <1>1, <1>9 DEF Tick
<1>10. ASSUME NEW w \in Writer, NEW t \in Trail, NEW s \in Leaves, Sign(w, t, s)
       PROVE  MoneyHolds'
  BY <1>1, <1>10 DEF Sign
<1>11. ASSUME NEW t \in Trail, NEW w \in Writer, registerTrail(t, w)
       PROVE  MoneyHolds'
  BY <1>1, <1>11 DEF registerTrail
<1>12. ASSUME NEW h \in signed, submit(h.trail, h.leaves)
       PROVE  MoneyHolds'
  BY <1>1, <1>12 DEF submit
<1>13. CASE UNCHANGED vars
  BY <1>1, <1>13 DEF vars, contract
<1> QED
  BY <1>2, <1>3, <1>4, <1>5, <1>7, <1>8, <1>9, <1>10, <1>11, <1>12, <1>13 DEF Next

\* BondedCheckpoints never owes more than it holds, nor holds what nobody
\* is owed: in every state a recipient of a payout can see, however deeply
\* payouts nest and whichever of them revert.
THEOREM BondsAreCovered == Spec => []Solvent
<1>1. Init => MoneyHolds
  BY InitIsSolvent
<1>2. IInv /\ MoneyHolds /\ [Next]_vars => MoneyHolds'
  BY NextKeepsMoney
<1>3. MoneyHolds => Solvent
  BY DEF MoneyHolds, Covered, Owed, Solvent
<1> QED
  BY <1>1, <1>2, <1>3, Invariance, PTL DEF Spec

-----------------------------------------------------------------------------
(* What verify and anchor have read and written.                           *)

Row == {"written", "forged"}
Hist == Seq(Row)
Cps == [head : Hist, bound : BOOLEAN]
Tokens == [kind : {"none", "rfc3161", "ots"}, frame : Hist, nonce : Nat,
           signer : Signer \cup {"none"}]
Lines == [version : {"known", "newer"}, cp : Cps, sink : Range(Sink) \cup {"file"},
          receipt : Tokens, nonce : Nat, ts : Nat]
Sidecars == [lines : Seq(Lines), malformed : BOOLEAN]
ReceiptLines == [form : ReceiptForm, head : Hist]
Pins == [file : BOOLEAN, v : {1, 2}, whole : BOOLEAN, target : {"here", "elsewhere"},
         head : Hist, topo : Topology, age : Nat \cup {-1}, bind : BOOLEAN]
AnchorJobs == [pc : {"idle", "sinks", "record", "witnesses", "done"}, cp : Cps,
         todo : SUBSET Range(Sink), ask : SUBSET Range(Sink), tell : SUBSET Witness,
         failed : SUBSET (Range(Sink) \cup Witness), exit : {-1, 0, 1}]

\* A history that the trail continues.
Begins(h, t) == h \in Hist /\ Len(h) <= Len(t) /\ \A i \in 1 .. Len(h) : h[i] = t[i]

FilesShape ==
    /\ trail \in Hist /\ chain \in Verdict
    /\ sidecar \in Sidecars
    /\ receipts \in Seq(ReceiptLines)
    /\ pin \in Pins
    /\ held \in [Witness -> Seq(Cps)]
    /\ published \subseteq [sink : Range(Sink), head : Hist]
    /\ job \in AnchorJobs
    /\ clock \in Nat /\ jobs \in Nat /\ incidents \in Nat
    /\ DOMAIN run = Verifier

\* A run in progress has the verdicts of the dimensions it has measured.
RunShape(r) ==
    /\ r \in [pc : {"idle", "anchors", "observe", "witness", "pin", "receipts", "save", "done"},
              opt : Flags, hashes : Hist, codes : SUBSET Verdict, loaded : Pins, pending : Pins,
              sinks : {r.sinks}, records : {r.records}, witness : {r.witness},
              ledger : {r.ledger}, reasons : {r.reasons}, exit : {r.exit}]
    /\ r.pc # "done" => r.codes # {} /\ r.exit = -1

\* The pin a run may yet write continues the one it has loaded, in its history
\* and in its policies.
PendingHolds(r) ==
    r.pending.file =>
      /\ r.pending.v = 1 /\ r.pending.whole /\ r.pending.target = "here"
      /\ r.loaded.file =>
           /\ Begins(r.loaded.head, r.pending.head)
           /\ r.loaded.topo.declared => r.pending.topo.declared
           /\ r.loaded.age # -1 => r.pending.age # -1
           /\ r.loaded.bind => r.pending.bind

\* What a run has counted is held by somebody, and a declared topology that was
\* not found short was there.
CountsHold(r, some) ==
    /\ r.sinks = 0 \/ some
    /\ (/\ r.pc \in {"receipts", "save", "done"}
        /\ IF r.pc = "done" THEN r.exit = 0 ELSE r.codes \subseteq {"ok"}
        /\ r.opt.pin /\ r.opt.anchors /\ r.opt.witness /\ r.loaded.topo.declared) =>
          /\ r.loaded.topo.sinks > 0 => some
          /\ r.loaded.topo.witness => "consistent" \in r.witness

\* Where nothing has touched the files, a run over the trail as it is now has
\* found no break.
QuietRun(r, t) ==
    /\ Begins(r.hashes, t)
    /\ r.pending.file => Begins(r.pending.head, t)
    /\ r.hashes = t => "broken" \notin r.codes /\ r.exit # 1

RunHolds(r) ==
    RunShape(r) /\ PendingHolds(r) /\ CountsHold(r, published # {})

\* A record as a job writes it.
RecordHolds(r, t) ==
    /\ r.version = "known" /\ Begins(r.cp.head, t)
    /\ r.receipt.kind = "rfc3161" =>
         r.receipt.frame = r.cp.head /\ r.receipt.nonce = r.nonce /\ r.receipt.signer = "tsa"

QuietSidecar(s, t) ==
    ~s.malformed /\ \A i \in DOMAIN s.lines : RecordHolds(s.lines[i], t)

QuietPin(p, t) ==
    p.file => p.v = 1 /\ p.whole /\ p.target = "here" /\ Begins(p.head, t)

QuietReceipts(s, t) ==
    \A i \in DOMAIN s : s[i].form = "record" /\ Begins(s[i].head, t)

QuietHeld(h, t) == \A i \in DOMAIN h : Begins(h[i].head, t)

Quiet ==
    incidents = 0 =>
      /\ chain = "ok"
      /\ QuietSidecar(sidecar, trail)
      /\ QuietReceipts(receipts, trail)
      /\ QuietPin(pin, trail)
      /\ \A w \in Witness : QuietHeld(held[w], trail)
      /\ \A p \in published : Begins(p.head, trail)
      /\ Begins(job.cp.head, trail)
      /\ \A v \in Verifier : QuietRun(run[v], trail)

\* Whatever names a sink, the sink holds.
RecordsArePublished ==
    \A i \in DOMAIN sidecar.lines :
        sidecar.lines[i].sink # "file" =>
          [sink |-> sidecar.lines[i].sink, head |-> sidecar.lines[i].cp.head] \in published

\* A checkpoint is recorded for a sink.
Recorded(s) ==
    incidents = 0 =>
      \E i \in DOMAIN sidecar.lines : sidecar.lines[i].cp = job.cp /\ sidecar.lines[i].sink = s

AnchorJobHolds ==
    /\ job.todo \subseteq job.ask
    /\ job.pc = "record" =>
         \A s \in Range(Sink) : Turn(s) => [sink |-> s, head |-> job.cp.head] \in published
    /\ \A s \in job.ask \ job.todo :
         s \in job.failed \/ ([sink |-> s, head |-> job.cp.head] \in published /\ Recorded(s))
    /\ job.pc = "witnesses" \/ job.exit = 0 =>
         /\ job.todo = {} /\ (job.ask = {} => Recorded("file"))
         /\ \A w \in Witness \ job.tell :
              w \in job.failed \/ \E i \in DOMAIN held[w] : held[w][i] = job.cp
    /\ job.exit = 0 => job.pc = "done" /\ job.failed = {} /\ job.tell = {}
    /\ job.pc \in {"sinks", "record"} => job.tell = Witness

VerifierInv ==
    /\ FilesShape /\ (~pin.file => pin = NoPin) /\ RecordsArePublished /\ AnchorJobHolds
    /\ \A v \in Verifier : RunHolds(run[v])
    /\ Quiet

-----------------------------------------------------------------------------
(* The checks, as functions of what they are given.                        *)

LEMMA SelfBegins ==
  ASSUME NEW t \in Hist
  PROVE  Begins(t, t)
BY DEF Begins, Hist

LEMMA BeginsGrown ==
  ASSUME NEW h, NEW t \in Hist, NEW x \in Row, Begins(h, t)
  PROVE  Begins(h, Append(t, x)) /\ h # Append(t, x) /\ Append(t, x) \in Hist
BY DEF Begins, Hist, Row

LEMMA BeginsOfBegins ==
  ASSUME NEW h, NEW t \in Hist, NEW u \in Hist, Begins(h, t), Begins(t, u)
  PROVE  Begins(h, u)
BY DEF Begins, Hist

LEMMA BeginsIsPrefix ==
  ASSUME NEW h, NEW t \in Hist, Begins(h, t)
  PROVE  IsPrefix(h, t)
<1>1. h \in Seq(Row) /\ t \in Seq(Row) /\ Len(h) \in Nat /\ Len(t) \in Nat /\ Len(h) <= Len(t)
  BY DEF Begins, Hist
<1>2. SubSeq(h, 1, Len(h)) = SubSeq(t, 1, Len(h))
  BY <1>1 DEF Begins, Hist
<1> QED
  BY <1>1, <1>2 DEF IsPrefix

\* A checkpoint of a beginning of the trail verifies, and no other does.
LEMMA CheckpointVerifies ==
  ASSUME NEW h \in Hist, NEW t \in Hist, NEW cp, cp.head = h
  PROVE  verify_checkpoint(t, cp) = "none" <=> Begins(h, t)
<1>1. Len(h) \in Nat /\ Len(t) \in Nat
  BY DEF Hist
<1>2. CASE Len(h) <= Len(t)
  <2>1. SubSeq(t, 1, Len(h)) = h <=> \A i \in 1 .. Len(h) : h[i] = t[i]
    <3>1. SubSeq(t, 1, Len(h)) \in Seq(Row) /\ Len(SubSeq(t, 1, Len(h))) = Len(h)
          /\ \A i \in 1 .. Len(h) : SubSeq(t, 1, Len(h))[i] = t[i]
      BY <1>1, <1>2 DEF Hist
    <3> QED
      BY <3>1, <1>1 DEF Hist
  <2>2. ~ (SeqNo(cp) >= Len(t))
    BY <1>1, <1>2 DEF SeqNo
  <2> QED
    BY <2>1, <2>2, <1>2 DEF verify_checkpoint, Begins
<1>3. CASE ~ (Len(h) <= Len(t))
  <2>1. SeqNo(cp) >= Len(t)
    BY <1>1, <1>3 DEF SeqNo
  <2> QED
    BY <2>1, <1>3 DEF verify_checkpoint, Begins
<1> QED
  BY <1>2, <1>3

\* _combine is the worst of the verdicts.
LEMMA CombineIsWorst ==
  ASSUME NEW V \in SUBSET Verdict, V # {}
  PROVE  /\ Combine(V) \in V
         /\ Combine(V) = "broken" <=> "broken" \in V
         /\ Combine(V) = "ok" => V \subseteq {"ok"}
<1>1. Severity("ok") = 0 /\ Severity("unverifiable") = 1 /\ Severity("broken") = 2
  BY DEF Severity
<1>2. \E v \in V : \A w \in V : Severity(w) <= Severity(v)
  <2>1. CASE "broken" \in V
    BY <2>1, <1>1 DEF Verdict
  <2>2. CASE "broken" \notin V /\ "unverifiable" \in V
    BY <2>2, <1>1 DEF Verdict
  <2>3. CASE "broken" \notin V /\ "unverifiable" \notin V
    <3>1. \A w \in V : w = "ok"
      BY <2>3 DEF Verdict
    <3>2. "ok" \in V
      BY <3>1
    <3> QED
      BY <3>1, <3>2, <1>1
  <2> QED
    BY <2>1, <2>2, <2>3
<1>3. Combine(V) \in V /\ \A w \in V : Severity(w) <= Severity(Combine(V))
  BY <1>2 DEF Combine
<1>4. ASSUME "broken" \in V PROVE Combine(V) = "broken"
  <2>1. 2 <= Severity(Combine(V)) /\ Combine(V) \in Verdict
    BY <1>1, <1>3, <1>4
  <2> QED
    BY <2>1, <1>1 DEF Verdict
<1>5. ASSUME Combine(V) = "ok", NEW w \in V PROVE w = "ok"
  <2>1. Severity(w) <= 0
    BY <1>1, <1>3, <1>5
  <2> QED
    BY <2>1, <1>1 DEF Verdict
<1> QED
  BY <1>3, <1>4, <1>5

\* The exit code tells the worst verdict.
LEMMA ExitIsWorst ==
  ASSUME NEW V \in SUBSET Verdict, V # {}
  PROVE  /\ exit_code(Combine(V)) \in {0, 1, 2}
         /\ exit_code(Combine(V)) = 1 <=> "broken" \in V
         /\ exit_code(Combine(V)) = 0 => V \subseteq {"ok"}
<1>1. Combine(V) \in Verdict
  BY CombineIsWorst
<1>2. /\ exit_code(Combine(V)) \in {0, 1, 2}
      /\ exit_code(Combine(V)) = 1 <=> Combine(V) = "broken"
      /\ exit_code(Combine(V)) = 0 <=> Combine(V) = "ok"
  BY <1>1 DEF exit_code, Verdict
<1> QED
  BY <1>2, CombineIsWorst

LEMMA ReceiptVerdicts ==
  ASSUME NEW r \in Lines
  PROVE  /\ receipt_verdict(r) \in Verdict
         /\ verify_token_signature(r.receipt) \in Verdict
         /\ \A t : RecordHolds(r, t) =>
              /\ receipt_verdict(r) = "ok"
              /\ r.receipt.kind = "rfc3161" => verify_token_signature(r.receipt) = "ok"
<1>1. r.receipt \in Tokens
  BY DEF Lines
<1>2. r.receipt.kind \in {"none", "rfc3161", "ots"}
  BY <1>1 DEF Tokens
<1>3. receipt_verdict(r) = IF r.receipt.kind = "rfc3161" THEN read_timestamp_resp(r) ELSE "ok"
  BY <1>2 DEF receipt_verdict
<1>4. read_timestamp_resp(r) \in Verdict
  BY DEF read_timestamp_resp, Verdict
<1>5. verify_token_signature(r.receipt) \in Verdict
  BY DEF verify_token_signature, Verdict
<1>6. r.receipt.signer = "tsa" => verify_token_signature(r.receipt) = "ok"
  BY DEF verify_token_signature
<1>7. r.receipt.frame = r.cp.head /\ r.receipt.nonce = r.nonce => read_timestamp_resp(r) = "ok"
  BY DEF read_timestamp_resp
<1> QED
  BY <1>3, <1>4, <1>5, <1>6, <1>7 DEF RecordHolds, Verdict

\* _anchor_check answers, and does not accuse a sidecar nothing has touched.
LEMMA AnchorVerdicts ==
  ASSUME NEW h \in Hist, NEW s \in Sidecars, NEW ca
  PROVE  /\ anchor_check(h, s, ca).verdict \in Verdict
         /\ QuietSidecar(s, h) => anchor_check(h, s, ca).verdict # "broken"
<1> DEFINE records == Readable(s.lines)
           read == observed_records(s)
           faults == {i \in DOMAIN read : verify_checkpoint(h, read[i].cp) # "none"}
           checked == {receipt_verdict(r) : r \in records}
           tokens == {"ok"} \cup {verify_token_signature(r.receipt) :
                        r \in {q \in records : ca /\ q.receipt.kind = "rfc3161"}}
           all == {"ok", SignatureVerdict(records, ca)} \cup checked
                    \cup (IF Unreadable(s.lines) THEN {"unverifiable"} ELSE {})
<1>1. s.lines \in Seq(Lines) /\ s.malformed \in BOOLEAN
  BY DEF Sidecars
<1>2. records \subseteq Lines /\ \A r \in records : \E i \in DOMAIN s.lines : r = s.lines[i]
  BY <1>1 DEF Readable, Range
<1>3. checked \subseteq Verdict /\ tokens \subseteq Verdict /\ tokens # {}
  BY <1>2, ReceiptVerdicts DEF Verdict
<1>4. SignatureVerdict(records, ca) = Combine(tokens)
  BY DEF SignatureVerdict
<1>5. SignatureVerdict(records, ca) \in tokens
  BY <1>3, <1>4, CombineIsWorst
<1>6. all \subseteq Verdict /\ all # {}
  BY <1>3, <1>5 DEF Verdict
<1>7. Combine(all) \in Verdict
  BY <1>6, CombineIsWorst
<1>8. anchor_check(h, s, ca) =
        IF s.malformed THEN [verdict |-> "broken", reason |-> "malformed_anchor"]
        ELSE IF faults # {}
          THEN [verdict |-> "broken", reason |-> verify_checkpoint(h, read[Min(faults)].cp)]
        ELSE IF "broken" \in checked THEN [verdict |-> "broken", reason |-> "receipt_false"]
        ELSE [verdict |-> Combine(all), reason |-> "none"]
  BY DEF anchor_check
<1>9. anchor_check(h, s, ca).verdict \in {"broken", Combine(all)}
  BY <1>8
<1>10. ASSUME QuietSidecar(s, h) PROVE anchor_check(h, s, ca).verdict # "broken"
  <2>1. ~s.malformed /\ \A r \in records : RecordHolds(r, h)
    BY <1>10, <1>2 DEF QuietSidecar
  <2>2. checked \subseteq {"ok"} /\ tokens = {"ok"}
    BY <2>1, <1>2, ReceiptVerdicts
  <2>3. \A i \in DOMAIN read : i \in DOMAIN s.lines /\ read[i] = s.lines[i]
    BY <2>1 DEF observed_records, Restrict
  <2>4. faults = {}
    <3> SUFFICES ASSUME NEW i \in DOMAIN read PROVE verify_checkpoint(h, read[i].cp) = "none"
      OBVIOUS
    <3>1. read[i] = s.lines[i] /\ i \in DOMAIN s.lines
      BY <2>3
    <3>2. Begins(read[i].cp.head, h)
      BY <3>1, <1>10 DEF QuietSidecar, RecordHolds
    <3> QED
      BY <3>2, CheckpointVerifies DEF Begins
  <2>5. "broken" \notin all
    BY <2>2, <1>5
  <2>6. Combine(all) # "broken"
    BY <2>5, <1>6, CombineIsWorst
  <2> QED
    BY <2>1, <2>2, <2>4, <2>6, <1>8
<1> QED
  BY <1>7, <1>9, <1>10 DEF Verdict

LEMMA WitnessVerdicts ==
  ASSUME NEW h \in Hist, NEW reached
  PROVE  /\ witness_verdict(witness_verdicts(h, reached)) \in Verdict
         /\ witness_verdict({}) = "ok"
         /\ (held \in [Witness -> Seq(Cps)] /\ \A w \in Witness : QuietHeld(held[w], h)) =>
              witness_verdict(witness_verdicts(h, reached)) # "broken"
<1>1. witness_verdict(witness_verdicts(h, reached)) \in Verdict /\ witness_verdict({}) = "ok"
  BY DEF witness_verdict, Verdict
<1>2. ASSUME held \in [Witness -> Seq(Cps)], \A w \in Witness : QuietHeld(held[w], h)
      PROVE  witness_verdict(witness_verdicts(h, reached)) # "broken"
  <2>1. ASSUME NEW w \in Witness PROVE witness_status(h, Fetch(w, reached)) # "inconsistent"
    <3>1. Fetch(w, reached).held = held[w]
      BY DEF Fetch
    <3>2. ASSUME NEW cp \in Range(held[w]) PROVE verify_checkpoint(h, cp) = "none"
      <4>1. PICK i \in DOMAIN held[w] : cp = held[w][i]
        BY DEF Range
      <4>2. Begins(cp.head, h)
        BY <4>1, <1>2 DEF QuietHeld
      <4> QED
        BY <4>2, CheckpointVerifies DEF Begins
    <3> QED
      BY <3>1, <3>2 DEF witness_status
  <2>2. "inconsistent" \notin witness_verdicts(h, reached)
    BY <2>1 DEF witness_verdicts
  <2> QED
    BY <2>2 DEF witness_verdict
<1> QED
  BY <1>1, <1>2

LEMMA ReceiptsReconcile ==
  ASSUME NEW h \in Hist, NEW s \in Seq(ReceiptLines)
  PROVE  /\ reconcile_receipts(h, s) \in Verdict
         /\ QuietReceipts(s, h) => reconcile_receipts(h, s) = "ok"
<1>1. reconcile_receipts(h, s) \in Verdict
  BY DEF reconcile_receipts, Verdict
<1>2. ASSUME QuietReceipts(s, h) PROVE reconcile_receipts(h, s) = "ok"
  <2>1. ASSUME NEW l \in Range(s)
        PROVE  l.form = "record" /\ Len(l.head) <= Len(h) /\ SubSeq(h, 1, Len(l.head)) = l.head
               /\ Len(l.head) \in Nat /\ Len(h) \in Nat
    <3>1. PICK i \in DOMAIN s : l = s[i]
      BY DEF Range
    <3>2. l.form = "record" /\ Begins(l.head, h)
      BY <3>1, <1>2 DEF QuietReceipts
    <3> DEFINE cp == [head |-> l.head]
    <3>3. verify_checkpoint(h, cp) = "none"
      BY <3>2, CheckpointVerifies DEF Begins
    <3>4. Len(l.head) \in Nat /\ Len(h) \in Nat /\ Len(l.head) <= Len(h)
      BY <3>2 DEF Begins, Hist
    <3>5. SubSeq(h, 1, Len(l.head)) = l.head
      BY <3>3 DEF verify_checkpoint
    <3> QED
      BY <3>2, <3>4, <3>5
  <2>2. \A l \in Range(s) : l.form # "malformed" /\ l.form # "newer"
         /\ ~ (Len(l.head) > Len(h)) /\ SubSeq(h, 1, Len(l.head)) = l.head
    <3> SUFFICES ASSUME NEW l \in Range(s)
                 PROVE  l.form # "malformed" /\ l.form # "newer" /\ ~ (Len(l.head) > Len(h))
                        /\ SubSeq(h, 1, Len(l.head)) = l.head
      OBVIOUS
    <3>1. l.form = "record" /\ Len(l.head) <= Len(h) /\ SubSeq(h, 1, Len(l.head)) = l.head
          /\ Len(l.head) \in Nat /\ Len(h) \in Nat
      BY <2>1
    <3> QED
      BY <3>1
  <2> QED
    BY <2>2 DEF reconcile_receipts
<1> QED
  BY <1>1, <1>2

LEMMA NoPinIsAPin == NoPin \in Pins /\ ~NoPin.file
BY DEF NoPin, Pins, NoTopology, Topology, Hist

LEMMA PinnedIsAPin ==
  ASSUME NEW p \in Pins, NEW r, RunShape(r)
  PROVE  /\ Pinned(p, r) \in Pins /\ Pinned(p, r).file /\ Pinned(p, r).v = 1
         /\ Pinned(p, r).whole /\ Pinned(p, r).target = "here"
         /\ Pinned(p, r).head = r.hashes
         /\ p.topo.declared => Pinned(p, r).topo.declared
         /\ p.age # -1 => Pinned(p, r).age # -1
         /\ p.bind => Pinned(p, r).bind
<1>1. r.opt.declare \in [bind : BOOLEAN, age : Nat \cup {-1}, topo : Topology] /\ r.hashes \in Hist
  BY DEF RunShape, Flags
<1>2. r.opt.declare.bind \in BOOLEAN /\ r.opt.declare.age \in Nat \cup {-1}
      /\ r.opt.declare.topo \in Topology
  BY <1>1
<1>3. p.bind \in BOOLEAN /\ p.age \in Nat \cup {-1} /\ p.topo \in Topology
  BY DEF Pins
<1> QED
  BY <1>1, <1>2, <1>3 DEF Pinned, Pins

\* _pin_check: what it answers and what it would write.
LEMMA PinVerdicts ==
  ASSUME NEW p \in Pins, NEW r, RunShape(r), NEW time, ~p.file => p = NoPin
  PROVE  LET c == pin_check(p, r, time)
         IN  /\ c.verdict \in Verdict /\ c.pending \in Pins
             /\ QuietPin(p, r.hashes) => c.verdict # "broken"
             /\ c.pending.file =>
                  /\ c.pending.v = 1 /\ c.pending.whole /\ c.pending.target = "here"
                  /\ c.pending.head = r.hashes
                  /\ p.file =>
                       /\ Begins(p.head, r.hashes)
                       /\ p.topo.declared => c.pending.topo.declared
                       /\ p.age # -1 => c.pending.age # -1
                       /\ p.bind => c.pending.bind
             /\ (c.verdict = "ok" /\ p.topo.declared) => ~SeparationShortfall(p, r)
<1> DEFINE c == pin_check(p, r, time)
           kind == parse_pin_state(p)
           fault == check_pin(r.hashes, p)
<1>1. /\ p.file \in BOOLEAN /\ p.v \in {1, 2} /\ p.whole \in BOOLEAN /\ p.head \in Hist
      /\ p.target \in {"here", "elsewhere"} /\ r.hashes \in Hist
  BY DEF Pins, RunShape
<1>2. kind = IF ~p.file THEN "none" ELSE IF p.v # 1 THEN "newer"
             ELSE IF ~p.whole THEN "malformed" ELSE "state"
  BY <1>1 DEF parse_pin_state
<1>3. fault = "none" <=> Begins(p.head, r.hashes)
  <2> DEFINE cp == checkpoint_for(p.head, FALSE)
  <2>1. cp.head = p.head
    BY DEF checkpoint_for
  <2>2. verify_checkpoint(r.hashes, cp) = "none" <=> Begins(p.head, r.hashes)
    BY <2>1, <1>1, CheckpointVerifies
  <2>3. verify_checkpoint(r.hashes, cp) \in {"none", "anchor_beyond_head", "anchor_mismatch"}
    BY DEF verify_checkpoint
  <2> QED
    BY <2>2, <2>3 DEF check_pin
<1>4. NoPin \in Pins /\ ~NoPin.file /\ ~NoPin.topo.declared
  BY NoPinIsAPin DEF NoPin, NoTopology
<1>5. CASE kind = "newer"
  <2>1. c = [verdict |-> "unverifiable", reason |-> "pin_version_unknown", pending |-> NoPin]
    BY <1>5 DEF pin_check
  <2>2. p.file /\ p.v # 1
    BY <1>5, <1>2
  <2> QED
    BY <2>1, <2>2, <1>4 DEF Verdict
<1>6. CASE kind = "malformed"
  <2>1. c = [verdict |-> "broken", reason |-> "malformed_pin", pending |-> NoPin]
    BY <1>6 DEF pin_check
  <2>2. p.file /\ ~p.whole
    BY <1>6, <1>2
  <2> QED
    BY <2>1, <2>2, <1>4 DEF Verdict, QuietPin
<1>7. CASE kind = "none"
  <2>1. p = NoPin
    BY <1>7, <1>2
  <2>2. c = IF r.hashes = << >>
            THEN [verdict |-> "ok", reason |-> "empty_trail_not_pinned", pending |-> NoPin]
            ELSE [verdict |-> "ok", reason |-> "trust_on_first_use", pending |-> Pinned(NoPin, r)]
    BY <1>7 DEF pin_check
  <2>3. c.verdict = "ok" /\ c.pending \in {NoPin, Pinned(NoPin, r)}
    BY <2>2
  <2> QED
    BY <2>1, <2>3, <1>4, PinnedIsAPin DEF Verdict
<1>8. CASE kind = "state" /\ p.target # "here"
  <2>1. c = [verdict |-> "broken", reason |-> "pin_target_mismatch", pending |-> NoPin]
    BY <1>8 DEF pin_check
  <2>2. p.file
    BY <1>8, <1>2
  <2> QED
    BY <2>1, <2>2, <1>8, <1>4 DEF Verdict, QuietPin
<1>9. CASE kind = "state" /\ p.target = "here" /\ fault # "none"
  <2>1. c = [verdict |-> "broken", reason |-> fault, pending |-> NoPin]
    BY <1>9 DEF pin_check
  <2>2. p.file
    BY <1>9, <1>2
  <2> QED
    BY <2>1, <2>2, <1>9, <1>3, <1>4 DEF Verdict, QuietPin
<1>10. CASE kind = "state" /\ p.target = "here" /\ fault = "none"
  <2>1. c = [verdict |-> IF AnchorShortfall(p, r, time) \/ SeparationShortfall(p, r)
                         THEN "unverifiable" ELSE "ok",
             reason |-> "none", pending |-> Pinned(p, r)]
    BY <1>10 DEF pin_check
  <2>2. c.verdict \in {"unverifiable", "ok"} /\ c.pending = Pinned(p, r)
        /\ (c.verdict = "ok" => ~SeparationShortfall(p, r))
    BY <2>1
  <2>3. Begins(p.head, r.hashes)
    BY <1>10, <1>3
  <2> QED
    BY <2>2, <2>3, PinnedIsAPin DEF Verdict
<1>11. kind \in {"none", "newer", "malformed", "state"}
  BY <1>2
<1> QED
  BY <1>5, <1>6, <1>7, <1>8, <1>9, <1>10, <1>11

-----------------------------------------------------------------------------
(* The invariant holds at first and over every step.                       *)

LEMMA IdleRunHolds ==
  /\ RunShape(IdleRun) /\ PendingHolds(IdleRun) /\ CountsHold(IdleRun, FALSE)
  /\ CountsHold(IdleRun, TRUE) /\ NoOption \in Flags
<1>1. NoOption \in Flags
  BY DEF NoOption, Flags, NoTopology, Topology
<1> QED
  BY <1>1, NoPinIsAPin DEF IdleRun, RunShape, PendingHolds, CountsHold, Hist, Verdict

LEMMA IdleJobHolds == IdleJob \in AnchorJobs
BY DEF IdleJob, AnchorJobs, Cps, Hist

LEMMA VerifierInitHolds == VerifierInit => VerifierInv
<1> SUFFICES ASSUME VerifierInit PROVE VerifierInv
  OBVIOUS
<1>1. FilesShape
  BY NoPinIsAPin, IdleJobHolds
     DEF VerifierInit, FilesShape, Hist, Sidecars, Verdict
<1>2. pin = NoPin /\ RecordsArePublished
  BY DEF VerifierInit, RecordsArePublished
<1>3. AnchorJobHolds
  BY DEF VerifierInit, AnchorJobHolds, IdleJob
<1>4. ASSUME NEW v \in Verifier PROVE RunHolds(run[v])
  BY IdleRunHolds DEF VerifierInit, RunHolds
<1>5. Quiet
  <2>1. Begins(<< >>, << >>)
    <3>1. << >> \in Hist
      BY DEF Hist
    <3> QED
      BY <3>1, SelfBegins
  <2>2. QuietRun(IdleRun, << >>)
    BY <2>1, NoPinIsAPin DEF QuietRun, IdleRun
  <2> QED
    BY <2>1, <2>2, NoPinIsAPin
       DEF VerifierInit, Quiet, QuietSidecar, QuietReceipts, QuietPin, QuietHeld, IdleJob
<1> QED
  BY <1>1, <1>2, <1>3, <1>4, <1>5 DEF VerifierInv

LEMMA RunsStay ==
  ASSUME VerifierInv, run' = run, published \subseteq published'
  PROVE  \A v \in Verifier : RunHolds(run[v])'
BY DEF VerifierInv, RunHolds, CountsHold

LEMMA JobStays ==
  ASSUME VerifierInv, job' = job, held' = held, published \subseteq published',
         incidents' = 0 => incidents = 0 /\ sidecar' = sidecar
  PROVE  AnchorJobHolds'
<1>1. \A s : Recorded(s) => Recorded(s)'
  BY DEF Recorded
<1>2. \A s : Turn(s)' <=> Turn(s)
  BY DEF Turn
<1>3. AnchorJobHolds
  BY DEF VerifierInv
<1> QED
  BY <1>1, <1>2, <1>3 DEF AnchorJobHolds

LEMMA AppendRowHolds ==
  ASSUME VerifierInv, AppendRow
  PROVE  VerifierInv'
<1>1. /\ trail' = Append(trail, "written") /\ trail \in Hist /\ trail' \in Hist
      /\ UNCHANGED <<chain, sidecar, pin, held, published, job, run, clock, jobs, incidents>>
  BY DEF AppendRow, VerifierInv, FilesShape, Hist, Row
<1>2. \A h : Begins(h, trail) => Begins(h, trail') /\ h # trail'
  BY <1>1, BeginsGrown DEF Row
<1>3. [form |-> "record", head |-> trail'] \in ReceiptLines
  BY <1>1 DEF ReceiptLines, ReceiptForm
<1>4. receipts' = receipts \/ receipts' = Append(receipts, [form |-> "record", head |-> trail'])
  BY DEF AppendRow
<1>5. receipts \in Seq(ReceiptLines) /\ receipts' \in Seq(ReceiptLines)
  BY <1>3, <1>4 DEF VerifierInv, FilesShape
<1>6. FilesShape'
  BY <1>1, <1>5 DEF VerifierInv, FilesShape
<1>7. Quiet'
  <2> SUFFICES ASSUME incidents' = 0
               PROVE  /\ chain' = "ok"
                      /\ QuietSidecar(sidecar', trail')
                      /\ QuietReceipts(receipts', trail')
                      /\ QuietPin(pin', trail')
                      /\ \A w \in Witness : QuietHeld(held'[w], trail')
                      /\ \A p \in published' : Begins(p.head, trail')
                      /\ Begins(job'.cp.head, trail')
                      /\ \A v \in Verifier : QuietRun(run'[v], trail')
    BY DEF Quiet
  <2>1. /\ chain = "ok"
        /\ QuietSidecar(sidecar, trail)
        /\ QuietReceipts(receipts, trail)
        /\ QuietPin(pin, trail)
        /\ \A w \in Witness : QuietHeld(held[w], trail)
        /\ \A p \in published : Begins(p.head, trail)
        /\ Begins(job.cp.head, trail)
        /\ \A v \in Verifier : QuietRun(run[v], trail)
    BY <1>1 DEF VerifierInv, Quiet
  <2>2. QuietSidecar(sidecar', trail')
    BY <1>1, <1>2, <2>1 DEF QuietSidecar, RecordHolds
  <2>3. QuietReceipts(receipts', trail')
    <3>1. Begins(trail', trail')
      BY <1>1, SelfBegins
    <3>2. CASE receipts' = receipts
      BY <3>2, <1>2, <2>1 DEF QuietReceipts
    <3>3. CASE receipts' = Append(receipts, [form |-> "record", head |-> trail'])
      <4>1. \A i \in DOMAIN receipts' : (i \in DOMAIN receipts /\ receipts'[i] = receipts[i])
                                        \/ receipts'[i] = [form |-> "record", head |-> trail']
        BY <3>3, <1>5
      <4> QED
        BY <4>1, <3>1, <1>2, <2>1 DEF QuietReceipts
    <3> QED
      BY <3>2, <3>3, <1>4
  <2>4. QuietPin(pin', trail') /\ \A w \in Witness : QuietHeld(held'[w], trail')
    BY <1>1, <1>2, <2>1 DEF QuietPin, QuietHeld
  <2>5. \A v \in Verifier : QuietRun(run'[v], trail')
    BY <1>1, <1>2, <2>1 DEF QuietRun
  <2> QED
    BY <1>1, <1>2, <2>1, <2>2, <2>3, <2>4, <2>5
<1>8. AnchorJobHolds' /\ \A v \in Verifier : RunHolds(run[v])'
  BY <1>1, JobStays, RunsStay
<1>9. (~pin.file => pin = NoPin)' /\ RecordsArePublished'
  BY <1>1 DEF VerifierInv, RecordsArePublished
<1> QED
  BY <1>6, <1>7, <1>8, <1>9 DEF VerifierInv

LEMMA TimePassesHolds ==
  ASSUME VerifierInv, TimePasses
  PROVE  VerifierInv'
<1>1. UNCHANGED <<files, held, published, job, run, jobs, incidents>> /\ clock' = clock + 1
  BY DEF TimePasses
<1>2. FilesShape'
  BY <1>1 DEF files, VerifierInv, FilesShape
<1>3. AnchorJobHolds' /\ \A v \in Verifier : RunHolds(run[v])'
  BY <1>1, JobStays, RunsStay DEF files
<1>4. (~pin.file => pin = NoPin)' /\ RecordsArePublished' /\ Quiet'
  BY <1>1 DEF files, VerifierInv, RecordsArePublished, Quiet
<1> QED
  BY <1>2, <1>3, <1>4 DEF VerifierInv

\* An incident: whatever it does to the files, the run is no longer quiet.
LEMMA IncidentKeeps ==
  ASSUME VerifierInv, incidents' = incidents + 1,
         UNCHANGED <<held, published, job, run, clock, jobs>>,
         trail' \in Hist, chain' \in Verdict, sidecar' \in Sidecars,
         receipts' \in Seq(ReceiptLines), pin' \in Pins, ~pin'.file => pin' = NoPin,
         \A i \in DOMAIN sidecar'.lines :
             /\ i \in DOMAIN sidecar.lines
             /\ sidecar'.lines[i].sink = sidecar.lines[i].sink
             /\ sidecar'.lines[i].cp = sidecar.lines[i].cp
  PROVE  VerifierInv'
<1>1. incidents \in Nat /\ incidents' \in Nat /\ incidents' # 0
  BY DEF VerifierInv, FilesShape
<1>2. FilesShape'
  BY <1>1 DEF VerifierInv, FilesShape
<1>3. AnchorJobHolds' /\ \A v \in Verifier : RunHolds(run[v])'
  BY <1>1, JobStays, RunsStay
<1>4. RecordsArePublished' /\ Quiet'
  BY <1>1 DEF VerifierInv, RecordsArePublished, Quiet
<1> QED
  BY <1>2, <1>3, <1>4 DEF VerifierInv

LEMMA IncidentHolds ==
  ASSUME VerifierInv, NEW kind, Incident(kind)
  PROVE  VerifierInv'
<1>1. /\ incidents' = incidents + 1
      /\ UNCHANGED <<held, published, job, run, clock, jobs>>
  BY DEF Incident
<1>2. /\ trail \in Hist /\ chain \in Verdict /\ sidecar \in Sidecars
      /\ receipts \in Seq(ReceiptLines) /\ pin \in Pins /\ (~pin.file => pin = NoPin)
  BY DEF VerifierInv, FilesShape
<1>3. sidecar.lines \in Seq(Lines) /\ sidecar.malformed \in BOOLEAN
  BY <1>2 DEF Sidecars
<1>4. CASE kind \in TrailIncidents /\ EditTrail(kind)
  <2>1. UNCHANGED <<sidecar, receipts, pin>>
    BY <1>4 DEF EditTrail, TrailIncidents
  <2>2. trail' \in Hist /\ chain' \in Verdict
    <3>1. CASE kind = "truncate"
      BY <1>2, <1>4, <3>1 DEF EditTrail, Front, Hist
    <3>2. CASE kind = "rewrite"
      BY <1>2, <1>4, <3>2 DEF EditTrail, Hist, Row
    <3>3. CASE kind = "edit"
      BY <1>2, <1>4, <3>3 DEF EditTrail, Verdict
    <3>4. CASE kind = "newer_row"
      BY <1>2, <1>4, <3>4 DEF EditTrail, Verdict, Hist, Row
    <3> QED
      BY <1>4, <3>1, <3>2, <3>3, <3>4 DEF TrailIncidents
  <2> QED
    BY <1>1, <1>2, <2>1, <2>2, IncidentKeeps
<1>5. CASE kind \in SidecarIncidents /\ EditSidecar(kind)
  <2> DEFINE last == Len(sidecar.lines)
  <2>1. UNCHANGED <<trail, chain, receipts, pin>> /\ last \in Nat /\ last > 0
    BY <1>3, <1>5 DEF EditSidecar
  <2>2. last \in DOMAIN sidecar.lines /\ sidecar.lines[last] \in Lines
        /\ sidecar.lines[last].receipt \in Tokens
    <3>1. last \in DOMAIN sidecar.lines /\ sidecar.lines[last] \in Lines
      BY <1>3, <2>1
    <3> QED
      BY <3>1 DEF Lines
  <2>3. /\ sidecar' \in Sidecars
        /\ \A i \in DOMAIN sidecar'.lines :
             /\ i \in DOMAIN sidecar.lines
             /\ sidecar'.lines[i].sink = sidecar.lines[i].sink
             /\ sidecar'.lines[i].cp = sidecar.lines[i].cp
    <3>1. CASE kind = "strip"
      <4>1. sidecar' = [sidecar EXCEPT !.lines = Front(@)]
        BY <1>5, <3>1 DEF EditSidecar
      <4>2. Front(sidecar.lines) \in Seq(Lines) /\ \A i \in DOMAIN Front(sidecar.lines) :
              i \in DOMAIN sidecar.lines /\ Front(sidecar.lines)[i] = sidecar.lines[i]
        BY <1>3, <2>1 DEF Front
      <4> QED
        BY <4>1, <4>2, <1>2, <1>3 DEF Sidecars
    <3>2. ASSUME NEW l \in Lines, l.sink = sidecar.lines[last].sink, l.cp = sidecar.lines[last].cp,
                 sidecar' = [sidecar EXCEPT !.lines = [@ EXCEPT ![last] = l]]
          PROVE  /\ sidecar' \in Sidecars
                 /\ \A i \in DOMAIN sidecar'.lines :
                      /\ i \in DOMAIN sidecar.lines
                      /\ sidecar'.lines[i].sink = sidecar.lines[i].sink
                      /\ sidecar'.lines[i].cp = sidecar.lines[i].cp
      <4>1. sidecar'.lines = [sidecar.lines EXCEPT ![last] = l]
        BY <3>2, <1>2 DEF Sidecars
      <4>2. sidecar'.lines \in Seq(Lines)
        BY <4>1, <1>3, <2>1, <2>2, <3>2
      <4>3. sidecar' \in Sidecars
        BY <4>2, <4>1, <3>2, <1>2, <1>3 DEF Sidecars
      <4>4. DOMAIN sidecar'.lines = DOMAIN sidecar.lines
            /\ \A i \in DOMAIN sidecar.lines :
                 sidecar'.lines[i] = IF i = last THEN l ELSE sidecar.lines[i]
        BY <4>1, <1>3
      <4> QED
        BY <4>3, <4>4, <3>2
    <3>3. CASE kind = "newer_line"
      <4> DEFINE l == [sidecar.lines[last] EXCEPT !.version = "newer"]
      <4>1. l \in Lines /\ l.sink = sidecar.lines[last].sink /\ l.cp = sidecar.lines[last].cp
        BY <2>2 DEF Lines
      <4>2. sidecar' = [sidecar EXCEPT !.lines = [@ EXCEPT ![last] = l]]
        BY <1>5, <3>3 DEF EditSidecar
      <4> HIDE DEF l
      <4> QED
        BY <4>1, <4>2, <3>2
    <3>4. CASE kind = "swap_token"
      <4> DEFINE l == [sidecar.lines[last] EXCEPT !.receipt = [@ EXCEPT !.nonce = 0]]
      <4>1. l \in Lines /\ l.sink = sidecar.lines[last].sink /\ l.cp = sidecar.lines[last].cp
        <5>1. [sidecar.lines[last].receipt EXCEPT !.nonce = 0] \in Tokens
          BY <2>2 DEF Tokens
        <5> QED
          BY <5>1, <2>2 DEF Lines
      <4>2. sidecar' = [sidecar EXCEPT !.lines = [@ EXCEPT ![last] = l]]
        BY <1>5, <3>4 DEF EditSidecar
      <4> HIDE DEF l
      <4> QED
        BY <4>1, <4>2, <3>2
    <3>5. CASE kind = "resign_token"
      <4>1. PICK who \in Signer \ {"tsa"} :
              sidecar' = [sidecar EXCEPT !.lines[last].receipt.signer = who]
        BY <1>5, <3>5 DEF EditSidecar
      <4> DEFINE l == [sidecar.lines[last] EXCEPT !.receipt = [@ EXCEPT !.signer = who]]
      <4>2. l \in Lines /\ l.sink = sidecar.lines[last].sink /\ l.cp = sidecar.lines[last].cp
        <5>1. [sidecar.lines[last].receipt EXCEPT !.signer = who] \in Tokens
          BY <2>2, <4>1 DEF Tokens
        <5> QED
          BY <5>1, <2>2 DEF Lines
      <4>3. sidecar' = [sidecar EXCEPT !.lines = [@ EXCEPT ![last] = l]]
        BY <4>1
      <4> HIDE DEF l
      <4> QED
        BY <4>2, <4>3, <3>2
    <3>6. CASE kind = "tear"
      <4>1. sidecar' = [sidecar EXCEPT !.malformed = TRUE]
        BY <1>5, <3>6 DEF EditSidecar
      <4> QED
        BY <4>1, <1>2, <1>3 DEF Sidecars
    <3> QED
      BY <1>5, <3>1, <3>3, <3>4, <3>5, <3>6 DEF SidecarIncidents
  <2> QED
    BY <1>1, <1>2, <2>1, <2>3, IncidentKeeps
<1>6. CASE kind \in PinIncidents /\ EditPin(kind)
  <2>1. UNCHANGED <<trail, chain, sidecar, receipts>>
    BY <1>6 DEF EditPin
  <2>2. pin.file
    BY <1>6 DEF EditPin, parse_pin_state
  <2>3. pin' \in {NoPin, [pin EXCEPT !.whole = FALSE], [pin EXCEPT !.v = 2, !.whole = FALSE],
                  [pin EXCEPT !.target = "elsewhere"]}
    BY <1>6 DEF EditPin, PinIncidents
  <2>4. pin' \in Pins /\ (~pin'.file => pin' = NoPin)
    BY <1>2, <2>2, <2>3, NoPinIsAPin DEF Pins
  <2> QED
    BY <1>1, <1>2, <2>1, <2>4, IncidentKeeps
<1>7. CASE kind \in ReceiptIncidents /\ EditReceipts(kind)
  <2>1. UNCHANGED <<trail, chain, sidecar, pin>> /\ receipts # << >>
        /\ receipts' = [receipts EXCEPT ![Len(receipts)].form = kind]
    BY <1>7 DEF EditReceipts
  <2>2. Len(receipts) \in DOMAIN receipts /\ receipts[Len(receipts)] \in ReceiptLines
    BY <1>2, <2>1
  <2>3. [receipts[Len(receipts)] EXCEPT !.form = kind] \in ReceiptLines
    BY <1>7, <2>2 DEF ReceiptLines, ReceiptIncidents
  <2>4. receipts' \in Seq(ReceiptLines)
    BY <1>2, <2>1, <2>2, <2>3
  <2> QED
    BY <1>1, <1>2, <2>1, <2>4, IncidentKeeps
<1> QED
  BY <1>4, <1>5, <1>6, <1>7 DEF Incident

\* A step of the anchoring job leaves the trail, the pin and the runs alone.
LEMMA AnchorKeeps ==
  ASSUME VerifierInv, UNCHANGED <<trail, chain, receipts, pin, run, clock, incidents>>,
         sidecar' \in Sidecars, held' \in [Witness -> Seq(Cps)], jobs' \in Nat,
         published' \subseteq [sink : Range(Sink), head : Hist], published \subseteq published',
         job' \in AnchorJobs, RecordsArePublished', AnchorJobHolds',
         incidents = 0 =>
           /\ QuietSidecar(sidecar', trail)
           /\ \A w \in Witness : QuietHeld(held'[w], trail)
           /\ \A p \in published' : Begins(p.head, trail)
           /\ Begins(job'.cp.head, trail)
  PROVE  VerifierInv'
<1>1. FilesShape'
  BY DEF VerifierInv, FilesShape
<1>2. \A v \in Verifier : RunHolds(run[v])'
  BY RunsStay
<1>3. Quiet' /\ (~pin.file => pin = NoPin)'
  BY DEF VerifierInv, Quiet
<1> QED
  BY <1>1, <1>2, <1>3 DEF VerifierInv

\* The job moves on with what it has; the files are as they were.
LEMMA AnchorMovesOn ==
  ASSUME VerifierInv, UNCHANGED <<files, held, published, run, clock, incidents>>,
         jobs' \in Nat, job' \in AnchorJobs, AnchorJobHolds',
         incidents = 0 => Begins(job'.cp.head, trail)
  PROVE  VerifierInv'
<1>1. RecordsArePublished'
  BY DEF VerifierInv, RecordsArePublished, files
<1>2. /\ sidecar \in Sidecars /\ held \in [Witness -> Seq(Cps)]
      /\ published \subseteq [sink : Range(Sink), head : Hist]
  BY DEF VerifierInv, FilesShape
<1>3. incidents = 0 =>
           /\ QuietSidecar(sidecar, trail)
           /\ \A w \in Witness : QuietHeld(held[w], trail)
           /\ \A p \in published : Begins(p.head, trail)
  BY DEF VerifierInv, Quiet
<1> QED
  BY <1>1, <1>2, <1>3, AnchorKeeps DEF files

LEMMA JobFacts ==
  ASSUME VerifierInv
  PROVE  /\ job \in AnchorJobs /\ AnchorJobHolds /\ jobs \in Nat /\ trail \in Hist
         /\ job.cp \in Cps /\ job.cp.head \in Hist /\ job.cp.bound \in BOOLEAN
         /\ job.todo \subseteq Range(Sink) /\ job.ask \subseteq Range(Sink)
         /\ job.tell \subseteq Witness /\ job.failed \subseteq Range(Sink) \cup Witness
         /\ (incidents = 0 => Begins(job.cp.head, trail))
<1>1. job \in AnchorJobs /\ AnchorJobHolds /\ jobs \in Nat /\ trail \in Hist
  BY DEF VerifierInv, FilesShape
<1>2. job.cp \in Cps
  BY <1>1 DEF AnchorJobs
<1> QED
  BY <1>1, <1>2 DEF AnchorJobs, Cps, VerifierInv, Quiet

LEMMA StartAnchorHolds ==
  ASSUME VerifierInv, NEW sinks \in SUBSET Range(Sink), StartAnchor(sinks)
  PROVE  VerifierInv'
<1>1. UNCHANGED <<files, held, published, run, clock, incidents>> /\ jobs' = jobs + 1
  BY DEF StartAnchor
<1>2. PICK agg \in Binding :
         job' = IF trail = << >>
                THEN [IdleJob EXCEPT !.pc = "done", !.exit = 1]
                ELSE [IdleJob EXCEPT !.pc = "sinks", !.cp = checkpoint_for(trail, agg),
                        !.todo = sinks, !.ask = sinks, !.tell = Witness]
  BY DEF StartAnchor
<1>3. agg \in BOOLEAN
  BY VerifierAssumption
<1>4. CASE trail = << >>
  <2>1. job' = [pc |-> "done", cp |-> [head |-> << >>, bound |-> FALSE], todo |-> {},
                ask |-> {}, tell |-> {}, failed |-> {}, exit |-> 1]
    BY <1>2, <1>4 DEF IdleJob
  <2>2. job' \in AnchorJobs /\ AnchorJobHolds'
    BY <2>1 DEF AnchorJobs, AnchorJobHolds, Cps, Hist
  <2>3. Begins(job'.cp.head, trail)
    BY <2>1, <1>4, JobFacts, SelfBegins
  <2> QED
    BY <1>1, <2>2, <2>3, JobFacts, AnchorMovesOn
<1>5. CASE trail # << >>
  <2>1. job' = [pc |-> "sinks", cp |-> [head |-> trail, bound |-> agg], todo |-> sinks,
                ask |-> sinks, tell |-> Witness, failed |-> {}, exit |-> -1]
    BY <1>2, <1>5 DEF IdleJob, checkpoint_for
  <2>2. job' \in AnchorJobs /\ AnchorJobHolds'
    BY <2>1, <1>3, JobFacts DEF AnchorJobs, AnchorJobHolds, Cps
  <2>3. Begins(job'.cp.head, trail)
    BY <2>1, JobFacts, SelfBegins
  <2> QED
    BY <1>1, <2>2, <2>3, JobFacts, AnchorMovesOn
<1> QED
  BY <1>4, <1>5

\* A line of the sidecar is written.
LEMMA RecordAppends ==
  ASSUME VerifierInv, NEW s \in Range(Sink) \cup {"file"}, NEW token \in Tokens, NEW n \in Nat,
         Record(s, token, n), published' = published, incidents' = incidents,
         s # "file" => [sink |-> s, head |-> job.cp.head] \in published,
         token.kind = "rfc3161" => token.frame = job.cp.head /\ token.nonce = n /\ token.signer = "tsa"
  PROVE  /\ sidecar' \in Sidecars /\ RecordsArePublished'
         /\ incidents = 0 => QuietSidecar(sidecar', trail)
         /\ \A i \in DOMAIN sidecar.lines :
              i \in DOMAIN sidecar'.lines /\ sidecar'.lines[i] = sidecar.lines[i]
         /\ \E i \in DOMAIN sidecar'.lines :
              sidecar'.lines[i].cp = job.cp /\ sidecar'.lines[i].sink = s
<1> DEFINE rec == record_obj(s, token, n)
<1>1. rec = [version |-> "known", cp |-> job.cp, sink |-> s, receipt |-> token, nonce |-> n,
             ts |-> clock]
  BY DEF record_obj
<1>2. clock \in Nat /\ sidecar \in Sidecars
  BY DEF VerifierInv, FilesShape
<1>3. rec \in Lines
  BY <1>1, <1>2, JobFacts DEF Lines
<1>4. sidecar.lines \in Seq(Lines) /\ sidecar.malformed \in BOOLEAN
  BY <1>2 DEF Sidecars
<1>5. sidecar' = [lines |-> Append(sidecar.lines, rec), malformed |-> sidecar.malformed]
  BY <1>2 DEF Record, Sidecars
<1> HIDE DEF rec
<1>6. sidecar'.lines = Append(sidecar.lines, rec) /\ sidecar'.malformed = sidecar.malformed
  BY <1>5
<1>7. sidecar'.lines \in Seq(Lines) /\ sidecar' \in Sidecars
  BY <1>3, <1>4, <1>5, <1>6 DEF Sidecars
<1>8. /\ \A i \in DOMAIN sidecar.lines :
            i \in DOMAIN sidecar'.lines /\ sidecar'.lines[i] = sidecar.lines[i]
      /\ \A i \in DOMAIN sidecar'.lines :
            i \in DOMAIN sidecar.lines \/ sidecar'.lines[i] = rec
      /\ \E i \in DOMAIN sidecar'.lines : sidecar'.lines[i] = rec
  <2>1. Len(sidecar.lines) + 1 \in DOMAIN sidecar'.lines
        /\ sidecar'.lines[Len(sidecar.lines) + 1] = rec
    BY <1>3, <1>4, <1>6
  <2> QED
    BY <2>1, <1>3, <1>4, <1>6
<1>9. RecordsArePublished'
  BY <1>1, <1>8 DEF rec, VerifierInv, RecordsArePublished
<1>10. ASSUME incidents = 0 PROVE QuietSidecar(sidecar', trail)
  <2>1. QuietSidecar(sidecar, trail) /\ Begins(job.cp.head, trail)
    BY <1>10 DEF VerifierInv, Quiet
  <2>2. RecordHolds(rec, trail)
    BY <2>1, <1>1 DEF rec, RecordHolds
  <2>3. ASSUME NEW i \in DOMAIN sidecar'.lines PROVE RecordHolds(sidecar'.lines[i], trail)
    <3>1. CASE i \in DOMAIN sidecar.lines
      BY <3>1, <2>1, <1>8 DEF QuietSidecar
    <3>2. CASE i \notin DOMAIN sidecar.lines
      <4>1. sidecar'.lines[i] = rec
        BY <3>2, <1>8
      <4> QED
        BY <4>1, <2>2
    <3> QED
      BY <3>1, <3>2
  <2> QED
    BY <2>1, <2>3, <1>6 DEF QuietSidecar
<1>11. rec.cp = job.cp /\ rec.sink = s
  BY <1>1 DEF rec
<1> QED
  BY <1>7, <1>8, <1>9, <1>10, <1>11

LEMMA RecordLocallyHolds ==
  ASSUME VerifierInv, RecordLocally
  PROVE  VerifierInv'
<1>1. /\ job.pc = "sinks" /\ job.ask = {} /\ Record("file", NoReceipt, 0)
      /\ job' = [job EXCEPT !.pc = "witnesses"]
      /\ UNCHANGED <<trail, chain, receipts, pin, held, published, run, clock, jobs, incidents>>
  BY DEF RecordLocally
<1>2. NoReceipt \in Tokens /\ NoReceipt.kind = "none"
  BY DEF NoReceipt, Receipt, Tokens, Hist
<1>3. /\ sidecar' \in Sidecars /\ RecordsArePublished'
      /\ incidents = 0 => QuietSidecar(sidecar', trail)
      /\ \E i \in DOMAIN sidecar'.lines :
           sidecar'.lines[i].cp = job.cp /\ sidecar'.lines[i].sink = "file"
  BY <1>1, <1>2, RecordAppends
<1>4. job' \in AnchorJobs /\ job'.cp = job.cp /\ job'.ask = {} /\ job'.todo = job.todo
      /\ job'.failed = job.failed /\ job'.tell = job.tell /\ job'.exit = job.exit
      /\ job'.pc = "witnesses"
  BY <1>1, JobFacts DEF AnchorJobs
<1>5. job.todo = {} /\ job.tell = Witness /\ job.exit # 0
  BY <1>1, JobFacts DEF AnchorJobHolds
<1>6. Recorded("file")'
  BY <1>3, <1>4 DEF Recorded
<1>7. AnchorJobHolds'
  BY <1>4, <1>5, <1>6 DEF AnchorJobHolds
<1>8. /\ held \in [Witness -> Seq(Cps)] /\ published \subseteq [sink : Range(Sink), head : Hist]
      /\ incidents = 0 => /\ \A w \in Witness : QuietHeld(held[w], trail)
                          /\ \A p \in published : Begins(p.head, trail)
  BY DEF VerifierInv, FilesShape, Quiet
<1> QED
  BY <1>1, <1>3, <1>4, <1>7, <1>8, JobFacts, AnchorKeeps

LEMMA OneTurn ==
  ASSUME NEW s, NEW t, Turn(s), Turn(t)
  PROVE  s = t
<1>1. PICK i \in DOMAIN Sink : s = Sink[i] /\ s \in job.todo /\ \A k \in 1 .. i - 1 : Sink[k] \notin job.todo
  BY DEF Turn
<1>2. PICK j \in DOMAIN Sink : t = Sink[j] /\ t \in job.todo /\ \A k \in 1 .. j - 1 : Sink[k] \notin job.todo
  BY DEF Turn
<1>3. DOMAIN Sink = 1 .. Len(Sink) /\ Len(Sink) \in Nat
  BY VerifierAssumption
<1>4. i \in Nat /\ j \in Nat /\ 1 <= i /\ 1 <= j
  BY <1>3
<1>5. ~ (i < j) /\ ~ (j < i)
  BY <1>1, <1>2, <1>4
<1> QED
  BY <1>1, <1>2, <1>4, <1>5

LEMMA PublishHolds ==
  ASSUME VerifierInv, NEW s \in Range(Sink), NEW o \in Outcome, Publish(s, o)
  PROVE  VerifierInv'
<1> DEFINE p == [sink |-> s, head |-> job.cp.head]
<1>1. /\ job.pc = "sinks" /\ Turn(s)
      /\ UNCHANGED <<files, held, run, clock, jobs, incidents>>
      /\ published' = IF o = "refused" THEN published ELSE published \cup {p}
      /\ job' = IF o = "answered" THEN [job EXCEPT !.pc = "record"]
                ELSE [job EXCEPT !.todo = @ \ {s}, !.failed = @ \cup {s}]
  BY DEF Publish
<1>2. /\ published \subseteq published' /\ published' \subseteq published \cup {p}
      /\ published \subseteq [sink : Range(Sink), head : Hist]
      /\ p \in [sink : Range(Sink), head : Hist] /\ p.head = job.cp.head
  BY <1>1, JobFacts DEF VerifierInv, FilesShape
<1>3. /\ job' \in AnchorJobs /\ job'.cp = job.cp /\ job'.ask = job.ask
      /\ job'.tell = job.tell /\ job'.exit = job.exit
      /\ job'.pc \in {"sinks", "record"}
  BY <1>1, JobFacts DEF AnchorJobs
<1>4. s \in job.todo /\ job.exit # 0
  BY <1>1, JobFacts DEF Turn, AnchorJobHolds
<1>5. \A t : Recorded(t)' <=> Recorded(t)
  BY <1>1, <1>3 DEF Recorded, files
<1>6. AnchorJobHolds'
  <2>1. CASE o = "answered"
    <3>1. job'.pc = "record" /\ job'.todo = job.todo /\ job'.failed = job.failed /\ p \in published'
      BY <1>1, <2>1, JobFacts DEF AnchorJobs
    <3>2. \A t : Turn(t)' => t = s
      BY <1>1, <3>1, OneTurn DEF Turn
    <3> QED
      BY <1>1, <1>2, <1>3, <1>4, <1>5, <3>1, <3>2, JobFacts DEF AnchorJobHolds
  <2>2. CASE o # "answered"
    <3>1. job'.pc = "sinks" /\ job'.todo = job.todo \ {s} /\ job'.failed = job.failed \cup {s}
      BY <1>1, <2>2, JobFacts DEF AnchorJobs
    <3> QED
      BY <1>1, <1>2, <1>3, <1>4, <1>5, <3>1, JobFacts DEF AnchorJobHolds
  <2> QED
    BY <2>1, <2>2
<1>7. RecordsArePublished'
  BY <1>1, <1>2 DEF VerifierInv, RecordsArePublished, files
<1>8. /\ sidecar \in Sidecars /\ held \in [Witness -> Seq(Cps)]
      /\ incidents = 0 => /\ QuietSidecar(sidecar, trail)
                          /\ \A w \in Witness : QuietHeld(held[w], trail)
                          /\ \A q \in published : Begins(q.head, trail)
  BY DEF VerifierInv, FilesShape, Quiet
<1>9. incidents = 0 => \A q \in published' : Begins(q.head, trail)
  BY <1>2, <1>8, JobFacts
<1>10. published' \subseteq [sink : Range(Sink), head : Hist]
  BY <1>2
<1> QED
  BY <1>1, <1>2, <1>3, <1>6, <1>7, <1>8, <1>9, <1>10, JobFacts, AnchorKeeps DEF files

LEMMA RecordAnswerHolds ==
  ASSUME VerifierInv, NEW s \in Range(Sink), RecordAnswer(s)
  PROVE  VerifierInv'
<1>1. /\ job.pc = "record" /\ Turn(s)
      /\ job' = [job EXCEPT !.pc = "sinks", !.todo = @ \ {s}]
      /\ UNCHANGED <<trail, chain, receipts, pin, held, published, run, clock, jobs, incidents>>
  BY DEF RecordAnswer
<1>2. s \in job.todo /\ job.exit # 0 /\ [sink |-> s, head |-> job.cp.head] \in published
      /\ job.tell = Witness
  BY <1>1, JobFacts DEF Turn, AnchorJobHolds
<1>3. Rfc3161Answer \in Tokens /\ Rfc3161Answer.frame = job.cp.head
      /\ Rfc3161Answer.nonce = jobs /\ Rfc3161Answer.signer = "tsa"
  BY JobFacts DEF Rfc3161Answer, Receipt, Tokens, Signer
<1>4. OtsAnswer \in Tokens /\ OtsAnswer.kind = "ots"
  BY DEF OtsAnswer, Receipt, Tokens, Hist
<1>5. /\ sidecar' \in Sidecars /\ RecordsArePublished'
      /\ incidents = 0 => QuietSidecar(sidecar', trail)
      /\ \A i \in DOMAIN sidecar.lines :
              i \in DOMAIN sidecar'.lines /\ sidecar'.lines[i] = sidecar.lines[i]
      /\ \E i \in DOMAIN sidecar'.lines :
           sidecar'.lines[i].cp = job.cp /\ sidecar'.lines[i].sink = s
  <2>1. CASE s = "rfc3161"
    <3>1. Record(s, Rfc3161Answer, jobs)
      BY <2>1 DEF RecordAnswer
    <3> QED
      BY <3>1, <1>1, <1>2, <1>3, JobFacts, RecordAppends
  <2>2. CASE s # "rfc3161"
    <3>1. Record(s, OtsAnswer, 0)
      BY <2>2 DEF RecordAnswer
    <3> QED
      BY <3>1, <1>1, <1>2, <1>4, RecordAppends
  <2> QED
    BY <2>1, <2>2
<1>6. /\ job' \in AnchorJobs /\ job'.cp = job.cp /\ job'.ask = job.ask
      /\ job'.tell = job.tell /\ job'.exit = job.exit /\ job'.failed = job.failed
      /\ job'.pc = "sinks" /\ job'.todo = job.todo \ {s}
  BY <1>1, JobFacts DEF AnchorJobs
<1>7. Recorded(s)' /\ \A t : Recorded(t) => Recorded(t)'
  BY <1>1, <1>5, <1>6 DEF Recorded
<1>8. AnchorJobHolds'
  BY <1>1, <1>2, <1>6, <1>7, JobFacts DEF AnchorJobHolds
<1>9. /\ held \in [Witness -> Seq(Cps)] /\ published \subseteq [sink : Range(Sink), head : Hist]
      /\ incidents = 0 => /\ \A w \in Witness : QuietHeld(held[w], trail)
                          /\ \A p \in published : Begins(p.head, trail)
  BY DEF VerifierInv, FilesShape, Quiet
<1> QED
  BY <1>1, <1>5, <1>6, <1>8, <1>9, JobFacts, AnchorKeeps

LEMMA AfterSinksHolds ==
  ASSUME VerifierInv, AfterSinks
  PROVE  VerifierInv'
<1>1. /\ job.pc = "sinks" /\ job.ask # {} /\ job.todo = {}
      /\ UNCHANGED <<files, held, published, run, clock, jobs, incidents>>
      /\ job' \in {[job EXCEPT !.pc = "done", !.exit = 1], [job EXCEPT !.pc = "witnesses"]}
  BY DEF AfterSinks
<1>2. /\ job' \in AnchorJobs /\ job'.cp = job.cp /\ job'.ask = job.ask
      /\ job'.tell = job.tell /\ job'.failed = job.failed /\ job'.todo = job.todo
      /\ job'.pc \in {"done", "witnesses"} /\ job'.exit \in {1, job.exit}
  BY <1>1, JobFacts DEF AnchorJobs
<1>3. \A t : Recorded(t)' <=> Recorded(t)
  BY <1>1, <1>2 DEF Recorded, files
<1>4. job.tell = Witness /\ job.exit # 0
  BY <1>1, JobFacts DEF AnchorJobHolds
<1>5. AnchorJobHolds'
  BY <1>1, <1>2, <1>3, <1>4, JobFacts DEF AnchorJobHolds
<1> QED
  BY <1>1, <1>2, <1>5, JobFacts, AnchorMovesOn

LEMMA TellWitnessHolds ==
  ASSUME VerifierInv, NEW w \in Witness, NEW o \in Outcome, TellWitness(w, o)
  PROVE  VerifierInv'
<1>1. /\ job.pc = "witnesses" /\ w \in job.tell
      /\ held' = IF o = "refused" THEN held ELSE [held EXCEPT ![w] = Append(@, job.cp)]
      /\ job' = [job EXCEPT !.tell = @ \ {w},
                   !.failed = IF o = "answered" THEN @ ELSE @ \cup {w}]
      /\ UNCHANGED <<files, published, run, clock, jobs, incidents>>
  BY DEF TellWitness, WitnessRecord
<1>2. /\ job' \in AnchorJobs /\ job'.cp = job.cp /\ job'.ask = job.ask /\ job'.todo = job.todo
      /\ job'.tell = job.tell \ {w} /\ job'.exit = job.exit /\ job'.pc = "witnesses"
      /\ job'.failed = IF o = "answered" THEN job.failed ELSE job.failed \cup {w}
  BY <1>1, JobFacts DEF AnchorJobs
<1>3. \A t : Recorded(t)' <=> Recorded(t)
  BY <1>1, <1>2 DEF Recorded, files
<1>4. held \in [Witness -> Seq(Cps)] /\ held[w] \in Seq(Cps)
  BY DEF VerifierInv, FilesShape
<1>5. /\ held' \in [Witness -> Seq(Cps)]
      /\ \A u \in Witness : \A i \in DOMAIN held[u] :
           i \in DOMAIN held'[u] /\ held'[u][i] = held[u][i]
      /\ \A u \in Witness : \A i \in DOMAIN held'[u] :
           (i \in DOMAIN held[u] /\ held'[u][i] = held[u][i]) \/ held'[u][i] = job.cp
      /\ o = "answered" => \E i \in DOMAIN held'[w] : held'[w][i] = job.cp
  <2>1. CASE o = "refused"
    BY <2>1, <1>1, <1>4
  <2>2. CASE o # "refused"
    <3> DEFINE h == Append(held[w], job.cp)
    <3>1. h \in Seq(Cps) /\ Len(held[w]) + 1 \in DOMAIN h /\ h[Len(held[w]) + 1] = job.cp
      BY <1>4, JobFacts
    <3>2. /\ \A i \in DOMAIN held[w] : i \in DOMAIN h /\ h[i] = held[w][i]
          /\ \A i \in DOMAIN h : (i \in DOMAIN held[w] /\ h[i] = held[w][i]) \/ h[i] = job.cp
      BY <1>4, JobFacts
    <3>3. held' = [held EXCEPT ![w] = h]
      BY <2>2, <1>1
    <3> HIDE DEF h
    <3>4. held' \in [Witness -> Seq(Cps)] /\ held'[w] = h
          /\ \A u \in Witness : u # w => held'[u] = held[u]
      BY <3>3, <3>1, <1>4
    <3> QED
      BY <3>1, <3>2, <3>4
  <2> QED
    BY <2>1, <2>2
<1>6. AnchorJobHolds'
  <2>1. job.todo = {} /\ (job.ask = {} => Recorded("file")) /\ job.exit # 0
        /\ \A u \in Witness \ job.tell :
              u \in job.failed \/ \E i \in DOMAIN held[u] : held[u][i] = job.cp
    BY <1>1, JobFacts DEF AnchorJobHolds
  <2>2. ASSUME NEW u \in Witness \ job'.tell
        PROVE  u \in job'.failed \/ \E i \in DOMAIN held'[u] : held'[u][i] = job'.cp
    <3>1. CASE u = w
      BY <3>1, <1>2, <1>5
    <3>2. CASE u # w
      BY <3>2, <2>1, <1>2, <1>5
    <3> QED
      BY <3>1, <3>2
  <2>3. \A s \in job'.ask \ job'.todo :
         s \in job'.failed \/ ([sink |-> s, head |-> job'.cp.head] \in published' /\ Recorded(s)')
    BY <1>1, <1>2, <1>3, JobFacts DEF AnchorJobHolds
  <2> QED
    BY <1>2, <1>3, <2>1, <2>2, <2>3 DEF AnchorJobHolds
<1>7. /\ sidecar \in Sidecars /\ RecordsArePublished
      /\ published \subseteq [sink : Range(Sink), head : Hist]
      /\ incidents = 0 => /\ QuietSidecar(sidecar, trail)
                          /\ \A u \in Witness : QuietHeld(held[u], trail)
                          /\ \A q \in published : Begins(q.head, trail)
  BY DEF VerifierInv, FilesShape, Quiet
<1>8. incidents = 0 => \A u \in Witness : QuietHeld(held'[u], trail)
  BY <1>5, <1>7, JobFacts DEF QuietHeld
<1>9. RecordsArePublished'
  BY <1>1, <1>7 DEF RecordsArePublished, files
<1> QED
  BY <1>1, <1>2, <1>5, <1>6, <1>7, <1>8, <1>9, JobFacts, AnchorKeeps DEF files

LEMMA FinishAnchorHolds ==
  ASSUME VerifierInv, FinishAnchor
  PROVE  VerifierInv'
<1>1. /\ job.pc = "witnesses" /\ job.tell = {}
      /\ job' = [job EXCEPT !.pc = "done", !.exit = IF job.failed = {} THEN 0 ELSE 1]
      /\ UNCHANGED <<files, held, published, run, clock, jobs, incidents>>
  BY DEF FinishAnchor
<1>2. /\ job' \in AnchorJobs /\ job'.cp = job.cp /\ job'.ask = job.ask /\ job'.todo = job.todo
      /\ job'.tell = job.tell /\ job'.failed = job.failed /\ job'.pc = "done"
      /\ job'.exit = IF job.failed = {} THEN 0 ELSE 1
  BY <1>1, JobFacts DEF AnchorJobs
<1>3. \A t : Recorded(t)' <=> Recorded(t)
  BY <1>1, <1>2 DEF Recorded, files
<1>4. AnchorJobHolds'
  BY <1>1, <1>2, <1>3, JobFacts DEF AnchorJobHolds
<1> QED
  BY <1>1, <1>2, <1>4, JobFacts, AnchorMovesOn

LEMMA CrashAnchorHolds ==
  ASSUME VerifierInv, CrashAnchor
  PROVE  VerifierInv'
<1>1. job' = IdleJob /\ UNCHANGED <<files, held, published, run, clock, jobs, incidents>>
  BY DEF CrashAnchor
<1>2. AnchorJobHolds' /\ job' \in AnchorJobs
  BY <1>1, IdleJobHolds DEF AnchorJobHolds, IdleJob
<1>3. Begins(job'.cp.head, trail)
  <2>1. job'.cp.head = << >> /\ << >> \in Hist /\ Len(<< >>) = 0 /\ Len(trail) \in Nat
    BY <1>1, JobFacts DEF IdleJob, Hist
  <2> QED
    BY <2>1 DEF Begins
<1> QED
  BY <1>1, <1>2, <1>3, JobFacts, AnchorMovesOn

\* A verifier's step changes its own run, and the pin only by what it had
\* pending.
LEMMA VerifyKeeps ==
  ASSUME VerifierInv, NEW v \in Verifier, NEW r, run' = [run EXCEPT ![v] = r],
         UNCHANGED <<trail, chain, sidecar, receipts, held, published, job, clock, jobs, incidents>>,
         RunHolds(r), incidents = 0 => QuietRun(r, trail),
         pin' \in Pins, ~pin'.file => pin' = NoPin, incidents = 0 => QuietPin(pin', trail)
  PROVE  VerifierInv'
<1>1. FilesShape'
  BY DEF VerifierInv, FilesShape
<1>2. DOMAIN run = Verifier
  BY DEF VerifierInv, FilesShape
<1>3. ASSUME NEW u \in Verifier
      PROVE  RunHolds(run[u])' /\ (incidents = 0 => QuietRun(run'[u], trail))
  <2>1. run'[u] \in {r, run[u]}
    BY <1>2
  <2>2. RunHolds(run'[u]) /\ (incidents = 0 => QuietRun(run'[u], trail))
    BY <2>1 DEF VerifierInv, Quiet
  <2> QED
    BY <2>2 DEF RunHolds
<1>4. AnchorJobHolds'
  BY JobStays
<1>5. RecordsArePublished'
  BY DEF VerifierInv, RecordsArePublished
<1>6. Quiet'
  BY <1>3 DEF VerifierInv, Quiet
<1> QED
  BY <1>1, <1>3, <1>4, <1>5, <1>6 DEF VerifierInv

LEMMA RunFacts ==
  ASSUME VerifierInv, NEW v \in Verifier
  PROVE  /\ RunShape(run[v]) /\ PendingHolds(run[v]) /\ CountsHold(run[v], published # {})
         /\ (incidents = 0 => QuietRun(run[v], trail))
         /\ trail \in Hist /\ chain \in Verdict /\ sidecar \in Sidecars
         /\ receipts \in Seq(ReceiptLines) /\ pin \in Pins /\ (~pin.file => pin = NoPin)
         /\ (incidents = 0 => QuietPin(pin, trail))
BY DEF VerifierInv, RunHolds, FilesShape, Quiet

LEMMA ReadTrailHolds ==
  ASSUME VerifierInv, NEW v \in Verifier, NEW opt \in Options[v], ReadTrail(v, opt)
  PROVE  VerifierInv'
<1> DEFINE r == [IdleRun EXCEPT !.pc = "anchors", !.opt = opt, !.hashes = trail, !.codes = {chain}]
<1>1. /\ run' = [run EXCEPT ![v] = r]
      /\ UNCHANGED <<files, held, published, job, clock, jobs, incidents>>
  BY DEF ReadTrail
<1>2. /\ r.pc = "anchors" /\ r.opt = opt /\ r.hashes = trail /\ r.codes = {chain}
      /\ r.sinks = 0 /\ r.loaded = NoPin /\ r.pending = NoPin /\ r.exit = -1
  BY DEF IdleRun
<1>3. opt \in Flags
  BY VerifierAssumption
<1>4. RunHolds(r)
  <2>1. IdleRun.exit = -1 /\ RunShape(IdleRun)
    BY IdleRunHolds DEF IdleRun
  <2>2. RunShape(r)
    BY <1>3, <2>1, RunFacts DEF RunShape
  <2> QED
    BY <1>2, <2>2, NoPinIsAPin DEF RunHolds, PendingHolds, CountsHold
<1>5. ASSUME incidents = 0 PROVE QuietRun(r, trail)
  <2>1. chain = "ok" /\ Begins(trail, trail)
    BY <1>5, RunFacts, SelfBegins DEF VerifierInv, Quiet
  <2> QED
    BY <2>1, <1>2, NoPinIsAPin DEF QuietRun
<1> HIDE DEF r
<1> QED
  BY <1>1, <1>4, <1>5, RunFacts, VerifyKeeps DEF files

LEMMA CheckAnchorsHolds ==
  ASSUME VerifierInv, NEW v \in Verifier, CheckAnchors(v)
  PROVE  VerifierInv'
<1> DEFINE q == run[v]
           c == anchor_check(q.hashes, sidecar, q.opt.ca)
           r == IF q.opt.anchors
                THEN [q EXCEPT !.pc = "observe", !.codes = @ \cup {c.verdict},
                               !.reasons = @ \cup {c.reason}]
                ELSE [q EXCEPT !.pc = "witness"]
<1>1. /\ q.pc = "anchors" /\ run' = [run EXCEPT ![v] = r] /\ pin' = pin
      /\ UNCHANGED <<trail, chain, sidecar, receipts, held, published, job, clock, jobs, incidents>>
  BY DEF CheckAnchors, Step
<1>2. RunShape(q) /\ PendingHolds(q) /\ CountsHold(q, published # {}) /\ q.hashes \in Hist
  BY RunFacts DEF RunShape
<1>3. c.verdict \in Verdict /\ (QuietSidecar(sidecar, q.hashes) => c.verdict # "broken")
  BY <1>2, RunFacts, AnchorVerdicts
<1> HIDE DEF c, q
<1>4. /\ r.pc \in {"observe", "witness"} /\ r.codes \in {q.codes, q.codes \cup {c.verdict}}
      /\ r.opt = q.opt /\ r.hashes = q.hashes /\ r.sinks = q.sinks /\ r.loaded = q.loaded
      /\ r.pending = q.pending /\ r.exit = q.exit
  BY <1>2 DEF RunShape
<1>5. RunShape(r)
  BY <1>1, <1>2, <1>3 DEF RunShape
<1>6. RunHolds(r)
  BY <1>2, <1>4, <1>5 DEF RunHolds, PendingHolds, CountsHold
<1>7. ASSUME incidents = 0 PROVE QuietRun(r, trail)
  <2>1. QuietRun(q, trail) /\ QuietSidecar(sidecar, trail)
    BY <1>7, RunFacts DEF q, VerifierInv, Quiet
  <2> QED
    BY <2>1, <1>3, <1>4 DEF QuietRun
<1> HIDE DEF r
<1> QED
  BY <1>1, <1>6, <1>7, RunFacts, VerifyKeeps

LEMMA ObserveAnchorsHolds ==
  ASSUME VerifierInv, NEW v \in Verifier, ObserveAnchors(v)
  PROVE  VerifierInv'
<1> DEFINE q == run[v]
           r == [q EXCEPT !.pc = "witness", !.sinks = observed_sinks(sidecar),
                          !.records = observed_records(sidecar)]
<1>1. /\ q.pc = "observe" /\ run' = [run EXCEPT ![v] = r] /\ pin' = pin
      /\ UNCHANGED <<trail, chain, sidecar, receipts, held, published, job, clock, jobs, incidents>>
  BY DEF ObserveAnchors, Step
<1>2. RunShape(q) /\ PendingHolds(q) /\ CountsHold(q, published # {})
  BY RunFacts
<1>3. observed_sinks(sidecar) = 0 \/ published # {}
  <2>1. CASE {l.sink : l \in Readable(sidecar.lines)} \ {"file"} = {}
    BY <2>1, FS_EmptySet DEF observed_sinks
  <2>2. CASE {l.sink : l \in Readable(sidecar.lines)} \ {"file"} # {}
    <3>1. PICK l \in Readable(sidecar.lines) : l.sink # "file"
      BY <2>2
    <3>2. PICK i \in DOMAIN sidecar.lines : l = sidecar.lines[i]
      BY DEF Readable, Range
    <3> QED
      BY <3>1, <3>2 DEF VerifierInv, RecordsArePublished
  <2> QED
    BY <2>1, <2>2
<1> HIDE DEF q
<1>4. /\ r.pc = "witness" /\ r.codes = q.codes /\ r.opt = q.opt /\ r.hashes = q.hashes
      /\ r.sinks = observed_sinks(sidecar) /\ r.loaded = q.loaded
      /\ r.pending = q.pending /\ r.exit = q.exit
  BY <1>2 DEF RunShape
<1>5. RunShape(r)
  BY <1>1, <1>2 DEF RunShape
<1>6. RunHolds(r)
  BY <1>2, <1>3, <1>4, <1>5 DEF RunHolds, PendingHolds, CountsHold
<1>7. ASSUME incidents = 0 PROVE QuietRun(r, trail)
  <2>1. QuietRun(q, trail)
    BY <1>7, RunFacts DEF q
  <2> QED
    BY <2>1, <1>4 DEF QuietRun
<1> HIDE DEF r
<1> QED
  BY <1>1, <1>6, <1>7, RunFacts, VerifyKeeps

LEMMA AskOthersHolds ==
  ASSUME VerifierInv, NEW v \in Verifier, NEW reached, NEW ledger \in {"ok", "unverifiable"},
         AskOthers(v, reached, ledger)
  PROVE  VerifierInv'
<1> DEFINE q == run[v]
           statuses == IF q.opt.witness THEN witness_verdicts(q.hashes, reached) ELSE {}
           answer == IF q.opt.ledger THEN ledger ELSE "off"
           r == [q EXCEPT !.pc = "pin", !.witness = statuses, !.ledger = answer,
                       !.codes = @ \cup {witness_verdict(statuses)} \cup ({answer} \cap Verdict)]
<1>1. /\ q.pc = "witness" /\ run' = [run EXCEPT ![v] = r] /\ pin' = pin
      /\ UNCHANGED <<trail, chain, sidecar, receipts, held, published, job, clock, jobs, incidents>>
  BY DEF AskOthers, Step
<1>2. RunShape(q) /\ PendingHolds(q) /\ CountsHold(q, published # {}) /\ q.hashes \in Hist
  BY RunFacts DEF RunShape
<1>3. witness_verdict(statuses) \in Verdict /\ answer # "broken"
  BY <1>2, WitnessVerdicts DEF Verdict
<1>4. ASSUME \A w \in Witness : QuietHeld(held[w], q.hashes) PROVE witness_verdict(statuses) # "broken"
  <2>1. held \in [Witness -> Seq(Cps)]
    BY DEF VerifierInv, FilesShape
  <2> QED
    BY <2>1, <1>2, <1>4, WitnessVerdicts
<1> HIDE DEF q, statuses, answer
<1>5. /\ r.pc = "pin" /\ r.codes = q.codes \cup {witness_verdict(statuses)} \cup ({answer} \cap Verdict)
      /\ r.opt = q.opt /\ r.hashes = q.hashes
      /\ r.sinks = q.sinks /\ r.loaded = q.loaded
      /\ r.pending = q.pending /\ r.exit = q.exit
  BY <1>2 DEF RunShape
<1>6. RunShape(r)
  BY <1>1, <1>2, <1>3 DEF RunShape
<1>7. RunHolds(r)
  BY <1>2, <1>5, <1>6 DEF RunHolds, PendingHolds, CountsHold
<1>8. ASSUME incidents = 0 PROVE QuietRun(r, trail)
  <2>1. QuietRun(q, trail) /\ \A w \in Witness : QuietHeld(held[w], trail)
    BY <1>8, RunFacts DEF q, VerifierInv, Quiet
  <2> QED
    BY <2>1, <1>3, <1>4, <1>5 DEF QuietRun
<1> HIDE DEF r
<1> QED
  BY <1>1, <1>7, <1>8, RunFacts, VerifyKeeps

LEMMA CheckPinHolds ==
  ASSUME VerifierInv, NEW v \in Verifier, CheckPin(v)
  PROVE  VerifierInv'
<1> DEFINE q == run[v]
           c == pin_check(pin, q, clock)
           asked == [q EXCEPT !.pc = "receipts", !.loaded = pin, !.pending = c.pending,
                            !.sinks = 0, !.records = << >>, !.codes = @ \cup {c.verdict},
                            !.reasons = @ \cup {c.reason}]
           passed == [q EXCEPT !.pc = "receipts", !.sinks = 0, !.records = << >>]
           r == IF q.opt.pin THEN asked ELSE passed
<1>1. /\ q.pc = "pin" /\ run' = [run EXCEPT ![v] = r] /\ pin' = pin
      /\ UNCHANGED <<trail, chain, sidecar, receipts, held, published, job, clock, jobs, incidents>>
  BY DEF CheckPin, Step
<1>2. RunShape(q) /\ PendingHolds(q) /\ CountsHold(q, published # {}) /\ q.hashes \in Hist
      /\ q.opt \in Flags /\ pin \in Pins /\ (~pin.file => pin = NoPin)
      /\ (incidents = 0 => QuietRun(q, trail))
  BY RunFacts DEF RunShape
<1>3. /\ c.verdict \in Verdict /\ c.pending \in Pins
      /\ QuietPin(pin, q.hashes) => c.verdict # "broken"
      /\ c.pending.file =>
           /\ c.pending.v = 1 /\ c.pending.whole /\ c.pending.target = "here"
           /\ c.pending.head = q.hashes
           /\ pin.file =>
                /\ Begins(pin.head, q.hashes)
                /\ pin.topo.declared => c.pending.topo.declared
                /\ pin.age # -1 => c.pending.age # -1
                /\ pin.bind => c.pending.bind
      /\ (c.verdict = "ok" /\ pin.topo.declared) => ~SeparationShortfall(pin, q)
  BY <1>2, PinVerdicts
<1> HIDE DEF c
<1>4. CASE ~q.opt.pin
  <2> HIDE DEF q
  <2>1. r = passed
    BY <1>4
  <2>2. /\ passed.pc = "receipts" /\ passed.codes = q.codes /\ passed.opt = q.opt
        /\ passed.hashes = q.hashes /\ passed.sinks = 0 /\ passed.loaded = q.loaded
        /\ passed.pending = q.pending /\ passed.exit = q.exit
    BY <1>2 DEF RunShape
  <2>3. RunShape(passed)
    BY <1>1, <1>2 DEF RunShape
  <2>4. RunHolds(passed)
    BY <1>2, <1>4, <2>2, <2>3 DEF RunHolds, PendingHolds, CountsHold
  <2>5. incidents = 0 => QuietRun(passed, trail)
    BY <1>2, <2>2 DEF QuietRun
  <2> HIDE DEF passed, r
  <2> QED
    BY <1>1, <2>1, <2>4, <2>5, RunFacts, VerifyKeeps
<1>5. CASE q.opt.pin
  <2>1. r = asked
    BY <1>5
  <2> HIDE DEF q
  <2>2. /\ asked.pc = "receipts" /\ asked.codes = q.codes \cup {c.verdict} /\ asked.opt = q.opt
        /\ asked.hashes = q.hashes /\ asked.sinks = 0 /\ asked.loaded = pin
        /\ asked.pending = c.pending /\ asked.exit = q.exit /\ asked.witness = q.witness
    BY <1>2 DEF RunShape
  <2>3. RunShape(asked)
    BY <1>1, <1>2, <1>3 DEF RunShape
  <2>4. PendingHolds(asked)
    BY <1>3, <2>2 DEF PendingHolds
  <2>5. CountsHold(asked, published # {})
    <3> SUFFICES ASSUME asked.codes \subseteq {"ok"}, q.opt.anchors, q.opt.witness, pin.topo.declared
                 PROVE  /\ pin.topo.sinks > 0 => published # {}
                        /\ pin.topo.witness => "consistent" \in q.witness
      BY <2>2 DEF CountsHold
    <3>1. ~SeparationShortfall(pin, q)
      BY <1>3, <2>2
    <3>2. ~ (pin.topo.sinks > q.sinks) /\ (pin.topo.witness => "consistent" \in q.witness)
      BY <3>1 DEF SeparationShortfall, separation_shortfall
    <3>3. q.sinks = 0 \/ published # {}
      BY <1>2 DEF CountsHold
    <3> QED
      BY <3>2, <3>3
  <2>6. ASSUME incidents = 0 PROVE QuietRun(asked, trail)
    <3>1. QuietRun(q, trail) /\ QuietPin(pin, trail)
      BY <2>6, <1>2, RunFacts
    <3>2. asked.pending.file => Begins(asked.pending.head, trail)
      BY <3>1, <1>3, <2>2 DEF QuietRun
    <3>3. asked.hashes = trail => "broken" \notin asked.codes /\ asked.exit # 1
      BY <3>1, <1>3, <2>2 DEF QuietRun
    <3> QED
      BY <3>1, <3>2, <3>3, <2>2 DEF QuietRun
  <2>7. RunHolds(asked)
    BY <2>3, <2>4, <2>5 DEF RunHolds
  <2> HIDE DEF asked, r
  <2> QED
    BY <1>1, <2>1, <2>6, <2>7, RunFacts, VerifyKeeps
<1> QED
  BY <1>4, <1>5

LEMMA CheckReceiptsHolds ==
  ASSUME VerifierInv, NEW v \in Verifier, CheckReceipts(v)
  PROVE  VerifierInv'
<1> DEFINE q == run[v]
           code == reconcile_receipts(q.hashes, receipts)
           r == [q EXCEPT !.pc = "save", !.codes = @ \cup {code}]
<1>1. /\ q.pc = "receipts" /\ run' = [run EXCEPT ![v] = r] /\ pin' = pin
      /\ UNCHANGED <<trail, chain, sidecar, receipts, held, published, job, clock, jobs, incidents>>
  BY DEF CheckReceipts, Step
<1>2. RunShape(q) /\ PendingHolds(q) /\ CountsHold(q, published # {}) /\ q.hashes \in Hist
  BY RunFacts DEF RunShape
<1>3. code \in Verdict /\ (QuietReceipts(receipts, q.hashes) => code = "ok")
  BY <1>2, RunFacts, ReceiptsReconcile
<1> HIDE DEF q, code
<1>4. /\ r.pc = "save" /\ r.codes = q.codes \cup {code}
      /\ r.opt = q.opt /\ r.hashes = q.hashes /\ r.sinks = q.sinks /\ r.loaded = q.loaded
      /\ r.pending = q.pending /\ r.exit = q.exit /\ r.witness = q.witness
  BY <1>2 DEF RunShape
<1>5. RunShape(r)
  BY <1>1, <1>2, <1>3 DEF RunShape
<1>6. RunHolds(r)
  BY <1>1, <1>2, <1>4, <1>5 DEF RunHolds, PendingHolds, CountsHold
<1>7. ASSUME incidents = 0 PROVE QuietRun(r, trail)
  <2>1. QuietRun(q, trail) /\ QuietReceipts(receipts, trail)
    BY <1>7, RunFacts DEF q, VerifierInv, Quiet
  <2> QED
    BY <2>1, <1>3, <1>4 DEF QuietRun
<1> HIDE DEF r
<1> QED
  BY <1>1, <1>6, <1>7, RunFacts, VerifyKeeps

LEMMA SaveHolds ==
  ASSUME VerifierInv, NEW v \in Verifier, Save(v)
  PROVE  VerifierInv'
<1> DEFINE q == run[v]
           code == exit_code(Combine(q.codes))
           r == [q EXCEPT !.pc = "done", !.exit = code, !.codes = {},
                  !.pending = NoPin, !.ledger = "off", !.reasons = {}]
<1>1. /\ q.pc = "save" /\ run' = [run EXCEPT ![v] = r]
      /\ pin' = IF q.pending.file /\ code # 1 THEN q.pending ELSE pin
      /\ UNCHANGED <<trail, chain, sidecar, receipts, held, published, job, clock, jobs, incidents>>
  BY DEF Save, Step
<1>2. RunShape(q) /\ PendingHolds(q) /\ CountsHold(q, published # {}) /\ q.pending \in Pins
      /\ q.codes \subseteq Verdict /\ q.codes # {}
  BY <1>1, RunFacts DEF RunShape
<1>3. code \in {0, 1, 2} /\ (code = 1 <=> "broken" \in q.codes)
      /\ (code = 0 => q.codes \subseteq {"ok"})
  BY <1>2, ExitIsWorst
<1> HIDE DEF q, code
<1>4. /\ r.pc = "done" /\ r.codes = {} /\ r.opt = q.opt /\ r.hashes = q.hashes
      /\ r.sinks = q.sinks /\ r.loaded = q.loaded
      /\ r.pending = NoPin /\ r.exit = code /\ r.witness = q.witness
  BY <1>2 DEF RunShape
<1>5. RunShape(r)
  BY <1>2, NoPinIsAPin DEF RunShape
<1>6. RunHolds(r)
  BY <1>1, <1>2, <1>3, <1>4, <1>5, NoPinIsAPin DEF RunHolds, PendingHolds, CountsHold
<1>7. ASSUME incidents = 0 PROVE QuietRun(r, trail)
  <2>1. QuietRun(q, trail)
    BY <1>7, RunFacts DEF q
  <2> QED
    BY <2>1, <1>3, <1>4, NoPinIsAPin DEF QuietRun
<1>8. /\ pin' \in Pins /\ (~pin'.file => pin' = NoPin)
      /\ (incidents = 0 => QuietPin(pin', trail))
  <2>1. CASE pin' = pin
    BY <2>1, RunFacts
  <2>2. CASE pin' = q.pending /\ q.pending.file
    <3>1. incidents = 0 => QuietRun(q, trail)
      BY RunFacts DEF q
    <3> QED
      BY <3>1, <2>2, <1>2 DEF PendingHolds, QuietPin, QuietRun
  <2> QED
    BY <2>1, <2>2, <1>1
<1> HIDE DEF r
<1> QED
  BY <1>1, <1>6, <1>7, <1>8, RunFacts, VerifyKeeps

LEMMA VerifierStepHolds == VerifierInv /\ [VerifierNext]_verifierVars => VerifierInv'
<1> SUFFICES ASSUME VerifierInv, [VerifierNext]_verifierVars PROVE VerifierInv'
  OBVIOUS
<1>1. CASE UNCHANGED verifierVars
  <2>1. /\ UNCHANGED <<trail, chain, sidecar, receipts, pin, held, published, job, run, clock>>
        /\ UNCHANGED <<jobs, incidents>>
    BY <1>1 DEF verifierVars
  <2>2. FilesShape' /\ (~pin.file => pin = NoPin)' /\ RecordsArePublished' /\ Quiet'
    BY <2>1 DEF VerifierInv, FilesShape, RecordsArePublished, Quiet
  <2>3. AnchorJobHolds' /\ \A v \in Verifier : RunHolds(run[v])'
    BY <2>1, JobStays, RunsStay
  <2> QED
    BY <2>2, <2>3 DEF VerifierInv
<1>2. CASE AnchorStep
  BY <1>2, StartAnchorHolds, RecordLocallyHolds, PublishHolds, RecordAnswerHolds,
     AfterSinksHolds, TellWitnessHolds, FinishAnchorHolds, CrashAnchorHolds DEF AnchorStep
<1>3. ASSUME NEW v \in Verifier, VerifyStep(v) PROVE VerifierInv'
  BY <1>3, ReadTrailHolds, CheckAnchorsHolds, ObserveAnchorsHolds, AskOthersHolds,
     CheckPinHolds, CheckReceiptsHolds, SaveHolds DEF VerifyStep
<1> QED
  BY <1>1, <1>2, <1>3, AppendRowHolds, TimePassesHolds, IncidentHolds DEF VerifierNext

LEMMA VerifierInvariant == VerifierSpec => []VerifierInv
BY VerifierInitHolds, VerifierStepHolds, PTL DEF VerifierSpec

-----------------------------------------------------------------------------
(* What follows from it.                                                   *)

LEMMA PinsAreContinued ==
  ASSUME VerifierInv, VerifierNext, NEW v \in Verifier,
         run[v].pc = "save", run'[v].pc = "done", pin' # pin
  PROVE  /\ "broken" \notin run[v].codes
         /\ run[v].loaded.file =>
              /\ IsPrefix(run[v].loaded.head, pin'.head)
              /\ run[v].loaded.topo.declared => pin'.topo.declared
              /\ run[v].loaded.age # -1 => pin'.age # -1
              /\ run[v].loaded.bind => pin'.bind
<1>1. DOMAIN run = Verifier
  BY DEF VerifierInv, FilesShape
<1>2. run' # run
  BY DEF VerifierInv
<1>3. PICK u \in Verifier : VerifyStep(u)
  BY <1>2 DEF VerifierNext, AppendRow, TimePasses, AnchorStep, StartAnchor, RecordLocally, Publish,
     RecordAnswer, AfterSinks, TellWitness, FinishAnchor, CrashAnchor, Incident
<1>4. \E r : run' = [run EXCEPT ![u] = r]
  BY <1>3 DEF VerifyStep, ReadTrail, CheckAnchors, ObserveAnchors, AskOthers, CheckPin,
     CheckReceipts, Save, Step
<1>5. u = v
  BY <1>1, <1>4
<1>6. Save(v)
  BY <1>3, <1>5 DEF VerifyStep, ReadTrail, CheckAnchors, ObserveAnchors, AskOthers, CheckPin,
     CheckReceipts, Step, files
<1> DEFINE q == run[v]
           code == exit_code(Combine(q.codes))
<1>7. pin' = IF q.pending.file /\ code # 1 THEN q.pending ELSE pin
  BY <1>6 DEF Save
<1>8. RunShape(q) /\ PendingHolds(q) /\ q.codes \subseteq Verdict /\ q.codes # {}
      /\ q.pending.head \in Hist
  BY RunFacts DEF RunShape, Pins
<1>9. "broken" \notin q.codes
  BY <1>7, <1>8, ExitIsWorst
<1>10. q.loaded.file => IsPrefix(q.loaded.head, q.pending.head)
  BY <1>7, <1>8, BeginsIsPrefix DEF PendingHolds
<1> QED
  BY <1>7, <1>8, <1>9, <1>10 DEF PendingHolds

\* What was confirmed stays confirmed (cli/verify.py, _save_pin): a pin is
\* replaced only by one that continues the pin this run has loaded, in its history
\* and in every policy, and only by a run that found no break anywhere.
THEOREM ConfirmedHistoryIsKept == VerifierSpec => ConfirmedHistoryStands
<1>1. VerifierInv /\ VerifierNext =>
        \A v \in Verifier :
          LET r == run[v]
          IN  (r.pc = "save" /\ run'[v].pc = "done" /\ pin' # pin) =>
               /\ "broken" \notin r.codes
               /\ r.loaded.file =>
                    /\ IsPrefix(r.loaded.head, pin'.head)
                    /\ r.loaded.topo.declared => pin'.topo.declared
                    /\ r.loaded.age # -1 => pin'.age # -1
                    /\ r.loaded.bind => pin'.bind
  BY PinsAreContinued
<1> QED
  BY <1>1, VerifierInvariant, PTL DEF VerifierSpec, ConfirmedHistoryStands

\* No alarm without an incident (cli/verify.py): over a trail that did not grow
\* under the run, with files nobody else has touched, verify never exits with 1.
THEOREM NoAlarmOnAQuietTrail == VerifierSpec => []QuietTrailRaisesNoAlarm
<1>1. VerifierInv => QuietTrailRaisesNoAlarm
  BY DEF VerifierInv, Quiet, QuietRun, QuietTrailRaisesNoAlarm
<1> QED
  BY <1>1, VerifierInvariant, PTL

LEMMA RecordsCorroborate ==
  ASSUME VerifierInv
  PROVE  AnchorRecordsArePublished
<1>1. \A r \in Range(sidecar.lines) :
          r.sink # "file" => [sink |-> r.sink, head |-> r.cp.head] \in published
  BY DEF VerifierInv, RecordsArePublished, Range
<1>2. ASSUME job.pc = "done", job.exit = 0
      PROVE  /\ \A s \in job.ask : [sink |-> s, head |-> job.cp.head] \in published
             /\ \A w \in Witness : job.cp \in Range(held[w])
             /\ incidents = 0 =>
                  \A s \in (IF job.ask = {} THEN {"file"} ELSE job.ask) :
                      \E r \in Range(sidecar.lines) : r.cp = job.cp /\ r.sink = s
  <2>1. /\ job.todo = {} /\ (job.ask = {} => Recorded("file")) /\ job.failed = {} /\ job.tell = {}
        /\ \A w \in Witness : \E i \in DOMAIN held[w] : held[w][i] = job.cp
        /\ \A s \in job.ask : [sink |-> s, head |-> job.cp.head] \in published /\ Recorded(s)
    BY <1>2 DEF VerifierInv, AnchorJobHolds
  <2>2. \A w \in Witness : job.cp \in Range(held[w])
    BY <2>1 DEF Range
  <2>3. \A s \in (IF job.ask = {} THEN {"file"} ELSE job.ask) : Recorded(s)
    BY <2>1
  <2> QED
    BY <2>1, <2>2, <2>3 DEF Recorded, Range
<1> QED
  BY <1>1, <1>2 DEF AnchorRecordsArePublished

LEMMA ExitZeroCorroborates ==
  ASSUME VerifierInv
  PROVE  ExitZeroIsCorroborated
<1>1. \A p \in published : incidents = 0 => IsPrefix(p.head, trail)
  <2> SUFFICES ASSUME NEW p \in published, incidents = 0 PROVE IsPrefix(p.head, trail)
    OBVIOUS
  <2>1. Begins(p.head, trail) /\ trail \in Hist
    BY DEF VerifierInv, Quiet, FilesShape
  <2> QED
    BY <2>1, BeginsIsPrefix
<1>2. \A v \in Verifier : CountsHold(run[v], published # {})
  BY RunFacts
<1> QED
  BY <1>1, <1>2 DEF ExitZeroIsCorroborated, CountsHold

LEMMA LatestIsOnTheTrail ==
  ASSUME VerifierInv, incidents = 0
  PROVE  _preflight_anchors(sidecar).latest < Len(trail)
<1> DEFINE read == observed_records(sidecar)
           records == IF sidecar.malformed THEN {} ELSE Readable(sidecar.lines)
<1>1. trail \in Hist /\ Len(trail) \in Nat /\ sidecar.lines \in Seq(Lines)
      /\ QuietSidecar(sidecar, trail)
  BY DEF VerifierInv, FilesShape, Quiet, Hist, Sidecars
<1>2. _preflight_anchors(sidecar).latest
        = IF records = {} THEN -1 ELSE SeqNo(read[Max(DOMAIN read)].cp)
  BY DEF _preflight_anchors
<1>3. CASE records = {}
  BY <1>1, <1>2, <1>3
<1>4. CASE records # {}
  <2>1. DOMAIN read = {i \in DOMAIN sidecar.lines : sidecar.lines[i].version = "known"}
        /\ \A i \in DOMAIN read : read[i] = sidecar.lines[i]
    BY <1>1 DEF observed_records, Restrict, QuietSidecar
  <2>2. DOMAIN read # {} /\ DOMAIN read \subseteq 1 .. Len(sidecar.lines)
        /\ Len(sidecar.lines) \in Nat
    BY <1>1, <1>4, <2>1 DEF Readable, Range
  <2>3. Max(DOMAIN read) \in DOMAIN read
    <3> DEFINE D == DOMAIN read
    <3>1. D \in SUBSET Nat /\ D # {} /\ \A t \in D : t <= Len(sidecar.lines)
      BY <2>2
    <3> HIDE DEF D
    <3>2. Max(D) \in D
      BY <3>1, <2>2, MaxIsGreatest
    <3> QED
      BY <3>2 DEF D
  <2>4. Begins(read[Max(DOMAIN read)].cp.head, trail)
    BY <2>1, <2>3, <1>1 DEF QuietSidecar, RecordHolds
  <2> QED
    BY <1>1, <1>2, <1>4, <2>4 DEF SeqNo, Begins, Hist
<1> QED
  BY <1>3, <1>4

LEMMA TwoAtMost ==
  ASSUME NEW N \in SUBSET (1 .. 2)
  PROVE  Cardinality(N) \in Nat /\ Cardinality(N) <= 2
<1>1. IsFiniteSet({1}) /\ Cardinality({1}) = 1
  BY FS_Singleton
<1>2. IsFiniteSet({1} \cup {2}) /\ Cardinality({1} \cup {2}) = 1 + 1
  BY <1>1, FS_AddElement
<1>3. N \subseteq {1} \cup {2}
  OBVIOUS
<1>4. IsFiniteSet(N) /\ Cardinality(N) <= Cardinality({1} \cup {2})
  BY <1>2, <1>3, FS_Subset
<1>5. Cardinality(N) \in Nat
  BY <1>4, FS_CardinalityType
<1> QED
  BY <1>2, <1>4, <1>5

LEMMA NothingInEmpty ==
  ASSUME NEW S, NEW s \in Seq(S), Range(s) = {}
  PROVE  s = << >>
<1>1. Len(s) \in Nat /\ DOMAIN s = 1 .. Len(s)
  OBVIOUS
<1>2. ASSUME Len(s) # 0 PROVE FALSE
  <2>1. 1 \in DOMAIN s
    BY <1>1, <1>2
  <2> QED
    BY <2>1 DEF Range
<1> QED
  BY <1>1, <1>2

LEMMA LadderHolds ==
  ASSUME VerifierInv
  PROVE  PreflightClaimsHold
<1> DEFINE view == _preflight_anchors(sidecar)
           reading == _preflight(sidecar, TRUE)
           rungs == reading.rungs
           records == IF sidecar.malformed THEN {} ELSE Readable(sidecar.lines)
           Seen(some) == IF some # {} THEN "found"
                      ELSE IF sidecar.malformed \/ Unreadable(sidecar.lines) THEN "unmeasured"
                      ELSE "missing"
           external == {r \in records : r.sink # "file"}
           bound == {r \in records : r.cp.bound}
           obs == [seal |-> "found", records |-> Seen(records), external |-> Seen(external),
                   aggregate |-> Seen(bound), witness |-> "unmeasured", ledger |-> "unmeasured"]
           six == <<_state_of({obs.seal}), _state_of({obs.records}),
                    _state_of({obs.external, obs.witness, obs.ledger}),
                    _state_of({obs.aggregate}), "no-mechanism", "no-mechanism">>
           N == {n \in 1 .. 6 : \A i \in 1 .. n : six[i] = "present"}
<1>1. view.records = Seen(records) /\ view.external = Seen(external) /\ view.aggregate = Seen(bound)
  BY DEF _preflight_anchors
<1> HIDE DEF Seen, view
<1>2. reading = ladder_for(obs)
  BY <1>1 DEF _preflight, view
<1>3. rungs = six /\ reading.stops_at = Cardinality(N)
  <2> HIDE DEF obs, reading
  <2>1. reading = [rungs |-> six, stops_at |-> Cardinality(N), next_rung |-> six[Cardinality(N) + 1],
                   present_above_cap |-> {n \in (Cardinality(N) + 1) .. 6 : six[n] = "present"}]
    BY <1>2 DEF ladder_for
  <2> QED
    BY <2>1
<1>4. /\ six[2] = _state_of({Seen(records)}) /\ six[4] = _state_of({Seen(bound)})
      /\ six[3] = _state_of({Seen(external), "unmeasured"})
  <2>1. {Seen(external), "unmeasured", "unmeasured"} = {Seen(external), "unmeasured"}
    OBVIOUS
  <2> QED
    BY <2>1
<1> USE DEF Seen
<1> HIDE DEF six, reading
<1>5. sidecar.lines # << >> => six[2] # "absent"
  <2> SUFFICES ASSUME six[2] = "absent" PROVE sidecar.lines = << >>
    OBVIOUS
  <2>1. Seen(records) = "missing"
    BY <1>4 DEF _state_of
  <2>2. records = {} /\ ~sidecar.malformed /\ Readable(sidecar.lines) = Range(sidecar.lines)
    BY <2>1 DEF Unreadable
  <2>3. Range(sidecar.lines) = {} /\ sidecar.lines \in Seq(Lines)
    BY <2>2 DEF VerifierInv, FilesShape, Sidecars
  <2> QED
    BY <2>3, NothingInEmpty
<1>6. six[3] # "absent"
  BY <1>4 DEF _state_of
<1>7. ASSUME incidents = 0, job.pc = "done", job.exit = 0
      PROVE  /\ six[2] = "present"
             /\ job.ask # {} => six[3] = "present"
             /\ job.cp.bound => six[4] = "present"
  <2>1. ~sidecar.malformed /\ \A r \in Range(sidecar.lines) : r \in records
    <3>1. QuietSidecar(sidecar, trail)
      BY <1>7 DEF VerifierInv, Quiet
    <3> QED
      BY <3>1 DEF QuietSidecar, RecordHolds, Readable, Range
  <2>2. \A s \in (IF job.ask = {} THEN {"file"} ELSE job.ask) :
            \E r \in Range(sidecar.lines) : r.cp = job.cp /\ r.sink = s
    BY <1>7, RecordsCorroborate DEF AnchorRecordsArePublished
  <2>3. PICK r \in records : r.cp = job.cp /\ (job.ask # {} => r.sink \in job.ask)
    BY <2>1, <2>2
  <2>4. job.ask # {} => r \in external
    <3>1. job.ask \subseteq Range(Sink) /\ "file" \notin Range(Sink)
      BY JobFacts, VerifierAssumption
    <3> QED
      BY <2>3, <3>1
  <2>5. Seen(records) = "found" /\ (job.ask # {} => Seen(external) = "found")
        /\ (job.cp.bound => Seen(bound) = "found")
    BY <2>3, <2>4
  <2> QED
    BY <2>5, <1>4 DEF _state_of
<1>8. ASSUME Cardinality(N) >= 3
      PROVE  \E p \in published : incidents = 0 => IsPrefix(p.head, trail)
  <2>1. six[3] = "present"
    <3> SUFFICES ASSUME six[3] # "present" PROVE FALSE
      OBVIOUS
    <3>1. ASSUME NEW n \in N PROVE n \in 1 .. 2
      <4>1. n \in 1 .. 6 /\ \A i \in 1 .. n : six[i] = "present"
        OBVIOUS
      <4>2. 3 \notin 1 .. n
        BY <4>1
      <4> QED
        BY <4>1, <4>2
    <3>2. N \in SUBSET (1 .. 2)
      BY <3>1
    <3> HIDE DEF N
    <3>3. Cardinality(N) \in Nat /\ Cardinality(N) <= 2
      BY <3>2, TwoAtMost
    <3> QED
      BY <3>3, <1>8
  <2>2. Seen(external) = "found"
    BY <2>1, <1>4 DEF _state_of
  <2>3. PICK r \in external : TRUE
    BY <2>2
  <2>4. r \in Range(sidecar.lines) /\ r.sink # "file"
    BY <2>3 DEF Readable
  <2>5. [sink |-> r.sink, head |-> r.cp.head] \in published
    BY <2>4, RecordsCorroborate DEF AnchorRecordsArePublished
  <2>6. ASSUME incidents = 0 PROVE IsPrefix(r.cp.head, trail)
    <3>1. Begins([sink |-> r.sink, head |-> r.cp.head].head, trail) /\ trail \in Hist
      BY <2>5, <2>6 DEF VerifierInv, Quiet, FilesShape
    <3> QED
      BY <3>1, BeginsIsPrefix
  <2> QED
    BY <2>5, <2>6
<1>9. incidents = 0 => _preflight_anchors(sidecar).latest < Len(trail)
  BY LatestIsOnTheTrail
<1> HIDE DEF N
<1> QED
  BY <1>3, <1>5, <1>6, <1>7, <1>8, <1>9 DEF PreflightClaimsHold, reading

\* Corroboration is held by somebody else (adapters/anchors.py, cli/anchor.py,
\* cli/pin.py, cli/preflight.py): a record names a sink that holds its checkpoint,
\* exit 0 under a declared topology rests on one, and so does what preflight
\* claims, whichever sinks and witnesses failed and whatever was edited.
THEOREM CorroborationHolds == VerifierSpec => []CorroborationIsReal
<1>1. VerifierInv => CorroborationIsReal
  BY RecordsCorroborate, ExitZeroCorroborates, LadderHolds DEF CorroborationIsReal
<1> QED
  BY <1>1, VerifierInvariant, PTL
=============================================================================
