-------------------------------- MODULE Ledger --------------------------------
(***************************************************************************)
(* contracts/src: the bond contract (BondedCheckpoints.sol) and the        *)
(* anchoring liveness contract (AnchoringLiveness.sol), with the writers   *)
(* that sign the heads both of them judge.                                 *)
(*                                                                         *)
(* A signed head is the sequence of entry hashes its tree covers: its seq  *)
(* is one less than the length, its root is the sequence.  An RFC 9162     *)
(* consistency proof exists exactly between a sequence and its extensions, *)
(* an inclusion proof exactly for the leaf at an index.                    *)
(*                                                                         *)
(* A call runs alone, except that a payout hands control to its recipient, *)
(* who may call the bond contract again before the paying call has ended,  *)
(* and may make that call revert.                                          *)
(***************************************************************************)
EXTENDS Naturals, Sequences, FiniteSets, Functions

CONSTANTS
    Honest,         \* accounts whose heads are those of one growing chain
    Forker,         \* accounts that sign whatever they like
    Reentrant,      \* accounts with code of their own
    Trail,          \* trail ids
    Hash,           \* entry hashes
    MaxLeaves,      \* bound on the rows of a chain
    MaxSigned,      \* bound on the heads ever signed
    Amounts,        \* what a deposit may carry
    MaxBond,        \* bound on one bond
    withdrawDelay,  \* the bond contract's immutable
    deadline,       \* the deadline trails are registered with
    MaxTime,        \* bound on the block time
    MaxCalls,       \* bound on the calls that succeed
    MaxDepth        \* bound on nested payouts

\* Every account may write, prove and be paid.
Writer == Honest \cup Forker

ASSUME LedgerAssumption ==
    /\ IsFiniteSet(Writer)
    /\ Honest \cap Forker = {}
    /\ Reentrant \subseteq Writer
    /\ Amounts \subseteq Nat \ {0}
    /\ deadline \in Nat \ {0}
    /\ {MaxLeaves, MaxSigned, MaxBond, withdrawDelay, MaxTime, MaxCalls, MaxDepth} \subseteq Nat

VARIABLES
    now,         \* block.timestamp
    signed,      \* every signature over a head ever made
    bonds,       \* _bonds
    balance,     \* the bond contract's ether
    burnedTotal,
    stack,       \* the payouts under way, outermost first
    writerOf,    \* the writer each trail is registered to: at most one
    head,        \* _head of each trail: at most one record
    depositedAt, \* when each bond was last added to
    recorded,    \* every head submit() has recorded, per trail
    calls        \* calls that succeeded

contract == <<bonds, balance, burnedTotal>>
liveness == <<writerOf, head, recorded>>
vars == <<now, signed, bonds, balance, burnedTotal, stack, writerOf, head,
          depositedAt, recorded, calls>>

NoBond == [amount |-> 0, unlockAt |-> 0, withdrawRequested |-> FALSE, slashed |-> FALSE]

Leaves == UNION {[1 .. n -> Hash] : n \in 1 .. MaxLeaves}

Init ==
    /\ now = 0
    /\ signed = {}
    /\ bonds = [a \in Writer |-> NoBond]
    /\ balance = 0
    /\ burnedTotal = 0
    /\ stack = << >>
    /\ writerOf = [t \in Trail |-> {}]
    /\ head = [t \in Trail |-> {}]
    /\ depositedAt = [a \in Writer |-> 0]
    /\ recorded = [t \in Trail |-> {}]
    /\ calls = 0

\* Who may call: anyone between transactions, and during a payout the
\* recipient, if it has code.
MayCall(a) ==
    IF stack = << >> THEN TRUE
    ELSE a = stack[Len(stack)].to /\ a \in Reentrant

Called == calls < MaxCalls /\ calls' = calls + 1

Tick ==
    /\ stack = << >> /\ now < MaxTime
    /\ now' = now + 1
    /\ UNCHANGED <<signed, contract, stack, liveness, depositedAt, calls>>

-----------------------------------------------------------------------------
(* Signatures.                                                             *)

IsPrefixOf(s, u) == Len(s) <= Len(u) /\ SubSeq(u, 1, Len(s)) = s

\* An honest writer signs heads of one chain per trail, again if asked to.
FitsChain(w, t, s) ==
    \A h \in signed : h.writer = w /\ h.trail = t =>
        IsPrefixOf(h.leaves, s) \/ IsPrefixOf(s, h.leaves)

Sign(w, t, s) ==
    /\ stack = << >>
    /\ Cardinality(signed) < MaxSigned
    /\ w \in Honest => FitsChain(w, t, s)
    /\ signed' = signed \cup {[writer |-> w, trail |-> t, leaves |-> s]}
    /\ signed' # signed
    /\ UNCHANGED <<now, contract, stack, liveness, depositedAt, calls>>

\* trail, seq, entry hash and root.
signingDigest(t, s) == <<t, Len(s) - 1, s[Len(s)], s>>

\* The accounts whose signature over this head of this trail can be shown.
recoverSigner(t, s) ==
    {w \in Writer : \E h \in signed : /\ h.writer = w
                                      /\ signingDigest(h.trail, h.leaves) = signingDigest(t, s)}

-----------------------------------------------------------------------------
(* BondedCheckpoints: the evidence.                                        *)

\* proveEquivocation's conditions on two heads of one seq.
Equivocate(a, b) == Len(a) = Len(b) /\ a # b

\* Mutant: the last leaf of the older tree is taken to be outside of it.
LeafInOlderTreeOffByOne(index, older) == index < Len(older) - 1

LeafInOlderTree(index, older) == index <= Len(older) - 1

\* proveNonExtension's: both trees prove a leaf at one index, and differ.
NotExtended(older, newer) ==
    /\ Len(older) < Len(newer)
    /\ \E i \in 0 .. MaxLeaves :
          LeafInOlderTree(i, older) /\ older[i + 1] # newer[i + 1]

\* Someone can show what slashes w.
EvidenceAgainst(w) ==
    \E t \in Trail : \E a, b \in {h.leaves : h \in signed} :
        /\ w \in recoverSigner(t, a) /\ w \in recoverSigner(t, b)
        /\ Equivocate(a, b) \/ NotExtended(a, b)

-----------------------------------------------------------------------------
(* BondedCheckpoints: the money.                                           *)

\* Mutant: a top-up leaves a pending withdrawal pending.
ToppedUpPending(b, v) == [b EXCEPT !.amount = @ + v]

ToppedUp(b, v) ==
    [b EXCEPT !.amount = @ + v, !.withdrawRequested = FALSE, !.unlockAt = 0]

MayDeposit(b) == ~b.slashed

deposit(a, v) ==
    /\ MayCall(a) /\ MayDeposit(bonds[a])
    /\ bonds[a].amount + v <= MaxBond
    /\ Called
    /\ bonds' = [bonds EXCEPT ![a] = ToppedUp(@, v)]
    /\ balance' = balance + v
    /\ depositedAt' = [depositedAt EXCEPT ![a] = now]
    /\ UNCHANGED <<now, signed, burnedTotal, stack, liveness>>

UnlockAt(a) == now + withdrawDelay

requestWithdraw(a) ==
    /\ MayCall(a)
    /\ bonds[a].amount # 0 /\ ~bonds[a].slashed
    /\ Called
    /\ bonds' = [bonds EXCEPT ![a].withdrawRequested = TRUE,
                              ![a].unlockAt = UnlockAt(a)]
    /\ UNCHANGED <<now, signed, balance, burnedTotal, stack, liveness, depositedAt>>

\* The transfer: the recipient holds the ether and has control.
Pay(to, v) ==
    /\ Len(stack) < MaxDepth
    /\ v <= balance
    /\ balance' = balance - v
    /\ stack' = Append(stack, [to |-> to, bonds |-> bonds, balance |-> balance,
                               burnedTotal |-> burnedTotal,
                               depositedAt |-> depositedAt])

\* Mutant: the bond is cleared only after the transfer has returned.
ClearedAfterwards(b) == [b EXCEPT !.unlockAt = 0]

\* The bond as withdraw() leaves it before the transfer.
Cleared(b) == [b EXCEPT !.amount = 0, !.withdrawRequested = FALSE, !.unlockAt = 0]

withdraw(a) ==
    /\ MayCall(a)
    /\ ~bonds[a].slashed /\ bonds[a].withdrawRequested
    /\ now >= bonds[a].unlockAt
    /\ bonds[a].amount # 0
    /\ Called
    /\ bonds' = [bonds EXCEPT ![a] = Cleared(@)]
    /\ Pay(a, bonds[a].amount)
    /\ UNCHANGED <<now, signed, burnedTotal, liveness, depositedAt>>

BurnedShare(amount) == amount - amount \div 2

\* _slash: half to the prover, rounded down, the rest to nobody.
Slash(w, prover) ==
    LET amount == bonds[w].amount IN
    /\ MayCall(prover)
    /\ amount # 0 /\ ~bonds[w].slashed
    /\ Called
    /\ bonds' = [bonds EXCEPT ![w] = [Cleared(@) EXCEPT !.slashed = TRUE]]
    /\ burnedTotal' = burnedTotal + BurnedShare(amount)
    /\ Pay(prover, amount \div 2)
    /\ UNCHANGED <<now, signed, liveness, depositedAt>>

\* Mutant: two heads and a consistency proof that fails are enough.
proveByFailingProof(w, prover) ==
    /\ \E a, b \in signed : a.writer = w /\ b.writer = w /\ a.trail = b.trail /\ a # b
    /\ Slash(w, prover)

\* proveEquivocation and proveNonExtension, on whatever has been signed.
prove(w, prover) == EvidenceAgainst(w) /\ Slash(w, prover)

\* The recipient of the innermost payout returns ...
PayoutReturns ==
    /\ stack # << >>
    /\ stack' = SubSeq(stack, 1, Len(stack) - 1)
    /\ UNCHANGED <<now, signed, contract, liveness, depositedAt, calls>>

\* ... or refuses the ether: PayoutFailed reverts the paying call, and all
\* that was called from within it.
PayoutFails ==
    LET frame == stack[Len(stack)] IN
    /\ stack # << >> /\ frame.to \in Reentrant
    /\ bonds' = frame.bonds
    /\ balance' = frame.balance
    /\ burnedTotal' = frame.burnedTotal
    /\ stack' = SubSeq(stack, 1, Len(stack) - 1)
    /\ depositedAt' = frame.depositedAt
    /\ UNCHANGED <<now, signed, liveness, calls>>

-----------------------------------------------------------------------------
(* AnchoringLiveness.                                                      *)

registerTrail(t, w) ==
    /\ stack = << >>
    /\ writerOf[t] = {}
    /\ Called
    /\ writerOf' = [writerOf EXCEPT ![t] = {w}]
    /\ UNCHANGED <<now, signed, contract, stack, head, depositedAt, recorded>>

\* Mutant: a head of the recorded seq is accepted again.
SeqIncreasesOrEqual(old, s) == Len(s) >= Len(old)

SeqIncreases(old, s) == Len(s) > Len(old)

\* Mutant: the consistency proof is not asked for.
ExtendsUnchecked(old, s) == TRUE

\* _requireExtends, with the best proof there is.
Extends(old, s) == IsPrefixOf(old, s)

\* Anyone may hand in a head the trail's writer has signed.
submit(t, s) ==
    /\ stack = << >>
    /\ writerOf[t] # {} /\ writerOf[t] \subseteq recoverSigner(t, s)
    /\ \A h \in head[t] : SeqIncreases(h.leaves, s) /\ Extends(h.leaves, s)
    /\ Called
    /\ head' = [head EXCEPT ![t] = {[leaves |-> s, blockTime |-> now]}]
    /\ recorded' = [recorded EXCEPT ![t] = @ \cup {s}]
    /\ UNCHANGED <<now, signed, contract, stack, writerOf, depositedAt>>

isDelinquent(t) == \E h \in head[t] : now > h.blockTime + deadline

Next ==
    \/ Tick
    \/ \E w \in Writer, t \in Trail, s \in Leaves : Sign(w, t, s)
    \/ \E a \in Writer : \/ \E v \in Amounts : deposit(a, v)
                         \/ requestWithdraw(a)
                         \/ withdraw(a)
                         \/ \E p \in Writer : prove(a, p)
    \/ PayoutReturns \/ PayoutFails
    \/ \E t \in Trail, w \in Writer : registerTrail(t, w)
    \/ \E h \in signed : submit(h.trail, h.leaves)

Spec == Init /\ [][Next]_vars

-----------------------------------------------------------------------------
(* Correctness.                                                            *)

\* The contract holds exactly what it owes and what it burned, in every
\* state a recipient can see, nested and failing payouts included.
Solvent ==
    balance = SumFunction([a \in Writer |-> bonds[a].amount]) + burnedTotal

\* "this cannot be produced against an honest writer at all": a writer whose
\* heads are those of one chain per trail is never slashed.
HonestIsNeverSlashed == \A w \in Honest : ~bonds[w].slashed

\* Evidence against a writer exists exactly when two of its heads of one
\* trail contradict each other: neither proof family leaves a case out, and
\* neither convicts a chain that only grew.
EvidenceIsExact ==
    \A w \in Writer :
        EvidenceAgainst(w) <=>
            \E a, b \in signed :
                /\ a.writer = w /\ b.writer = w /\ a.trail = b.trail
                /\ ~IsPrefixOf(a.leaves, b.leaves) /\ ~IsPrefixOf(b.leaves, a.leaves)

\* What was put into a bond stays at risk for withdrawDelay at least: no
\* withdrawal pays out earlier, whatever was requested before the deposit.
DepositStaysAtRisk ==
    \A w \in Writer :
        stack' # << >> /\ Len(stack') > Len(stack)
            /\ bonds[w].amount # 0 /\ bonds'[w].amount = 0 /\ ~bonds'[w].slashed
        => now >= depositedAt[w] + withdrawDelay

\* The heads the public record has shown for a trail are one chain, although
\* the writer may sign anything and anyone may submit it.
PublicHeadsAreOneChain ==
    \A t \in Trail : \A a, b \in recorded[t] : IsPrefixOf(a, b) \/ IsPrefixOf(b, a)

\* Replaying heads that were shown before never makes a quiet trail look
\* alive: a delinquent trail stops being one only by a head that is new.
ReplayIsNoSignOfLife ==
    \A t \in Trail :
        isDelinquent(t) /\ ~isDelinquent(t)' => recorded'[t] # recorded[t]

\* Neither delay of the contracts can be cut short: a bond's by what was
\* requested before the deposit, a trail's deadline by an old head.
DelaysStand == [][DepositStaysAtRisk /\ ReplayIsNoSignOfLife]_vars
===============================================================================
