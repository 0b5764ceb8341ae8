----------------------------- MODULE ProofBundles ----------------------------
(***************************************************************************)
(* What is proved with the Merkle tree (domain/export.py, domain/handoff.  *)
(* py, cli/report.py and bond.NonExtensionChallenge): proof bundles that   *)
(* leave the trail, consistency with a recorded state, handoff bindings of *)
(* one trail to another and the answer to a challenge, over a trail that   *)
(* grows and may be rewritten or truncated behind its readers.             *)
(* An entry hash is the list of contents it commits to.                    *)
(***************************************************************************)
EXTENDS Rfc9162, FiniteSets

CONSTANTS
    Content,     \* entry contents
    Foreign,     \* the contents whose schema fingerprint this build lacks
    MaxLen,      \* bound: entries of the trail
    MaxEdits,    \* bound: rewrites and damaged bundles
    MaxKept,     \* bound: checkpoints, bindings and bundles kept outside
    MaxTree      \* bound: leaves of the trees the algorithms are compared on

ASSUME ProofBundlesAssumption ==
    Foreign \subseteq Content /\ {MaxLen, MaxEdits, MaxKept, MaxTree} \subseteq Nat

VARIABLES
    body,        \* the trail on disk: its contents
    peaks,       \* the writer's IncrementalMerkle
    past,        \* ghost: the trails a checkpoint or a bundle was taken of
    recorded,    \* checkpoints an auditor kept: [seq, root]
    bindings,    \* handoff bindings on the delegate's trail: [seq, head_hash]
    bundle,      \* the exported bundle, possibly damaged on its way
    out,         \* the last command, its arguments and its exit code
    edits

proofVars == <<body, peaks, past, recorded, bindings, bundle, out, edits>>

entry_hashes(t) == [i \in DOMAIN t |-> SubSeq(t, 1, i)]
from_hashes(h) == FoldLeft(push, << >>, h)
Quiet == [cmd |-> "none"]

ProofInit ==
    /\ body = << >> /\ peaks = << >> /\ past = {}
    /\ recorded = {} /\ bindings = {} /\ bundle = Quiet /\ out = Quiet /\ edits = 0

-----------------------------------------------------------------------------
(* The trail and what is kept of it.                                       *)

Extend(c) ==
    /\ Len(body) < MaxLen
    /\ body' = Append(body, c)
    /\ peaks' = push(peaks, Append(body, c))
    /\ out' = Quiet
    /\ UNCHANGED <<past, recorded, bindings, bundle, edits>>

\* The file is rewritten or cut behind its readers; the writer reopens it.
Rewrite(t) ==
    /\ edits < MaxEdits /\ edits' = edits + 1
    /\ t # body
    /\ body' = t
    /\ peaks' = from_hashes(entry_hashes(t))
    /\ out' = Quiet
    /\ UNCHANGED <<past, recorded, bindings, bundle>>

Room ==
    Cardinality(recorded) + Cardinality(bindings) + (IF bundle = Quiet THEN 0 ELSE 1) < MaxKept

RecordCheckpoint ==
    /\ body # << >> /\ Room
    /\ past' = past \cup {body}
    /\ recorded' = recorded \cup {[seq |-> Len(body) - 1, root |-> root(peaks)]}
    /\ out' = Quiet
    /\ UNCHANGED <<body, peaks, bindings, bundle, edits>>

\* The delegate records the origin's head as the first entry of its task.
HandoffBinding ==
    /\ body # << >> /\ Room
    /\ bindings' = bindings \cup {[seq |-> Len(body) - 1, head_hash |-> body]}
    /\ out' = Quiet
    /\ UNCHANGED <<body, peaks, past, recorded, bundle, edits>>

build_proof_bundle(t, seq) ==
    [cmd |-> "bundle", text |-> "ok", seq |-> seq, committed |-> SubSeq(t, 1, seq + 1),
     entry_hash |-> entry_hashes(t)[seq + 1], payload |-> t[seq + 1],
     batch_size |-> Len(t), proof |-> membership_proof(entry_hashes(t), seq),
     root |-> batch_root(entry_hashes(t))]

_export_proof(seq) ==
    /\ Room
    /\ IF 0 <= seq /\ seq < Len(body)
       THEN /\ bundle' = build_proof_bundle(body, seq)
            /\ past' = past \cup {body}
            /\ out' = [cmd |-> "export", code |-> 0]
       ELSE /\ out' = [cmd |-> "export", code |-> 1]
            /\ UNCHANGED <<bundle, past>>
    /\ UNCHANGED <<body, peaks, recorded, bindings, edits>>

\* A field of the bundle does not arrive as it left.
DamageBundle(field, value) ==
    /\ bundle # Quiet /\ edits < MaxEdits /\ edits' = edits + 1
    /\ bundle[field] # value
    /\ bundle' = [bundle EXCEPT ![field] = value]
    /\ out' = Quiet
    /\ UNCHANGED <<body, peaks, past, recorded, bindings>>

-----------------------------------------------------------------------------
(* The commands that check.                                                *)

\* registry.recomputable(header.hash_version)
Recomputable(b) == Last(b.committed) \notin Foreign

\* compute_entry_hash over the bundle's header, whose seq is hashed with it.
Recomputed(b) == IF b.seq + 1 = Len(b.committed) THEN b.committed ELSE << >>

\* Mutant: the entry hash of the bundle is believed.
verify_proof_bundle_trusting(b) ==
    IF b.batch_size < 1 \/ b.seq >= b.batch_size THEN 1
    ELSE IF ~verify_membership(b.entry_hash, b.seq, b.batch_size, b.proof, b.root) THEN 1
    ELSE IF Recomputable(b) THEN 0 ELSE 2

verify_proof_bundle(b) ==
    IF b.batch_size < 1 \/ b.seq < 0 \/ b.seq >= b.batch_size THEN 1
    ELSE IF /\ Recomputable(b)
            /\ \/ Recomputed(b) # b.entry_hash
               \/ b.payload # Last(b.committed)
         THEN 1
    ELSE IF ~verify_membership(b.entry_hash, b.seq, b.batch_size, b.proof, b.root) THEN 1
    ELSE IF Recomputable(b) THEN 0 ELSE 2

\* A missing field, or one of the wrong type, refuses the whole text.
bundle_from_json(b) == b.text = "ok"

\* Exit 3: there is no file.  A refused text is as broken as a false bundle.
_verify_proof ==
    /\ bundle # Quiet
    /\ out' = [cmd |-> "verify_proof",
               code |-> CASE bundle.text = "gone" -> 3
                          [] ~bundle_from_json(bundle) -> 1
                          [] OTHER -> verify_proof_bundle(bundle)]
    /\ UNCHANGED <<body, peaks, past, recorded, bindings, bundle, edits>>

_consistency(c) ==
    LET hashes == entry_hashes(body)
        old_size == c.seq + 1
    IN  /\ out' = [cmd |-> "consistency", checkpoint |-> c,
                   code |-> IF old_size > Len(hashes) THEN 2
                            ELSE IF verify_consistency(c.root, old_size, batch_root(hashes),
                                        Len(hashes), consistency_proof(hashes, old_size))
                            THEN 0 ELSE 1]
        /\ UNCHANGED <<body, peaks, past, recorded, bindings, bundle, edits>>

binding_holds(b) == b.seq < Len(body) /\ entry_hashes(body)[b.seq + 1] = b.head_hash

_verify_handoff ==
    /\ out' = [cmd |-> "verify_handoff",
               code |-> IF \A b \in bindings : binding_holds(b) THEN 0 ELSE 1]
    /\ UNCHANGED <<body, peaks, past, recorded, bindings, bundle, edits>>

\* A challenged writer answers with whatever proof it has.
extension_holds(older, newer, proof) ==
    /\ newer.seq > older.seq
    /\ out' = [cmd |-> "extension", older |-> older, newer |-> newer,
               holds |-> verify_consistency(older.root, older.seq + 1,
                                            newer.root, newer.seq + 1, proof)]
    /\ UNCHANGED <<body, peaks, past, recorded, bindings, bundle, edits>>

AnyProof ==
    UNION {{consistency_proof(entry_hashes(t), n) : n \in DOMAIN t} : t \in past \cup {body}}

Rewritten ==
    {SubSeq(body, 1, n) : n \in 1..(Len(body) - 1)}
    \cup {[body EXCEPT ![i] = c] : i \in DOMAIN body, c \in Content}

Damages ==
    ({"text"} \X {"gone", "bad"})
    \cup ({"seq"} \X (0..(MaxLen - 1))) \cup ({"batch_size"} \X (0..(MaxLen + 1)))
    \cup ({"payload"} \X Content)
    \cup ({"proof"} \X UNION {{membership_proof(entry_hashes(t), i - 1) : i \in DOMAIN t}
                             : t \in past \cup {body}})

ProofNext ==
    \/ \E c \in Content : Extend(c)
    \/ \E t \in Rewritten : Rewrite(t)
    \/ RecordCheckpoint \/ HandoffBinding
    \/ \E seq \in 0..MaxLen : _export_proof(seq)
    \/ \E d \in Damages : DamageBundle(d[1], d[2])
    \/ _verify_proof \/ _verify_handoff
    \/ \E c \in recorded : _consistency(c)
    \/ \E older, newer \in recorded, p \in AnyProof : extension_holds(older, newer, p)

-----------------------------------------------------------------------------
(* Properties.                                                             *)

\* The peaks a writer pushes leaf by leaf give, at every size, the root the
\* recursive definition gives over all entry hashes (IncrementalMerkle.root
\* and batch_root), so a cached checkpoint is the checkpoint of the trail.
IncrementalRootIsBatchRoot == root(peaks) = batch_root(entry_hashes(body))

\* The two implementations of the tree decide alike, and rightly, on every
\* size: the level-by-level head is the recursive one; at the true size a
\* membership proof places its own leaf and no other, at its own index and no
\* other; the consistency proof of a tree that departs from the old one at leaf
\* k is accepted exactly when k lies behind the old tree, and is otherwise
\* rejected for a root, never for its shape; and with any other size claimed
\* Rfc9162.sol accepts exactly what domain/anchoring.py does.
TreeAlgorithmsAgree ==
    \A n \in 1..MaxTree :
        LET leaves == [i \in 1..n |-> i]
            head == batch_root(leaves)
            fork(k) == [leaves EXCEPT ![k] = 0]
        IN  /\ treeHash(leaves) = head
            /\ \A m \in 0..(n - 1) :
                 LET proof == membership_proof(leaves, m)
                 IN  \A leaf \in {m + 1, n, 0}, index \in 0..n, size \in 0..(n + 2) :
                       LET held == verify_membership(leaf, index, size, proof, head)
                       IN  /\ size = n => (held <=> leaf = m + 1 /\ index = m)
                           /\ held <=> verifyInclusion(leaf, index, size, proof, head)
            /\ \A m, k \in 1..n :
                 LET old == batch_root(SubSeq(leaves, 1, m))
                     new == batch_root(fork(k))
                     proof == consistency_proof(fork(k), m)
                     why == verifyConsistency(old, m, new, n, proof)
                 IN  /\ why = "None" <=> k > m
                     /\ why \in {"None", "OldRootMismatch", "NewRootMismatch"}
                            \cup (IF m = n THEN {"EqualSizeMismatch"} ELSE {})
                     /\ \A size \in 0..(n + 1) :
                          verify_consistency(old, size, new, n, proof)
                            <=> verifyConsistency(old, size, new, n, proof) = "None"

\* What `verify-proof` says of a bundle is so, whatever happened to the bundle
\* and to the trail since: exit 0 places this entry at this seq of a trail with
\* that root, exit 2 (a fingerprint this build lacks) still puts the entry
\* hash in that trail, and a bundle that arrived as exported is never BROKEN.
BundleVerdictHolds ==
    out.cmd = "verify_proof" =>
        LET batches == {t \in past : batch_root(entry_hashes(t)) = bundle.root}
        IN  CASE out.code = 0 -> \E t \in batches :
                                    /\ bundle.seq < Len(t)
                                    /\ bundle.entry_hash = entry_hashes(t)[bundle.seq + 1]
                                    /\ bundle.payload = t[bundle.seq + 1]
              [] out.code = 2 -> \E t \in batches :
                                    bundle.entry_hash \in Range(entry_hashes(t))
              [] OTHER -> \A t \in batches : \A i \in DOMAIN t :
                              bundle # build_proof_bundle(t, i - 1)

\* Extension verdicts are exact.  `consistency` says 0 when the recorded state
\* is a prefix of the trail, 1 when the trail was rewritten below it and 2 when
\* the trail is too short to tell; no proof, of whatever trail, makes
\* extension_holds accept two checkpoints of which one does not extend the
\* other, on chain or off; the root a checkpoint takes from the writer's peaks is
\* the root of the whole trail; and handoff bindings hold exactly while the origin
\* keeps every prefix that was handed off.
ExtensionVerdictsHold ==
    LET RootAt(n) == batch_root(entry_hashes(SubSeq(body, 1, n)))
    IN  /\ out.cmd = "consistency" =>
             LET c == out.checkpoint
             IN  out.code = IF c.seq >= Len(body) THEN 2
                            ELSE IF RootAt(c.seq + 1) = c.root THEN 0 ELSE 1
        /\ (out.cmd = "extension" /\ out.holds) =>
             \E t \in past : /\ Len(t) = out.newer.seq + 1
                            /\ batch_root(entry_hashes(t)) = out.newer.root
                            /\ batch_root(entry_hashes(SubSeq(t, 1, out.older.seq + 1)))
                                  = out.older.root
        /\ IncrementalRootIsBatchRoot
        /\ TreeAlgorithmsAgree
        /\ out.cmd = "verify_handoff" =>
             (out.code = 0 <=> \A b \in bindings : IsPrefix(b.head_hash, body))
==============================================================================
