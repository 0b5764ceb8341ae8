------------------------------- MODULE Merkle -------------------------------
(***************************************************************************)
(* The RFC 9162 tree of domain/anchoring.py: the batch root, the peaks an  *)
(* incremental writer keeps, membership and consistency proofs and their   *)
(* verifiers.  A digest is the term it is the digest of, so two digests    *)
(* are equal exactly when the hashed values are.                           *)
(***************************************************************************)
EXTENDS Integers, Sequences, SequencesExt

_leaf_hash(leaf) == <<"leaf", leaf>>
_pair_hash(left, right) == <<"node", left, right>>

\* The largest power of two below n, for n > 1.
RECURSIVE Doubled(_, _)
Doubled(k, n) == IF k * 2 < n THEN Doubled(k * 2, n) ELSE k

_split_point(n) == Doubled(1, n)

Left(leaves) == SubSeq(leaves, 1, _split_point(Len(leaves)))
Right(leaves) == SubSeq(leaves, _split_point(Len(leaves)) + 1, Len(leaves))

RECURSIVE _tree_hash(_)
_tree_hash(leaves) ==
    CASE leaves = << >> -> <<"empty">>
      [] Len(leaves) = 1 -> _leaf_hash(leaves[1])
      [] OTHER -> _pair_hash(_tree_hash(Left(leaves)), _tree_hash(Right(leaves)))

batch_root(hashes) == _tree_hash(hashes)

-----------------------------------------------------------------------------
(* IncrementalMerkle: peaks of perfect subtrees, tallest first.            *)

\* Mutant: a pushed leaf merges with the last peak only, not with the next.
push_once(peaks, hash) ==
    LET node == _leaf_hash(hash)
        last == Len(peaks)
    IN  IF peaks # << >> /\ peaks[last].height = 0
        THEN Front(peaks) \o <<[height |-> 1, digest |-> _pair_hash(peaks[last].digest, node)]>>
        ELSE Append(peaks, [height |-> 0, digest |-> node])

RECURSIVE Merge(_, _, _)
Merge(peaks, height, node) ==
    IF peaks # << >> /\ Last(peaks).height = height
    THEN Merge(Front(peaks), height + 1, _pair_hash(Last(peaks).digest, node))
    ELSE Append(peaks, [height |-> height, digest |-> node])

push(peaks, hash) == Merge(peaks, 0, _leaf_hash(hash))

root(peaks) ==
    IF peaks = << >> THEN <<"empty">>
    ELSE FoldLeft(LAMBDA acc, p : _pair_hash(p.digest, acc),
                  Last(peaks).digest, Reverse(Front(peaks)))

-----------------------------------------------------------------------------
(* Membership.                                                             *)

RECURSIVE _audit_path(_, _)
_audit_path(m, leaves) ==
    IF Len(leaves) = 1 THEN << >>
    ELSE LET k == _split_point(Len(leaves))
         IN  IF m < k
             THEN Append(_audit_path(m, Left(leaves)), _tree_hash(Right(leaves)))
             ELSE Append(_audit_path(m - k, Right(leaves)), _tree_hash(Left(leaves)))

membership_proof(hashes, index) == _audit_path(index, hashes)

\* A right edge without a sibling climbs until it is a right child again.
RECURSIVE Climb(_, _)
Climb(fn, sn) ==
    IF fn % 2 = 1 \/ fn = 0 THEN <<fn, sn>> ELSE Climb(fn \div 2, sn \div 2)

RECURSIVE Ascend(_, _, _, _, _)
Ascend(node, fn, sn, siblings, root_) ==
    IF siblings = << >> THEN sn = 0 /\ node = root_
    ELSE /\ sn # 0
         /\ IF fn % 2 = 1 \/ fn = sn
            THEN LET at == Climb(fn, sn)
                 IN  Ascend(_pair_hash(Head(siblings), node),
                            at[1] \div 2, at[2] \div 2, Tail(siblings), root_)
            ELSE Ascend(_pair_hash(node, Head(siblings)),
                        fn \div 2, sn \div 2, Tail(siblings), root_)

verify_membership(hash, index, batch_size, proof, root_) ==
    /\ 0 <= index /\ index < batch_size
    /\ Ascend(_leaf_hash(hash), index, batch_size - 1, proof, root_)

-----------------------------------------------------------------------------
(* Consistency.                                                            *)

RECURSIVE _consistency_subproof(_, _, _)
_consistency_subproof(m, leaves, complete) ==
    IF m = Len(leaves)
    THEN IF complete THEN << >> ELSE <<_tree_hash(leaves)>>
    ELSE LET k == _split_point(Len(leaves))
         IN  IF m <= k
             THEN Append(_consistency_subproof(m, Left(leaves), complete),
                         _tree_hash(Right(leaves)))
             ELSE Append(_consistency_subproof(m - k, Right(leaves), FALSE),
                         _tree_hash(Left(leaves)))

consistency_proof(hashes, old_size) == _consistency_subproof(old_size, hashes, TRUE)

IsPowerOfTwo(n) == n = 1 \/ (n > 1 /\ _split_point(n) * 2 = n)

RECURSIVE SkipOdd(_, _)
SkipOdd(fn, sn) == IF fn % 2 = 1 THEN SkipOdd(fn \div 2, sn \div 2) ELSE <<fn, sn>>

RECURSIVE Reconcile(_, _, _, _, _, _, _)
Reconcile(fr, sr, fn, sn, path, old_hash, new_hash) ==
    IF path = << >> THEN fr = old_hash /\ sr = new_hash /\ sn = 0
    ELSE /\ sn # 0
         /\ LET sibling == Head(path)
            IN  IF fn % 2 = 1 \/ fn = sn
                THEN LET at == Climb(fn, sn)
                     IN  Reconcile(_pair_hash(sibling, fr), _pair_hash(sibling, sr),
                                   at[1] \div 2, at[2] \div 2, Tail(path), old_hash, new_hash)
                ELSE Reconcile(fr, _pair_hash(sr, sibling),
                               fn \div 2, sn \div 2, Tail(path), old_hash, new_hash)

\* Mutant: the old root is not put before the path of a power of two.
verify_consistency_bare(old_root, old_size, new_root, new_size, proof) ==
    IF old_size < 1 \/ new_size < old_size THEN FALSE
    ELSE IF old_size = new_size THEN proof = << >> /\ old_root = new_root
    ELSE /\ proof # << >>
         /\ LET at == SkipOdd(old_size - 1, new_size - 1)
            IN  Reconcile(Head(proof), Head(proof), at[1], at[2], Tail(proof),
                          old_root, new_root)

verify_consistency(old_root, old_size, new_root, new_size, proof) ==
    IF old_size < 1 \/ new_size < old_size THEN FALSE
    ELSE IF old_size = new_size THEN proof = << >> /\ old_root = new_root
    ELSE /\ proof # << >>
         /\ LET path == IF IsPowerOfTwo(old_size) THEN <<old_root>> \o proof ELSE proof
                at == SkipOdd(old_size - 1, new_size - 1)
            IN  Reconcile(Head(path), Head(path), at[1], at[2], Tail(path),
                          old_root, new_root)

==============================================================================
