------------------------------- MODULE Rfc9162 -------------------------------
(***************************************************************************)
(* The second implementation of the tree, contracts/src/Rfc9162.sol: the   *)
(* head folded level by level and the two verifiers the bond contract      *)
(* decides fraud proofs with.  It is to agree with domain/anchoring.py on  *)
(* every proof, well formed or not, and to say why it rejects one.         *)
(***************************************************************************)
EXTENDS Merkle

\* One level up: neighbours are paired, an odd node at the end is promoted.
Paired(level) ==
    [i \in 1..((Len(level) + 1) \div 2) |->
        IF 2 * i <= Len(level) THEN _pair_hash(level[2 * i - 1], level[2 * i])
                               ELSE level[2 * i - 1]]

RECURSIVE Levels(_)
Levels(level) == IF Len(level) = 1 THEN level[1] ELSE Levels(Paired(level))

treeHash(leaves) ==
    IF leaves = << >> THEN <<"empty">>
    ELSE Levels([i \in DOMAIN leaves |-> _leaf_hash(leaves[i])])

\* One shift of both indices, and the shifts of an edge without a sibling.
Shifted(at) == [at EXCEPT !.fn = @ \div 2, !.sn = @ \div 2]
Climbed(at) == LET up == Climb(at.fn, at.sn) IN [at EXCEPT !.fn = up[1], !.sn = up[2]]

\* Mutant: an edge without a sibling climbs one level only.
FoldStepOneLevel(at, sibling) ==
    IF at.sn = 0 THEN [at EXCEPT !.long = TRUE]
    ELSE IF at.fn % 2 = 1 \/ at.fn = at.sn
    THEN LET up == [at EXCEPT !.fr = _pair_hash(sibling, @), !.sr = _pair_hash(sibling, @)]
         IN  Shifted(IF at.fn % 2 = 0 THEN Shifted(up) ELSE up)
    ELSE Shifted([at EXCEPT !.sr = _pair_hash(@, sibling)])

\* The body of the verifiers' for loop; `long` once sn ran out before the
\* proof did, which both return on at once.
FoldStep(at, sibling) ==
    IF at.sn = 0 THEN [at EXCEPT !.long = TRUE]
    ELSE IF at.fn % 2 = 1 \/ at.fn = at.sn
    THEN Shifted(Climbed([at EXCEPT !.fr = _pair_hash(sibling, @),
                                    !.sr = _pair_hash(sibling, @)]))
    ELSE Shifted([at EXCEPT !.sr = _pair_hash(@, sibling)])

At(fn, sn, seed) == [fn |-> fn, sn |-> sn, fr |-> seed, sr |-> seed, long |-> FALSE]

\* verifyConsistencyTraced, as its reason: "None" is the accepting one.
verifyConsistency(oldRoot, oldSize, newRoot, newSize, proof) ==
    IF oldSize < 1 \/ newSize < oldSize THEN "SizeRange"
    ELSE IF oldSize = newSize
    THEN IF proof = << >> /\ oldRoot = newRoot THEN "None" ELSE "EqualSizeMismatch"
    ELSE IF proof = << >> THEN "EmptyProof"
    ELSE LET path == IF IsPowerOfTwo(oldSize) THEN <<oldRoot>> \o proof ELSE proof
             from == SkipOdd(oldSize - 1, newSize - 1)
             end == FoldLeft(FoldStep, At(from[1], from[2], Head(path)), Tail(path))
         IN  IF end.long THEN "ProofTooLong"
             ELSE IF end.fr # oldRoot THEN "OldRootMismatch"
             ELSE IF end.sr # newRoot THEN "NewRootMismatch"
             ELSE IF end.sn # 0 THEN "ProofTooShort" ELSE "None"

verifyInclusion(entryHash, index, batchSize, proof, root_) ==
    /\ batchSize >= 1 /\ index < batchSize
    /\ LET end == FoldLeft(FoldStep, At(index, batchSize - 1, _leaf_hash(entryHash)), proof)
       IN  ~end.long /\ end.sn = 0 /\ end.sr = root_
==============================================================================
