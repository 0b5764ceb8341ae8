------------------------------ MODULE Sealing ------------------------------
(***************************************************************************)
(* domain/sealing.py: forward-secure seals over entry hashes.              *)
(*                                                                         *)
(* Hashes and MACs are their preimages: the epoch key A_j is the number of *)
(* times A_0 was evolved, a seal is the pair it authenticates, an          *)
(* accumulator the sequence of values folded into it.                      *)
(***************************************************************************)
EXTENDS Naturals, Sequences

FS_HMAC_SCHEME == "hmac"
FS_HMAC_AGG_SCHEME == "agg"
SIG_SCHEME == "sig"

InitialKey == 0

evolve_key(key) == key + 1

\* The epoch key after `n` evolutions of A_0.
EpochKey(n) ==
    LET A[j \in 0 .. n] == IF j = 0 THEN InitialKey ELSE evolve_key(A[j - 1])
    IN  A[n]

seal_entry(key, entry_hash) == <<key, entry_hash>>

\* What the Signer returns over a framed entry hash.
sign(entry_hash) == <<"sig", entry_hash>>

AGG_GENESIS == << >>

aggregate_step(key, prev_agg, value) == Append(prev_agg, <<key, value>>)

\* Mutant: the commitment binds the epoch alone.
aggregate_commit_epoch_only(epoch, agg) == <<epoch>>

aggregate_commit(epoch, agg) == <<epoch, agg>>

\* The verdict on one attestation at 1-based position p.
SealReason(att, p) ==
    IF att.seq # p - 1 THEN "seal_sequence_mismatch"
    ELSE IF /\ att.scheme \in {FS_HMAC_SCHEME, FS_HMAC_AGG_SCHEME}
            /\ att.value # seal_entry(EpochKey(p - 1), att.entry_hash)
         THEN "seal_mismatch"
    ELSE "ok"

\* The reason of the first attestation that breaks, or "ok".
verify_seals(atts) ==
    LET Broken == {p \in DOMAIN atts : SealReason(atts[p], p) # "ok"}
        first == CHOOSE p \in Broken : \A q \in Broken : p <= q
    IN  IF Broken = {} THEN "ok" ELSE SealReason(atts[first], first)

\* The fold over the aggregate-scheme rows in agg_start .. epoch - 1; the
\* epoch clock is positional, so the other rows advance it too.
Fold(atts, agg_start, epoch) ==
    LET mu[n \in 0 .. epoch] ==
          IF n = 0 THEN AGG_GENESIS
          ELSE IF n > agg_start /\ atts[n].scheme = FS_HMAC_AGG_SCHEME
               THEN aggregate_step(EpochKey(n - 1), mu[n - 1], atts[n].value)
               ELSE mu[n - 1]
    IN  mu[epoch]

\* Mutant: any row past the epoch is a fold that was never persisted.
RowIsUnfoldedAny(att) == TRUE

RowIsUnfolded(att) == att.scheme = FS_HMAC_AGG_SCHEME

verify_aggregate(atts, agg_start, epoch, agg) ==
    IF agg_start > epoch THEN "malformed_aggregate"
    ELSE IF epoch > Len(atts) THEN "aggregate_epoch_mismatch"
    ELSE IF \E p \in epoch + 1 .. Len(atts) : RowIsUnfolded(atts[p])
         THEN "aggregate_epoch_mismatch"
    ELSE IF Fold(atts, agg_start, epoch) # agg THEN "aggregate_mismatch"
    ELSE "ok"

\* Mutant: a trail that has grown since the anchor is a mismatch.
AnchoredRowsMissingOrMore(anchored_epoch, n) == anchored_epoch # n

AnchoredRowsMissing(anchored_epoch, n) == anchored_epoch > n

verify_anchored_aggregate(atts, agg_start, anchored_epoch, anchored_commit) ==
    IF agg_start > anchored_epoch THEN "malformed_anchored_aggregate"
    ELSE IF AnchoredRowsMissing(anchored_epoch, Len(atts))
         THEN "anchored_aggregate_epoch_mismatch"
    ELSE IF aggregate_commit(anchored_epoch, Fold(atts, agg_start, anchored_epoch))
              # anchored_commit
         THEN "anchored_aggregate_mismatch"
    ELSE "ok"
==============================================================================
