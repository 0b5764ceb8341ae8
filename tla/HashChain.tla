------------------------------ MODULE HashChain ------------------------------
(***************************************************************************)
(* The hash chain every storage backend keeps and every reader verifies:   *)
(* domain/header.py, domain/hashing.py and domain/verify.py.               *)
(*                                                                         *)
(* SHA-256 is modelled by what the chain relies on: it is collision free.  *)
(* A header commits to prev_hash and to its own fields, so a digest is     *)
(* modelled as the history it commits to, the sequence of header contents  *)
(* from the genesis row on.  Two headers then have the same digest exactly *)
(* when they agree on every field, and the genesis value (64 zeros in the  *)
(* code, the empty history here) is the digest of no header.               *)
(***************************************************************************)
EXTENDS Integers, Sequences

CONSTANTS
    Payload,  \* what callers record: payload type, timestamp and bytes
    Version   \* the hash_version fingerprints a row may be stamped with

-----------------------------------------------------------------------------
(* Headers, digests, entries.                                              *)

\* compute_payload_hash: collision free, and not the payload itself.
compute_payload_hash(p) == <<p>>

PayloadHash == {compute_payload_hash(p) : p \in Payload}

\* The fields a header adds to the history its prev_hash names.
Content == [seq : Nat, payload_hash : PayloadHash, hash_version : Version]

Digest == Seq(Content)

GENESIS_PREV_HASH == << >>

Header == [seq : Nat, payload_hash : PayloadHash, hash_version : Version,
           prev_hash : Digest]

compute_entry_hash(h) ==
    Append(h.prev_hash, [seq |-> h.seq,
                         payload_hash |-> h.payload_hash,
                         hash_version |-> h.hash_version])

Entry == [header : Header, entry_hash : Digest, payload : Payload]

\* AuditLog.append's `build` closure: the only place an entry is made.
BuildEntry(seq, prev, p, version) ==
    LET h == [seq |-> seq, payload_hash |-> compute_payload_hash(p),
              hash_version |-> version, prev_hash |-> prev]
    IN  [header |-> h, entry_hash |-> compute_entry_hash(h), payload |-> p]

-----------------------------------------------------------------------------
(* verify_chain.                                                           *)

ExpectedPrev(entries, i) ==
    IF i = 1 THEN GENESIS_PREV_HASH ELSE entries[i - 1].entry_hash

\* The finding verify_chain reports for row i, tests in the code's order.
\* Only a row whose fingerprint this build can recompute is hashed at all.
RowFinding(entries, i, recomputable) ==
    LET e == entries[i]
        known == e.header.hash_version \in recomputable
    IN  IF e.header.seq # i - 1
          THEN "seq_gap"
        ELSE IF e.header.prev_hash # ExpectedPrev(entries, i)
          THEN "prev_hash_mismatch"
        ELSE IF known /\ compute_entry_hash(e.header) # e.entry_hash
          THEN "entry_hash_mismatch"
        ELSE IF known /\ compute_payload_hash(e.payload) # e.header.payload_hash
          THEN "payload_hash_mismatch"
        ELSE "none"

\* The walk stops at the first row with a finding; the rows before it are
\* counted as checked or as unverifiable.
verify_chain(entries, recomputable) ==
    LET rows   == 1 .. Len(entries)
        broken == {i \in rows : RowFinding(entries, i, recomputable) # "none"}
        walked == {i \in rows : \A b \in broken : i < b}
        opaque == {i \in walked :
                      entries[i].header.hash_version \notin recomputable}
    IN  IF broken = {}
          THEN [ok |-> TRUE, reason |-> "none",
                checked |-> walked \ opaque, unverifiable |-> opaque]
          ELSE LET b == CHOOSE b \in broken : \A c \in broken : b <= c
               IN  [ok |-> FALSE,
                    reason |-> RowFinding(entries, b, recomputable),
                    checked |-> walked \ opaque, unverifiable |-> opaque]

\* verdict_for_chain: a break wins over an unverifiable row, which wins over
\* a clean walk.
ChainVerdict(result) ==
    IF ~result.ok THEN "broken"
    ELSE IF result.unverifiable # {} THEN "unverifiable"
    ELSE "ok"
==============================================================================
