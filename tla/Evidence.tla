------------------------------ MODULE Evidence ------------------------------
(***************************************************************************)
(* What `waxseal verify` may conclude from each piece of evidence kept     *)
(* beside a trail: the checks of domain/checkpoint.py, domain/receipts.py, *)
(* domain/witnessing.py, domain/separation.py, domain/_pinning_checks.py   *)
(* and cli/_anchors.py, as functions of what one run has read.             *)
(*                                                                         *)
(* An entry hash commits to the whole history up to its row, so the hash   *)
(* of row i is modelled as the rows 1..i, and the hashes of a trail as the *)
(* trail.  A checkpoint is the history it was taken over, with or without  *)
(* a forward-secure aggregate bound to it.                                 *)
(***************************************************************************)
EXTENDS Integers, Sequences, FiniteSets, SequencesExt, FiniteSetsExt

-----------------------------------------------------------------------------
(* The three-valued verdict and how dimensions are joined.                 *)

Verdict == {"ok", "unverifiable", "broken"}

Severity(v) == CASE v = "ok" -> 0 [] v = "unverifiable" -> 1 [] v = "broken" -> 2

\* _combine: the worst dimension is the run's verdict.
Combine(verdicts) ==
    CHOOSE v \in verdicts : \A w \in verdicts : Severity(w) <= Severity(v)

exit_code(v) == CASE v = "ok" -> 0 [] v = "broken" -> 1 [] v = "unverifiable" -> 2

-----------------------------------------------------------------------------
(* Checkpoints.                                                            *)

\* checkpoint_for refuses an empty trail: its callers test for one first.
checkpoint_for(hashes, agg) == [head |-> hashes, bound |-> agg]

SeqNo(cp) == Len(cp.head) - 1

\* Mutant: the last row of the trail is taken to be past its head.
verify_checkpoint_off_by_one(hashes, cp) ==
    IF SeqNo(cp) >= Len(hashes) - 1 THEN "anchor_beyond_head"
    ELSE IF SubSeq(hashes, 1, Len(cp.head)) # cp.head THEN "anchor_mismatch"
    ELSE "none"

verify_checkpoint(hashes, cp) ==
    IF SeqNo(cp) >= Len(hashes)
      THEN "anchor_beyond_head"
    ELSE IF SubSeq(hashes, 1, Len(cp.head)) # cp.head
      THEN "anchor_mismatch"
    ELSE "none"

-----------------------------------------------------------------------------
(* The .anchors sidecar.  A line is a record, or a record in a version     *)
(* this build cannot read; a malformed sidecar is a verdict of its own.    *)

\* What a sink answered with.  An RFC 3161 token attests the frame of one
\* checkpoint, echoes the nonce of one request and is signed by someone.
Receipt(kind, frame, nonce, signer) ==
    [kind |-> kind, frame |-> frame, nonce |-> nonce, signer |-> signer]

NoReceipt == Receipt("none", << >>, 0, "none")

\* What parsing the CMS structure and walking its certificates to the named
\* bundle concludes: the timestamp authority signed it, somebody else did, or
\* this build does not read its shape.
Signer == {"tsa", "stranger", "opaque"}

\* read_timestamp_resp: a token over other bytes or another nonce is checked
\* and false.  A record without a nonce (0) skips that comparison.
read_timestamp_resp(rec) ==
    IF \/ rec.receipt.frame # rec.cp.head
       \/ rec.nonce # 0 /\ rec.receipt.nonce # rec.nonce
    THEN "broken" ELSE "ok"

\* _receipt_verdict: a receipt this build cannot read is not evidence, and
\* an OpenTimestamps proof is only noted.
receipt_verdict(rec) ==
    CASE rec.receipt.kind = "none" -> "ok"
      [] rec.receipt.kind = "ots" -> "ok"
      [] rec.receipt.kind \in {"garbled", "unknown"} -> "unverifiable"
      [] rec.receipt.kind = "rfc3161" -> read_timestamp_resp(rec)

\* verify_token_signature under a named CA bundle: a signature by someone
\* the bundle does not lead to is false, a structure this build does not
\* read is unchecked.
verify_token_signature(receipt) ==
    CASE receipt.signer = "tsa" -> "ok"
      [] receipt.signer = "stranger" -> "broken"
      [] OTHER -> "unverifiable"

\* _signature_checks: only tokens that decode take part, and only when a
\* bundle was named.
SignatureVerdict(records, ca) ==
    Combine({"ok"} \cup
        {verify_token_signature(r.receipt) :
            r \in {q \in records : ca /\ q.receipt.kind = "rfc3161"}})

Readable(lines) == {r \in Range(lines) : r.version = "known"}

Unreadable(lines) == Readable(lines) # Range(lines)

\* Mutant: the sidecar's own records count as an external sink.
observed_sinks_with_file(sidecar) ==
    IF sidecar.malformed THEN 0
    ELSE Cardinality({r.sink : r \in Readable(sidecar.lines)})

\* _observed_anchor_sinks: the sidecar's own baseline is no witness.
observed_sinks(sidecar) ==
    IF sidecar.malformed THEN 0
    ELSE Cardinality({r.sink : r \in Readable(sidecar.lines)} \ {"file"})

\* The readable records under their line numbers.
observed_records(sidecar) ==
    IF sidecar.malformed THEN << >>
    ELSE Restrict(sidecar.lines,
                  {i \in DOMAIN sidecar.lines : sidecar.lines[i].version = "known"})

\* _anchor_check.
anchor_check(hashes, sidecar, ca) ==
    LET records == Readable(sidecar.lines)
        read    == observed_records(sidecar)
        faults  == {i \in DOMAIN read : verify_checkpoint(hashes, read[i].cp) # "none"}
        checked == {receipt_verdict(r) : r \in records}
    IN  IF sidecar.malformed
          THEN [verdict |-> "broken", reason |-> "malformed_anchor"]
        ELSE IF faults # {}
          THEN [verdict |-> "broken", reason |-> verify_checkpoint(hashes, read[Min(faults)].cp)]
        ELSE IF "broken" \in checked
          THEN [verdict |-> "broken", reason |-> "receipt_false"]
        ELSE [verdict |-> Combine({"ok", SignatureVerdict(records, ca)} \cup checked
                  \cup (IF Unreadable(sidecar.lines) THEN {"unverifiable"} ELSE {})),
              reason |-> "none"]

-----------------------------------------------------------------------------
(* Witnesses: what each holds, or that it could not be asked.              *)

\* check_witnessed over every checkpoint a reachable witness returned.
witness_status(hashes, answer) ==
    IF ~answer.reached THEN "unreachable"
    ELSE IF \E cp \in Range(answer.held) : verify_checkpoint(hashes, cp) # "none"
      THEN "inconsistent"
    ELSE "consistent"

\* _witness_exit_code.
witness_verdict(statuses) ==
    IF "inconsistent" \in statuses THEN "broken"
    ELSE IF "unreachable" \in statuses THEN "unverifiable"
    ELSE "ok"

-----------------------------------------------------------------------------
(* The client's .receipts.  A line is a record, or one of three kinds of   *)
(* line that is not.                                                       *)

\* What parse_receipt_line makes of a line.  A version or frame fingerprint
\* this build does not know is told from a line that does not parse.
ReceiptForm == {"record", "malformed", "newer"}

\* reconcile_receipts: absent and empty are both clean; a line that does
\* not parse or contradicts the trail is a break; a line from a newer build
\* only limits what was measured.
reconcile_receipts(hashes, lines) ==
    LET Contradicts(l) ==
            /\ l.form = "record"
            /\ \/ Len(l.head) > Len(hashes)
               \/ SubSeq(hashes, 1, Len(l.head)) # l.head
    IN  IF \E l \in Range(lines) : l.form = "malformed" \/ Contradicts(l)
          THEN "broken"
        ELSE IF \E l \in Range(lines) : l.form = "newer"
          THEN "unverifiable"
        ELSE "ok"

-----------------------------------------------------------------------------
(* The pin: the checkpoint this verifier last confirmed, and the policy it *)
(* was told to expect.  Age -1 stands for no deadline, a timestamp of -1   *)
(* for one that does not parse.                                            *)

NoTopology == [declared |-> FALSE, sinks |-> 0, witness |-> FALSE, ledger |-> FALSE]

NoPin == [file |-> FALSE, v |-> 1, whole |-> TRUE, target |-> "here", head |-> << >>,
          topo |-> NoTopology, age |-> -1, bind |-> FALSE]

\* FilePinStore.load and parse_pin_state: the version is looked at before the
\* fields, so a state from a newer waxseal is never called malformed.
parse_pin_state(pin) ==
    IF ~pin.file THEN "none"
    ELSE IF pin.v = 0 THEN "malformed"
    ELSE IF pin.v # 1 THEN "newer"
    ELSE IF ~pin.whole THEN "malformed"
    ELSE "state"

\* check_pin, in the pin's own vocabulary.
check_pin(hashes, stored) ==
    LET fault == verify_checkpoint(hashes, checkpoint_for(stored.head, FALSE))
    IN  CASE fault = "none" -> "none"
          [] fault = "anchor_beyond_head" -> "pin_beyond_head"
          [] fault = "anchor_mismatch" -> "pin_mismatch"

\* anchor_policy_downgrade: no readable record at or past the pinned row
\* carries a binding.
anchor_policy_downgrade(pinned, records) ==
    ~ \E r \in Range(records) : Len(r.cp.head) >= Len(pinned) /\ r.cp.bound

\* anchor_staleness: the first record of the greatest seq decides, and none
\* at all is stale.
anchor_staleness(age, records, now) ==
    \/ DOMAIN records = {}
    \/ LET Newer(i, j) == \/ SeqNo(records[i].cp) > SeqNo(records[j].cp)
                          \/ SeqNo(records[i].cp) = SeqNo(records[j].cp) /\ i <= j
           newest == CHOOSE i \in DOMAIN records : \A j \in DOMAIN records : Newer(i, j)
           ts == records[newest].ts
       IN  ts = -1 \/ now - ts > age

separation_shortfall(topo, sinks, consistent) ==
    topo.sinks > sinks \/ (topo.witness /\ ~consistent)

ledger_shortfall(topo, ok) == topo.ledger /\ ~ok

\* The declared-versus-observed comparisons of _pin_check.  Each is made only
\* against the stored policy and only when this run measured what it needs.
AnchorShortfall(stored, obs, now) ==
    /\ obs.opt.anchors
    /\ \/ stored.bind /\ anchor_policy_downgrade(stored.head, obs.records)
       \/ stored.age # -1 /\ anchor_staleness(stored.age, obs.records, now)

SeparationShortfall(stored, obs) ==
    /\ stored.topo.declared
    /\ \/ obs.opt.ledger /\ ledger_shortfall(stored.topo, obs.ledger = "ok")
       \/ /\ obs.opt.anchors /\ obs.opt.witness
          /\ separation_shortfall(stored.topo, obs.sinks, "consistent" \in obs.witness)

\* The state a run writes: the head it read and, flag by flag, this run's
\* declaration or else the stored one.
Pinned(stored, obs) ==
    LET d == obs.opt.declare
    IN  [file |-> TRUE, v |-> 1, whole |-> TRUE, target |-> "here", head |-> obs.hashes,
         topo |-> IF d.topo.declared THEN d.topo ELSE stored.topo,
         age  |-> IF d.age # -1 THEN d.age ELSE stored.age,
         bind |-> d.bind \/ stored.bind]

\* _pin_check: its verdict, its reason and the pin it would write.  Nothing
\* is ever written over a pin that could not be read, that belongs to
\* another trail, or that the trail contradicts.
pin_check(stored, obs, now) ==
    LET Out(v, why, pin) == [verdict |-> v, reason |-> why, pending |-> pin]
        fault == check_pin(obs.hashes, stored)
        kind == parse_pin_state(stored)
    IN  CASE kind = "newer" -> Out("unverifiable", "pin_version_unknown", NoPin)
          [] kind = "malformed" -> Out("broken", "malformed_pin", NoPin)
          [] kind = "none" ->
               IF obs.hashes = << >> THEN Out("ok", "empty_trail_not_pinned", NoPin)
               ELSE Out("ok", "trust_on_first_use", Pinned(NoPin, obs))
          [] kind = "state" /\ stored.target # "here" ->
               Out("broken", "pin_target_mismatch", NoPin)
          [] kind = "state" /\ stored.target = "here" /\ fault # "none" ->
               Out("broken", fault, NoPin)
          [] OTHER ->
               Out(IF AnchorShortfall(stored, obs, now) \/ SeparationShortfall(stored, obs)
                   THEN "unverifiable" ELSE "ok", "none", Pinned(stored, obs))

-----------------------------------------------------------------------------
(* `waxseal preflight`: which rungs of the attacker ladder a configuration *)
(* stops.  What a run looked for is found, missing, or was not measured.   *)

\* _state_of: one stopper of several is enough, and none is absent unless all
\* of them were looked for.
_state_of(observed) ==
    IF "found" \in observed THEN "present"
    ELSE IF "unmeasured" \in observed THEN "not-measured"
    ELSE "absent"

\* Mutant: what cannot be read is not there.
_preflight_anchors_collapsed(sidecar) ==
    LET records == Readable(sidecar.lines)
        Seen(some) == IF some # {} /\ ~sidecar.malformed THEN "found" ELSE "missing"
    IN  [records |-> Seen(records), external |-> Seen({r \in records : r.sink # "file"}),
         aggregate |-> Seen({r \in records : r.cp.bound}), latest |-> -1]

\* _preflight_anchors: a sidecar or a line this build cannot read is not zero
\* records.  latest is the seq of the last readable record, -1 for None.
_preflight_anchors(sidecar) ==
    LET records == IF sidecar.malformed THEN {} ELSE Readable(sidecar.lines)
        Seen(some) == IF some # {} THEN "found"
                      ELSE IF sidecar.malformed \/ Unreadable(sidecar.lines) THEN "unmeasured"
                      ELSE "missing"
    IN  [records |-> Seen(records),
         external |-> Seen({r \in records : r.sink # "file"}),
         aggregate |-> Seen({r \in records : r.cp.bound}),
         latest |-> IF records = {} THEN -1
                    ELSE LET read == observed_records(sidecar)
                         IN  SeqNo(read[Max(DOMAIN read)].cp)]

\* ladder_for: the claim is contiguous, so the lowest missing stopper caps it.
ladder_for(obs) ==
    LET rungs == <<_state_of({obs.seal}), _state_of({obs.records}),
                   _state_of({obs.external, obs.witness, obs.ledger}),
                   _state_of({obs.aggregate}), "no-mechanism", "no-mechanism">>
        stops_at == Cardinality({n \in 1..6 : \A i \in 1..n : rungs[i] = "present"})
    IN  [rungs |-> rungs, stops_at |-> stops_at, next_rung |-> rungs[stops_at + 1],
         present_above_cap |-> {n \in (stops_at + 1)..6 : rungs[n] = "present"}]

\* _preflight: whether .attest lies beside the trail, and the sidecar; no
\* witness and no ledger is ever asked.
_preflight(sidecar, attest) ==
    LET view == _preflight_anchors(sidecar)
    IN  ladder_for([seal |-> IF attest THEN "found" ELSE "missing", records |-> view.records,
                    external |-> view.external, aggregate |-> view.aggregate,
                    witness |-> "unmeasured", ledger |-> "unmeasured"])
==============================================================================
