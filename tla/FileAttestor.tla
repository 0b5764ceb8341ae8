---------------------------- MODULE FileAttestor ----------------------------
(***************************************************************************)
(* adapters/attest.py and log/_attestation.py: the seals of a trail, kept  *)
(* in three sidecars that attest() updates one after the other:            *)
(*   .sealkey  the current epoch key, replaced atomically,                 *)
(*   .sealagg  the running aggregate, replaced atomically,                 *)
(*   .attest   one line per sealed row, appended.                          *)
(* Writers are processes with an AuditLog each on one trail; the threads   *)
(* of a process are serialised by its append lock (AuditLog), processes    *)
(* are not.  A row is its entry hash, a number no other row ever has.      *)
(***************************************************************************)
EXTENDS Sealing, Functions

CONSTANTS
    Writer,       \* processes that append and seal
    Schemes,      \* the schemes a process may be configured with
    MaxRows,      \* bound on the rows ever appended
    Incidents,    \* what may happen besides appending, see Faults and Others
    MaxIncidents  \* bound on the incidents

\* A write that raises, a write cut short, a process that dies.
Faults == {"key", "agg", "line", "torn", "crash"}

\* An orderly restart, an anchored aggregate, a verification beside the
\* writers, and changes to the files out of band.
Others == {"restart", "anchor", "verify", "truncate", "backup", "restore"}

ASSUME FileAttestorAssumption ==
    /\ Schemes \subseteq {FS_HMAC_SCHEME, FS_HMAC_AGG_SCHEME, SIG_SCHEME}
    /\ Schemes # {}
    /\ MaxRows \in Nat
    /\ Incidents \subseteq Faults \cup Others
    /\ MaxIncidents \in Nat

VARIABLES
    trail,       \* the rows on the chain
    appended,    \* rows ever appended
    sealkey,     \* .sealkey: at most one record
    sealagg,     \* .sealagg: at most one record
    attest,      \* .attest, line by line
    pc,          \* where each writer is
    scheme,      \* its configured scheme
    job,         \* the row it is sealing and what it has read for it
    failed,      \* rows whose append raised AttestationFailure
    published,   \* every attestation that ever reached .attest
    anchored,    \* aggregate commitments an anchor sink holds
    backup,      \* a copy of the four files, if one was taken
    removed,     \* rows removed from the trail out of band
    reads,       \* how far the running verification has read
    snap,        \* what it has read
    incidents    \* how often each incident has happened

files == <<trail, sealkey, sealagg, attest>>
vars == <<trail, appended, sealkey, sealagg, attest, pc, scheme, job, failed,
          published, anchored, backup, removed, reads, snap, incidents>>

\* A line json.loads rejects.
Malformed == [malformed |-> TRUE]

NoJob == [seq |-> 0, hash |-> 0, key |-> InitialKey, prior |-> << >>]

NoSnap == [attest |-> << >>, trail |-> << >>, sealkey |-> << >>, sealagg |-> << >>]

Init ==
    /\ trail = << >>
    /\ appended = 0
    /\ sealkey = << >>
    /\ sealagg = << >>
    /\ attest = << >>
    /\ pc = [w \in Writer |-> "off"]
    /\ scheme = [w \in Writer |-> CHOOSE s \in Schemes : TRUE]
    /\ job = [w \in Writer |-> NoJob]
    /\ failed = {}
    /\ published = {}
    /\ anchored = {}
    /\ backup = << >>
    /\ removed = {}
    /\ reads = 0
    /\ snap = NoSnap
    /\ incidents = [k \in Incidents |-> 0]

Incident(kind) ==
    /\ kind \in Incidents
    /\ SumFunction(incidents) < MaxIncidents
    /\ incidents' = [incidents EXCEPT ![kind] = @ + 1]

Happened(kind) == kind \in Incidents /\ incidents[kind] > 0

Goto(w, where) == pc' = [pc EXCEPT ![w] = where]

\* attest() raises, and append reports an AttestationFailure.
Raise(w) ==
    /\ failed' = failed \cup {job[w].hash}
    /\ Goto(w, "idle")
    /\ job' = [job EXCEPT ![w] = NoJob]

Quiet == \A w \in Writer : pc[w] \in {"off", "idle"}

-----------------------------------------------------------------------------
(* FileAttestor.__init__.                                                  *)

Open(w, s) ==
    /\ pc[w] = "off"
    /\ scheme' = [scheme EXCEPT ![w] = s]
    /\ Goto(w, IF s # SIG_SCHEME /\ sealkey = << >> THEN "create" ELSE "idle")
    /\ UNCHANGED <<files, appended, job, failed, published, anchored, backup,
                   removed, reads, snap, incidents>>

\* The key was not there when __init__ looked.
CreateKey(w) ==
    /\ pc[w] = "create"
    /\ sealkey' = <<[epoch |-> 0, key |-> InitialKey]>>
    /\ Goto(w, "idle")
    /\ UNCHANGED <<trail, sealagg, attest, appended, scheme, job, failed,
                   published, anchored, backup, removed, reads, snap, incidents>>

\* An orderly stop; the next Open may configure another scheme.
Close(w) ==
    /\ pc[w] = "idle"
    /\ Incident("restart")
    /\ Goto(w, "off")
    /\ UNCHANGED <<files, appended, scheme, job, failed, published, anchored,
                   backup, removed, reads, snap>>

-----------------------------------------------------------------------------
(* AuditLog.append as far as sealing goes, and FileAttestor.attest.        *)

AppendRow(w) ==
    /\ pc[w] = "idle"
    /\ appended < MaxRows
    /\ appended' = appended + 1
    /\ trail' = Append(trail, appended + 1)
    /\ job' = [job EXCEPT ![w] = [NoJob EXCEPT !.seq = Len(trail), !.hash = appended + 1]]
    /\ Goto(w, IF scheme[w] = SIG_SCHEME THEN "line" ELSE "key")
    /\ UNCHANGED <<sealkey, sealagg, attest, scheme, failed, published,
                   anchored, backup, removed, reads, snap, incidents>>

\* Mutant: the epoch is not compared with the row.
EpochMatchesAny(epoch, seq) == TRUE

EpochMatches(epoch, seq) == epoch = seq

KeyFits(seq) == sealkey # << >> /\ EpochMatches(sealkey[1].epoch, seq)

ReadKey(w) ==
    /\ pc[w] = "key"
    /\ KeyFits(job[w].seq)
    /\ job' = [job EXCEPT ![w].key = sealkey[1].key]
    /\ Goto(w, IF scheme[w] = FS_HMAC_AGG_SCHEME THEN "agg" ELSE "write_key")
    /\ UNCHANGED <<files, appended, scheme, failed, published, anchored,
                   backup, removed, reads, snap, incidents>>

ReadKeyRaises(w) ==
    /\ pc[w] = "key"
    /\ ~KeyFits(job[w].seq)
    /\ Raise(w)
    /\ UNCHANGED <<files, appended, scheme, published, anchored, backup,
                   removed, reads, snap, incidents>>

AggregateInSync(seq) == sealagg # << >> => sealagg[1].epoch = seq

ReadAggregate(w) ==
    /\ pc[w] = "agg"
    /\ AggregateInSync(job[w].seq)
    /\ job' = [job EXCEPT ![w].prior = sealagg]
    /\ Goto(w, "write_key")
    /\ UNCHANGED <<files, appended, scheme, failed, published, anchored,
                   backup, removed, reads, snap, incidents>>

ReadAggregateRaises(w) ==
    /\ pc[w] = "agg"
    /\ ~AggregateInSync(job[w].seq)
    /\ Raise(w)
    /\ UNCHANGED <<files, appended, scheme, published, anchored, backup,
                   removed, reads, snap, incidents>>

WriteKey(w) ==
    /\ pc[w] = "write_key"
    /\ sealkey' = <<[epoch |-> job[w].seq + 1, key |-> evolve_key(job[w].key)]>>
    /\ Goto(w, IF scheme[w] = FS_HMAC_AGG_SCHEME THEN "write_agg" ELSE "line")
    /\ UNCHANGED <<trail, sealagg, attest, appended, scheme, job, failed,
                   published, anchored, backup, removed, reads, snap, incidents>>

\* The attestation of the row: sealed under the key that was read, or signed.
Attestation(w) ==
    [seq |-> job[w].seq, entry_hash |-> job[w].hash, scheme |-> scheme[w],
     value |-> IF scheme[w] = SIG_SCHEME THEN sign(job[w].hash)
               ELSE seal_entry(job[w].key, job[w].hash)]

AggregateStart(w) ==
    IF job[w].prior = << >> THEN job[w].seq ELSE job[w].prior[1].agg_start

Running(w) ==
    aggregate_step(job[w].key,
                   IF job[w].prior = << >> THEN AGG_GENESIS ELSE job[w].prior[1].agg,
                   Attestation(w).value)

WriteAggregate(w) ==
    /\ pc[w] = "write_agg"
    /\ sealagg' = <<[agg_start |-> AggregateStart(w), epoch |-> job[w].seq + 1,
                     agg |-> Running(w)]>>
    /\ Goto(w, "line")
    /\ UNCHANGED <<trail, sealkey, attest, appended, scheme, job, failed,
                   published, anchored, backup, removed, reads, snap, incidents>>

WriteLine(w) ==
    /\ pc[w] = "line"
    /\ attest' = Append(attest, Attestation(w))
    /\ published' = published \cup {Attestation(w)}
    /\ Goto(w, "idle")
    /\ job' = [job EXCEPT ![w] = NoJob]
    /\ UNCHANGED <<trail, sealkey, sealagg, appended, scheme, failed, anchored,
                   backup, removed, reads, snap, incidents>>

\* A write raises OSError: the file it replaces or extends is as before, or
\* the .attest line is there in part, and no reader gets past it again.
WriteRaises(w) ==
    /\ \/ pc[w] = "write_key" /\ Incident("key") /\ UNCHANGED attest
       \/ pc[w] = "write_agg" /\ Incident("agg") /\ UNCHANGED attest
       \/ pc[w] = "line" /\ Incident("line") /\ UNCHANGED attest
       \/ pc[w] = "line" /\ Incident("torn") /\ attest' = Append(attest, Malformed)
    /\ Raise(w)
    /\ UNCHANGED <<trail, sealkey, sealagg, appended, scheme, published,
                   anchored, backup, removed, reads, snap>>

\* The process dies between two of its writes.
Crash(w) ==
    /\ pc[w] \notin {"off", "idle"}
    /\ Incident("crash")
    /\ Goto(w, "off")
    /\ job' = [job EXCEPT ![w] = NoJob]
    /\ UNCHANGED <<files, appended, scheme, failed, published, anchored,
                   backup, removed, reads, snap>>

-----------------------------------------------------------------------------
(* AuditLog.verify_attestations.                                           *)

\* Mutant: a keyfile ahead of the attestations is not a mismatch.
check_continuity_behind_only(key, count) ==
    IF key = << >> THEN "keyfile_missing"
    ELSE IF key[1].epoch < count THEN "keyfile_epoch_mismatch"
    ELSE IF key[1].key # EpochKey(key[1].epoch) THEN "keyfile_key_mismatch"
    ELSE "ok"

check_continuity(key, count) ==
    IF key = << >> THEN "keyfile_missing"
    ELSE IF key[1].epoch # count THEN "keyfile_epoch_mismatch"
    ELSE IF key[1].key # EpochKey(key[1].epoch) THEN "keyfile_key_mismatch"
    ELSE "ok"

\* Mutant: rows past the sidecar's end are not missed.
GapNever(atts, rows) == FALSE

Gap(atts, rows) == Len(atts) < Len(rows)

\* The attestations line by line against the hashes recomputed from the rows.
TrailMismatch(atts, rows) ==
    \E p \in DOMAIN atts : p > Len(rows) \/ atts[p].entry_hash # rows[p]

AggregateReason(atts, agg) ==
    IF agg # << >>
      THEN verify_aggregate(atts, agg[1].agg_start, agg[1].epoch, agg[1].agg)
      ELSE IF \E p \in DOMAIN atts : atts[p].scheme = FS_HMAC_AGG_SCHEME
             THEN "aggregate_missing" ELSE "ok"

SignatureReason(atts) ==
    IF \E p \in DOMAIN atts : /\ atts[p].scheme = SIG_SCHEME
                              /\ atts[p].value # sign(atts[p].entry_hash)
      THEN "signature_invalid" ELSE "ok"

\* The reason verify_sidecar gives over the files as they were read, with
\* A_0 ("key") or with a Verifier ("sig").
verify_sidecar(mode, f) ==
    LET continuity == check_continuity(f.sealkey, Len(f.attest))
        seals == verify_seals(f.attest)
    IN  IF \E p \in DOMAIN f.attest : f.attest[p] = Malformed
          THEN "malformed_attestation"
        ELSE IF TrailMismatch(f.attest, f.trail) THEN "attest_trail_mismatch"
        ELSE IF Gap(f.attest, f.trail) THEN "attestation_gap"
        ELSE IF mode = "sig" THEN SignatureReason(f.attest)
        ELSE IF continuity # "ok" THEN continuity
        ELSE IF seals # "ok" THEN seals
        ELSE AggregateReason(f.attest, f.sealagg)

Files == [attest |-> attest, trail |-> trail, sealkey |-> sealkey, sealagg |-> sealagg]

\* Mutant: the trail is read before the sidecar.
ReadOrderTrailFirst == <<"trail", "attest", "sealkey", "sealagg">>

ReadOrder == <<"attest", "trail", "sealkey", "sealagg">>

\* A verification beside the writers reads one file after the other.
VerifierReads ==
    /\ reads < 4
    /\ IF reads = 0 THEN Incident("verify") ELSE UNCHANGED incidents
    /\ snap' = [snap EXCEPT ![ReadOrder[reads + 1]] = Files[ReadOrder[reads + 1]]]
    /\ reads' = reads + 1
    /\ UNCHANGED <<files, appended, pc, scheme, job, failed, published,
                   anchored, backup, removed>>

VerifierEnds ==
    /\ reads = 4
    /\ reads' = 0
    /\ snap' = NoSnap
    /\ UNCHANGED <<files, appended, pc, scheme, job, failed, published,
                   anchored, backup, removed, incidents>>

-----------------------------------------------------------------------------
(* Aggregate commitments in anchors.                                       *)

\* aggregate_binding: anchor() commits to whatever .sealagg holds, while a
\* writer may be between its writes.  `agg` is what the commitment hides.
AnchorAggregate ==
    /\ sealagg # << >>
    /\ Incident("anchor")
    /\ anchored' = anchored \cup
          {[epoch |-> sealagg[1].epoch, agg |-> sealagg[1].agg,
            commit |-> aggregate_commit(sealagg[1].epoch, sealagg[1].agg)]}
    /\ UNCHANGED <<files, appended, pc, scheme, job, failed, published,
                   backup, removed, reads, snap>>

\* verify_anchored_aggregates, for one record.  Reading a line that does
\* not parse raises: nothing around it turns that into a verdict.
verify_anchored_aggregates(a) ==
    IF \E p \in DOMAIN attest : attest[p] = Malformed THEN "raises"
    ELSE verify_anchored_aggregate(
           attest, IF sealagg = << >> THEN 0 ELSE sealagg[1].agg_start,
           a.epoch, a.commit)

-----------------------------------------------------------------------------
(* What happens to the files out of band, with no append under way.        *)

RowsOf(s) == {s[i] : i \in DOMAIN s}

\* Trail and sidecar lose the same rows at their end.
Truncate(n) ==
    /\ Incident("truncate")
    /\ Quiet /\ removed = {}
    /\ trail' = SubSeq(trail, 1, n)
    /\ attest' = SubSeq(attest, 1, IF n < Len(attest) THEN n ELSE Len(attest))
    /\ removed' = RowsOf(trail) \ RowsOf(trail')
    /\ UNCHANGED <<sealkey, sealagg, appended, pc, scheme, job, failed,
                   published, anchored, backup, reads, snap>>

TakeBackup ==
    /\ Incident("backup")
    /\ Quiet /\ backup = << >>
    /\ backup' = <<Files>>
    /\ UNCHANGED <<files, appended, pc, scheme, job, failed, published,
                   anchored, removed, reads, snap>>

\* All four files go back to an earlier, consistent state.
Restore ==
    /\ Incident("restore")
    /\ Quiet /\ removed = {}
    /\ backup # << >> /\ Len(backup[1].trail) < Len(trail)
    /\ trail' = backup[1].trail
    /\ attest' = backup[1].attest
    /\ sealkey' = backup[1].sealkey
    /\ sealagg' = backup[1].sealagg
    /\ removed' = RowsOf(trail) \ RowsOf(trail')
    /\ UNCHANGED <<appended, pc, scheme, job, failed, published, anchored,
                   backup, reads, snap>>

Next ==
    \/ \E w \in Writer :
          \/ \E s \in Schemes : Open(w, s)
          \/ CreateKey(w) \/ Close(w) \/ AppendRow(w)
          \/ ReadKey(w) \/ ReadKeyRaises(w)
          \/ ReadAggregate(w) \/ ReadAggregateRaises(w)
          \/ WriteKey(w) \/ WriteAggregate(w) \/ WriteLine(w)
          \/ WriteRaises(w) \/ Crash(w)
    \/ VerifierReads \/ VerifierEnds
    \/ AnchorAggregate
    \/ \E n \in 0 .. Len(trail) - 1 : Truncate(n)
    \/ TakeBackup \/ Restore

Spec == Init /\ [][Next]_vars

-----------------------------------------------------------------------------
(* Correctness.                                                            *)

\* No epoch key ever seals two rows, whichever processes race and wherever
\* they stop: "a second sealed writer ... never forges" (log/facade.py).  Only
\* an older keyfile put back by hand brings an old key back.
KeyUsedOnce ==
    ~Happened("restore") => \A a, b \in published :
        /\ SIG_SCHEME \notin {a.scheme, b.scheme}
        /\ a.value[1] = b.value[1]
        => a = b

\* An "ok" of a verification that runs beside the writers means that every
\* row it saw carries a seal: lost lines, crashes and desynced writers
\* never hide behind an ok, with a key or with a Verifier.
OkMeansSealed ==
    reads = 4 /\ "ok" \in {verify_sidecar(m, snap) : m \in {"key", "sig"}} =>
        RowsOf(snap.trail) \subseteq {a.entry_hash : a \in published}

\* No write failed, no process died, and nobody touched the files.
Healthy == removed = {} /\ \A k \in Faults : ~Happened(k)

\* Reading sidecar, trail, keyfile and aggregate at four different times
\* never makes a healthy trail look rewritten: the verdicts left are the
\* ones that say the sidecar and the trail are not level.
LiveVerdictIsHonest ==
    reads = 4 /\ Healthy =>
        verify_sidecar("key", snap) \in {"ok", "attestation_gap", "keyfile_missing",
                                         "keyfile_epoch_mismatch",
                                         "aggregate_epoch_mismatch"}

\* A broken seal verdict at rest was announced: some append raised
\* AttestationFailure ("a second sealed writer ... still fails loudly").
\* Restarts under another scheme are no reason for an alarm either.
NoAlarmWithoutFailure ==
    /\ Quiet /\ Healthy
    /\ \E w \in Writer : pc[w] = "idle"
    /\ verify_sidecar("key", Files) # "ok"
    => failed # {}

\* Cutting sealed rows off trail and sidecar is reported from then on,
\* however the trail grows: the keyfile's epoch does not go back.
TruncationIsReported ==
    /\ Happened("truncate")
    /\ removed \cap {a.entry_hash : a \in published} # {}
    => verify_sidecar("key", Files) # "ok"

\* What an anchor took of the aggregate while writers were at work verifies
\* once they rest, however far the trail has grown since.
AnchoredAggregatesVerify ==
    Quiet /\ Healthy =>
        \A a \in anchored : verify_anchored_aggregates(a) = "ok"

\* Putting back a consistent older copy of all files is caught by any anchor
\* that committed to a row it lost, also after the trail has grown again.
RollbackIsCaught ==
    \A a \in anchored :
        (\E i \in DOMAIN a.agg : a.agg[i][2][2] \in removed)
            => verify_anchored_aggregates(a) # "ok"

\* What the sidecars answer of the rows is never better than it is: no key is
\* used twice, and an ok leaves no row without its seal.
SealsAreSound == KeyUsedOnce /\ OkMeansSealed

\* History that was cut off or put back stays reported, by the keyfile's epoch
\* or by an anchor (check_continuity, verify_anchored_aggregates).
RewindIsCaught == TruncationIsReported /\ RollbackIsCaught
=============================================================================
