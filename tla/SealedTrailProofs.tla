-------------------------- MODULE SealedTrailProofs --------------------------
(***************************************************************************)
(* Proofs about SealedTrail, for any processes, rows, schemes and          *)
(* incidents: no epoch key ever seals two rows, and an ok of               *)
(* verify_sidecar leaves no row without its seal; what was cut off or put  *)
(* back stays reported; and one process whose writes succeed never makes   *)
(* its own trail look bad.                                                 *)
(***************************************************************************)
EXTENDS SealedTrail, NaturalsInduction, WellFoundedInduction, TLAPS

Value == (Nat \X Nat) \cup ({"sig"} \X Nat)

Att == [seq : Nat, entry_hash : Nat, scheme : Schemes, value : Value]

\* A keyfile's record names the epoch its key belongs to.
EpochKeys == {k \in [epoch : Nat, key : Nat] : k.key = k.epoch}

Agg == [agg_start : Nat, epoch : Nat, agg : Seq(Nat \X Value)]

Job == [seq : Nat, hash : Nat, key : Nat, prior : Seq(Agg)]

Where == {"off", "idle", "create", "key", "agg", "write_key", "write_agg", "line"}

\* A line of .attest, wherever a copy of it is kept, was published or torn.
Lines == published \cup {Malformed}

FileSet == [attest : Seq(Lines), trail : Seq(Nat), sealkey : Seq(EpochKeys),
            sealagg : Seq(Agg)]

\* The attestations under an epoch key.
Keyed == {a \in published : a.scheme # SIG_SCHEME}

\* The writer has a row to seal.
Live(w) == pc[w] \notin {"off", "idle", "create"}

\* The writer has read the key it seals with.
HasKey(w) ==
    \/ pc[w] \in {"agg", "write_key", "write_agg"}
    \/ pc[w] = "line" /\ scheme[w] # SIG_SCHEME

\* The writer has replaced the key it seals with.
HasEvolved(w) ==
    pc[w] = "write_agg" \/ (pc[w] = "line" /\ scheme[w] # SIG_SCHEME)

Shape ==
    /\ trail \in Seq(Nat)
    /\ appended \in Nat
    /\ sealkey \in Seq(EpochKeys)
    /\ sealagg \in Seq(Agg)
    /\ published \subseteq Att
    /\ attest \in Seq(Lines)
    /\ pc \in [Writer -> Where]
    /\ scheme \in [Writer -> Schemes]
    /\ job \in [Writer -> Job]
    /\ backup \in Seq(FileSet)
    /\ snap \in FileSet
    /\ reads \in 0 .. 4
    /\ incidents \in [Incidents -> Nat]
    /\ alone \in Writer \cup {Nobody}

\* A row is sealed under the key of its own seq.
KeysFit ==
    /\ \A w \in Writer : HasKey(w) => job[w].key = job[w].seq
    /\ \A a \in Keyed : a.value = <<a.seq, a.entry_hash>>

\* Where processes race nothing is cut off, so that the row of a seq is one
\* row, and it is sealed by the one process that appended it.
OwnRows ==
    /\ backup = << >>
    /\ Len(trail) = appended
    /\ \A i \in 1 .. Len(trail) : trail[i] = i
    /\ \A w \in Writer : Live(w) =>
          /\ job[w].hash = job[w].seq + 1
          /\ job[w].hash <= appended
          /\ \A u \in Writer : Live(u) /\ job[u].hash = job[w].hash => u = w
          /\ \A a \in published : a.entry_hash # job[w].hash
    /\ \A a \in published : a.entry_hash = a.seq + 1 /\ a.entry_hash <= appended
    /\ \A a, b \in published : a.entry_hash = b.entry_hash => a = b

\* Where one process seals, the keyfile is past every key that was used,
\* whatever was cut off trail and sidecar.
KeyMovesOn ==
    /\ pc[alone] = "create" => sealkey = << >>
    /\ HasKey(alone) => sealkey # << >>
    /\ HasKey(alone) /\ ~HasEvolved(alone) => sealkey[1].epoch = job[alone].seq
    /\ HasEvolved(alone) => /\ sealkey[1].epoch = job[alone].seq + 1
                            /\ \A a \in Keyed : a.seq < job[alone].seq
    /\ \A a \in Keyed : sealkey # << >> /\ a.seq < sealkey[1].epoch
    /\ \A a, b \in Keyed : a.seq = b.seq => a = b

RaceHolds == alone = Nobody => OwnRows

AloneHolds ==
    alone # Nobody =>
        /\ \A w \in Writer \ {alone} : pc[w] = "off"
        /\ ~Happened("restore") => KeyMovesOn

IInv == Shape /\ KeysFit /\ RaceHolds /\ AloneHolds

-----------------------------------------------------------------------------
(* Types and keys.                                                         *)

LEMMA InitHolds == TrailInit => IInv
<1> SUFFICES ASSUME TrailInit PROVE IInv
  OBVIOUS
<1>1. (CHOOSE s \in Schemes : TRUE) \in Schemes
  BY FileAttestorAssumption
<1>2. NoJob \in Job
  BY DEF NoJob, Job, InitialKey
<1>3. NoSnap \in FileSet
  BY DEF NoSnap, FileSet
<1>4. Shape
  BY <1>1, <1>2, <1>3 DEF TrailInit, Init, Shape, Where
<1>5. \A w \in Writer : pc[w] = "off"
  BY DEF TrailInit, Init
<1>6. published = {} /\ Keyed = {}
  BY DEF TrailInit, Init, Keyed
<1>7. KeysFit
  BY <1>5, <1>6 DEF KeysFit, HasKey
<1>8. RaceHolds
  BY <1>5, <1>6 DEF TrailInit, Init, RaceHolds, OwnRows, Live
<1>9. AloneHolds
  <2> SUFFICES ASSUME alone # Nobody PROVE pc[alone] = "off"
    BY <1>5, <1>6 DEF AloneHolds, KeyMovesOn, HasKey, HasEvolved
  <2> QED
    BY <1>5 DEF TrailInit
<1> QED
  BY <1>4, <1>7, <1>8, <1>9 DEF IInv

\* What was published stays a line.
LEMMA LinesStay ==
    ASSUME published \subseteq published'
    PROVE  /\ Seq(Lines) \subseteq Seq(Lines')
           /\ FileSet \subseteq FileSet'
           /\ Seq(FileSet) \subseteq Seq(FileSet')
<1>1. Lines \subseteq Lines'
  BY DEF Lines
<1>2. Seq(Lines) \subseteq Seq(Lines')
  BY <1>1
<1>3. FileSet \subseteq FileSet'
  BY <1>2 DEF FileSet
<1>4. Seq(FileSet) \subseteq Seq(FileSet')
  BY <1>3
<1> QED
  BY <1>2, <1>3, <1>4

LEMMA SameLines ==
    ASSUME published' = published
    PROVE  Lines' = Lines /\ FileSet' = FileSet /\ Keyed' = Keyed
BY DEF Lines, FileSet, Keyed

LEMMA FilesAreFiles == Shape => Files \in FileSet
BY DEF Shape, Files, FileSet

LEMMA IncidentCounts ==
    ASSUME Shape, NEW k, Incident(k)
    PROVE  incidents' \in [Incidents -> Nat]
BY DEF Shape, Incident

\* An attestation is well formed, and under its own key.
LEMMA AttestationIsAtt ==
    ASSUME Shape, KeysFit, NEW w \in Writer, pc[w] = "line"
    PROVE  /\ Attestation(w) \in Att
           /\ Attestation(w).seq = job[w].seq
           /\ Attestation(w).entry_hash = job[w].hash
           /\ Attestation(w).scheme = scheme[w]
           /\ scheme[w] # SIG_SCHEME =>
                Attestation(w).value = <<job[w].seq, job[w].hash>>
<1>1. /\ job[w].seq \in Nat /\ job[w].hash \in Nat /\ job[w].key \in Nat
      /\ scheme[w] \in Schemes
  BY DEF Shape, Job
<1>2. scheme[w] # SIG_SCHEME => job[w].key = job[w].seq
  BY DEF KeysFit, HasKey
<1>3. /\ sign(job[w].hash) \in Value
      /\ seal_entry(job[w].key, job[w].hash) \in Value
  BY <1>1 DEF Value, sign, seal_entry
<1> QED
  BY <1>1, <1>2, <1>3 DEF Attestation, Att, seal_entry

\* A writer's step keeps KeysFit where it takes no key and publishes nothing.
LEMMA KeysStay ==
    ASSUME Shape, KeysFit, published' = published, NEW w \in Writer,
           \A u \in Writer \ {w} : /\ pc'[u] = pc[u] /\ job'[u] = job[u]
                                   /\ scheme'[u] = scheme[u],
           HasKey(w)' => HasKey(w) /\ job'[w].key = job[w].key /\ job'[w].seq = job[w].seq
    PROVE  KeysFit'
<1>1. ASSUME NEW u \in Writer, HasKey(u)' PROVE job'[u].key = job'[u].seq
  <2>1. CASE u = w
    BY <1>1, <2>1 DEF KeysFit
  <2>2. CASE u # w
    BY <1>1, <2>2 DEF KeysFit, HasKey
  <2> QED
    BY <2>1, <2>2
<1>2. Keyed' = Keyed
  BY SameLines
<1> QED
  BY <1>1, <1>2 DEF KeysFit

LEMMA WriterKeepsTypes ==
    ASSUME Shape, KeysFit, UNCHANGED alone, NEW w \in Writer,
           \/ \E s \in Schemes : Open(w, s)
           \/ CreateKey(w) \/ Close(w) \/ AppendRow(w)
           \/ ReadKey(w) \/ ReadKeyRaises(w)
           \/ ReadAggregate(w) \/ ReadAggregateRaises(w)
           \/ WriteKey(w) \/ WriteAggregate(w) \/ WriteLine(w)
           \/ WriteRaises(w) \/ Crash(w)
    PROVE  Shape' /\ KeysFit'
<1> USE DEF Goto
<1>0. /\ job[w] \in Job /\ pc[w] \in Where /\ scheme[w] \in Schemes
      /\ job[w].seq \in Nat /\ job[w].hash \in Nat /\ job[w].key \in Nat
      /\ job[w].prior \in Seq(Agg)
      /\ NoJob \in Job
  BY DEF Shape, Job, NoJob, InitialKey
<1>1. ASSUME NEW s \in Schemes, Open(w, s) PROVE Shape' /\ KeysFit'
  <2>1. pc'[w] \in {"create", "idle"} /\ published' = published
    BY <1>1 DEF Open, Shape
  <2>2. Shape'
    BY <1>1, SameLines DEF Open, Shape, Where, files
  <2>3. ~HasKey(w)'
    BY <2>1 DEF HasKey
  <2> QED
    BY <1>1, <2>1, <2>2, <2>3, KeysStay DEF Open, Shape
<1>2. CASE CreateKey(w)
  <2>1. sealkey' \in Seq(EpochKeys)
    BY <1>2 DEF CreateKey, EpochKeys, InitialKey
  <2>2. Shape'
    BY <1>2, <2>1, SameLines DEF CreateKey, Shape, Where
  <2>3. ~HasKey(w)'
    BY <1>2 DEF HasKey, CreateKey, Shape
  <2> QED
    BY <1>2, <2>2, <2>3, KeysStay DEF CreateKey, Shape
<1>3. CASE Close(w)
  <2>1. incidents' \in [Incidents -> Nat]
    BY <1>3, IncidentCounts DEF Close
  <2>2. Shape'
    BY <1>3, <2>1, SameLines DEF Close, Shape, Where, files
  <2>3. ~HasKey(w)'
    BY <1>3 DEF HasKey, Close, Shape
  <2> QED
    BY <1>3, <2>2, <2>3, KeysStay DEF Close, Shape
<1>4. CASE AppendRow(w)
  <2>0. Len(trail) \in Nat /\ appended + 1 \in Nat
    BY DEF Shape
  <2>1. [NoJob EXCEPT !.seq = Len(trail), !.hash = appended + 1] \in Job
    BY <1>0, <2>0 DEF Job
  <2>a. trail' \in Seq(Nat) /\ appended' \in Nat
    BY <1>4, <2>0 DEF AppendRow, Shape
  <2>2. Shape'
    BY <1>4, <2>1, <2>a, SameLines DEF AppendRow, Shape, Where
  <2>3. ~HasKey(w)'
    BY <1>4 DEF HasKey, AppendRow, Shape
  <2> QED
    BY <1>4, <2>2, <2>3, KeysStay DEF AppendRow, Shape
<1>5. CASE ReadKey(w)
  <2>1. /\ sealkey[1] \in EpochKeys /\ sealkey[1].key = job[w].seq
        /\ sealkey[1].key \in Nat
    BY <1>5 DEF ReadKey, KeyFits, EpochMatches, Shape, EpochKeys
  <2>2. /\ [job[w] EXCEPT !.key = sealkey[1].key] \in Job
        /\ job'[w] = [job[w] EXCEPT !.key = sealkey[1].key]
    BY <1>0, <1>5, <2>1 DEF ReadKey, Shape, Job
  <2>3. Shape'
    BY <1>5, <2>2, SameLines DEF ReadKey, Shape, Where, files
  <2>4. job'[w].key = job'[w].seq
    BY <1>0, <2>1, <2>2 DEF Job
  <2>5. ASSUME NEW u \in Writer, HasKey(u)' PROVE job'[u].key = job'[u].seq
    <3>1. CASE u # w
      BY <1>5, <2>5, <3>1 DEF ReadKey, KeysFit, HasKey, Shape
    <3> QED
      BY <2>4, <3>1
  <2> QED
    BY <1>5, <2>3, <2>5, SameLines DEF ReadKey, KeysFit
<1>6. CASE ReadKeyRaises(w) \/ ReadAggregateRaises(w)
  <2>1. pc' = [pc EXCEPT ![w] = "idle"] /\ job' = [job EXCEPT ![w] = NoJob]
    BY <1>6 DEF ReadKeyRaises, ReadAggregateRaises, Raise
  <2>2. /\ UNCHANGED <<files, appended, scheme, published, backup, reads, snap, incidents>>
    BY <1>6 DEF ReadKeyRaises, ReadAggregateRaises
  <2>3. Shape'
    BY <1>0, <2>1, <2>2, SameLines DEF Shape, Where, files
  <2>4. ~HasKey(w)'
    BY <2>1 DEF HasKey, Shape
  <2> QED
    BY <2>1, <2>2, <2>3, <2>4, KeysStay DEF Shape
<1>7. CASE ReadAggregate(w)
  <2>1. /\ [job[w] EXCEPT !.prior = sealagg] \in Job
        /\ job'[w] = [job[w] EXCEPT !.prior = sealagg]
    BY <1>0, <1>7 DEF ReadAggregate, Shape, Job
  <2>2. job'[w].key = job[w].key /\ job'[w].seq = job[w].seq
    BY <1>0, <2>1 DEF Job
  <2>3. Shape'
    BY <1>7, <2>1, SameLines DEF ReadAggregate, Shape, Where, files
  <2>4. HasKey(w)
    BY <1>7 DEF HasKey, ReadAggregate
  <2> QED
    BY <1>7, <2>2, <2>3, <2>4, KeysStay DEF ReadAggregate, Shape
<1>8. CASE WriteKey(w)
  <2>1. HasKey(w) /\ job[w].key = job[w].seq
    BY <1>8 DEF HasKey, WriteKey, KeysFit
  <2>2. sealkey' \in Seq(EpochKeys)
    BY <1>0, <1>8, <2>1 DEF WriteKey, EpochKeys, evolve_key
  <2>3. Shape'
    BY <1>8, <2>2, SameLines DEF WriteKey, Shape, Where
  <2> QED
    BY <1>8, <2>1, <2>3, KeysStay DEF WriteKey, Shape
<1>9. CASE WriteAggregate(w)
  <2>1. Attestation(w).value \in Value
    BY <1>0 DEF Attestation, Value, sign, seal_entry
  <2>2. job[w].prior # << >> => job[w].prior[1] \in Agg
    BY <1>0
  <2>3. AggregateStart(w) \in Nat
    BY <1>0, <2>2 DEF AggregateStart, Agg
  <2>4. (IF job[w].prior = << >> THEN AGG_GENESIS ELSE job[w].prior[1].agg)
            \in Seq(Nat \X Value)
    BY <2>2 DEF AGG_GENESIS, Agg
  <2>5. Running(w) \in Seq(Nat \X Value)
    BY <1>0, <2>1, <2>4 DEF Running, aggregate_step
  <2>6. sealagg' \in Seq(Agg)
    BY <1>0, <1>9, <2>3, <2>5 DEF WriteAggregate, Agg
  <2>7. Shape'
    BY <1>9, <2>6, SameLines DEF WriteAggregate, Shape, Where
  <2>8. HasKey(w)
    BY <1>9 DEF HasKey, WriteAggregate
  <2> QED
    BY <1>9, <2>7, <2>8, KeysStay DEF WriteAggregate, Shape
<1>10. CASE WriteLine(w)
  <2>1. PICK a \in Att : a = Attestation(w)
    BY <1>10, AttestationIsAtt DEF WriteLine
  <2>2. /\ a.seq = job[w].seq /\ a.entry_hash = job[w].hash /\ a.scheme = scheme[w]
        /\ a.scheme # SIG_SCHEME => a.value = <<a.seq, a.entry_hash>>
    BY <1>10, <2>1, AttestationIsAtt DEF WriteLine
  <2>3. published' = published \cup {a} /\ attest' = Append(attest, a)
    BY <1>10, <2>1 DEF WriteLine
  <2>4. attest' \in Seq(Lines')
    <3>1. attest \in Seq(Lines') /\ a \in Lines'
      BY <2>3, LinesStay DEF Shape, Lines
    <3> QED
      BY <2>3, <3>1
  <2>5. backup' \in Seq(FileSet') /\ snap' \in FileSet'
    BY <1>10, <2>3, LinesStay DEF WriteLine, Shape
  <2>6. Shape'
    BY <1>0, <1>10, <2>3, <2>4, <2>5 DEF WriteLine, Shape, Where
  <2>7. ASSUME NEW u \in Writer, HasKey(u)' PROVE job'[u].key = job'[u].seq
    <3>1. u # w
      BY <1>10, <2>7 DEF WriteLine, HasKey, Shape
    <3> QED
      BY <1>10, <2>7, <3>1 DEF WriteLine, KeysFit, HasKey, Shape
  <2>8. ASSUME NEW b \in Keyed' PROVE b.value = <<b.seq, b.entry_hash>>
    BY <2>2, <2>3, <2>8 DEF Keyed, KeysFit
  <2> QED
    BY <2>6, <2>7, <2>8 DEF KeysFit
<1>11. CASE WriteRaises(w)
  <2>1. pc' = [pc EXCEPT ![w] = "idle"] /\ job' = [job EXCEPT ![w] = NoJob]
    BY <1>11 DEF WriteRaises, Raise
  <2>2. UNCHANGED <<trail, sealkey, sealagg, appended, scheme, published, backup, reads, snap>>
    BY <1>11 DEF WriteRaises
  <2>3. incidents' \in [Incidents -> Nat]
    BY <1>11, IncidentCounts DEF WriteRaises
  <2>4. attest' \in Seq(Lines)
    <3>1. Malformed \in Lines /\ attest \in Seq(Lines)
      BY DEF Lines, Shape
    <3> QED
      BY <1>11, <3>1 DEF WriteRaises
  <2>5. Shape'
    BY <1>0, <2>1, <2>2, <2>3, <2>4, SameLines DEF Shape, Where
  <2>6. ~HasKey(w)'
    BY <2>1 DEF HasKey, Shape
  <2> QED
    BY <2>1, <2>2, <2>5, <2>6, KeysStay DEF Shape
<1>12. CASE Crash(w)
  <2>1. incidents' \in [Incidents -> Nat]
    BY <1>12, IncidentCounts DEF Crash
  <2>2. Shape'
    BY <1>0, <1>12, <2>1, SameLines DEF Crash, Shape, Where, files
  <2>3. ~HasKey(w)'
    BY <1>12 DEF HasKey, Crash, Shape
  <2> QED
    BY <1>12, <2>2, <2>3, KeysStay DEF Crash, Shape
<1> QED
  BY <1>1, <1>2, <1>3, <1>4, <1>5, <1>6, <1>7, <1>8, <1>9, <1>10, <1>11, <1>12

LEMMA CutSequence ==
    ASSUME NEW S, NEW s \in Seq(S), NEW m \in Nat, m <= Len(s)
    PROVE  /\ SubSeq(s, 1, m) \in Seq(S) /\ Len(SubSeq(s, 1, m)) = m
           /\ \A i \in 1 .. m : SubSeq(s, 1, m)[i] = s[i]
<1>1. \A i \in 1 .. m : s[i] \in S
  OBVIOUS
<1> QED
  BY <1>1

\* The verifier, an anchor and changes out of band move no writer.
LEMMA OthersKeepTypes ==
    ASSUME Shape, KeysFit, UNCHANGED alone,
           \/ VerifierReads \/ VerifierEnds \/ AnchorAggregate
           \/ \E n \in 0 .. Len(trail) - 1 : Truncate(n)
           \/ TakeBackup \/ Restore
    PROVE  Shape' /\ KeysFit'
<1>1. UNCHANGED <<appended, pc, scheme, job, published>>
  BY DEF VerifierReads, VerifierEnds, AnchorAggregate, Truncate, TakeBackup, Restore
<1>2. KeysFit'
  BY <1>1, SameLines DEF KeysFit, HasKey
<1>3. Lines' = Lines /\ FileSet' = FileSet
  BY <1>1, SameLines
<1>4. Files \in FileSet
  BY FilesAreFiles
<1>5. CASE VerifierReads
  <2>1. incidents' \in [Incidents -> Nat]
    BY <1>5, IncidentCounts DEF VerifierReads, Shape
  <2>2. ReadOrder[reads + 1] \in {"attest", "trail", "sealkey", "sealagg"}
    <3>1. reads = 0 \/ reads = 1 \/ reads = 2 \/ reads = 3
      BY <1>5 DEF VerifierReads, Shape
    <3> QED
      BY <3>1 DEF ReadOrder
  <2>3. PICK f \in {"attest", "trail", "sealkey", "sealagg"} :
             snap' = [snap EXCEPT ![f] = Files[f]]
    BY <1>5, <2>2 DEF VerifierReads
  <2>4. /\ snap.attest \in Seq(Lines) /\ snap.trail \in Seq(Nat)
        /\ snap.sealkey \in Seq(EpochKeys) /\ snap.sealagg \in Seq(Agg)
        /\ attest \in Seq(Lines) /\ trail \in Seq(Nat)
        /\ sealkey \in Seq(EpochKeys) /\ sealagg \in Seq(Agg)
        /\ snap = [attest |-> snap.attest, trail |-> snap.trail,
                   sealkey |-> snap.sealkey, sealagg |-> snap.sealagg]
    BY DEF Shape, FileSet
  <2>5. snap' \in FileSet
    <3>1. CASE f = "attest"
      BY <2>3, <2>4, <3>1 DEF FileSet, Files
    <3>2. CASE f = "trail"
      BY <2>3, <2>4, <3>2 DEF FileSet, Files
    <3>3. CASE f = "sealkey"
      BY <2>3, <2>4, <3>3 DEF FileSet, Files
    <3>4. CASE f = "sealagg"
      BY <2>3, <2>4, <3>4 DEF FileSet, Files
    <3> QED
      BY <3>1, <3>2, <3>3, <3>4
  <2>6. reads' \in 0 .. 4
    BY <1>5 DEF VerifierReads, Shape
  <2> QED
    BY <1>2, <1>3, <1>5, <2>1, <2>5, <2>6 DEF VerifierReads, Shape, files
<1>6. CASE VerifierEnds
  <2>1. NoSnap \in FileSet
    BY DEF NoSnap, FileSet
  <2> QED
    BY <1>2, <1>3, <1>6, <2>1 DEF VerifierEnds, Shape, files
<1>7. CASE AnchorAggregate
  <2>1. incidents' \in [Incidents -> Nat]
    BY <1>7, IncidentCounts DEF AnchorAggregate
  <2> QED
    BY <1>2, <1>3, <1>7, <2>1 DEF AnchorAggregate, Shape, files
<1>8. ASSUME NEW n \in 0 .. Len(trail) - 1, Truncate(n) PROVE Shape'
  <2>1. incidents' \in [Incidents -> Nat]
    BY <1>8, IncidentCounts DEF Truncate
  <2>2. trail' \in Seq(Nat)
    <3>1. trail \in Seq(Nat) /\ n \in Nat /\ n <= Len(trail)
      BY <1>8 DEF Shape
    <3> QED
      BY <1>8, <3>1, CutSequence DEF Truncate
  <2>3. attest' \in Seq(Lines)
    <3>1. attest \in Seq(Lines) /\ n \in Nat /\ Len(attest) \in Nat
      BY <1>8 DEF Shape
    <3>2. CASE n < Len(attest)
      BY <1>8, <3>1, <3>2, CutSequence DEF Truncate
    <3>3. CASE ~(n < Len(attest))
      BY <1>8, <3>1, <3>3, CutSequence DEF Truncate
    <3> QED
      BY <3>2, <3>3
  <2> QED
    BY <1>1, <1>3, <1>8, <2>1, <2>2, <2>3 DEF Truncate, Shape
<1>9. CASE TakeBackup
  <2>1. incidents' \in [Incidents -> Nat]
    BY <1>9, IncidentCounts DEF TakeBackup
  <2>2. backup' \in Seq(FileSet)
    BY <1>4, <1>9 DEF TakeBackup
  <2> QED
    BY <1>2, <1>3, <1>9, <2>1, <2>2 DEF TakeBackup, Shape, files
<1>10. CASE Restore
  <2>1. incidents' \in [Incidents -> Nat]
    BY <1>10, IncidentCounts DEF Restore
  <2>2. backup[1] \in FileSet
    BY <1>10 DEF Restore, Shape
  <2> QED
    BY <1>2, <1>3, <1>10, <2>1, <2>2 DEF Restore, Shape, FileSet
<1> QED
  BY <1>2, <1>5, <1>6, <1>7, <1>8, <1>9, <1>10

LEMMA TypesKept ==
    ASSUME Shape, KeysFit, TrailNext
    PROVE  Shape' /\ KeysFit'
BY WriterKeepsTypes, OthersKeepTypes DEF TrailNext, Next

-----------------------------------------------------------------------------
(* Processes that race.                                                    *)

\* A step that stores and publishes nothing keeps the rows and their owners.
LEMMA OwnersStay ==
    ASSUME OwnRows, UNCHANGED <<backup, trail, appended, published>>,
           \A w \in Writer : Live(w)' => /\ Live(w)
                                         /\ job'[w].seq = job[w].seq
                                         /\ job'[w].hash = job[w].hash
    PROVE  OwnRows'
<1>1. ASSUME NEW w \in Writer, Live(w)'
      PROVE  /\ job'[w].hash = job'[w].seq + 1
             /\ job'[w].hash <= appended'
             /\ \A u \in Writer : Live(u)' /\ job'[u].hash = job'[w].hash => u = w
             /\ \A a \in published' : a.entry_hash # job'[w].hash
  BY <1>1 DEF OwnRows
<1> QED
  BY <1>1 DEF OwnRows

\* The writers that stay where they are keep their rows.
LEMMA OneMoves ==
    ASSUME NEW w \in Writer,
           \A u \in Writer \ {w} : pc'[u] = pc[u] /\ job'[u] = job[u],
           Live(w)' => /\ Live(w) /\ job'[w].seq = job[w].seq
                       /\ job'[w].hash = job[w].hash
    PROVE  \A u \in Writer : Live(u)' => /\ Live(u)
                                         /\ job'[u].seq = job[u].seq
                                         /\ job'[u].hash = job[u].hash
<1> SUFFICES ASSUME NEW u \in Writer, Live(u)'
             PROVE  /\ Live(u) /\ job'[u].seq = job[u].seq /\ job'[u].hash = job[u].hash
  OBVIOUS
<1>1. CASE u # w
  BY <1>1 DEF Live
<1> QED
  BY <1>1

LEMMA RaceKept ==
    ASSUME IInv, TrailNext
    PROVE  RaceHolds'
<1> SUFFICES ASSUME alone = Nobody, alone' = Nobody PROVE OwnRows'
  BY DEF TrailNext, RaceHolds
<1> USE DEF Goto
<1>0. /\ Shape /\ KeysFit /\ OwnRows /\ removed' = {} /\ backup' = backup
      /\ trail \in Seq(Nat) /\ pc \in [Writer -> Where] /\ job \in [Writer -> Job]
      /\ appended \in Nat
  BY DEF IInv, RaceHolds, TrailNext, Shape
<1>1. ASSUME NEW w \in Writer,
             \/ \E s \in Schemes : Open(w, s)
             \/ CreateKey(w) \/ Close(w)
             \/ ReadKeyRaises(w) \/ ReadAggregateRaises(w) \/ WriteRaises(w) \/ Crash(w)
      PROVE  OwnRows'
  <2>1. UNCHANGED <<backup, trail, appended, published>>
    BY <1>1 DEF Open, CreateKey, Close, ReadKeyRaises, ReadAggregateRaises, WriteRaises,
                Crash, files
  <2>2. /\ \A u \in Writer \ {w} : pc'[u] = pc[u] /\ job'[u] = job[u]
        /\ pc'[w] \in {"off", "idle", "create"}
    BY <1>0, <1>1 DEF Open, CreateKey, Close, ReadKeyRaises, ReadAggregateRaises, WriteRaises,
                Crash, Raise
  <2>3. ~Live(w)'
    BY <2>2 DEF Live
  <2> QED
    BY <1>0, <2>1, <2>2, <2>3, OwnersStay, OneMoves
<1>2. ASSUME NEW w \in Writer,
             ReadKey(w) \/ ReadAggregate(w) \/ WriteKey(w) \/ WriteAggregate(w)
      PROVE  OwnRows'
  <2>1. UNCHANGED <<backup, trail, appended, published>>
    BY <1>2 DEF ReadKey, ReadAggregate, WriteKey, WriteAggregate, files
  <2>2. \A u \in Writer \ {w} : pc'[u] = pc[u] /\ job'[u] = job[u]
    BY <1>0, <1>2 DEF ReadKey, ReadAggregate, WriteKey, WriteAggregate
  <2>3. Live(w)
    BY <1>2 DEF ReadKey, ReadAggregate, WriteKey, WriteAggregate, Live
  <2>4. job[w] \in Job
    BY <1>0
  <2>5. job'[w].seq = job[w].seq /\ job'[w].hash = job[w].hash
    <3>1. CASE ReadKey(w)
      BY <1>0, <2>4, <3>1 DEF ReadKey, Job
    <3>2. CASE ReadAggregate(w)
      BY <1>0, <2>4, <3>2 DEF ReadAggregate, Job
    <3> QED
      BY <1>2, <3>1, <3>2 DEF WriteKey, WriteAggregate
  <2> QED
    BY <1>0, <2>1, <2>2, <2>3, <2>5, OwnersStay, OneMoves
<1>3. ASSUME NEW w \in Writer, AppendRow(w)
      PROVE  OwnRows'
  <2>1. /\ job'[w].seq = appended /\ job'[w].hash = appended + 1
        /\ \A u \in Writer \ {w} : pc'[u] = pc[u] /\ job'[u] = job[u]
        /\ appended' = appended + 1 /\ published' = published
    BY <1>0, <1>3 DEF AppendRow, NoJob, OwnRows
  <2>2. \A a \in published : a.entry_hash = a.seq + 1 /\ a.entry_hash <= appended
    BY <1>0 DEF OwnRows
  <2>3. \A a \in published : a.entry_hash \in Nat
    BY <1>0 DEF Shape, Att
  <2>4. \A u \in Writer \ {w} : Live(u)' => /\ Live(u) /\ job[u].hash <= appended
                                            /\ job[u].hash = job[u].seq + 1
                                            /\ job[u].hash \in Nat
                                            /\ \A a \in published : a.entry_hash # job[u].hash
    BY <1>0, <2>1 DEF Live, OwnRows, Job
  <2>5. /\ Len(trail') = appended'
        /\ \A i \in 1 .. Len(trail') : trail'[i] = i
    BY <1>0, <1>3 DEF AppendRow, OwnRows
  <2>6. ASSUME NEW u \in Writer, Live(u)'
        PROVE  /\ job'[u].hash = job'[u].seq + 1
               /\ job'[u].hash <= appended'
               /\ \A v \in Writer : Live(v)' /\ job'[v].hash = job'[u].hash => v = u
               /\ \A a \in published' : a.entry_hash # job'[u].hash
    <3>1. CASE u = w
      <4>1. ASSUME NEW v \in Writer \ {w}, Live(v)' PROVE job'[v].hash # appended + 1
        BY <1>0, <2>1, <2>4, <4>1
      <4>2. \A a \in published : a.entry_hash # appended + 1
        BY <1>0, <2>2, <2>3
      <4> QED
        BY <1>0, <2>1, <3>1, <4>1, <4>2
    <3>2. CASE u # w
      <4>1. job[u].hash # appended + 1
        BY <1>0, <2>4, <2>6, <3>2
      <4>2. ASSUME NEW v \in Writer, Live(v)', job'[v].hash = job'[u].hash PROVE v = u
        <5>1. v # w
          BY <2>1, <3>2, <4>1, <4>2
        <5> QED
          BY <1>0, <2>1, <2>4, <2>6, <3>2, <4>2, <5>1 DEF OwnRows
      <4>3. job[u].hash <= appended + 1
        BY <1>0, <2>4, <2>6, <3>2
      <4> QED
        BY <2>1, <2>4, <2>6, <3>2, <4>2, <4>3
    <3> QED
      BY <3>1, <3>2
  <2>7. \A a \in published' : a.entry_hash = a.seq + 1 /\ a.entry_hash <= appended'
    BY <1>0, <2>1, <2>2, <2>3
  <2>8. \A a, b \in published' : a.entry_hash = b.entry_hash => a = b
    BY <1>0, <2>1 DEF OwnRows
  <2>9. backup' = << >>
    BY <1>0 DEF OwnRows
  <2> QED
    BY <2>5, <2>6, <2>7, <2>8, <2>9 DEF OwnRows
<1>4. ASSUME NEW w \in Writer, WriteLine(w)
      PROVE  OwnRows'
  <2>1. PICK a \in Att : a = Attestation(w)
    BY <1>0, <1>4, AttestationIsAtt DEF WriteLine
  <2>2. a.seq = job[w].seq /\ a.entry_hash = job[w].hash
    BY <1>0, <1>4, <2>1, AttestationIsAtt DEF WriteLine
  <2>3. /\ published' = published \cup {a}
        /\ UNCHANGED <<trail, appended, backup>>
        /\ \A u \in Writer \ {w} : pc'[u] = pc[u] /\ job'[u] = job[u]
        /\ pc'[w] = "idle"
    BY <1>0, <1>4, <2>1 DEF WriteLine
  <2>4. Live(w)
    BY <1>4 DEF WriteLine, Live
  <2>5. ASSUME NEW u \in Writer, Live(u)'
        PROVE  /\ u # w /\ Live(u) /\ job'[u] = job[u] /\ job[u].hash # a.entry_hash
    BY <1>0, <2>2, <2>3, <2>4, <2>5 DEF Live, OwnRows
  <2>6. ASSUME NEW u \in Writer, Live(u)'
        PROVE  /\ job'[u].hash = job'[u].seq + 1
               /\ job'[u].hash <= appended'
               /\ \A v \in Writer : Live(v)' /\ job'[v].hash = job'[u].hash => v = u
               /\ \A b \in published' : b.entry_hash # job'[u].hash
    BY <1>0, <2>3, <2>5, <2>6 DEF OwnRows
  <2>7. \A b \in published' : b.entry_hash = b.seq + 1 /\ b.entry_hash <= appended'
    BY <1>0, <2>2, <2>3, <2>4 DEF OwnRows
  <2>8. \A b, c \in published' : b.entry_hash = c.entry_hash => b = c
    BY <1>0, <2>2, <2>3, <2>4 DEF OwnRows
  <2> QED
    BY <1>0, <2>3, <2>6, <2>7, <2>8 DEF OwnRows
<1>5. CASE VerifierReads \/ VerifierEnds \/ AnchorAggregate
  <2>1. UNCHANGED <<backup, trail, appended, published, pc, job>>
    BY <1>5 DEF VerifierReads, VerifierEnds, AnchorAggregate, files
  <2> QED
    BY <1>0, <2>1, OwnersStay DEF Live
<1>6. ASSUME NEW n \in 0 .. Len(trail) - 1, Truncate(n) PROVE FALSE
  <2>1. /\ n \in Nat /\ n < Len(trail) /\ Len(trail) \in Nat
        /\ trail' = SubSeq(trail, 1, n) /\ removed' = RowsOf(trail) \ RowsOf(trail')
    BY <1>0, <1>6 DEF Truncate
  <2>2. DOMAIN trail' = 1 .. n /\ \A i \in 1 .. n : trail'[i] = i
    <3>1. trail' \in Seq(Nat) /\ Len(trail') = n /\ \A i \in 1 .. n : trail'[i] = trail[i]
      BY <1>0, <2>1, CutSequence
    <3> QED
      BY <1>0, <2>1, <3>1 DEF OwnRows
  <2>3. Len(trail) \in RowsOf(trail)
    BY <1>0, <2>1 DEF RowsOf, OwnRows
  <2>4. Len(trail) \notin RowsOf(trail)'
    BY <2>1, <2>2 DEF RowsOf
  <2> QED
    BY <1>0, <2>1, <2>3, <2>4 DEF RowsOf
<1>7. CASE TakeBackup
  BY <1>0, <1>7 DEF TakeBackup
<1>8. CASE Restore
  BY <1>0, <1>8 DEF Restore, OwnRows
<1> QED
  BY <1>1, <1>2, <1>3, <1>4, <1>5, <1>6, <1>7, <1>8 DEF TrailNext, Next

-----------------------------------------------------------------------------
(* One process.                                                            *)

\* What happened has happened.
LEMMA IncidentsStay ==
    ASSUME Shape, Next, NEW kind, Happened(kind)
    PROVE  Happened(kind)'
<1>1. incidents' = incidents \/ \E k \in Incidents : incidents' = [incidents EXCEPT ![k] = @ + 1]
  <2>1. ASSUME NEW w \in Writer,
               \/ \E s \in Schemes : Open(w, s)
               \/ CreateKey(w) \/ AppendRow(w)
               \/ ReadKey(w) \/ ReadKeyRaises(w)
               \/ ReadAggregate(w) \/ ReadAggregateRaises(w)
               \/ WriteKey(w) \/ WriteAggregate(w) \/ WriteLine(w)
        PROVE  incidents' = incidents
    BY <2>1 DEF Open, CreateKey, AppendRow, ReadKey, ReadKeyRaises, ReadAggregate,
                ReadAggregateRaises, WriteKey, WriteAggregate, WriteLine
  <2>2. ASSUME NEW w \in Writer, Close(w) \/ WriteRaises(w) \/ Crash(w)
        PROVE  \E k \in Incidents : incidents' = [incidents EXCEPT ![k] = @ + 1]
    BY <2>2 DEF Close, WriteRaises, Crash, Incident
  <2>3. ASSUME VerifierReads \/ VerifierEnds \/ AnchorAggregate
               \/ (\E n \in 0 .. Len(trail) - 1 : Truncate(n)) \/ TakeBackup \/ Restore
        PROVE  incidents' = incidents
               \/ \E k \in Incidents : incidents' = [incidents EXCEPT ![k] = @ + 1]
    BY <2>3 DEF VerifierReads, VerifierEnds, AnchorAggregate, Truncate, TakeBackup, Restore,
                Incident
  <2> QED
    BY <2>1, <2>2, <2>3 DEF Next
<1>2. incidents \in [Incidents -> Nat]
  BY DEF Shape
<1> QED
  BY <1>1, <1>2 DEF Happened

\* Where the keyfile and the attestations stay, the writer has to be where the
\* keyfile is.
LEMMA KeyStays ==
    ASSUME Shape, KeyMovesOn, UNCHANGED <<sealkey, published, alone>>,
           pc'[alone] = "create" => sealkey = << >>,
           HasKey(alone)' => /\ HasKey(alone) /\ (HasEvolved(alone)' <=> HasEvolved(alone))
                             /\ job'[alone].seq = job[alone].seq
    PROVE  KeyMovesOn'
<1>1. Keyed' = Keyed
  BY SameLines
<1>2. HasEvolved(alone)' => HasKey(alone)'
  BY DEF HasEvolved, HasKey
<1> QED
  BY <1>1, <1>2 DEF KeyMovesOn

LEMMA AloneKept ==
    ASSUME IInv, TrailNext
    PROVE  AloneHolds'
<1> SUFFICES ASSUME alone # Nobody, alone' = alone PROVE AloneHolds'
  BY DEF TrailNext, AloneHolds
<1> USE DEF Goto
<1>0. /\ Shape /\ KeysFit /\ alone \in Writer
      /\ pc \in [Writer -> Where] /\ job \in [Writer -> Job] /\ scheme \in [Writer -> Schemes]
      /\ sealkey \in Seq(EpochKeys) /\ published \subseteq Att
      /\ job[alone] \in Job /\ job[alone].seq \in Nat
  BY DEF IInv, Shape, Job
<1>1. /\ \A w \in Writer \ {alone} : pc[w] = "off" /\ pc'[w] = "off"
  BY DEF IInv, AloneHolds, TrailNext
<1> SUFFICES ASSUME ~Happened("restore")' PROVE KeyMovesOn'
  BY <1>1 DEF AloneHolds
<1>2. KeyMovesOn
  BY <1>0, IncidentsStay DEF IInv, AloneHolds, TrailNext
<1>3. ASSUME NEW w \in Writer, w # alone,
             \/ \E s \in Schemes : Open(w, s)
             \/ CreateKey(w) \/ Close(w) \/ AppendRow(w)
             \/ ReadKey(w) \/ ReadKeyRaises(w)
             \/ ReadAggregate(w) \/ ReadAggregateRaises(w)
             \/ WriteKey(w) \/ WriteAggregate(w) \/ WriteLine(w)
             \/ WriteRaises(w) \/ Crash(w)
      PROVE  FALSE
  <2>1. pc[w] = "off" /\ pc'[w] = "off"
    BY <1>1, <1>3
  <2>2. PICK s \in Schemes : Open(w, s)
    BY <1>3, <2>1 DEF CreateKey, Close, AppendRow, ReadKey, ReadKeyRaises, ReadAggregate,
          ReadAggregateRaises, WriteKey, WriteAggregate, WriteLine, WriteRaises, Crash
  <2>3. pc'[w] # "off"
    BY <1>0, <2>2 DEF Open
  <2> QED
    BY <2>1, <2>3
<1>4. ASSUME \/ \E s \in Schemes : Open(alone, s)
             \/ Close(alone) \/ AppendRow(alone)
             \/ ReadKeyRaises(alone) \/ ReadAggregateRaises(alone)
             \/ WriteRaises(alone) \/ Crash(alone)
      PROVE  KeyMovesOn'
  <2>1. sealkey' = sealkey /\ published' = published
    BY <1>4 DEF Open, Close, AppendRow, ReadKeyRaises, ReadAggregateRaises, WriteRaises,
                Crash, files
  <2>2. pc'[alone] = "create" => sealkey = << >>
    BY <1>0, <1>4 DEF Open, Close, AppendRow, ReadKeyRaises, ReadAggregateRaises, WriteRaises,
                Crash, Raise
  <2>3. ~HasKey(alone)'
    <3>1. CASE \E s \in Schemes : Open(alone, s)
      BY <1>0, <3>1 DEF Open, HasKey
    <3>2. CASE AppendRow(alone)
      BY <1>0, <3>2 DEF AppendRow, HasKey
    <3>3. CASE \/ Close(alone) \/ ReadKeyRaises(alone) \/ ReadAggregateRaises(alone)
               \/ WriteRaises(alone) \/ Crash(alone)
      BY <1>0, <3>3 DEF Close, ReadKeyRaises, ReadAggregateRaises, WriteRaises, Crash, Raise,
                        HasKey
    <3> QED
      BY <1>4, <3>1, <3>2, <3>3
  <2> QED
    BY <1>0, <1>2, <2>1, <2>2, <2>3, KeyStays
<1>5. CASE CreateKey(alone)
  <2>1. sealkey = << >> /\ Keyed = {}
    BY <1>2, <1>5 DEF CreateKey, KeyMovesOn
  <2>2. Keyed' = {}
    BY <1>5, <2>1, SameLines DEF CreateKey
  <2>3. pc'[alone] = "idle"
    BY <1>0, <1>5 DEF CreateKey
  <2> QED
    BY <2>2, <2>3 DEF KeyMovesOn, HasKey, HasEvolved
<1>6. CASE ReadKey(alone)
  <2>1. /\ UNCHANGED <<sealkey, published>> /\ sealkey # << >>
        /\ sealkey[1].epoch = job[alone].seq
    BY <1>6 DEF ReadKey, KeyFits, EpochMatches, files
  <2>2. job'[alone].seq = job[alone].seq
    BY <1>0, <1>6 DEF ReadKey, Job
  <2>3. pc'[alone] \in {"agg", "write_key"}
    BY <1>0, <1>6 DEF ReadKey
  <2>4. ~HasEvolved(alone)'
    BY <2>3 DEF HasEvolved
  <2>5. Keyed' = Keyed
    BY <2>1, SameLines
  <2> QED
    BY <1>2, <2>1, <2>2, <2>3, <2>4, <2>5 DEF KeyMovesOn
<1>7. CASE ReadAggregate(alone)
  <2>1. UNCHANGED <<sealkey, published>> /\ pc[alone] = "agg" /\ pc'[alone] = "write_key"
    BY <1>0, <1>7 DEF ReadAggregate, files
  <2>2. job'[alone].seq = job[alone].seq
    BY <1>0, <1>7 DEF ReadAggregate, Job
  <2>3. HasKey(alone) /\ ~HasEvolved(alone) /\ ~HasEvolved(alone)'
    BY <2>1 DEF HasKey, HasEvolved
  <2> QED
    BY <1>0, <1>2, <2>1, <2>2, <2>3, KeyStays
<1>8. CASE WriteKey(alone)
  <2>1. HasKey(alone) /\ ~HasEvolved(alone)
    BY <1>8 DEF WriteKey, HasKey, HasEvolved
  <2>2. /\ sealkey # << >> /\ sealkey[1].epoch = job[alone].seq
        /\ \A a \in Keyed : a.seq < sealkey[1].epoch
        /\ \A a, b \in Keyed : a.seq = b.seq => a = b
    BY <1>2, <2>1 DEF KeyMovesOn
  <2>3. /\ sealkey' # << >> /\ sealkey'[1].epoch = job[alone].seq + 1
        /\ job'[alone].seq = job[alone].seq /\ published' = published
    BY <1>8 DEF WriteKey
  <2>4. pc'[alone] \in {"write_agg", "line"}
    BY <1>0, <1>8 DEF WriteKey
  <2>5. HasKey(alone)' <=> HasEvolved(alone)'
    BY <2>4 DEF HasKey, HasEvolved
  <2>6. Keyed' = Keyed
    BY <2>3, SameLines
  <2>7. \A a \in Keyed : a.seq \in Nat
    BY <1>0 DEF Keyed, Att
  <2>8. \A a \in Keyed : a.seq < job[alone].seq /\ a.seq < job[alone].seq + 1
    BY <1>0, <2>2, <2>7
  <2> QED
    BY <2>2, <2>3, <2>4, <2>5, <2>6, <2>8 DEF KeyMovesOn
<1>9. CASE WriteAggregate(alone)
  <2>1. /\ UNCHANGED <<sealkey, published>> /\ pc[alone] = "write_agg" /\ pc'[alone] = "line"
        /\ job'[alone].seq = job[alone].seq
    BY <1>0, <1>9 DEF WriteAggregate
  <2>2. HasKey(alone) /\ HasEvolved(alone)
    BY <2>1 DEF HasKey, HasEvolved
  <2>3. HasKey(alone)' => HasEvolved(alone)'
    BY <2>1 DEF HasKey, HasEvolved
  <2> QED
    BY <1>0, <1>2, <2>1, <2>2, <2>3, KeyStays
<1>10. CASE WriteLine(alone)
  <2>1. PICK a \in Att : a = Attestation(alone)
    BY <1>0, <1>10, AttestationIsAtt DEF WriteLine
  <2>2. a.seq = job[alone].seq /\ a.scheme = scheme[alone]
    BY <1>0, <1>10, <2>1, AttestationIsAtt DEF WriteLine
  <2>3. published' = published \cup {a} /\ sealkey' = sealkey /\ pc'[alone] = "idle"
    BY <1>0, <1>10, <2>1 DEF WriteLine
  <2>4. ~HasKey(alone)' /\ ~HasEvolved(alone)'
    BY <2>3 DEF HasKey, HasEvolved
  <2>5. CASE scheme[alone] = SIG_SCHEME
    <3>1. Keyed' = Keyed
      BY <2>2, <2>3, <2>5 DEF Keyed
    <3> QED
      BY <1>2, <2>3, <2>4, <3>1 DEF KeyMovesOn
  <2>6. CASE scheme[alone] # SIG_SCHEME
    <3>1. HasKey(alone) /\ HasEvolved(alone)
      BY <1>10, <2>6 DEF HasKey, HasEvolved, WriteLine
    <3>2. /\ sealkey # << >> /\ sealkey[1].epoch = a.seq + 1
          /\ \A b \in Keyed : b.seq < a.seq /\ b.seq < sealkey[1].epoch
          /\ \A b, c \in Keyed : b.seq = c.seq => b = c
      BY <1>2, <2>2, <3>1 DEF KeyMovesOn
    <3>3. Keyed' = Keyed \cup {a}
      BY <2>2, <2>3, <2>6 DEF Keyed
    <3>4. a.seq \in Nat /\ \A b \in Keyed : b.seq \in Nat
      BY <1>0 DEF Keyed, Att
    <3>5. a.seq < sealkey[1].epoch /\ \A b \in Keyed : b.seq # a.seq
      BY <3>2, <3>4
    <3>6. \A b, c \in Keyed' : b.seq = c.seq => b = c
      BY <3>2, <3>3, <3>5
    <3> QED
      BY <2>3, <2>4, <3>2, <3>3, <3>5, <3>6 DEF KeyMovesOn
  <2> QED
    BY <2>5, <2>6
<1>11. CASE \/ VerifierReads \/ VerifierEnds \/ AnchorAggregate
            \/ (\E n \in 0 .. Len(trail) - 1 : Truncate(n)) \/ TakeBackup
  <2>1. UNCHANGED <<sealkey, published, pc, job, scheme>>
    BY <1>11 DEF VerifierReads, VerifierEnds, AnchorAggregate, Truncate, TakeBackup, files
  <2> QED
    BY <1>0, <1>2, <2>1, KeyStays DEF KeyMovesOn, HasKey, HasEvolved
<1>12. CASE Restore
  <2>1. Incident("restore") /\ incidents \in [Incidents -> Nat]
    BY <1>0, <1>12 DEF Restore, Shape
  <2>2. Happened("restore")'
    BY <2>1 DEF Incident, Happened
  <2> QED
    BY <2>2
<1> QED
  BY <1>3, <1>4, <1>5, <1>6, <1>7, <1>8, <1>9, <1>10, <1>11, <1>12 DEF TrailNext, Next

-----------------------------------------------------------------------------
(* The theorem.                                                            *)

LEMMA NextKeeps == IInv /\ [TrailNext]_trailVars => IInv'
<1> SUFFICES ASSUME IInv, [TrailNext]_trailVars PROVE IInv'
  OBVIOUS
<1>1. CASE TrailNext
  BY <1>1, TypesKept, RaceKept, AloneKept DEF IInv
<1>2. CASE UNCHANGED trailVars
  BY <1>2 DEF trailVars, vars, IInv, Shape, KeysFit, RaceHolds, AloneHolds, OwnRows,
              KeyMovesOn, HasKey, HasEvolved, Live, Keyed, Lines, FileSet, Happened
<1> QED
  BY <1>1, <1>2

\* Two rows under one key are one: where processes race the key is that of a
\* row's only seq, and where one process seals the key moves on.
LEMMA KeysAreUsedOnce == IInv => KeyUsedOnce
<1> SUFFICES ASSUME IInv, ~Happened("restore"),
                    NEW a \in published, NEW b \in published,
                    SIG_SCHEME \notin {a.scheme, b.scheme}, a.value[1] = b.value[1]
             PROVE  a = b
  BY DEF KeyUsedOnce
<1>1. a \in Keyed /\ b \in Keyed
  BY DEF Keyed
<1>2. a.seq = b.seq
  BY <1>1 DEF IInv, KeysFit
<1>3. CASE alone = Nobody
  BY <1>2, <1>3 DEF IInv, RaceHolds, OwnRows
<1>4. CASE alone # Nobody
  BY <1>1, <1>2, <1>4 DEF IInv, AloneHolds, KeyMovesOn
<1> QED
  BY <1>3, <1>4

\* verify_sidecar says ok only of a sidecar without a torn line, which has an
\* attestation for every row.
LEMMA OkIsEarned ==
    ASSUME NEW m, NEW f, verify_sidecar(m, f) = "ok"
    PROVE  /\ \A p \in DOMAIN f.attest : f.attest[p] # Malformed
           /\ ~TrailMismatch(f.attest, f.trail)
           /\ ~Gap(f.attest, f.trail)
BY DEF verify_sidecar

LEMMA OksAreSealed == IInv => OkMeansSealed
<1> SUFFICES ASSUME IInv, NEW m, verify_sidecar(m, snap) = "ok",
                    NEW row \in RowsOf(snap.trail)
             PROVE  row \in {a.entry_hash : a \in published}
  BY DEF OkMeansSealed
<1>1. snap.attest \in Seq(Lines) /\ snap.trail \in Seq(Nat)
  BY DEF IInv, Shape, FileSet
<1>2. PICK i \in DOMAIN snap.trail : row = snap.trail[i]
  BY DEF RowsOf
<1>3. i \in DOMAIN snap.attest
  BY <1>1, <1>2, OkIsEarned DEF Gap
<1>4. snap.attest[i].entry_hash = row
  BY <1>2, <1>3, OkIsEarned DEF TrailMismatch
<1>5. snap.attest[i] \in published
  BY <1>1, <1>3, OkIsEarned DEF Lines
<1> QED
  BY <1>4, <1>5

\* What the sidecars say of the rows is so, however many processes seal one
\* trail at once and wherever they stop, and whatever is cut off the trail of
\* one process: attest() never uses an epoch key for two rows unless an old
\* keyfile is put back, and no ok of verify_sidecar hides an unsealed row.
THEOREM SealsHold == TrailSpec => []SealsAreSound
<1>1. IInv => SealsAreSound
  BY KeysAreUsedOnce, OksAreSealed DEF SealsAreSound
<1> QED
  BY <1>1, InitHolds, NextKeeps, PTL DEF TrailSpec

-----------------------------------------------------------------------------
(* Epoch keys and aggregates.                                              *)

\* A set of numbers has a least one: induction over data rests on this.
LEMMA LeastNat ==
  ASSUME NEW T \in SUBSET Nat, T # {}
  PROVE  \E x \in T : \A y \in T : x <= y
<1> DEFINE R == OpToRel(<, Nat)
<1>1. IsWellFoundedOn(R, Nat)
  BY NatLessThanWellFounded
<1>2. PICK x \in T : \A y \in T : ~(<<y, x>> \in R)
  BY <1>1, WFMin
<1>3. \A y \in T : ~(y < x)
  BY <1>2 DEF OpToRel
<1> QED
  BY <1>3

\* The recursion of EpochKey, and what it computes.
Epochs(n) == CHOOSE A : A = [j \in 0 .. n |-> IF j = 0 THEN 0 ELSE A[j - 1] + 1]

LEMMA EpochKeyIsEpochs ==
  ASSUME NEW n
  PROVE  EpochKey(n) = Epochs(n)[n]
BY DEF EpochKey, Epochs, InitialKey, evolve_key

\* The n-th epoch key is A_0 evolved n times.
LEMMA KeyOfEpoch ==
  ASSUME NEW n \in Nat
  PROVE  EpochKey(n) = n
<1> DEFINE A == Epochs(n)
           B == [j \in 0 .. n |-> j]
           Bad == {j \in Nat : j <= n /\ A[j] # j}
<1>1. B = [j \in 0 .. n |-> IF j = 0 THEN 0 ELSE B[j - 1] + 1]
  OBVIOUS
<1>2. A = [j \in 0 .. n |-> IF j = 0 THEN 0 ELSE A[j - 1] + 1]
  BY <1>1 DEF Epochs
<1> HIDE DEF A
<1>3. ASSUME Bad # {} PROVE FALSE
  <2>1. PICK j \in Bad : \A i \in Bad : j <= i
    BY <1>3, LeastNat
  <2>2. A[j] = IF j = 0 THEN 0 ELSE A[j - 1] + 1
    BY <1>2, <2>1
  <2>3. j # 0
    BY <2>1, <2>2
  <2>4. j - 1 \in 0 .. n /\ ~(j - 1 \in Bad)
    BY <2>1, <2>3
  <2> QED
    BY <2>1, <2>2, <2>3, <2>4
<1> QED
  BY <1>3, EpochKeyIsEpochs DEF A

\* One step of Fold's recursion.
Folded(atts, agg_start, mu, n) ==
    IF n = 0 THEN AGG_GENESIS
    ELSE IF n > agg_start /\ atts[n].scheme = FS_HMAC_AGG_SCHEME
         THEN aggregate_step(EpochKey(n - 1), mu[n - 1], atts[n].value)
         ELSE mu[n - 1]

Mu(atts, agg_start, epoch) ==
    CHOOSE mu : mu = [n \in 0 .. epoch |-> Folded(atts, agg_start, mu, n)]

LEMMA FoldIsMu ==
  ASSUME NEW atts, NEW agg_start, NEW epoch
  PROVE  Fold(atts, agg_start, epoch) = Mu(atts, agg_start, epoch)[epoch]
BY DEF Fold, Mu, Folded

\* The recursion of Fold has a solution.
LEMMA MuExists ==
  ASSUME NEW atts, NEW agg_start, NEW epoch \in Nat
  PROVE  \E mu : mu = [n \in 0 .. epoch |-> Folded(atts, agg_start, mu, n)]
<1> DEFINE Solved(m) == \E mu : mu = [n \in 0 .. m |-> Folded(atts, agg_start, mu, n)]
           Bad == {m \in Nat : ~Solved(m)}
<1>1. Solved(0)
  <2> DEFINE mu == [n \in 0 .. 0 |-> AGG_GENESIS]
  <2>1. mu = [n \in 0 .. 0 |-> Folded(atts, agg_start, mu, n)]
    BY DEF Folded
  <2> QED
    BY <2>1
<1>2. ASSUME NEW m \in Nat, Solved(m) PROVE Solved(m + 1)
  <2>1. PICK mu : mu = [n \in 0 .. m |-> Folded(atts, agg_start, mu, n)]
    BY <1>2
  <2> DEFINE up == [n \in 0 .. m + 1 |-> Folded(atts, agg_start, mu, n)]
  <2>2. \A n \in 0 .. m : up[n] = mu[n]
    BY <2>1
  <2>3. ASSUME NEW n \in 0 .. m + 1
        PROVE  Folded(atts, agg_start, mu, n) = Folded(atts, agg_start, up, n)
    <3>1. CASE n = 0
      BY <3>1 DEF Folded
    <3>2. CASE n # 0
      <4>1. n - 1 \in 0 .. m
        BY <3>2
      <4>2. up[n - 1] = mu[n - 1]
        BY <2>2, <4>1
      <4> HIDE DEF up
      <4> QED
        BY <3>2, <4>2 DEF Folded
    <3> QED
      BY <3>1, <3>2
  <2>4. up = [n \in 0 .. m + 1 |-> Folded(atts, agg_start, up, n)]
    BY <2>3
  <2> QED
    BY <2>4
<1> HIDE DEF Solved
<1>3. ASSUME Bad # {} PROVE FALSE
  <2>1. PICK m \in Bad : \A i \in Bad : m <= i
    BY <1>3, LeastNat
  <2>2. m # 0
    BY <2>1, <1>1
  <2>3. m - 1 \in Nat /\ ~(m - 1 \in Bad)
    BY <2>1, <2>2
  <2>4. Solved((m - 1) + 1)
    BY <2>3, <1>2
  <2>5. (m - 1) + 1 = m
    BY <2>1
  <2> QED
    BY <2>1, <2>4, <2>5
<1>4. Solved(epoch)
  BY <1>3
<1> QED
  BY <1>4 DEF Solved

\* Every value of it is one step from the one before.
LEMMA MuSteps ==
  ASSUME NEW atts, NEW agg_start, NEW epoch \in Nat
  PROVE  \A n \in 0 .. epoch :
           Mu(atts, agg_start, epoch)[n] = Folded(atts, agg_start, Mu(atts, agg_start, epoch), n)
<1> DEFINE mu == Mu(atts, agg_start, epoch)
<1>1. mu = [n \in 0 .. epoch |-> Folded(atts, agg_start, mu, n)]
  BY MuExists DEF Mu
<1> HIDE DEF mu
<1>2. \A n \in 0 .. epoch : mu[n] = Folded(atts, agg_start, mu, n)
  BY <1>1
<1> QED
  BY <1>2 DEF mu

\* What a fold holds: of aggregate rows, each with the key of its position.
LEMMA FoldElements ==
  ASSUME NEW atts, NEW agg_start, NEW epoch \in Nat,
         \A p \in 1 .. epoch : atts[p].value \in Nat \X Nat
  PROVE  \A i \in DOMAIN Fold(atts, agg_start, epoch) : \E p \in 1 .. epoch :
            Fold(atts, agg_start, epoch)[i] = <<p - 1, atts[p].value>>
<1> DEFINE V == Nat \X Nat
<1>0. \A p \in 1 .. epoch : atts[p].value \in V
  OBVIOUS
<1> HIDE DEF V
<1> DEFINE mu == Mu(atts, agg_start, epoch)
           Of(x) == \E p \in 1 .. epoch : x = <<p - 1, atts[p].value>>
           Right(n) == mu[n] \in Seq(Nat \X V) /\ \A i \in DOMAIN mu[n] : Of(mu[n][i])
           Bad == {n \in Nat : n <= epoch /\ ~Right(n)}
<1>1. \A n \in 0 .. epoch : mu[n] = Folded(atts, agg_start, mu, n)
  BY MuSteps
<1>2. Fold(atts, agg_start, epoch) = mu[epoch]
  BY FoldIsMu
<1> HIDE DEF mu
<1>3. Right(0)
  <2>1. mu[0] = << >>
    BY <1>1 DEF Folded, AGG_GENESIS
  <2> HIDE DEF Of
  <2> QED
    BY <2>1
<1>4. ASSUME NEW n \in 1 .. epoch, Right(n - 1) PROVE Right(n)
  <2>1. mu[n] = Folded(atts, agg_start, mu, n) /\ n # 0 /\ n - 1 \in Nat
    BY <1>1
  <2>2. CASE n > agg_start /\ atts[n].scheme = FS_HMAC_AGG_SCHEME
    <3> DEFINE x == <<n - 1, atts[n].value>>
    <3>1. mu[n] = Append(mu[n - 1], x)
      BY <2>1, <2>2, KeyOfEpoch DEF Folded, aggregate_step
    <3>2. Of(x) /\ x \in Nat \X V
      BY <1>0, <2>1, <2>2
    <3> HIDE DEF x, Of
    <3>3. mu[n - 1] \in Seq(Nat \X V) /\ \A i \in DOMAIN mu[n - 1] : Of(mu[n - 1][i])
      BY <1>4
    <3>4. mu[n] \in Seq(Nat \X V)
      BY <3>1, <3>2, <3>3
    <3>5. \A i \in DOMAIN mu[n] : \/ mu[n][i] = x
                                  \/ i \in DOMAIN mu[n - 1] /\ mu[n][i] = mu[n - 1][i]
      BY <3>1, <3>2, <3>3
    <3> QED
      BY <3>2, <3>3, <3>4, <3>5
  <2>3. CASE ~(n > agg_start /\ atts[n].scheme = FS_HMAC_AGG_SCHEME)
    <3>1. mu[n] = mu[n - 1]
      BY <2>1, <2>3 DEF Folded
    <3> QED
      BY <1>4, <3>1
  <2> QED
    BY <2>2, <2>3
<1> HIDE DEF Right
<1>5. ASSUME Bad # {} PROVE FALSE
  <2>1. PICK n \in Bad : \A i \in Bad : n <= i
    BY <1>5, LeastNat
  <2>2. n # 0
    BY <2>1, <1>3
  <2>3. n \in 1 .. epoch /\ n - 1 \in Nat /\ n - 1 <= epoch /\ ~(n - 1 \in Bad)
    BY <2>1, <2>2
  <2>4. Right(n)
    BY <2>3, <1>4
  <2> QED
    BY <2>1, <2>4
<1>6. Right(epoch)
  BY <1>5
<1> QED
  BY <1>2, <1>6 DEF Right

\* The aggregate over the rows agg_start .. epoch - 1 of a trail whose n-th row
\* is n, each of them sealed under the aggregate scheme.
Ideal(agg_start, epoch) ==
    [i \in 1 .. epoch - agg_start |->
        <<agg_start + i - 1, <<agg_start + i - 1, agg_start + i>>>>]

\* Sequences of the same length and elements are the same.
LEMMA SameSequence ==
  ASSUME NEW S, NEW a \in Seq(S), NEW b \in Seq(S), Len(a) = Len(b),
         \A i \in 1 .. Len(a) : a[i] = b[i]
  PROVE  a = b
  OBVIOUS

\* How that aggregate grows by one row.
LEMMA IdealIsSequence ==
  ASSUME NEW s \in Nat, NEW e \in Nat, s <= e
  PROVE  /\ Ideal(s, e) \in Seq(Nat \X (Nat \X Nat)) /\ Len(Ideal(s, e)) = e - s
         /\ Ideal(s, s) = << >>
         /\ Ideal(s, e + 1) = Append(Ideal(s, e), <<e, <<e, e + 1>>>>)
<1>1. e - s \in Nat
  OBVIOUS
<1>2. Ideal(s, e) \in Seq(Nat \X (Nat \X Nat)) /\ Len(Ideal(s, e)) = e - s
  BY <1>1 DEF Ideal
<1>3. Ideal(s, s) = << >>
  <2>1. s - s = 0
    OBVIOUS
  <2>2. \A i \in 1 .. s - s : FALSE
    BY <2>1
  <2>3. Ideal(s, s) \in Seq(Nat \X (Nat \X Nat)) /\ Len(Ideal(s, s)) = 0
    BY <2>1 DEF Ideal
  <2> QED
    BY <2>3
<1>4. Ideal(s, e + 1) = Append(Ideal(s, e), <<e, <<e, e + 1>>>>)
  <2> DEFINE x == <<e, <<e, e + 1>>>>
             up == Append(Ideal(s, e), x)
  <2>1. x \in Nat \X (Nat \X Nat)
    OBVIOUS
  <2>2. Ideal(s, e + 1) \in Seq(Nat \X (Nat \X Nat)) /\ Len(Ideal(s, e + 1)) = (e - s) + 1
    BY <1>1 DEF Ideal
  <2>3. up \in Seq(Nat \X (Nat \X Nat)) /\ Len(up) = (e - s) + 1
    BY <1>2, <2>1
  <2>4. ASSUME NEW i \in 1 .. (e - s) + 1 PROVE Ideal(s, e + 1)[i] = up[i]
    <3>1. Ideal(s, e + 1)[i] = <<s + i - 1, <<s + i - 1, s + i>>>>
      BY <1>1 DEF Ideal
    <3>2. CASE i = (e - s) + 1
      <4>1. s + i - 1 = e /\ s + i = e + 1
        BY <3>2
      <4>2. up[i] = x
        BY <1>2, <2>1, <3>2
      <4> QED
        BY <3>1, <4>1, <4>2
    <3>3. CASE i # (e - s) + 1
      <4>1. i \in 1 .. e - s
        BY <3>3, <1>1
      <4>2. up[i] = Ideal(s, e)[i]
        BY <1>2, <2>1, <4>1
      <4>3. Ideal(s, e)[i] = <<s + i - 1, <<s + i - 1, s + i>>>>
        BY <4>1 DEF Ideal
      <4> QED
        BY <3>1, <4>2, <4>3
    <3> QED
      BY <3>2, <3>3
  <2> HIDE DEF up
  <2>5. Ideal(s, e + 1) = up
    BY <2>2, <2>3, <2>4, SameSequence
  <2> QED
    BY <2>5 DEF up
<1> QED
  BY <1>2, <1>3, <1>4

\* Folding the lines of such rows gives it.
LEMMA FoldIsIdeal ==
  ASSUME NEW atts, NEW s \in Nat, NEW e \in Nat, s <= e,
         \A p \in s + 1 .. e : /\ atts[p].scheme = FS_HMAC_AGG_SCHEME
                               /\ atts[p].value = <<p - 1, p>>
  PROVE  Fold(atts, s, e) = Ideal(s, e)
<1> DEFINE mu == Mu(atts, s, e)
           Right(n) == IF n <= s THEN mu[n] = << >> ELSE mu[n] = Ideal(s, n)
           Bad == {n \in Nat : n <= e /\ ~Right(n)}
<1>1. \A n \in 0 .. e : mu[n] = Folded(atts, s, mu, n)
  BY MuSteps
<1>2. Fold(atts, s, e) = mu[e]
  BY FoldIsMu
<1> HIDE DEF mu
<1>3. Right(0)
  BY <1>1 DEF Folded, AGG_GENESIS
<1>4. ASSUME NEW n \in 1 .. e, Right(n - 1) PROVE Right(n)
  <2>1. mu[n] = Folded(atts, s, mu, n) /\ n # 0 /\ n - 1 \in Nat
    BY <1>1
  <2>2. CASE n > s
    <3>1. atts[n].scheme = FS_HMAC_AGG_SCHEME /\ atts[n].value = <<n - 1, n>>
      BY <2>2
    <3>2. mu[n] = Append(mu[n - 1], <<n - 1, <<n - 1, n>>>>)
      BY <2>1, <2>2, <3>1, KeyOfEpoch DEF Folded, aggregate_step
    <3>3. s <= n - 1 /\ mu[n - 1] = Ideal(s, n - 1)
      BY <1>4, <2>1, <2>2, IdealIsSequence
    <3>4. Ideal(s, (n - 1) + 1) = Append(Ideal(s, n - 1), <<n - 1, <<n - 1, (n - 1) + 1>>>>)
      BY <2>1, <3>3, IdealIsSequence
    <3>5. (n - 1) + 1 = n
      OBVIOUS
    <3>6. Ideal(s, n) = Append(Ideal(s, n - 1), <<n - 1, <<n - 1, n>>>>)
      BY <3>4, <3>5
    <3> QED
      BY <2>2, <3>2, <3>3, <3>6
  <2>3. CASE ~(n > s)
    <3>1. mu[n] = mu[n - 1]
      BY <2>1, <2>3 DEF Folded
    <3> QED
      BY <1>4, <2>1, <2>3, <3>1
  <2> QED
    BY <2>2, <2>3
<1> HIDE DEF Right
<1>5. ASSUME Bad # {} PROVE FALSE
  <2>1. PICK n \in Bad : \A i \in Bad : n <= i
    BY <1>5, LeastNat
  <2>2. n # 0
    BY <2>1, <1>3
  <2>3. n \in 1 .. e /\ n - 1 \in Nat /\ n - 1 <= e /\ ~(n - 1 \in Bad)
    BY <2>1, <2>2
  <2>4. Right(n)
    BY <2>3, <1>4
  <2> QED
    BY <2>1, <2>4
<1>6. Right(e)
  BY <1>5
<1> QED
  BY <1>2, <1>6, IdealIsSequence DEF Right

-----------------------------------------------------------------------------
(* One process: what it has sealed, and what is left when rows are cut off *)
(* or an older copy is put back.                                           *)

\* The keyfile is one step ahead of .attest while a line is being written.
Evolved == IF HasEvolved(alone) THEN 1 ELSE 0

\* An element of an aggregate: a seal, folded in under the key it was made with.
Seals == {e \in Nat \X (Nat \X Nat) : e[1] = e[2][1]}

FoldsSeals(aggs) == \A i \in DOMAIN aggs : aggs[i].agg \in Seq(Seals)

\* One process seals with keys only, and folds nothing but its seals.
SealsOnly ==
    /\ published = Keyed
    /\ pc[alone] # "off" => scheme[alone] # SIG_SCHEME
    /\ FoldsSeals(sealagg)
    /\ FoldsSeals(job[alone].prior)
    /\ \A i \in DOMAIN backup : FoldsSeals(backup[i].sealagg)
    /\ \A a \in anchored : /\ a.epoch \in Nat /\ a.agg \in Seq(Seals)
                           /\ a.commit = <<a.epoch, a.agg>>

\* A copy of the files was taken of a trail that was whole, and its lines are
\* of rows it had.
CopyHolds(f, n) ==
    /\ Len(f.trail) <= n
    /\ \A i \in 1 .. Len(f.trail) : f.trail[i] = i
    /\ \A p \in DOMAIN f.attest : f.attest[p] # Malformed => f.attest[p].entry_hash <= Len(f.trail)

\* As long as nothing was removed, the n-th row is n.
WholeTrail ==
    removed = {} =>
        /\ ~Happened("truncate") /\ ~Happened("restore")
        /\ Len(trail) = appended
        /\ \A i \in 1 .. Len(trail) : trail[i] = i
        /\ Live(alone) => job[alone].hash = job[alone].seq + 1 /\ job[alone].hash <= appended
        /\ \A a \in published : a.entry_hash = a.seq + 1 /\ a.entry_hash <= appended
        /\ \A i \in DOMAIN backup : CopyHolds(backup[i], appended)

\* A line that is where its row was is not of a row that was removed.
RemovedHolds ==
    /\ removed \subseteq 1 .. appended
    /\ Live(alone) => job[alone].hash \notin removed
    /\ \A p \in DOMAIN attest :
          attest[p] # Malformed /\ attest[p].seq = p - 1 => attest[p].entry_hash \notin removed
    /\ ~(Happened("truncate") /\ Happened("restore"))

\* The keyfile never falls behind .attest, and is ahead of it for good once a
\* sealed row was cut off.
KeyIsAhead ==
    ~Happened("restore") =>
        /\ attest # << >> => sealkey # << >>
        /\ sealkey # << >> => Len(attest) + Evolved <= sealkey[1].epoch
        /\ Happened("truncate") /\ (\E a \in published : a.entry_hash \in removed) =>
              sealkey # << >> /\ Len(attest) + Evolved < sealkey[1].epoch

\* The line of the n-th row, the one the process is about to write included.
LineHolds(a, n) ==
    /\ a \in Att /\ a.seq = n - 1 /\ a.entry_hash = n /\ a.value = <<n - 1, n>>
    /\ a.scheme # SIG_SCHEME

\* .attest covers the first rows, one by one, until a seal is refused.
LinesHold ==
    /\ \A p \in DOMAIN attest : LineHolds(attest[p], p)
    /\ Len(attest) <= Len(trail)
    /\ sealkey = << >> => attest = << >> /\ pc[alone] \in {"off", "create"}
    /\ sealkey # << >> => sealkey[1].epoch = Len(attest) + Evolved
    /\ HasKey(alone) => job[alone].seq = Len(attest)
    /\ failed = {} => Len(trail) = Len(attest) + (IF Live(alone) THEN 1 ELSE 0)

\* The aggregate lines of a sidecar are the rows an aggregate has folded.
Folds(aggs, lines) ==
    IF aggs = << >> THEN \A p \in DOMAIN lines : lines[p].scheme # FS_HMAC_AGG_SCHEME
    ELSE /\ aggs[1].agg_start < aggs[1].epoch
         /\ aggs[1].agg = Ideal(aggs[1].agg_start, aggs[1].epoch)
         /\ \A p \in DOMAIN lines : lines[p].scheme = FS_HMAC_AGG_SCHEME <=>
               aggs[1].agg_start < p /\ p <= aggs[1].epoch

\* The process has folded a row whose line it has not written yet.
FoldedAhead == pc[alone] = "line" /\ scheme[alone] = FS_HMAC_AGG_SCHEME

AggregateHolds ==
    /\ Folds(sealagg, attest)
    /\ sealagg # << >> => sealagg[1].epoch <= Len(attest) + (IF FoldedAhead THEN 1 ELSE 0)
    /\ FoldedAhead => sealagg # << >> /\ sealagg[1].epoch = Len(attest) + 1
    /\ pc[alone] \in {"agg", "write_agg"} => scheme[alone] = FS_HMAC_AGG_SCHEME
    /\ pc[alone] \in {"write_key", "write_agg"} /\ scheme[alone] = FS_HMAC_AGG_SCHEME =>
          job[alone].prior = sealagg /\ (sealagg # << >> => sealagg[1].epoch = job[alone].seq)

\* What was anchored is a beginning of the aggregate.
AnchorsHold ==
    \A a \in anchored :
        /\ sealagg # << >> /\ sealagg[1].agg_start < a.epoch /\ a.epoch <= sealagg[1].epoch
        /\ a.agg = Ideal(sealagg[1].agg_start, a.epoch)

\* What a verification has read, file after file, is a beginning of each.
SnapHolds ==
    /\ reads >= 1 => /\ Len(snap.attest) <= Len(attest)
                     /\ \A p \in DOMAIN snap.attest : snap.attest[p] = attest[p]
    /\ reads >= 2 => /\ Len(snap.attest) <= Len(snap.trail)
                     /\ \A i \in 1 .. Len(snap.trail) : snap.trail[i] = i
    /\ reads = 4 =>
          IF snap.sealagg = << >>
          THEN \A p \in DOMAIN snap.attest : snap.attest[p].scheme # FS_HMAC_AGG_SCHEME
          ELSE /\ sealagg # << >>
               /\ snap.sealagg[1].agg_start = sealagg[1].agg_start
               /\ snap.sealagg[1].agg_start < snap.sealagg[1].epoch
               /\ snap.sealagg[1].epoch <= sealagg[1].epoch
               /\ snap.sealagg[1].agg = Ideal(sealagg[1].agg_start, snap.sealagg[1].epoch)

HealthyHolds == Healthy => LinesHold /\ AggregateHolds /\ AnchorsHold /\ SnapHolds

OneHolds ==
    IF alone = Nobody THEN anchored = {} /\ removed = {}
    ELSE SealsOnly /\ WholeTrail /\ RemovedHolds /\ KeyIsAhead /\ HealthyHolds

\* A trail starts this way.
LEMMA OneInit == TrailInit => OneHolds
<1> SUFFICES ASSUME TrailInit PROVE OneHolds
  OBVIOUS
<1>1. /\ trail = << >> /\ appended = 0 /\ sealkey = << >> /\ sealagg = << >> /\ attest = << >>
      /\ failed = {} /\ published = {} /\ anchored = {} /\ backup = << >> /\ removed = {}
      /\ reads = 0 /\ alone \in Writer \cup {Nobody}
  BY DEF TrailInit, Init
<1> SUFFICES ASSUME alone # Nobody
             PROVE  SealsOnly /\ WholeTrail /\ RemovedHolds /\ KeyIsAhead /\ HealthyHolds
  BY <1>1 DEF OneHolds
<1>2. alone \in Writer /\ pc[alone] = "off" /\ job[alone].prior = << >>
  BY <1>1 DEF TrailInit, Init, NoJob
<1>3. ~Live(alone) /\ ~HasKey(alone) /\ ~HasEvolved(alone) /\ ~FoldedAhead
  BY <1>2 DEF Live, HasKey, HasEvolved, FoldedAhead
<1>4. ~Happened("truncate") /\ ~Happened("restore")
  BY DEF TrailInit, Init, Happened
<1>5. SealsOnly
  BY <1>1, <1>2 DEF SealsOnly, Keyed, FoldsSeals
<1>6. WholeTrail
  BY <1>1, <1>3, <1>4 DEF WholeTrail
<1>7. RemovedHolds /\ KeyIsAhead
  BY <1>1, <1>3, <1>4 DEF RemovedHolds, KeyIsAhead
<1>8. LinesHold
  BY <1>1, <1>2, <1>3 DEF LinesHold
<1>9. AggregateHolds /\ AnchorsHold /\ SnapHolds
  BY <1>1, <1>2, <1>3 DEF AggregateHolds, AnchorsHold, SnapHolds, Folds
<1> QED
  BY <1>5, <1>6, <1>7, <1>8, <1>9 DEF HealthyHolds

\* Where one process seals, every step is its own or of what is around it.
LEMMA OneMovesAlone ==
    ASSUME IInv, TrailNext, alone # Nobody
    PROVE  /\ alone' = alone /\ alone \in Writer /\ scheme'[alone] # SIG_SCHEME
           /\ \/ \E s \in Schemes : Open(alone, s)
              \/ CreateKey(alone) \/ Close(alone) \/ AppendRow(alone)
              \/ ReadKey(alone) \/ ReadKeyRaises(alone)
              \/ ReadAggregate(alone) \/ ReadAggregateRaises(alone)
              \/ WriteKey(alone) \/ WriteAggregate(alone) \/ WriteLine(alone)
              \/ WriteRaises(alone) \/ Crash(alone)
              \/ VerifierReads \/ VerifierEnds \/ AnchorAggregate
              \/ \E n \in 0 .. Len(trail) - 1 : Truncate(n)
              \/ TakeBackup \/ Restore
<1>1. /\ alone' = alone /\ alone \in Writer /\ scheme'[alone] # SIG_SCHEME
      /\ pc \in [Writer -> Where]
      /\ \A w \in Writer \ {alone} : pc[w] = "off" /\ pc'[w] = "off"
  BY DEF IInv, Shape, AloneHolds, TrailNext
<1>2. ASSUME NEW w \in Writer, w # alone,
             \/ \E s \in Schemes : Open(w, s)
             \/ CreateKey(w) \/ Close(w) \/ AppendRow(w)
             \/ ReadKey(w) \/ ReadKeyRaises(w)
             \/ ReadAggregate(w) \/ ReadAggregateRaises(w)
             \/ WriteKey(w) \/ WriteAggregate(w) \/ WriteLine(w)
             \/ WriteRaises(w) \/ Crash(w)
      PROVE  FALSE
  <2>1. pc[w] = "off" /\ pc'[w] = "off"
    BY <1>1, <1>2
  <2>2. PICK s \in Schemes : Open(w, s)
    BY <1>2, <2>1 DEF CreateKey, Close, AppendRow, ReadKey, ReadKeyRaises, ReadAggregate,
          ReadAggregateRaises, WriteKey, WriteAggregate, WriteLine, WriteRaises, Crash
  <2>3. pc'[w] # "off"
    BY <1>1, <2>2 DEF Open, Goto
  <2> QED
    BY <2>1, <2>3
<1> QED
  BY <1>1, <1>2 DEF TrailNext, Next

\* Writes of the process that leave .sealagg, backup and anchors alone.
LEMMA SealsOnlyKept ==
    ASSUME IInv, OneHolds, TrailNext, alone # Nobody
    PROVE  SealsOnly'
<1> USE DEF Goto
<1>0. /\ Shape /\ KeysFit /\ SealsOnly /\ alone' = alone /\ alone \in Writer
      /\ scheme'[alone] # SIG_SCHEME
      /\ pc \in [Writer -> Where] /\ job \in [Writer -> Job] /\ scheme \in [Writer -> Schemes]
      /\ job[alone] \in Job
  BY OneMovesAlone DEF IInv, OneHolds, Shape
<1>1. ASSUME published' = published PROVE published' = Keyed'
  BY <1>0, <1>1, SameLines DEF SealsOnly
<1>2. ASSUME UNCHANGED <<published, sealagg, backup, anchored>>,
             job'[alone].prior \in {job[alone].prior, << >>, sealagg}
      PROVE  SealsOnly'
  BY <1>0, <1>1, <1>2 DEF SealsOnly, FoldsSeals
<1>3. ASSUME \/ \E s \in Schemes : Open(alone, s)
             \/ CreateKey(alone) \/ Close(alone) \/ WriteKey(alone)
             \/ VerifierReads \/ VerifierEnds
             \/ \E n \in 0 .. Len(trail) - 1 : Truncate(n)
      PROVE  SealsOnly'
  <2>1. UNCHANGED <<published, sealagg, backup, anchored, job>>
    BY <1>3 DEF Open, CreateKey, Close, WriteKey, VerifierReads, VerifierEnds, Truncate, files
  <2> QED
    BY <1>2, <2>1
<1>4. ASSUME \/ ReadKeyRaises(alone) \/ ReadAggregateRaises(alone)
             \/ WriteRaises(alone) \/ Crash(alone)
      PROVE  SealsOnly'
  <2>1. UNCHANGED <<published, sealagg, backup, anchored>>
    BY <1>4 DEF ReadKeyRaises, ReadAggregateRaises, WriteRaises, Crash, files
  <2>2. job' = [job EXCEPT ![alone] = NoJob]
    BY <1>4 DEF ReadKeyRaises, ReadAggregateRaises, WriteRaises, Crash, Raise
  <2>3. job'[alone].prior = << >>
    BY <1>0, <2>2 DEF NoJob
  <2> QED
    BY <1>2, <2>1, <2>3
<1>5. CASE AppendRow(alone)
  <2>1. UNCHANGED <<published, sealagg, backup, anchored>>
    BY <1>5 DEF AppendRow
  <2>2. job'[alone].prior = << >>
    BY <1>0, <1>5 DEF AppendRow, NoJob
  <2> QED
    BY <1>2, <2>1, <2>2
<1>6. CASE ReadKey(alone)
  <2>1. UNCHANGED <<published, sealagg, backup, anchored>>
    BY <1>6 DEF ReadKey, files
  <2>2. job'[alone].prior = job[alone].prior
    BY <1>0, <1>6 DEF ReadKey, Job
  <2> QED
    BY <1>2, <2>1, <2>2
<1>7. CASE ReadAggregate(alone)
  <2>1. UNCHANGED <<published, sealagg, backup, anchored>>
    BY <1>7 DEF ReadAggregate, files
  <2>2. job'[alone].prior = sealagg
    BY <1>0, <1>7 DEF ReadAggregate, Job
  <2> QED
    BY <1>2, <2>1, <2>2
<1>8. CASE WriteAggregate(alone)
  <2>1. /\ UNCHANGED <<published, backup, anchored, job>> /\ scheme[alone] # SIG_SCHEME
        /\ sealagg' = <<[agg_start |-> AggregateStart(alone), epoch |-> job[alone].seq + 1,
                         agg |-> Running(alone)]>>
    BY <1>0, <1>8 DEF WriteAggregate, SealsOnly
  <2> DEFINE k == job[alone].key
             h == job[alone].hash
             x == <<k, <<k, h>>>>
             before == IF job[alone].prior = << >> THEN AGG_GENESIS ELSE job[alone].prior[1].agg
  <2>2. k \in Nat /\ h \in Nat /\ job[alone].prior \in Seq(Agg)
    BY <1>0 DEF Job
  <2>3. x \in Seals
    BY <2>2 DEF Seals
  <2>4. before \in Seq(Seals)
    BY <1>0, <2>2 DEF SealsOnly, FoldsSeals, AGG_GENESIS
  <2>5. Running(alone) = Append(before, x)
    BY <2>1 DEF Running, aggregate_step, Attestation, seal_entry
  <2> HIDE DEF x, before
  <2>6. Running(alone) \in Seq(Seals)
    BY <2>3, <2>4, <2>5
  <2>7. FoldsSeals(sealagg')
    BY <2>1, <2>6 DEF FoldsSeals
  <2>8. published' = Keyed'
    BY <1>1, <2>1
  <2> QED
    BY <1>0, <2>1, <2>7, <2>8 DEF SealsOnly
<1>9. CASE WriteLine(alone)
  <2>1. PICK a \in Att : a = Attestation(alone) /\ a.scheme = scheme[alone]
    BY <1>0, <1>9, AttestationIsAtt DEF WriteLine
  <2>2. /\ UNCHANGED <<sealagg, backup, anchored>> /\ published' = published \cup {a}
        /\ scheme[alone] # SIG_SCHEME /\ job' = [job EXCEPT ![alone] = NoJob]
    BY <1>0, <1>9, <2>1 DEF WriteLine, SealsOnly
  <2>3. published' = Keyed'
    BY <1>0, <2>1, <2>2 DEF Keyed, SealsOnly
  <2>4. job'[alone].prior = << >>
    BY <1>0, <2>2 DEF NoJob
  <2> QED
    BY <1>0, <2>2, <2>3, <2>4 DEF SealsOnly, FoldsSeals
<1>10. CASE AnchorAggregate
  <2>1. /\ UNCHANGED <<published, sealagg, backup, job>> /\ sealagg # << >>
        /\ anchored' = anchored \cup {[epoch |-> sealagg[1].epoch, agg |-> sealagg[1].agg,
                                       commit |-> <<sealagg[1].epoch, sealagg[1].agg>>]}
    BY <1>10 DEF AnchorAggregate, files, aggregate_commit
  <2>2. sealagg \in Seq(Agg) /\ 1 \in DOMAIN sealagg
    BY <1>0, <2>1 DEF Shape
  <2>3. sealagg[1].epoch \in Nat /\ sealagg[1].agg \in Seq(Seals)
    <3>1. sealagg[1] \in Agg
      BY <2>2
    <3> QED
      BY <1>0, <2>2, <3>1 DEF SealsOnly, FoldsSeals, Agg
  <2>4. \A a \in anchored' : /\ a.epoch \in Nat /\ a.agg \in Seq(Seals)
                             /\ a.commit = <<a.epoch, a.agg>>
    BY <1>0, <2>1, <2>3 DEF SealsOnly
  <2>5. published' = Keyed'
    BY <1>1, <2>1
  <2> QED
    BY <1>0, <2>1, <2>4, <2>5 DEF SealsOnly
<1>11. CASE TakeBackup
  <2>1. UNCHANGED <<published, sealagg, anchored, job>> /\ backup' = <<Files>>
    BY <1>11 DEF TakeBackup, files
  <2>2. Files.sealagg = sealagg
    BY DEF Files
  <2>3. \A i \in DOMAIN backup' : FoldsSeals(backup'[i].sealagg)
    BY <1>0, <2>1, <2>2 DEF SealsOnly
  <2>4. published' = Keyed'
    BY <1>1, <2>1
  <2> QED
    BY <1>0, <2>1, <2>3, <2>4 DEF SealsOnly
<1>12. CASE Restore
  <2>1. /\ UNCHANGED <<published, backup, anchored, job>>
        /\ backup # << >> /\ sealagg' = backup[1].sealagg
    BY <1>12 DEF Restore
  <2>2. backup \in Seq(FileSet) /\ 1 \in DOMAIN backup
    BY <1>0, <2>1 DEF Shape
  <2>3. FoldsSeals(sealagg')
    BY <1>0, <2>1, <2>2 DEF SealsOnly
  <2>4. published' = Keyed'
    BY <1>1, <2>1
  <2> QED
    BY <1>0, <2>1, <2>3, <2>4 DEF SealsOnly
<1> QED
  BY OneMovesAlone, <1>3, <1>4, <1>5, <1>6, <1>7, <1>8, <1>9, <1>10, <1>11, <1>12

\* What the process does to the rows: it appends one and takes it on, it goes
\* on with the row it has, or it has none.
LEMMA RowsMove ==
    ASSUME IInv, TrailNext, alone # Nobody,
           ~(\E n \in 0 .. Len(trail) - 1 : Truncate(n)), ~Restore
    PROVE  /\ UNCHANGED removed
           /\ \/ AppendRow(alone)
              \/ /\ UNCHANGED <<trail, appended>>
                 /\ Live(alone)' => /\ Live(alone) /\ job'[alone].seq = job[alone].seq
                                    /\ job'[alone].hash = job[alone].hash
<1> USE DEF Goto
<1>0. /\ alone' = alone /\ alone \in Writer
      /\ pc \in [Writer -> Where] /\ job \in [Writer -> Job] /\ job[alone] \in Job
  BY OneMovesAlone DEF IInv, Shape
<1> DEFINE Kept == /\ UNCHANGED <<trail, appended, removed>>
                   /\ Live(alone)' => /\ Live(alone) /\ job'[alone].seq = job[alone].seq
                                      /\ job'[alone].hash = job[alone].hash
<1>1. CASE AppendRow(alone)
  BY <1>1 DEF AppendRow
<1>2. CASE \/ \E s \in Schemes : Open(alone, s)
           \/ CreateKey(alone) \/ Close(alone)
  <2>1. pc'[alone] \in {"off", "idle", "create"}
    BY <1>0, <1>2 DEF Open, CreateKey, Close
  <2>2. UNCHANGED <<trail, appended, removed>>
    BY <1>2 DEF Open, CreateKey, Close, files
  <2> QED
    BY <1>0, <2>1, <2>2 DEF Live
<1>3. CASE \/ ReadKeyRaises(alone) \/ ReadAggregateRaises(alone)
           \/ WriteRaises(alone) \/ Crash(alone) \/ WriteLine(alone)
  <2>1. pc'[alone] \in {"off", "idle", "create"}
    BY <1>0, <1>3 DEF ReadKeyRaises, ReadAggregateRaises, WriteRaises, Crash, WriteLine, Raise
  <2>2. UNCHANGED <<trail, appended, removed>>
    BY <1>3 DEF ReadKeyRaises, ReadAggregateRaises, WriteRaises, Crash, WriteLine, files
  <2> QED
    BY <1>0, <2>1, <2>2 DEF Live
<1>4. CASE ReadKey(alone)
  BY <1>0, <1>4 DEF ReadKey, files, Live, Job
<1>5. CASE ReadAggregate(alone)
  BY <1>0, <1>5 DEF ReadAggregate, files, Live, Job
<1>6. CASE WriteKey(alone) \/ WriteAggregate(alone)
  BY <1>0, <1>6 DEF WriteKey, WriteAggregate, Live
<1>7. CASE VerifierReads \/ VerifierEnds \/ AnchorAggregate \/ TakeBackup
  <2>1. UNCHANGED <<trail, appended, removed, pc, job>>
    BY <1>7 DEF VerifierReads, VerifierEnds, AnchorAggregate, TakeBackup, files
  <2> QED
    BY <1>0, <2>1 DEF Live
<1> QED
  BY OneMovesAlone, <1>1, <1>2, <1>3, <1>4, <1>5, <1>6, <1>7

\* Rows are published when their line is written.
LEMMA PublishedMoves ==
    ASSUME IInv, TrailNext, alone # Nobody
    PROVE  \/ published' = published
           \/ /\ WriteLine(alone) /\ Attestation(alone) \in Att
              /\ published' = published \cup {Attestation(alone)}
              /\ Attestation(alone).seq = job[alone].seq
              /\ Attestation(alone).entry_hash = job[alone].hash
              /\ Live(alone)
<1>1. alone \in Writer /\ Shape /\ KeysFit
  BY OneMovesAlone DEF IInv
<1>2. CASE WriteLine(alone)
  BY <1>1, <1>2, AttestationIsAtt DEF WriteLine, Live
<1>3. CASE ~WriteLine(alone)
  BY <1>3, OneMovesAlone DEF Open, CreateKey, Close, AppendRow, ReadKey, ReadKeyRaises,
        ReadAggregate, ReadAggregateRaises, WriteKey, WriteAggregate, WriteRaises, Crash,
        VerifierReads, VerifierEnds, AnchorAggregate, Truncate, TakeBackup, Restore
<1> QED
  BY <1>2, <1>3

\* Only these incidents cut rows off: another step leaves their count alone.
LEMMA RemovalsCount ==
    ASSUME IInv, TrailNext, alone # Nobody,
           ~(\E n \in 0 .. Len(trail) - 1 : Truncate(n)), ~Restore
    PROVE  /\ Happened("truncate")' <=> Happened("truncate")
           /\ Happened("restore")' <=> Happened("restore")
<1>1. incidents \in [Incidents -> Nat] /\ alone \in Writer
  BY OneMovesAlone DEF IInv, Shape
<1>2. ASSUME NEW k \in Incidents, k \notin {"truncate", "restore"}, Incident(k)
      PROVE  /\ Happened("truncate")' <=> Happened("truncate")
             /\ Happened("restore")' <=> Happened("restore")
  BY <1>1, <1>2 DEF Incident, Happened
<1>3. ASSUME incidents' = incidents
      PROVE  /\ Happened("truncate")' <=> Happened("truncate")
             /\ Happened("restore")' <=> Happened("restore")
  BY <1>3 DEF Happened
<1>4. CASE \/ \E s \in Schemes : Open(alone, s)
           \/ CreateKey(alone) \/ AppendRow(alone)
           \/ ReadKey(alone) \/ ReadKeyRaises(alone)
           \/ ReadAggregate(alone) \/ ReadAggregateRaises(alone)
           \/ WriteKey(alone) \/ WriteAggregate(alone) \/ WriteLine(alone)
           \/ VerifierEnds
  BY <1>3, <1>4 DEF Open, CreateKey, AppendRow, ReadKey, ReadKeyRaises, ReadAggregate,
        ReadAggregateRaises, WriteKey, WriteAggregate, WriteLine, VerifierEnds
<1>5. CASE Close(alone)
  BY <1>2, <1>5 DEF Close, Incident
<1>6. CASE WriteRaises(alone)
  BY <1>2, <1>6 DEF WriteRaises, Incident
<1>7. CASE Crash(alone) \/ AnchorAggregate \/ TakeBackup
  BY <1>2, <1>7 DEF Crash, AnchorAggregate, TakeBackup, Incident
<1>8. CASE VerifierReads
  <2>1. incidents' = incidents \/ Incident("verify")
    BY <1>8 DEF VerifierReads
  <2> QED
    BY <1>2, <1>3, <2>1 DEF Incident
<1> QED
  BY OneMovesAlone, <1>4, <1>5, <1>6, <1>7, <1>8

\* The rows a cut takes away: there are some, and those left are not among them.
LEMMA CutRemoves ==
    ASSUME IInv, OneHolds, TrailNext, alone # Nobody,
           (\E n \in 0 .. Len(trail) - 1 : Truncate(n)) \/ Restore
    PROVE  /\ removed = {} /\ removed' # {} /\ removed' \subseteq 1 .. appended
           /\ UNCHANGED <<appended, published, pc, job, scheme, sealagg>> \/ Restore
           /\ UNCHANGED <<appended, published, pc, job, scheme>>
           /\ ~Live(alone) /\ ~Live(alone)' /\ Evolved' = 0 /\ Evolved = 0
           /\ trail' \in Seq(Nat) /\ Len(trail') < Len(trail)
           /\ \A i \in 1 .. Len(trail') : trail'[i] = i
           /\ removed' = Len(trail') + 1 .. Len(trail)
           /\ Len(trail) = appended
           /\ ~Happened("truncate") /\ ~Happened("restore")
<1>0. /\ Shape /\ WholeTrail /\ trail \in Seq(Nat) /\ backup \in Seq(FileSet) /\ appended \in Nat
      /\ alone \in Writer /\ alone' = alone
  BY OneMovesAlone DEF IInv, OneHolds, Shape
<1>1. /\ removed = {} /\ removed' = RowsOf(trail) \ RowsOf(trail') /\ Quiet
      /\ UNCHANGED <<appended, published, pc, job, scheme>>
  BY DEF Truncate, Restore
<1>2. /\ Len(trail) = appended /\ \A i \in 1 .. Len(trail) : trail[i] = i
      /\ ~Happened("truncate") /\ ~Happened("restore")
      /\ \A i \in DOMAIN backup : CopyHolds(backup[i], appended)
  BY <1>0, <1>1 DEF WholeTrail
<1>3. /\ trail' \in Seq(Nat) /\ Len(trail') < Len(trail)
      /\ \A i \in 1 .. Len(trail') : trail'[i] = i
  <2>1. ASSUME NEW n \in 0 .. Len(trail) - 1, Truncate(n)
        PROVE  /\ trail' \in Seq(Nat) /\ Len(trail') < Len(trail)
               /\ \A i \in 1 .. Len(trail') : trail'[i] = i
    <3>1. trail' = SubSeq(trail, 1, n)
      BY <2>1 DEF Truncate
    <3>2. trail' \in Seq(Nat) /\ Len(trail') = n /\ \A i \in 1 .. n : trail'[i] = trail[i]
      BY <1>0, <3>1
    <3> QED
      BY <1>0, <1>2, <3>2
  <2>2. CASE Restore
    <3>1. backup # << >> /\ Len(backup[1].trail) < Len(trail) /\ trail' = backup[1].trail
      BY <2>2 DEF Restore
    <3>2. 1 \in DOMAIN backup /\ backup[1] \in FileSet
      BY <1>0, <3>1
    <3>3. CopyHolds(backup[1], appended)
      BY <1>2, <3>2
    <3> QED
      BY <3>1, <3>2, <3>3 DEF CopyHolds, FileSet
  <2> QED
    BY <2>1, <2>2
<1>4. RowsOf(trail) = 1 .. Len(trail) /\ RowsOf(trail') = 1 .. Len(trail')
  <2>1. DOMAIN trail = 1 .. Len(trail) /\ DOMAIN trail' = 1 .. Len(trail')
    BY <1>0, <1>3
  <2>2. RowsOf(trail) = 1 .. Len(trail)
    BY <2>1, <1>2 DEF RowsOf
  <2>3. RowsOf(trail') = 1 .. Len(trail')
    BY <2>1, <1>3 DEF RowsOf
  <2> QED
    BY <2>2, <2>3
<1>5. Len(trail) \in Nat /\ Len(trail') \in Nat
  BY <1>0, <1>3
<1>6. removed' = Len(trail') + 1 .. Len(trail)
  BY <1>1, <1>3, <1>4, <1>5
<1>7. removed' # {} /\ removed' \subseteq 1 .. appended
  <2>1. Len(trail) \in removed'
    BY <1>3, <1>5, <1>6
  <2> QED
    BY <2>1, <1>2, <1>5, <1>6
<1>8. pc[alone] \in {"off", "idle"}
  BY <1>0, <1>1 DEF Quiet
<1>9. ~Live(alone) /\ ~Live(alone)' /\ Evolved' = 0 /\ Evolved = 0
  BY <1>0, <1>1, <1>8 DEF Live, Evolved, HasEvolved
<1>10. UNCHANGED sealagg \/ Restore
  BY DEF Truncate
<1> QED
  BY <1>1, <1>2, <1>3, <1>6, <1>7, <1>9, <1>10

\* Rows keep their numbers until some are cut off.
LEMMA WholeTrailKept ==
    ASSUME IInv, OneHolds, TrailNext, alone # Nobody
    PROVE  WholeTrail'
<1> SUFFICES ASSUME removed' = {} PROVE WholeTrail'
  BY DEF WholeTrail
<1>0. /\ Shape /\ WholeTrail /\ trail \in Seq(Nat) /\ appended \in Nat
      /\ alone \in Writer /\ alone' = alone /\ backup \in Seq(FileSet)
      /\ pc \in [Writer -> Where] /\ job \in [Writer -> Job] /\ scheme \in [Writer -> Schemes]
      /\ published \subseteq Att /\ attest \in Seq(Lines)
  BY OneMovesAlone DEF IInv, OneHolds, Shape
<1>1. ~(\E n \in 0 .. Len(trail) - 1 : Truncate(n)) /\ ~Restore
  BY CutRemoves
<1>2. removed = {} /\ ~Happened("truncate")' /\ ~Happened("restore")'
  BY <1>0, <1>1, RowsMove, RemovalsCount DEF WholeTrail
<1>3. /\ Len(trail) = appended /\ \A i \in 1 .. Len(trail) : trail[i] = i
      /\ Live(alone) => job[alone].hash = job[alone].seq + 1 /\ job[alone].hash <= appended
      /\ \A a \in published : a.entry_hash = a.seq + 1 /\ a.entry_hash <= appended
      /\ \A i \in DOMAIN backup : CopyHolds(backup[i], appended)
  BY <1>0, <1>2 DEF WholeTrail
<1>4. /\ appended' \in Nat /\ appended <= appended'
      /\ Len(trail') = appended' /\ \A i \in 1 .. Len(trail') : trail'[i] = i
      /\ Live(alone)' => job'[alone].hash = job'[alone].seq + 1 /\ job'[alone].hash <= appended'
  <2>1. CASE AppendRow(alone)
    <3>1. /\ trail' = Append(trail, appended + 1) /\ appended' = appended + 1
          /\ job'[alone].seq = Len(trail) /\ job'[alone].hash = appended + 1
      BY <1>0, <2>1 DEF AppendRow, NoJob
    <3>2. Len(trail') = Len(trail) + 1 /\ \A i \in 1 .. Len(trail') :
             trail'[i] = IF i = Len(trail) + 1 THEN appended + 1 ELSE trail[i]
      BY <1>0, <3>1
    <3> QED
      BY <1>0, <1>3, <3>1, <3>2
  <2>2. CASE ~AppendRow(alone)
    <3>1. /\ UNCHANGED <<trail, appended>>
          /\ Live(alone)' => /\ Live(alone) /\ job'[alone].seq = job[alone].seq
                             /\ job'[alone].hash = job[alone].hash
      BY <1>1, <2>2, RowsMove
    <3> QED
      BY <1>0, <1>3, <3>1
  <2> QED
    BY <2>1, <2>2
<1>5. \A a \in published' : a.entry_hash = a.seq + 1 /\ a.entry_hash <= appended'
  <2>1. ASSUME NEW a \in published PROVE a.entry_hash = a.seq + 1 /\ a.entry_hash <= appended'
    <3>1. a.entry_hash \in Nat
      BY <1>0 DEF Att
    <3> QED
      BY <1>0, <1>3, <1>4, <3>1
  <2>2. CASE published' = published
    BY <2>1, <2>2
  <2>3. CASE published' # published
    <3>1. /\ published' = published \cup {Attestation(alone)} /\ WriteLine(alone)
          /\ Attestation(alone).seq = job[alone].seq
          /\ Attestation(alone).entry_hash = job[alone].hash /\ Live(alone)
      BY <2>3, PublishedMoves
    <3>2. appended' = appended
      BY <3>1 DEF WriteLine
    <3> QED
      BY <1>3, <2>1, <3>1, <3>2
  <2> QED
    BY <2>2, <2>3
<1>6. \A i \in DOMAIN backup' : CopyHolds(backup'[i], appended')
  <2>1. ASSUME NEW f, CopyHolds(f, appended), f.trail \in Seq(Nat) PROVE CopyHolds(f, appended')
    <3>1. Len(f.trail) \in Nat /\ Len(f.trail) <= appended
      BY <2>1 DEF CopyHolds
    <3>2. Len(f.trail) <= appended'
      BY <1>0, <1>4, <3>1
    <3> QED
      BY <2>1, <3>2 DEF CopyHolds
  <2>2. CASE backup' = backup
    <3>1. \A i \in DOMAIN backup : backup[i].trail \in Seq(Nat)
      <4>1. \A i \in DOMAIN backup : backup[i] \in FileSet
        BY <1>0
      <4> QED
        BY <4>1 DEF FileSet
    <3> QED
      BY <1>3, <2>1, <2>2, <3>1
  <2>3. CASE backup' # backup
    <3>1. TakeBackup
      BY <2>3, <1>1, OneMovesAlone DEF Open, CreateKey, Close, AppendRow, ReadKey, ReadKeyRaises,
        ReadAggregate, ReadAggregateRaises, WriteKey, WriteAggregate, WriteLine, WriteRaises,
        Crash, VerifierReads, VerifierEnds, AnchorAggregate
    <3>2. backup' = <<Files>> /\ Files.trail = trail /\ Files.attest = attest
      BY <3>1 DEF TakeBackup, Files
    <3>3. \A p \in DOMAIN attest : attest[p] # Malformed => attest[p].entry_hash <= Len(trail)
      <4>1. \A p \in DOMAIN attest : attest[p] # Malformed => attest[p] \in published
        BY <1>0 DEF Lines
      <4> QED
        BY <1>3, <4>1
    <3>4. CopyHolds(Files, appended)
      BY <1>0, <1>3, <3>2, <3>3 DEF CopyHolds
    <3>5. CopyHolds(Files, appended')
      BY <1>0, <2>1, <3>2, <3>4
    <3> QED
      BY <3>2, <3>5
  <2> QED
    BY <2>2, <2>3
<1> QED
  BY <1>0, <1>2, <1>4, <1>5, <1>6 DEF WholeTrail

\* What the process does to .attest: it adds a line, whole or torn.
LEMMA LinesMove ==
    ASSUME IInv, TrailNext, alone # Nobody,
           ~(\E n \in 0 .. Len(trail) - 1 : Truncate(n)), ~Restore
    PROVE  \/ attest' = attest /\ ~WriteLine(alone)
           \/ WriteRaises(alone) /\ pc[alone] = "line" /\ attest' = Append(attest, Malformed)
           \/ WriteLine(alone) /\ attest' = Append(attest, Attestation(alone))
<1>1. CASE WriteLine(alone)
  BY <1>1 DEF WriteLine
<1>2. CASE WriteRaises(alone) /\ ~WriteLine(alone)
  BY <1>2 DEF WriteRaises
<1>3. CASE ~WriteLine(alone) /\ ~WriteRaises(alone)
  BY <1>3, OneMovesAlone DEF Open, CreateKey, Close, AppendRow, ReadKey, ReadKeyRaises,
        ReadAggregate, ReadAggregateRaises, WriteKey, WriteAggregate, Crash,
        VerifierReads, VerifierEnds, AnchorAggregate, TakeBackup, files
<1> QED
  BY <1>1, <1>2, <1>3

\* A torn line is no attestation.
LEMMA MalformedIsNoAtt == Malformed \notin Att
<1> SUFFICES ASSUME Malformed \in Att PROVE FALSE
  OBVIOUS
<1>1. "seq" \in DOMAIN Malformed
  BY DEF Att
<1>2. DOMAIN Malformed = {"malformed"}
  BY DEF Malformed
<1> QED
  BY <1>1, <1>2

\* No line of a removed row comes back to where its row was.
LEMMA RemovedKept ==
    ASSUME IInv, OneHolds, TrailNext, alone # Nobody
    PROVE  RemovedHolds'
<1>0. /\ Shape /\ WholeTrail /\ RemovedHolds /\ trail \in Seq(Nat) /\ appended \in Nat
      /\ alone \in Writer /\ alone' = alone /\ backup \in Seq(FileSet)
      /\ pc \in [Writer -> Where] /\ job \in [Writer -> Job]
      /\ published \subseteq Att /\ attest \in Seq(Lines) /\ incidents \in [Incidents -> Nat]
      /\ \A p \in DOMAIN attest : attest[p] # Malformed => attest[p] \in published
  BY OneMovesAlone DEF IInv, OneHolds, Shape, Lines
<1>1. CASE (\E n \in 0 .. Len(trail) - 1 : Truncate(n)) \/ Restore
  <2>1. /\ removed = {} /\ removed' \subseteq 1 .. appended /\ appended' = appended
        /\ ~Live(alone)' /\ trail' \in Seq(Nat)
        /\ removed' = Len(trail') + 1 .. Len(trail) /\ Len(trail) = appended
        /\ ~Happened("truncate") /\ ~Happened("restore")
    BY <1>1, CutRemoves
  <2>2. /\ \A a \in published : a.entry_hash = a.seq + 1 /\ a.entry_hash <= appended
        /\ \A i \in DOMAIN backup : CopyHolds(backup[i], appended)
    BY <1>0, <2>1 DEF WholeTrail
  <2>3. Len(trail) \in Nat /\ Len(trail') \in Nat
    BY <1>0, <2>1
  <2>4. ASSUME NEW n \in 0 .. Len(trail) - 1, Truncate(n)
        PROVE  RemovedHolds'
    <3>1. /\ trail' = SubSeq(trail, 1, n) /\ Incident("truncate")
          /\ attest' = SubSeq(attest, 1, IF n < Len(attest) THEN n ELSE Len(attest))
      BY <2>4 DEF Truncate
    <3>2. Len(trail') = n
      BY <1>0, <3>1
    <3>3. \A p \in DOMAIN attest' : /\ p \in DOMAIN attest /\ p <= n /\ p \in Nat
                                    /\ attest'[p] = attest[p]
      BY <1>0, <3>1
    <3>4. ASSUME NEW p \in DOMAIN attest', attest'[p] # Malformed, attest'[p].seq = p - 1
          PROVE  attest'[p].entry_hash \notin removed'
      <4>1. attest'[p].entry_hash = (p - 1) + 1
        BY <1>0, <2>2, <3>3, <3>4
      <4> QED
        BY <2>1, <2>3, <3>2, <3>3, <4>1
    <3>5. ~Happened("restore")'
      BY <1>0, <2>1, <3>1 DEF Incident, Happened
    <3> QED
      BY <1>0, <2>1, <3>4, <3>5 DEF RemovedHolds
  <2>5. CASE Restore
    <3>1. /\ backup # << >> /\ trail' = backup[1].trail /\ attest' = backup[1].attest
          /\ Incident("restore")
      BY <2>5 DEF Restore
    <3>2. 1 \in DOMAIN backup
      BY <1>0, <3>1
    <3>3. ASSUME NEW p \in DOMAIN attest', attest'[p] # Malformed
          PROVE  attest'[p].entry_hash \notin removed'
      <4>1. attest'[p].entry_hash <= Len(trail')
        BY <2>2, <3>1, <3>2, <3>3 DEF CopyHolds
      <4> QED
        BY <2>1, <2>3, <4>1
    <3>4. ~Happened("truncate")'
      BY <1>0, <2>1, <3>1 DEF Incident, Happened
    <3> QED
      BY <1>0, <2>1, <3>3, <3>4 DEF RemovedHolds
  <2> QED
    BY <1>1, <2>4, <2>5
<1>2. CASE ~((\E n \in 0 .. Len(trail) - 1 : Truncate(n)) \/ Restore)
  <2>1. removed' = removed
    BY <1>2, RowsMove
  <2>2. removed' \subseteq 1 .. appended' /\ (Live(alone)' => job'[alone].hash \notin removed')
    <3>1. CASE AppendRow(alone)
      <4>1. appended' = appended + 1 /\ job'[alone].hash = appended + 1
        BY <1>0, <3>1 DEF AppendRow, NoJob
      <4> QED
        BY <1>0, <2>1, <4>1 DEF RemovedHolds
    <3>2. CASE ~AppendRow(alone)
      BY <1>0, <1>2, <2>1, <3>2, RowsMove DEF RemovedHolds
    <3> QED
      BY <3>1, <3>2
  <2>3. \A p \in DOMAIN attest' :
          attest'[p] # Malformed /\ attest'[p].seq = p - 1 => attest'[p].entry_hash \notin removed
    <3>1. CASE attest' = attest
      BY <1>0, <3>1 DEF RemovedHolds
    <3>2. CASE attest' = Append(attest, Malformed)
      <4>1. \A p \in DOMAIN attest' : (p \in DOMAIN attest /\ attest'[p] = attest[p])
                                      \/ attest'[p] = Malformed
        BY <1>0, <3>2
      <4> QED
        BY <1>0, <4>1 DEF RemovedHolds
    <3>3. CASE WriteLine(alone) /\ attest' = Append(attest, Attestation(alone))
      <4>1. /\ Attestation(alone).entry_hash = job[alone].hash /\ Live(alone)
        BY <1>0, <3>3, AttestationIsAtt DEF WriteLine, IInv, Live
      <4>2. \A p \in DOMAIN attest' : (p \in DOMAIN attest /\ attest'[p] = attest[p])
                                      \/ attest'[p] = Attestation(alone)
        BY <1>0, <3>3
      <4> QED
        BY <1>0, <4>1, <4>2 DEF RemovedHolds
    <3> QED
      BY <1>2, <3>1, <3>2, <3>3, LinesMove
  <2>4. ~(Happened("truncate")' /\ Happened("restore")')
    BY <1>0, <1>2, RemovalsCount DEF RemovedHolds
  <2> QED
    BY <1>0, <2>1, <2>2, <2>3, <2>4 DEF RemovedHolds
<1> QED
  BY <1>1, <1>2

\* The keyfile moves with the lines.
LEMMA KeyIsAheadKept ==
    ASSUME IInv, OneHolds, TrailNext, alone # Nobody
    PROVE  KeyIsAhead'
<1> USE DEF Goto
<1> SUFFICES ASSUME ~Happened("restore")' PROVE KeyIsAhead'
  BY DEF KeyIsAhead
<1>0. /\ Shape /\ KeysFit /\ WholeTrail /\ RemovedHolds /\ SealsOnly /\ appended \in Nat
      /\ alone \in Writer /\ alone' = alone /\ sealkey \in Seq(EpochKeys)
      /\ pc \in [Writer -> Where] /\ job \in [Writer -> Job] /\ scheme \in [Writer -> Schemes]
      /\ job[alone].seq \in Nat
      /\ published \subseteq Att /\ attest \in Seq(Lines) /\ Len(attest) \in Nat
      /\ incidents \in [Incidents -> Nat] /\ trail \in Seq(Nat)
  <2>1. /\ Shape /\ KeysFit /\ WholeTrail /\ RemovedHolds /\ SealsOnly /\ appended \in Nat
        /\ alone \in Writer /\ alone' = alone /\ sealkey \in Seq(EpochKeys)
        /\ pc \in [Writer -> Where] /\ job \in [Writer -> Job] /\ scheme \in [Writer -> Schemes]
        /\ published \subseteq Att /\ attest \in Seq(Lines)
        /\ incidents \in [Incidents -> Nat] /\ trail \in Seq(Nat)
    BY OneMovesAlone DEF IInv, OneHolds, Shape
  <2>2. job[alone] \in Job
    BY <2>1
  <2>3. job[alone].seq \in Nat
    BY <2>2 DEF Job
  <2>4. Len(attest) \in Nat
    BY <2>1
  <2> QED
    BY <2>1, <2>3, <2>4
<1>1. ~Happened("restore")
  BY <1>0, IncidentsStay DEF TrailNext
<1>2. KeyMovesOn /\ KeyIsAhead
  BY <1>1 DEF IInv, AloneHolds, OneHolds
<1>3. ~Restore
  <2> SUFFICES ASSUME Restore PROVE FALSE
    OBVIOUS
  <2>1. Incident("restore")
    BY DEF Restore
  <2> QED
    BY <1>0, <2>1 DEF Incident, Happened
<1>4. sealkey # << >> => sealkey[1].epoch \in Nat
  <2> SUFFICES ASSUME sealkey # << >> PROVE sealkey[1].epoch \in Nat
    OBVIOUS
  <2>1. 1 \in DOMAIN sealkey /\ sealkey[1] \in EpochKeys
    BY <1>0
  <2> QED
    BY <2>1 DEF EpochKeys
<1>5. ASSUME NEW n \in 0 .. Len(trail) - 1, Truncate(n)
      PROVE  KeyIsAhead'
  <2>1. /\ sealkey' = sealkey /\ trail' = SubSeq(trail, 1, n) /\ published' = published
        /\ attest' = SubSeq(attest, 1, IF n < Len(attest) THEN n ELSE Len(attest))
    BY <1>5 DEF Truncate
  <2>2. /\ Evolved = 0 /\ Evolved' = 0 /\ removed = {}
        /\ removed' = Len(trail') + 1 .. Len(trail)
    BY <1>5, CutRemoves
  <2>3. Len(trail') = n /\ Len(trail) \in Nat
    BY <1>0, <2>1
  <2>4. Len(attest') = (IF n < Len(attest) THEN n ELSE Len(attest)) /\ attest' \in Seq(Lines)
    BY <1>0, <2>1
  <2>5. attest' # << >> => attest # << >>
    BY <1>0, <2>4
  <2>6. sealkey # << >> => Len(attest) <= sealkey[1].epoch
    BY <1>0, <1>1, <1>2, <1>4, <2>2 DEF KeyIsAhead
  <2>7. sealkey # << >> => Len(attest') <= sealkey[1].epoch
    BY <1>0, <1>4, <2>4, <2>6
  <2>8. ASSUME NEW a \in published, a.entry_hash \in removed'
        PROVE  sealkey # << >> /\ Len(attest') < sealkey[1].epoch
    <3>1. a.entry_hash = a.seq + 1 /\ a.seq \in Nat
      BY <1>0, <2>2 DEF WholeTrail, Att
    <3>2. sealkey # << >> /\ a.seq < sealkey[1].epoch
      BY <1>0, <1>2 DEF KeyMovesOn, SealsOnly
    <3>3. n < a.seq + 1
      BY <2>2, <2>3, <2>8, <3>1
    <3> QED
      BY <1>0, <1>4, <2>4, <3>1, <3>2, <3>3
  <2> QED
    BY <1>1, <1>2, <2>1, <2>2, <2>4, <2>5, <2>7, <2>8 DEF KeyIsAhead
<1>6. CASE ~(\E n \in 0 .. Len(trail) - 1 : Truncate(n))
  <2>1. removed' = removed /\ (Happened("truncate")' <=> Happened("truncate"))
    BY <1>3, <1>6, RowsMove, RemovalsCount
  <2>2. (\E a \in published' : a.entry_hash \in removed') =>
           \E a \in published : a.entry_hash \in removed
    BY <1>0, <2>1, PublishedMoves DEF RemovedHolds
  <2>3. ASSUME UNCHANGED <<sealkey, attest>>, Evolved' <= Evolved, Evolved' \in Nat, Evolved \in Nat
        PROVE  KeyIsAhead'
    <3>1. sealkey # << >> /\ Len(attest) + Evolved <= sealkey[1].epoch =>
             Len(attest) + Evolved' <= sealkey[1].epoch
      BY <1>0, <1>4, <2>3
    <3>2. sealkey # << >> /\ Len(attest) + Evolved < sealkey[1].epoch =>
             Len(attest) + Evolved' < sealkey[1].epoch
      BY <1>0, <1>4, <2>3
    <3> QED
      BY <1>1, <1>2, <2>1, <2>2, <2>3, <3>1, <3>2 DEF KeyIsAhead
  <2>4. Evolved \in {0, 1} /\ Evolved' \in {0, 1}
    BY DEF Evolved
  <2>5. CASE CreateKey(alone)
    <3>1. sealkey = << >> /\ sealkey' # << >> /\ sealkey'[1].epoch = 0 /\ attest' = attest
          /\ published' = published /\ pc'[alone] = "idle"
      BY <1>0, <1>2, <2>5 DEF CreateKey, KeyMovesOn
    <3>2. attest = << >> /\ Keyed = {}
      BY <1>1, <1>2, <3>1 DEF KeyIsAhead, KeyMovesOn
    <3>3. Evolved' = 0
      BY <1>0, <3>1 DEF Evolved, HasEvolved
    <3>4. published' = {}
      BY <1>0, <3>1, <3>2 DEF SealsOnly
    <3> QED
      BY <3>1, <3>2, <3>3, <3>4 DEF KeyIsAhead
  <2>6. CASE WriteKey(alone)
    <3>1. HasKey(alone) /\ ~HasEvolved(alone)
      BY <2>6 DEF WriteKey, HasKey, HasEvolved
    <3>2. sealkey # << >> /\ sealkey[1].epoch = job[alone].seq /\ Evolved = 0
      BY <1>2, <3>1 DEF KeyMovesOn, Evolved
    <3>3. sealkey' # << >> /\ sealkey'[1].epoch = sealkey[1].epoch + 1 /\ attest' = attest
      BY <2>6, <3>2 DEF WriteKey
    <3>4. /\ Len(attest) <= sealkey[1].epoch
          /\ Happened("truncate") /\ (\E a \in published : a.entry_hash \in removed) =>
                Len(attest) < sealkey[1].epoch
      BY <1>0, <1>1, <1>2, <1>4, <3>2 DEF KeyIsAhead
    <3>5. /\ Len(attest) + Evolved' <= sealkey[1].epoch + 1
          /\ Len(attest) < sealkey[1].epoch => Len(attest) + Evolved' < sealkey[1].epoch + 1
      BY <1>0, <1>4, <2>4, <3>2, <3>4
    <3> QED
      BY <2>1, <2>2, <3>3, <3>4, <3>5 DEF KeyIsAhead
  <2>7. CASE WriteLine(alone) \/ (WriteRaises(alone) /\ attest' = Append(attest, Malformed))
    <3>1. pc[alone] = "line" /\ sealkey' = sealkey /\ Len(attest') = Len(attest) + 1
          /\ attest' # << >> /\ pc'[alone] = "idle"
      <4>1. PICK x \in Lines' : attest' = Append(attest, x)
        BY <1>0, <2>7 DEF WriteLine, Lines
      <4>2. pc[alone] = "line"
        <5>1. attest # Append(attest, Malformed)
          BY <1>0 DEF Lines
        <5> QED
          BY <2>7, <5>1 DEF WriteLine, WriteRaises
      <4>3. sealkey' = sealkey /\ pc'[alone] = "idle"
        BY <1>0, <2>7 DEF WriteLine, WriteRaises, Raise
      <4>4. attest \in Seq(Lines')
        BY <1>0, <4>1, LinesStay, PublishedMoves
      <4> QED
        BY <4>1, <4>2, <4>3, <4>4
    <3>2. HasKey(alone) /\ HasEvolved(alone) /\ Evolved = 1 /\ Evolved' = 0
      BY <1>0, <3>1 DEF HasKey, HasEvolved, Evolved, SealsOnly
    <3>3. sealkey # << >>
      BY <1>2, <3>2 DEF KeyMovesOn
    <3>4. Len(attest') + Evolved' = Len(attest) + Evolved
      BY <1>0, <3>1, <3>2
    <3> QED
      BY <1>1, <1>2, <2>1, <2>2, <3>1, <3>3, <3>4 DEF KeyIsAhead
  <2>8. CASE WriteAggregate(alone)
    <3>1. Evolved = 1 /\ UNCHANGED <<sealkey, attest>>
      BY <2>8 DEF Evolved, HasEvolved, WriteAggregate
    <3> QED
      BY <2>3, <2>4, <3>1
  <2>9. CASE ReadKey(alone) \/ ReadAggregate(alone)
    <3>1. UNCHANGED <<sealkey, attest>> /\ pc'[alone] \in {"agg", "write_key"}
      BY <1>0, <2>9 DEF ReadKey, ReadAggregate, files
    <3>2. Evolved' = 0
      BY <1>0, <3>1 DEF Evolved, HasEvolved
    <3> QED
      BY <2>3, <2>4, <3>1, <3>2
  <2>10. CASE AppendRow(alone)
    <3>1. UNCHANGED <<sealkey, attest, scheme>> /\ pc'[alone] \in {"key", "line"}
          /\ (pc'[alone] = "line" => scheme[alone] = SIG_SCHEME)
      BY <1>0, <2>10 DEF AppendRow
    <3>2. Evolved' = 0
      BY <1>0, <3>1 DEF Evolved, HasEvolved
    <3> QED
      BY <2>3, <2>4, <3>1, <3>2
  <2>11. CASE /\ \/ \E s \in Schemes : Open(alone, s)
                 \/ Close(alone) \/ ReadKeyRaises(alone) \/ ReadAggregateRaises(alone)
                 \/ WriteRaises(alone) \/ Crash(alone)
              /\ attest' = attest
    <3>1. UNCHANGED <<sealkey, attest>> /\ pc'[alone] \in {"off", "idle", "create"}
      BY <1>0, <2>11 DEF Open, Close, ReadKeyRaises, ReadAggregateRaises, WriteRaises, Crash,
                         Raise, files
    <3>2. Evolved' = 0
      BY <1>0, <3>1 DEF Evolved, HasEvolved
    <3> QED
      BY <2>3, <2>4, <3>1, <3>2
  <2>12. CASE VerifierReads \/ VerifierEnds \/ AnchorAggregate \/ TakeBackup
    <3>1. UNCHANGED <<sealkey, attest, pc, scheme>>
      BY <2>12 DEF VerifierReads, VerifierEnds, AnchorAggregate, TakeBackup, files
    <3>2. Evolved' = Evolved
      BY <1>0, <3>1 DEF Evolved, HasEvolved
    <3> QED
      BY <2>3, <2>4, <3>1, <3>2
  <2>13. attest' = attest \/ WriteLine(alone)
         \/ (WriteRaises(alone) /\ attest' = Append(attest, Malformed))
    BY <1>3, <1>6, LinesMove
  <2> QED
    BY <1>3, <1>6, <2>5, <2>6, <2>7, <2>8, <2>9, <2>10, <2>11, <2>12, <2>13, OneMovesAlone
<1> QED
  BY <1>5, <1>6

\* Rows that were cut off leave the keyfile ahead for good.
LEMMA CutsAreReported == IInv /\ OneHolds => TruncationIsReported
<1> SUFFICES ASSUME IInv, OneHolds, Happened("truncate"),
                    NEW a \in published, a.entry_hash \in removed
             PROVE  verify_sidecar("key", Files) # "ok"
  BY DEF TruncationIsReported
<1>1. /\ alone # Nobody /\ KeyIsAhead /\ ~Happened("restore")
      /\ attest \in Seq(Lines) /\ sealkey \in Seq(EpochKeys)
  BY DEF OneHolds, RemovedHolds, IInv, Shape
<1>2. sealkey # << >> /\ Len(attest) + Evolved < sealkey[1].epoch
  BY <1>1 DEF KeyIsAhead
<1>3. Evolved \in {0, 1}
  BY DEF Evolved
<1>4. sealkey[1] \in EpochKeys /\ Len(attest) \in Nat
  BY <1>1, <1>2
<1>5. sealkey[1].epoch \in Nat
  BY <1>4 DEF EpochKeys
<1>6. sealkey[1].epoch # Len(attest)
  BY <1>2, <1>3, <1>4, <1>5
<1>7. check_continuity(sealkey, Len(attest)) = "keyfile_epoch_mismatch"
  BY <1>2, <1>6 DEF check_continuity
<1>8. Files.sealkey = sealkey /\ Files.attest = attest
  BY DEF Files
<1> QED
  BY <1>7, <1>8 DEF verify_sidecar

\* A commitment that verifies is of lines that are there, each where its row
\* was; a line of a removed row never is.
LEMMA RollbacksAreCaught == IInv /\ OneHolds => RollbackIsCaught
<1> SUFFICES ASSUME IInv, OneHolds, NEW a \in anchored, NEW i \in DOMAIN a.agg,
                    a.agg[i][2][2] \in removed, verify_anchored_aggregates(a) = "ok"
             PROVE  FALSE
  BY DEF RollbackIsCaught
<1>1. /\ alone # Nobody /\ SealsOnly /\ RemovedHolds /\ KeysFit
      /\ attest \in Seq(Lines) /\ published \subseteq Att /\ published = Keyed
      /\ a.epoch \in Nat /\ a.agg \in Seq(Seals) /\ a.commit = <<a.epoch, a.agg>>
  BY DEF OneHolds, SealsOnly, IInv, Shape
<1> DEFINE start == IF sealagg = << >> THEN 0 ELSE sealagg[1].agg_start
           F == Fold(attest, start, a.epoch)
<1>2. /\ \A p \in DOMAIN attest : attest[p] # Malformed
      /\ verify_anchored_aggregate(attest, start, a.epoch, a.commit) = "ok"
  BY DEF verify_anchored_aggregates
<1> HIDE DEF start
<1>3. ~(a.epoch > Len(attest)) /\ <<a.epoch, F>> = a.commit
  BY <1>2 DEF verify_anchored_aggregate, AnchoredRowsMissing, aggregate_commit
<1>4. F = a.agg
  BY <1>1, <1>3
<1>5. ASSUME NEW p \in 1 .. a.epoch
      PROVE  /\ p \in DOMAIN attest /\ p \in Nat /\ attest[p] \in Keyed /\ attest[p] \in Att
             /\ attest[p].value = <<attest[p].seq, attest[p].entry_hash>>
             /\ attest[p].seq \in Nat /\ attest[p].entry_hash \in Nat
             /\ attest[p].value \in Nat \X Nat
  <2>1. p \in DOMAIN attest /\ p \in Nat
    BY <1>1, <1>3
  <2>2. attest[p] \in published
    BY <1>1, <1>2, <2>1 DEF Lines
  <2>3. attest[p] \in Att /\ attest[p].value = <<attest[p].seq, attest[p].entry_hash>>
    BY <1>1, <2>2 DEF KeysFit
  <2>4. attest[p].seq \in Nat /\ attest[p].entry_hash \in Nat
    BY <2>3 DEF Att
  <2> QED
    BY <1>1, <2>1, <2>2, <2>3, <2>4
<1>6. \A j \in DOMAIN F : \E p \in 1 .. a.epoch : F[j] = <<p - 1, attest[p].value>>
  <2> DEFINE e == a.epoch
  <2>1. e \in Nat /\ \A p \in 1 .. e : attest[p].value \in Nat \X Nat
    BY <1>1, <1>5
  <2> HIDE DEF e
  <2>2. \A j \in DOMAIN Fold(attest, start, e) :
           \E p \in 1 .. e : Fold(attest, start, e)[j] = <<p - 1, attest[p].value>>
    BY <2>1, FoldElements
  <2> QED
    BY <2>2 DEF e
<1>7. PICK p \in 1 .. a.epoch : a.agg[i] = <<p - 1, attest[p].value>>
  BY <1>4, <1>6
<1>8. a.agg[i] \in Seals
  BY <1>1
<1>9. a.agg[i] = <<p - 1, <<attest[p].seq, attest[p].entry_hash>>>>
  BY <1>5, <1>7
<1>10. attest[p].seq = p - 1 /\ attest[p].entry_hash \in removed
  BY <1>8, <1>9 DEF Seals
<1>11. p \in DOMAIN attest /\ attest[p] # Malformed
  BY <1>2, <1>5
<1> QED
  BY <1>1, <1>10, <1>11 DEF RemovedHolds

-----------------------------------------------------------------------------
(* One process and no failure: the sidecars stay level with the rows.      *)

\* A trail that is healthy after a step was so before, and the step was none
\* that fails or cuts.
LEMMA HealthySteps ==
    ASSUME IInv, OneHolds, TrailNext, alone # Nobody, Healthy'
    PROVE  /\ Healthy /\ alone' = alone /\ alone \in Writer /\ scheme'[alone] # SIG_SCHEME
           /\ \/ \E s \in Schemes : Open(alone, s)
              \/ CreateKey(alone) \/ Close(alone) \/ AppendRow(alone)
              \/ ReadKey(alone) \/ ReadKeyRaises(alone)
              \/ ReadAggregate(alone) \/ ReadAggregateRaises(alone)
              \/ WriteKey(alone) \/ WriteAggregate(alone) \/ WriteLine(alone)
              \/ VerifierReads \/ VerifierEnds \/ AnchorAggregate \/ TakeBackup
<1>1. Shape /\ incidents \in [Incidents -> Nat] /\ Next
  BY DEF IInv, Shape, TrailNext
<1>2. ~(\E n \in 0 .. Len(trail) - 1 : Truncate(n)) /\ ~Restore
  BY CutRemoves DEF Healthy
<1>3. removed = {}
  BY <1>2, RowsMove DEF Healthy
<1>4. \A k \in Faults : ~Happened(k)
  BY <1>1, IncidentsStay DEF Healthy
<1>5. ASSUME NEW k \in Faults, Incident(k) PROVE FALSE
  <2>1. k \in Incidents /\ incidents' = [incidents EXCEPT ![k] = @ + 1]
    BY <1>5 DEF Incident
  <2>2. incidents'[k] > 0
    BY <1>1, <2>1
  <2>3. Happened(k)'
    BY <2>1, <2>2 DEF Happened
  <2> QED
    BY <2>3 DEF Healthy
<1>6. ~WriteRaises(alone) /\ ~Crash(alone)
  BY <1>5 DEF WriteRaises, Crash, Faults
<1> QED
  BY <1>2, <1>3, <1>4, <1>6, OneMovesAlone DEF Healthy

\* What a healthy trail looks like between two steps.
LEMMA HealthyFacts ==
    ASSUME IInv, OneHolds, alone # Nobody, Healthy
    PROVE  /\ alone \in Writer /\ trail \in Seq(Nat) /\ Len(trail) \in Nat
           /\ attest \in Seq(Lines) /\ Len(attest) \in Nat /\ published \subseteq Att
           /\ pc \in [Writer -> Where] /\ job \in [Writer -> Job] /\ scheme \in [Writer -> Schemes]
           /\ Len(trail) = appended /\ \A i \in 1 .. Len(trail) : trail[i] = i
           /\ job[alone].seq \in Nat
           /\ Live(alone) => job[alone].hash = job[alone].seq + 1 /\ job[alone].hash <= Len(trail)
           /\ HasKey(alone) => job[alone].key = job[alone].seq
           /\ pc[alone] = "create" => sealkey = << >>
           /\ pc[alone] # "off" => scheme[alone] # SIG_SCHEME
           /\ sealkey # << >> => sealkey[1].epoch \in Nat
           /\ sealagg # << >> => sealagg[1].agg_start \in Nat /\ sealagg[1].epoch \in Nat
           /\ LinesHold /\ AggregateHolds /\ AnchorsHold /\ SnapHolds
<1>1. /\ Shape /\ KeysFit /\ WholeTrail /\ SealsOnly /\ HealthyHolds /\ removed = {}
      /\ alone \in Writer
  BY DEF IInv, OneHolds, Healthy, Shape
<1>2. LinesHold /\ AggregateHolds /\ AnchorsHold /\ SnapHolds
  BY <1>1 DEF HealthyHolds
<1>3. /\ trail \in Seq(Nat) /\ attest \in Seq(Lines) /\ published \subseteq Att
      /\ pc \in [Writer -> Where] /\ job \in [Writer -> Job] /\ scheme \in [Writer -> Schemes]
      /\ sealkey \in Seq(EpochKeys) /\ sealagg \in Seq(Agg)
  BY <1>1 DEF Shape
<1>4. job[alone] \in Job
  BY <1>1, <1>3
<1>5. job[alone].seq \in Nat
  BY <1>4 DEF Job
<1>6. Len(trail) \in Nat /\ Len(attest) \in Nat
  BY <1>3
<1>7. ~Happened("restore") /\ Len(trail) = appended /\ (\A i \in 1 .. Len(trail) : trail[i] = i)
      /\ (Live(alone) => job[alone].hash = job[alone].seq + 1 /\ job[alone].hash <= Len(trail))
  BY <1>1 DEF WholeTrail
<1>8. pc[alone] = "create" => sealkey = << >>
  BY <1>7 DEF IInv, AloneHolds, KeyMovesOn
<1>9. HasKey(alone) => job[alone].key = job[alone].seq
  BY <1>1 DEF KeysFit
<1>10. pc[alone] # "off" => scheme[alone] # SIG_SCHEME
  BY <1>1 DEF SealsOnly
<1>11. ASSUME sealkey # << >> PROVE sealkey[1].epoch \in Nat
  <2>1. sealkey[1] \in EpochKeys
    BY <1>3, <1>11
  <2> QED
    BY <2>1 DEF EpochKeys
<1>12. ASSUME sealagg # << >> PROVE sealagg[1].agg_start \in Nat /\ sealagg[1].epoch \in Nat
  <2>1. sealagg[1] \in Agg
    BY <1>3, <1>12
  <2> QED
    BY <2>1 DEF Agg
<1> QED
  BY <1>1, <1>2, <1>3, <1>5, <1>6, <1>7, <1>8, <1>9, <1>10, <1>11, <1>12

\* The line the process writes is the one of the next row.
LEMMA NextLine ==
    ASSUME IInv, OneHolds, alone # Nobody, Healthy, pc[alone] = "line"
    PROVE  /\ LineHolds(Attestation(alone), Len(attest) + 1)
           /\ Attestation(alone).scheme = scheme[alone] /\ Len(attest) + 1 <= Len(trail)
           /\ Evolved = 1 /\ HasKey(alone) /\ Live(alone)
<1>0. /\ alone \in Writer /\ Len(attest) \in Nat /\ job[alone].seq \in Nat
      /\ pc[alone] # "off" => scheme[alone] # SIG_SCHEME
      /\ Live(alone) => job[alone].hash = job[alone].seq + 1 /\ job[alone].hash <= Len(trail)
      /\ HasKey(alone) => job[alone].key = job[alone].seq
      /\ LinesHold /\ Shape /\ KeysFit
  BY HealthyFacts DEF IInv
<1>1. HasKey(alone) /\ HasEvolved(alone) /\ Live(alone) /\ scheme[alone] # SIG_SCHEME
  BY <1>0 DEF HasKey, HasEvolved, Live
<1>2. /\ job[alone].seq = Len(attest) /\ job[alone].key = Len(attest)
      /\ job[alone].hash = Len(attest) + 1
  BY <1>0, <1>1 DEF LinesHold
<1>3. Attestation(alone) \in Att
  BY <1>0, <1>1, AttestationIsAtt
<1>4. /\ Attestation(alone).seq = job[alone].seq
      /\ Attestation(alone).entry_hash = job[alone].hash
      /\ Attestation(alone).scheme = scheme[alone]
      /\ Attestation(alone).value = <<job[alone].key, job[alone].hash>>
  BY <1>1 DEF Attestation, seal_entry
<1>5. (Len(attest) + 1) - 1 = Len(attest)
  BY <1>0
<1> QED
  BY <1>0, <1>1, <1>2, <1>3, <1>4, <1>5 DEF LineHolds, Evolved

\* The lines stay the first rows, one by one.
LEMMA LinesKept ==
    ASSUME IInv, OneHolds, TrailNext, alone # Nobody, Healthy'
    PROVE  LinesHold'
<1> USE DEF Goto
<1>0. /\ Healthy /\ alone' = alone /\ scheme'[alone] # SIG_SCHEME
      /\ alone \in Writer /\ trail \in Seq(Nat) /\ Len(trail) \in Nat
      /\ attest \in Seq(Lines) /\ Len(attest) \in Nat /\ published \subseteq Att
      /\ pc \in [Writer -> Where] /\ job \in [Writer -> Job] /\ scheme \in [Writer -> Schemes]
      /\ job[alone].seq \in Nat
      /\ pc[alone] = "create" => sealkey = << >>
      /\ pc[alone] # "off" => scheme[alone] # SIG_SCHEME
      /\ LinesHold
  BY HealthySteps, HealthyFacts
<1>1. Evolved \in {0, 1} /\ Evolved' \in {0, 1}
  BY DEF Evolved
<1>2. /\ \A p \in DOMAIN attest : LineHolds(attest[p], p)
      /\ Len(attest) <= Len(trail)
      /\ sealkey = << >> => attest = << >> /\ pc[alone] \in {"off", "create"}
      /\ sealkey # << >> => sealkey[1].epoch = Len(attest) + Evolved
      /\ HasKey(alone) => job[alone].seq = Len(attest)
      /\ failed = {} => Len(trail) = Len(attest) + (IF Live(alone) THEN 1 ELSE 0)
  BY <1>0 DEF LinesHold
<1>3. ASSUME UNCHANGED <<trail, sealkey, attest>>, Evolved' = Evolved,
             HasKey(alone)' => HasKey(alone) /\ job'[alone].seq = job[alone].seq,
             sealkey = << >> => pc'[alone] \in {"off", "create"},
             failed' = {} => failed = {} /\ (Live(alone)' <=> Live(alone))
      PROVE  LinesHold'
  BY <1>0, <1>2, <1>3 DEF LinesHold
<1>4. CASE \E s \in Schemes : Open(alone, s)
  <2>1. PICK s \in Schemes : Open(alone, s)
    BY <1>4
  <2>2. /\ UNCHANGED <<trail, sealkey, attest, failed>> /\ pc[alone] = "off" /\ scheme'[alone] = s
        /\ pc'[alone] = IF s # SIG_SCHEME /\ sealkey = << >> THEN "create" ELSE "idle"
    BY <1>0, <2>1 DEF Open, files
  <2>3. Evolved = 0 /\ Evolved' = 0 /\ ~Live(alone) /\ ~Live(alone)' /\ ~HasKey(alone)'
    BY <1>0, <2>2 DEF Evolved, HasEvolved, Live, HasKey
  <2> QED
    BY <1>0, <1>3, <2>2, <2>3
<1>5. CASE CreateKey(alone)
  <2>1. /\ UNCHANGED <<trail, attest, failed>> /\ pc[alone] = "create" /\ pc'[alone] = "idle"
        /\ sealkey' # << >> /\ sealkey'[1].epoch = 0
    BY <1>0, <1>5 DEF CreateKey
  <2>2. attest = << >> /\ Len(attest) = 0
    BY <1>0, <1>2, <2>1
  <2>3. Evolved' = 0 /\ ~Live(alone) /\ ~Live(alone)' /\ ~HasKey(alone)'
    BY <1>0, <2>1 DEF Evolved, HasEvolved, Live, HasKey
  <2> QED
    BY <1>0, <1>2, <2>1, <2>2, <2>3 DEF LinesHold
<1>6. CASE Close(alone)
  <2>1. UNCHANGED <<trail, sealkey, attest, failed>> /\ pc[alone] = "idle" /\ pc'[alone] = "off"
    BY <1>0, <1>6 DEF Close, files
  <2>2. Evolved = 0 /\ Evolved' = 0 /\ ~Live(alone) /\ ~Live(alone)' /\ ~HasKey(alone)'
    BY <1>0, <2>1 DEF Evolved, HasEvolved, Live, HasKey
  <2> QED
    BY <1>3, <2>1, <2>2
<1>7. CASE AppendRow(alone)
  <2>1. /\ UNCHANGED <<sealkey, attest, failed>> /\ pc[alone] = "idle"
        /\ trail' = Append(trail, appended + 1) /\ pc'[alone] = "key"
    BY <1>0, <1>7 DEF AppendRow
  <2>2. Len(trail') = Len(trail) + 1
    BY <1>0, <2>1
  <2>3. Evolved = 0 /\ Evolved' = 0 /\ ~Live(alone) /\ Live(alone)' /\ ~HasKey(alone)'
    BY <1>0, <2>1 DEF Evolved, HasEvolved, Live, HasKey
  <2>4. sealkey # << >>
    BY <1>2, <2>1
  <2>5. Len(attest) <= Len(trail')
    BY <1>0, <1>2, <2>2
  <2> QED
    BY <1>0, <1>2, <2>1, <2>2, <2>3, <2>4, <2>5 DEF LinesHold
<1>8. CASE ReadKey(alone)
  <2>1. /\ UNCHANGED <<trail, sealkey, attest, failed>> /\ pc[alone] = "key"
        /\ pc'[alone] \in {"agg", "write_key"} /\ job'[alone].seq = job[alone].seq
        /\ sealkey # << >> /\ sealkey[1].epoch = job[alone].seq
    BY <1>0, <1>8 DEF ReadKey, files, KeyFits, EpochMatches, Job
  <2>2. Evolved = 0 /\ Evolved' = 0 /\ Live(alone) /\ Live(alone)'
    BY <1>0, <2>1 DEF Evolved, HasEvolved, Live
  <2>3. job[alone].seq = Len(attest)
    BY <1>0, <1>2, <2>1, <2>2
  <2> QED
    BY <1>0, <1>2, <2>1, <2>2, <2>3 DEF LinesHold
<1>9. CASE ReadKeyRaises(alone) \/ ReadAggregateRaises(alone)
  <2>1. /\ UNCHANGED <<trail, sealkey, attest>> /\ pc[alone] \in {"key", "agg"}
        /\ pc'[alone] = "idle" /\ failed' # {}
    BY <1>0, <1>9 DEF ReadKeyRaises, ReadAggregateRaises, files, Raise
  <2>2. Evolved = 0 /\ Evolved' = 0 /\ ~HasKey(alone)'
    BY <1>0, <2>1 DEF Evolved, HasEvolved, HasKey
  <2> QED
    BY <1>2, <1>3, <2>1, <2>2
<1>10. CASE ReadAggregate(alone)
  <2>1. /\ UNCHANGED <<trail, sealkey, attest, failed>> /\ pc[alone] = "agg"
        /\ pc'[alone] = "write_key" /\ job'[alone].seq = job[alone].seq
    BY <1>0, <1>10 DEF ReadAggregate, files, Job
  <2>2. Evolved = 0 /\ Evolved' = 0 /\ Live(alone) /\ Live(alone)' /\ HasKey(alone)
    BY <1>0, <2>1 DEF Evolved, HasEvolved, Live, HasKey
  <2> QED
    BY <1>2, <1>3, <2>1, <2>2
<1>11. CASE WriteKey(alone)
  <2>1. /\ UNCHANGED <<trail, attest, failed, job>> /\ pc[alone] = "write_key"
        /\ pc'[alone] \in {"write_agg", "line"} /\ sealkey' # << >>
        /\ sealkey'[1].epoch = job[alone].seq + 1
    BY <1>0, <1>11 DEF WriteKey
  <2>2. Evolved' = 1 /\ Live(alone) /\ Live(alone)' /\ HasKey(alone)
    BY <1>0, <2>1 DEF Evolved, HasEvolved, Live, HasKey
  <2> QED
    BY <1>0, <1>2, <2>1, <2>2 DEF LinesHold
<1>12. CASE WriteAggregate(alone)
  <2>1. /\ UNCHANGED <<trail, sealkey, attest, failed, job>> /\ pc[alone] = "write_agg"
        /\ pc'[alone] = "line"
    BY <1>0, <1>12 DEF WriteAggregate
  <2>2. Evolved = 1 /\ Evolved' = 1 /\ Live(alone) /\ Live(alone)' /\ HasKey(alone)
    BY <1>0, <2>1 DEF Evolved, HasEvolved, Live, HasKey
  <2> QED
    BY <1>2, <1>3, <2>1, <2>2
<1>13. CASE WriteLine(alone)
  <2>1. /\ UNCHANGED <<trail, sealkey, failed>> /\ pc[alone] = "line" /\ pc'[alone] = "idle"
        /\ attest' = Append(attest, Attestation(alone))
    BY <1>0, <1>13 DEF WriteLine
  <2>2. /\ LineHolds(Attestation(alone), Len(attest) + 1) /\ Len(attest) + 1 <= Len(trail)
        /\ Evolved = 1 /\ HasKey(alone) /\ Live(alone)
    BY <1>0, <2>1, NextLine
  <2>3. /\ Len(attest') = Len(attest) + 1
        /\ \A p \in DOMAIN attest' : \/ p \in DOMAIN attest /\ attest'[p] = attest[p]
                                     \/ p = Len(attest) + 1 /\ attest'[p] = Attestation(alone)
    BY <1>0, <2>1
  <2>4. Evolved' = 0 /\ ~Live(alone)' /\ ~HasKey(alone)'
    BY <1>0, <2>1 DEF Evolved, HasEvolved, Live, HasKey
  <2>5. sealkey # << >>
    BY <1>2, <2>1
  <2>6. \A p \in DOMAIN attest' : LineHolds(attest'[p], p)
    BY <1>2, <2>2, <2>3
  <2>7. sealkey[1].epoch = Len(attest') + Evolved'
    BY <1>0, <1>2, <2>2, <2>3, <2>4, <2>5
  <2>8. failed = {} => Len(trail) = Len(attest') + 0
    BY <1>0, <1>2, <2>2, <2>3
  <2> QED
    BY <1>0, <2>1, <2>2, <2>3, <2>4, <2>5, <2>6, <2>7, <2>8 DEF LinesHold
<1>14. CASE VerifierReads \/ VerifierEnds \/ AnchorAggregate \/ TakeBackup
  <2>1. UNCHANGED <<trail, sealkey, attest, failed, pc, scheme, job>>
    BY <1>14 DEF VerifierReads, VerifierEnds, AnchorAggregate, TakeBackup, files
  <2>2. /\ Evolved' = Evolved /\ (HasKey(alone)' <=> HasKey(alone))
        /\ (Live(alone)' <=> Live(alone))
    BY <1>0, <2>1 DEF Evolved, HasEvolved, Live, HasKey
  <2> QED
    BY <1>2, <1>3, <2>1, <2>2
<1> QED
  BY <1>4, <1>5, <1>6, <1>7, <1>8, <1>9, <1>10, <1>11, <1>12, <1>13, <1>14, HealthySteps

\* The aggregate the process writes has the next row folded in.
LEMMA NextAggregate ==
    ASSUME IInv, OneHolds, alone # Nobody, Healthy, WriteAggregate(alone)
    PROVE  \E s \in Nat :
              /\ s <= Len(attest) /\ s < Len(attest) + 1
              /\ sealagg' = <<[agg_start |-> s, epoch |-> Len(attest) + 1,
                               agg |-> Ideal(s, Len(attest) + 1)]>>
              /\ IF sealagg = << >> THEN s = Len(attest)
                 ELSE s = sealagg[1].agg_start /\ sealagg[1].epoch = Len(attest)
<1>0. /\ alone \in Writer /\ Len(attest) \in Nat /\ job[alone].seq \in Nat
      /\ pc[alone] # "off" => scheme[alone] # SIG_SCHEME
      /\ Live(alone) => job[alone].hash = job[alone].seq + 1 /\ job[alone].hash <= Len(trail)
      /\ HasKey(alone) => job[alone].key = job[alone].seq
      /\ sealagg # << >> => sealagg[1].agg_start \in Nat /\ sealagg[1].epoch \in Nat
      /\ LinesHold /\ AggregateHolds
  BY HealthyFacts
<1>1. /\ pc[alone] = "write_agg"
      /\ sealagg' = <<[agg_start |-> AggregateStart(alone), epoch |-> job[alone].seq + 1,
                       agg |-> Running(alone)]>>
  BY DEF WriteAggregate
<1>2. HasKey(alone) /\ Live(alone) /\ scheme[alone] # SIG_SCHEME
  BY <1>0, <1>1 DEF HasKey, Live
<1>3. /\ job[alone].seq = Len(attest) /\ job[alone].key = Len(attest)
      /\ job[alone].hash = Len(attest) + 1
  BY <1>0, <1>2 DEF LinesHold
<1>4. /\ job[alone].prior = sealagg /\ Folds(sealagg, attest)
      /\ sealagg # << >> => sealagg[1].epoch = job[alone].seq
  BY <1>0, <1>1 DEF AggregateHolds
<1> DEFINE n == Len(attest)
           s == AggregateStart(alone)
           before == IF sealagg = << >> THEN << >> ELSE sealagg[1].agg
<1>5. Running(alone) = Append(before, <<n, <<n, n + 1>>>>)
  BY <1>2, <1>3, <1>4 DEF Running, aggregate_step, Attestation, seal_entry, AGG_GENESIS
<1>6. /\ s \in Nat /\ s <= n
      /\ IF sealagg = << >> THEN s = n ELSE s = sealagg[1].agg_start /\ sealagg[1].epoch = n
  BY <1>0, <1>3, <1>4 DEF AggregateStart, Folds
<1>7. before = Ideal(s, n)
  <2>1. CASE sealagg = << >>
    BY <1>0, <1>6, <2>1, IdealIsSequence
  <2>2. CASE sealagg # << >>
    BY <1>4, <1>6, <2>2 DEF Folds
  <2> QED
    BY <2>1, <2>2
<1> HIDE DEF s, before
<1>8. Ideal(s, n + 1) = Append(Ideal(s, n), <<n, <<n, n + 1>>>>)
  BY <1>0, <1>6, IdealIsSequence
<1>9. Running(alone) = Ideal(s, n + 1) /\ s < n + 1
  BY <1>0, <1>5, <1>6, <1>7, <1>8
<1>10. sealagg' = <<[agg_start |-> s, epoch |-> n + 1, agg |-> Ideal(s, n + 1)]>>
  BY <1>1, <1>3, <1>9 DEF s
<1> QED
  BY <1>6, <1>9, <1>10

\* .sealagg and .attest cover the same rows of the aggregate scheme.
LEMMA AggregateKept ==
    ASSUME IInv, OneHolds, TrailNext, alone # Nobody, Healthy'
    PROVE  AggregateHolds'
<1> USE DEF Goto
<1>0. /\ Healthy /\ alone' = alone /\ scheme'[alone] # SIG_SCHEME
      /\ alone \in Writer /\ attest \in Seq(Lines) /\ Len(attest) \in Nat
      /\ pc \in [Writer -> Where] /\ job \in [Writer -> Job] /\ scheme \in [Writer -> Schemes]
      /\ sealagg # << >> => sealagg[1].agg_start \in Nat /\ sealagg[1].epoch \in Nat
      /\ job[alone].seq \in Nat /\ AggregateHolds /\ LinesHold
  BY HealthySteps, HealthyFacts
<1>1. /\ Folds(sealagg, attest)
      /\ sealagg # << >> => sealagg[1].epoch <= Len(attest) + (IF FoldedAhead THEN 1 ELSE 0)
      /\ FoldedAhead => sealagg # << >> /\ sealagg[1].epoch = Len(attest) + 1
      /\ pc[alone] \in {"agg", "write_agg"} => scheme[alone] = FS_HMAC_AGG_SCHEME
      /\ pc[alone] \in {"write_key", "write_agg"} /\ scheme[alone] = FS_HMAC_AGG_SCHEME =>
            job[alone].prior = sealagg /\ (sealagg # << >> => sealagg[1].epoch = job[alone].seq)
  BY <1>0 DEF AggregateHolds
<1>2. ASSUME UNCHANGED <<sealagg, attest>>, FoldedAhead' <=> FoldedAhead,
             pc'[alone] \in {"agg", "write_agg"} => scheme'[alone] = FS_HMAC_AGG_SCHEME,
             pc'[alone] \in {"write_key", "write_agg"} /\ scheme'[alone] = FS_HMAC_AGG_SCHEME =>
               job'[alone].prior = sealagg
               /\ (sealagg # << >> => sealagg[1].epoch = job'[alone].seq)
      PROVE  AggregateHolds'
  BY <1>0, <1>1, <1>2 DEF AggregateHolds
<1>3. CASE \/ \E s \in Schemes : Open(alone, s)
           \/ CreateKey(alone) \/ Close(alone) \/ AppendRow(alone)
           \/ ReadKeyRaises(alone) \/ ReadAggregateRaises(alone)
  <2>1. /\ UNCHANGED <<sealagg, attest>> /\ pc[alone] # "line"
        /\ pc'[alone] \in {"off", "idle", "create", "key"}
    <3>1. CASE \E s \in Schemes : Open(alone, s)
      BY <1>0, <3>1 DEF Open, files
    <3>2. CASE AppendRow(alone)
      <4>1. scheme' = scheme
        BY <3>2 DEF AppendRow
      <4> QED
        BY <1>0, <3>2, <4>1 DEF AppendRow
    <3>3. CASE CreateKey(alone) \/ Close(alone) \/ ReadKeyRaises(alone)
               \/ ReadAggregateRaises(alone)
      BY <1>0, <3>3 DEF CreateKey, Close, ReadKeyRaises, ReadAggregateRaises, Raise, files
    <3> QED
      BY <1>3, <3>1, <3>2, <3>3
  <2>2. ~FoldedAhead /\ ~FoldedAhead'
    BY <1>0, <2>1 DEF FoldedAhead
  <2> QED
    BY <1>2, <2>1, <2>2
<1>4. CASE ReadKey(alone)
  <2>1. /\ UNCHANGED <<sealagg, attest, scheme>> /\ pc[alone] = "key"
        /\ pc'[alone] = IF scheme[alone] = FS_HMAC_AGG_SCHEME THEN "agg" ELSE "write_key"
    BY <1>0, <1>4 DEF ReadKey, files
  <2>2. ~FoldedAhead /\ ~FoldedAhead'
    BY <1>0, <2>1 DEF FoldedAhead
  <2> QED
    BY <1>0, <1>2, <2>1, <2>2
<1>5. CASE ReadAggregate(alone)
  <2>1. /\ UNCHANGED <<sealagg, attest, scheme>> /\ pc[alone] = "agg" /\ pc'[alone] = "write_key"
        /\ job'[alone].prior = sealagg /\ job'[alone].seq = job[alone].seq
        /\ sealagg # << >> => sealagg[1].epoch = job[alone].seq
    BY <1>0, <1>5 DEF ReadAggregate, AggregateInSync, files, Job
  <2>2. ~FoldedAhead /\ ~FoldedAhead'
    BY <1>0, <2>1 DEF FoldedAhead
  <2> QED
    BY <1>0, <1>2, <2>1, <2>2
<1>6. CASE WriteKey(alone)
  <2>1. /\ UNCHANGED <<sealagg, attest, scheme, job>> /\ pc[alone] = "write_key"
        /\ pc'[alone] = IF scheme[alone] = FS_HMAC_AGG_SCHEME THEN "write_agg" ELSE "line"
    BY <1>0, <1>6 DEF WriteKey
  <2>2. ~FoldedAhead /\ ~FoldedAhead'
    BY <1>0, <2>1 DEF FoldedAhead
  <2> QED
    BY <1>0, <1>1, <1>2, <2>1, <2>2
<1>7. CASE WriteAggregate(alone)
  <2>1. UNCHANGED <<attest, scheme>> /\ pc[alone] = "write_agg" /\ pc'[alone] = "line"
    BY <1>0, <1>7 DEF WriteAggregate
  <2>2. scheme[alone] = FS_HMAC_AGG_SCHEME /\ FoldedAhead'
    BY <1>0, <1>1, <2>1 DEF FoldedAhead
  <2> DEFINE n == Len(attest)
  <2>3. PICK s \in Nat :
           /\ s <= n /\ s < n + 1
           /\ sealagg' = <<[agg_start |-> s, epoch |-> n + 1, agg |-> Ideal(s, n + 1)]>>
           /\ IF sealagg = << >> THEN s = n ELSE s = sealagg[1].agg_start /\ sealagg[1].epoch = n
    BY <1>0, <1>7, NextAggregate
  <2>4. /\ sealagg' # << >> /\ sealagg'[1].agg_start = s /\ sealagg'[1].epoch = n + 1
        /\ sealagg'[1].agg = Ideal(s, n + 1)
    BY <2>3
  <2>5. ASSUME NEW p \in DOMAIN attest
        PROVE  attest[p].scheme = FS_HMAC_AGG_SCHEME <=> s < p /\ p <= n + 1
    <3>1. p \in Nat /\ p <= n
      BY <1>0
    <3>2. CASE sealagg = << >>
      BY <1>0, <1>1, <2>3, <3>1, <3>2 DEF Folds
    <3>3. CASE sealagg # << >>
      BY <1>0, <1>1, <2>3, <3>1, <3>3 DEF Folds
    <3> QED
      BY <3>2, <3>3
  <2>6. Folds(sealagg', attest')
    BY <2>1, <2>3, <2>4, <2>5 DEF Folds
  <2> QED
    BY <1>0, <2>1, <2>2, <2>4, <2>6 DEF AggregateHolds
<1>8. CASE WriteLine(alone)
  <2> DEFINE n == Len(attest) + 1
             a == Attestation(alone)
  <2>1. /\ UNCHANGED <<sealagg, scheme>> /\ pc[alone] = "line" /\ pc'[alone] = "idle"
        /\ attest' = Append(attest, a)
    BY <1>0, <1>8 DEF WriteLine
  <2>2. a.scheme = scheme[alone]
    BY <1>0, <2>1, NextLine
  <2> HIDE DEF a
  <2>3. /\ Len(attest') = n
        /\ \A p \in DOMAIN attest' : \/ p \in DOMAIN attest /\ attest'[p] = attest[p]
                                     \/ p = n /\ attest'[p] = a
    BY <1>0, <2>1
  <2>4. ~FoldedAhead'
    BY <1>0, <2>1 DEF FoldedAhead
  <2>5. CASE scheme[alone] = FS_HMAC_AGG_SCHEME
    <3>1. sealagg # << >> /\ sealagg[1].epoch = n
      BY <1>1, <2>1, <2>5 DEF FoldedAhead
    <3>2. sealagg[1].agg_start < n
      BY <1>1, <3>1 DEF Folds
    <3>3. Folds(sealagg', attest')
      BY <1>0, <1>1, <2>1, <2>2, <2>3, <2>5, <3>1, <3>2 DEF Folds
    <3> QED
      BY <1>0, <2>1, <2>3, <2>4, <3>1, <3>3 DEF AggregateHolds
  <2>6. CASE scheme[alone] # FS_HMAC_AGG_SCHEME
    <3>1. sealagg # << >> => sealagg[1].epoch <= Len(attest) + 0
      BY <1>1, <2>6 DEF FoldedAhead
    <3>2. sealagg # << >> => ~(n <= sealagg[1].epoch) /\ sealagg[1].epoch <= n
      BY <1>0, <3>1
    <3>3. Folds(sealagg', attest')
      <4>1. CASE sealagg = << >>
        BY <1>1, <2>1, <2>2, <2>3, <2>6, <4>1 DEF Folds
      <4>2. CASE sealagg # << >>
        BY <1>1, <2>1, <2>2, <2>3, <2>6, <3>2, <4>2 DEF Folds
      <4> QED
        BY <4>1, <4>2
    <3>4. sealagg # << >> => sealagg[1].epoch <= n + 0
      BY <1>0, <3>2
    <3> QED
      BY <1>0, <2>1, <2>3, <2>4, <3>3, <3>4 DEF AggregateHolds
  <2> QED
    BY <2>5, <2>6
<1>9. CASE VerifierReads \/ VerifierEnds \/ AnchorAggregate \/ TakeBackup
  <2>1. UNCHANGED <<sealagg, attest, pc, scheme, job>>
    BY <1>9 DEF VerifierReads, VerifierEnds, AnchorAggregate, TakeBackup, files
  <2>2. FoldedAhead' <=> FoldedAhead
    BY <1>0, <2>1 DEF FoldedAhead
  <2> QED
    BY <1>1, <1>2, <2>1, <2>2
<1> QED
  BY <1>3, <1>4, <1>5, <1>6, <1>7, <1>8, <1>9, HealthySteps

\* What a healthy step does to the sidecars: lines are added, and rows folded in.
LEMMA SidecarsGrow ==
    ASSUME IInv, OneHolds, TrailNext, alone # Nobody, Healthy'
    PROVE  /\ Len(attest) <= Len(attest')
           /\ \A p \in DOMAIN attest : p \in DOMAIN attest' /\ attest'[p] = attest[p]
           /\ sealagg # << >> => /\ sealagg' # << >>
                                 /\ sealagg'[1].agg_start = sealagg[1].agg_start
                                 /\ sealagg[1].epoch <= sealagg'[1].epoch
<1>0. /\ Healthy /\ attest \in Seq(Lines) /\ Len(attest) \in Nat
      /\ sealagg # << >> => sealagg[1].agg_start \in Nat /\ sealagg[1].epoch \in Nat
  BY HealthySteps, HealthyFacts
<1>1. /\ Len(attest) <= Len(attest')
      /\ \A p \in DOMAIN attest : p \in DOMAIN attest' /\ attest'[p] = attest[p]
  <2>1. CASE WriteLine(alone)
    <3> DEFINE a == Attestation(alone)
    <3>1. attest' = Append(attest, a)
      BY <2>1 DEF WriteLine
    <3> HIDE DEF a
    <3> QED
      BY <1>0, <3>1
  <2>2. CASE ~WriteLine(alone)
    <3>1. attest' = attest
      BY <2>2, HealthySteps DEF Open, CreateKey, Close, AppendRow, ReadKey, ReadKeyRaises,
            ReadAggregate, ReadAggregateRaises, WriteKey, WriteAggregate,
            VerifierReads, VerifierEnds, AnchorAggregate, TakeBackup, files
    <3> QED
      BY <1>0, <3>1
  <2> QED
    BY <2>1, <2>2
<1>2. CASE WriteAggregate(alone)
  <2> DEFINE n == Len(attest)
  <2>1. PICK s \in Nat :
           /\ s <= n /\ s < n + 1
           /\ sealagg' = <<[agg_start |-> s, epoch |-> n + 1, agg |-> Ideal(s, n + 1)]>>
           /\ IF sealagg = << >> THEN s = n ELSE s = sealagg[1].agg_start /\ sealagg[1].epoch = n
    BY <1>0, <1>2, NextAggregate
  <2>2. n <= n + 1
    BY <1>0
  <2> QED
    BY <1>1, <2>1, <2>2
<1>3. CASE ~WriteAggregate(alone)
  <2>1. sealagg' = sealagg
    BY <1>3, HealthySteps DEF Open, CreateKey, Close, AppendRow, ReadKey, ReadKeyRaises,
          ReadAggregate, ReadAggregateRaises, WriteKey, WriteLine,
          VerifierReads, VerifierEnds, AnchorAggregate, TakeBackup, files
  <2> QED
    BY <1>0, <1>1, <2>1
<1> QED
  BY <1>2, <1>3

\* What was anchored stays a beginning of the aggregate.
LEMMA AnchorsKept ==
    ASSUME IInv, OneHolds, TrailNext, alone # Nobody, Healthy'
    PROVE  AnchorsHold'
<1>0. /\ Healthy /\ AnchorsHold /\ AggregateHolds /\ SealsOnly
      /\ sealagg # << >> => sealagg[1].agg_start \in Nat /\ sealagg[1].epoch \in Nat
  BY HealthySteps, HealthyFacts DEF OneHolds
<1>1. /\ sealagg # << >> => /\ sealagg' # << >>
                            /\ sealagg'[1].agg_start = sealagg[1].agg_start
                            /\ sealagg[1].epoch <= sealagg'[1].epoch
      /\ sealagg' # << >> => sealagg'[1].epoch \in Nat
  <2>1. Shape'
    BY NextKeeps DEF IInv
  <2>2. ASSUME sealagg' # << >> PROVE sealagg'[1].epoch \in Nat
    <3>1. sealagg' \in Seq(Agg)
      BY <2>1 DEF Shape
    <3>2. sealagg'[1] \in Agg
      BY <2>2, <3>1
    <3> QED
      BY <3>2 DEF Agg
  <2> QED
    BY <2>2, SidecarsGrow
<1>2. ASSUME NEW a, a.epoch \in Nat, sealagg # << >>, sealagg[1].agg_start < a.epoch,
             a.epoch <= sealagg[1].epoch, a.agg = Ideal(sealagg[1].agg_start, a.epoch)
      PROVE  /\ sealagg' # << >> /\ sealagg'[1].agg_start < a.epoch
             /\ a.epoch <= sealagg'[1].epoch /\ a.agg = Ideal(sealagg'[1].agg_start, a.epoch)
  BY <1>0, <1>1, <1>2
<1>3. CASE AnchorAggregate
  <2> DEFINE new == [epoch |-> sealagg[1].epoch, agg |-> sealagg[1].agg,
                     commit |-> aggregate_commit(sealagg[1].epoch, sealagg[1].agg)]
  <2>1. sealagg # << >> /\ anchored' = anchored \cup {new}
    BY <1>3 DEF AnchorAggregate
  <2>2. /\ new.epoch = sealagg[1].epoch /\ new.agg = Ideal(sealagg[1].agg_start, new.epoch)
        /\ sealagg[1].agg_start < new.epoch
    BY <1>0, <2>1 DEF AggregateHolds, Folds
  <2>3. new.epoch \in Nat /\ new.epoch <= sealagg[1].epoch
    BY <1>0, <2>1, <2>2
  <2> HIDE DEF new
  <2>4. \A a \in anchored' : /\ a.epoch \in Nat /\ sealagg # << >> /\ sealagg[1].agg_start < a.epoch
                             /\ a.epoch <= sealagg[1].epoch
                             /\ a.agg = Ideal(sealagg[1].agg_start, a.epoch)
    BY <1>0, <2>1, <2>2, <2>3 DEF AnchorsHold, SealsOnly
  <2> QED
    BY <1>2, <2>4 DEF AnchorsHold
<1>4. CASE ~AnchorAggregate
  <2>1. anchored' = anchored
    BY <1>4, HealthySteps DEF Open, CreateKey, Close, AppendRow, ReadKey, ReadKeyRaises,
          ReadAggregate, ReadAggregateRaises, WriteKey, WriteAggregate, WriteLine,
          VerifierReads, VerifierEnds, TakeBackup
  <2>2. \A a \in anchored' : /\ a.epoch \in Nat /\ sealagg # << >> /\ sealagg[1].agg_start < a.epoch
                             /\ a.epoch <= sealagg[1].epoch
                             /\ a.agg = Ideal(sealagg[1].agg_start, a.epoch)
    BY <1>0, <2>1 DEF AnchorsHold, SealsOnly
  <2> QED
    BY <1>2, <2>2 DEF AnchorsHold
<1> QED
  BY <1>3, <1>4

\* What a verification has read stays a beginning of the files.
LEMMA SnapKept ==
    ASSUME IInv, OneHolds, TrailNext, alone # Nobody, Healthy'
    PROVE  SnapHolds'
<1>0. /\ Healthy /\ SnapHolds /\ AggregateHolds /\ LinesHold /\ attest \in Seq(Lines)
      /\ Len(attest) \in Nat /\ Len(trail) \in Nat /\ trail \in Seq(Nat)
      /\ \A i \in 1 .. Len(trail) : trail[i] = i
      /\ sealagg # << >> => sealagg[1].agg_start \in Nat /\ sealagg[1].epoch \in Nat
      /\ snap \in FileSet /\ reads \in 0 .. 4
  BY HealthySteps, HealthyFacts DEF IInv, Shape
<1>1. snap.attest \in Seq(Lines) /\ snap.sealagg \in Seq(Agg) /\ Len(snap.attest) \in Nat
  <2>1. snap.attest \in Seq(Lines) /\ snap.sealagg \in Seq(Agg)
    BY <1>0 DEF FileSet
  <2> QED
    BY <2>1
<1>2. CASE VerifierReads
  <2>1. /\ reads < 4 /\ reads' = reads + 1 /\ UNCHANGED <<attest, sealagg, trail>>
        /\ snap' = [snap EXCEPT ![ReadOrder[reads + 1]] = Files[ReadOrder[reads + 1]]]
    BY <1>2 DEF VerifierReads, files
  <2>2. reads \in {0, 1, 2, 3}
    BY <1>0, <2>1
  <2>3. CASE reads = 0
    <3>1. ReadOrder[reads + 1] = "attest"
      BY <2>3 DEF ReadOrder
    <3>2. snap'.attest = attest /\ reads' = 1
      BY <1>0, <2>1, <2>3, <3>1 DEF Files, FileSet
    <3> QED
      BY <1>0, <2>1, <3>2 DEF SnapHolds
  <2>4. CASE reads = 1
    <3>1. ReadOrder[reads + 1] = "trail"
      BY <2>4 DEF ReadOrder
    <3>2. snap'.attest = snap.attest /\ snap'.trail = trail /\ reads' = 2
      BY <1>0, <2>1, <2>4, <3>1 DEF Files, FileSet
    <3>3. Len(snap.attest) <= Len(attest) /\ Len(attest) <= Len(trail)
      BY <1>0, <2>4 DEF SnapHolds, LinesHold
    <3>4. Len(snap.attest) <= Len(trail)
      BY <1>0, <1>1, <3>3
    <3> QED
      BY <1>0, <2>1, <2>4, <3>2, <3>4 DEF SnapHolds
  <2>5. CASE reads = 2
    <3>1. ReadOrder[reads + 1] = "sealkey"
      BY <2>5 DEF ReadOrder
    <3>2. snap'.attest = snap.attest /\ snap'.trail = snap.trail /\ reads' = 3
      BY <1>0, <2>1, <2>5, <3>1 DEF Files, FileSet
    <3> QED
      BY <1>0, <2>1, <2>5, <3>2 DEF SnapHolds
  <2>6. CASE reads = 3
    <3>1. ReadOrder[reads + 1] = "sealagg"
      BY <2>6 DEF ReadOrder
    <3>2. /\ snap'.attest = snap.attest /\ snap'.trail = snap.trail /\ reads' = 4
          /\ snap'.sealagg = sealagg
      BY <1>0, <2>1, <2>6, <3>1 DEF Files, FileSet
    <3>3. /\ Len(snap.attest) <= Len(attest)
          /\ \A p \in DOMAIN snap.attest : snap.attest[p] = attest[p]
          /\ Len(snap.attest) <= Len(snap.trail)
          /\ \A i \in 1 .. Len(snap.trail) : snap.trail[i] = i
      BY <1>0, <2>6 DEF SnapHolds
    <3>4. \A p \in DOMAIN snap.attest : p \in DOMAIN attest
      BY <1>0, <1>1, <3>3
    <3>5. CASE sealagg = << >>
      <4>1. \A p \in DOMAIN snap.attest : snap.attest[p].scheme # FS_HMAC_AGG_SCHEME
        BY <1>0, <3>3, <3>4, <3>5 DEF AggregateHolds, Folds
      <4> QED
        BY <2>1, <3>2, <3>3, <3>5, <4>1 DEF SnapHolds
    <3>6. CASE sealagg # << >>
      <4>1. /\ sealagg[1].agg_start < sealagg[1].epoch /\ sealagg[1].epoch <= sealagg[1].epoch
            /\ sealagg[1].agg = Ideal(sealagg[1].agg_start, sealagg[1].epoch)
        BY <1>0, <3>6 DEF AggregateHolds, Folds
      <4> QED
        BY <2>1, <3>2, <3>3, <3>6, <4>1 DEF SnapHolds
    <3> QED
      BY <3>5, <3>6
  <2> QED
    BY <2>2, <2>3, <2>4, <2>5, <2>6
<1>3. CASE VerifierEnds
  BY <1>3 DEF VerifierEnds, SnapHolds
<1>4. CASE ~VerifierReads /\ ~VerifierEnds
  <2>1. UNCHANGED <<snap, reads>>
    BY <1>4, HealthySteps DEF Open, CreateKey, Close, AppendRow, ReadKey, ReadKeyRaises,
          ReadAggregate, ReadAggregateRaises, WriteKey, WriteAggregate, WriteLine,
          AnchorAggregate, TakeBackup
  <2>2. /\ Len(attest) <= Len(attest')
        /\ \A p \in DOMAIN attest : attest'[p] = attest[p]
        /\ sealagg # << >> => /\ sealagg' # << >>
                              /\ sealagg'[1].agg_start = sealagg[1].agg_start
                              /\ sealagg[1].epoch <= sealagg'[1].epoch
    BY SidecarsGrow
  <2>3. Len(attest') \in Nat /\ (sealagg' # << >> => sealagg'[1].epoch \in Nat)
    <3>1. Shape'
      BY NextKeeps DEF IInv
    <3>2. attest' \in Seq(Lines') /\ sealagg' \in Seq(Agg)
      BY <3>1 DEF Shape
    <3>3. sealagg' # << >> => sealagg'[1] \in Agg
      BY <3>2
    <3> QED
      BY <3>2, <3>3 DEF Agg
  <2>4. ASSUME reads >= 1
        PROVE  /\ Len(snap.attest) <= Len(attest')
               /\ \A p \in DOMAIN snap.attest : snap.attest[p] = attest'[p]
    <3>1. /\ Len(snap.attest) <= Len(attest)
          /\ \A p \in DOMAIN snap.attest : snap.attest[p] = attest[p]
      BY <1>0, <2>4 DEF SnapHolds
    <3>2. \A p \in DOMAIN snap.attest : p \in DOMAIN attest
      BY <1>0, <1>1, <3>1
    <3> QED
      BY <1>0, <1>1, <2>2, <2>3, <3>1, <3>2
  <2>5. ASSUME reads = 4, snap.sealagg # << >>
        PROVE  /\ sealagg' # << >>
               /\ snap.sealagg[1].agg_start = sealagg'[1].agg_start
               /\ snap.sealagg[1].agg_start < snap.sealagg[1].epoch
               /\ snap.sealagg[1].epoch <= sealagg'[1].epoch
               /\ snap.sealagg[1].agg = Ideal(sealagg'[1].agg_start, snap.sealagg[1].epoch)
    <3>1. /\ sealagg # << >>
          /\ snap.sealagg[1].agg_start = sealagg[1].agg_start
          /\ snap.sealagg[1].agg_start < snap.sealagg[1].epoch
          /\ snap.sealagg[1].epoch <= sealagg[1].epoch
          /\ snap.sealagg[1].agg = Ideal(sealagg[1].agg_start, snap.sealagg[1].epoch)
      BY <1>0, <2>5 DEF SnapHolds
    <3>2. snap.sealagg[1] \in Agg
      BY <1>1, <2>5
    <3>3. snap.sealagg[1].epoch \in Nat
      BY <3>2 DEF Agg
    <3> QED
      BY <1>0, <2>2, <2>3, <3>1, <3>3
  <2>6. /\ reads >= 2 => /\ Len(snap.attest) <= Len(snap.trail)
                         /\ \A i \in 1 .. Len(snap.trail) : snap.trail[i] = i
        /\ reads = 4 /\ snap.sealagg = << >> =>
              \A p \in DOMAIN snap.attest : snap.attest[p].scheme # FS_HMAC_AGG_SCHEME
    BY <1>0 DEF SnapHolds
  <2> QED
    BY <2>1, <2>4, <2>5, <2>6 DEF SnapHolds
<1> QED
  BY <1>2, <1>3, <1>4

\* The second half of the inductive invariant.
LEMMA OneKept == IInv /\ OneHolds /\ [TrailNext]_trailVars => OneHolds'
<1> SUFFICES ASSUME IInv, OneHolds, [TrailNext]_trailVars PROVE OneHolds'
  OBVIOUS
<1>1. CASE TrailNext /\ alone = Nobody
  BY <1>1 DEF OneHolds, TrailNext
<1>2. CASE TrailNext /\ alone # Nobody
  <2>1. alone' = alone
    BY <1>2 DEF TrailNext
  <2>2. SealsOnly' /\ WholeTrail' /\ RemovedHolds' /\ KeyIsAhead'
    BY <1>2, SealsOnlyKept, WholeTrailKept, RemovedKept, KeyIsAheadKept
  <2>3. HealthyHolds'
    BY <1>2, LinesKept, AggregateKept, AnchorsKept, SnapKept DEF HealthyHolds
  <2> QED
    BY <1>2, <2>1, <2>2, <2>3 DEF OneHolds
<1>3. CASE UNCHANGED trailVars
  <2>1. /\ UNCHANGED <<trail, appended, sealkey, sealagg, attest, pc, scheme, job, failed>>
        /\ UNCHANGED <<published, anchored, backup, removed, reads, snap, incidents, alone>>
    BY <1>3 DEF trailVars, vars
  <2>2. SealsOnly => SealsOnly'
    BY <2>1 DEF SealsOnly, Keyed, FoldsSeals
  <2>3. (WholeTrail => WholeTrail') /\ (RemovedHolds => RemovedHolds')
    BY <2>1 DEF WholeTrail, RemovedHolds, Happened, Live, CopyHolds
  <2>4. Evolved' = Evolved /\ (HasKey(alone)' <=> HasKey(alone)) /\ (Live(alone)' <=> Live(alone))
        /\ (FoldedAhead' <=> FoldedAhead) /\ (Healthy' <=> Healthy)
    BY <2>1 DEF Evolved, HasEvolved, HasKey, Live, FoldedAhead, Healthy, Happened
  <2>5. KeyIsAhead => KeyIsAhead'
    BY <2>1, <2>4 DEF KeyIsAhead, Happened
  <2>6. LinesHold => LinesHold'
    BY <2>1, <2>4 DEF LinesHold
  <2>7. (AggregateHolds => AggregateHolds') /\ (AnchorsHold => AnchorsHold')
    BY <2>1, <2>4 DEF AggregateHolds, AnchorsHold
  <2>8. SnapHolds => SnapHolds'
    BY <2>1 DEF SnapHolds
  <2>9. HealthyHolds => HealthyHolds'
    BY <2>4, <2>6, <2>7, <2>8 DEF HealthyHolds
  <2> QED
    BY <2>1, <2>2, <2>3, <2>5, <2>9 DEF OneHolds
<1> QED
  BY <1>1, <1>2, <1>3

-----------------------------------------------------------------------------
(* What a verification says of such files.                                 *)

\* Lines that are those of the rows, in order, verify under their keys.
LEMMA LinesVerify ==
    ASSUME NEW atts, NEW rows, DOMAIN atts = 1 .. Len(atts), Len(atts) \in Nat, Len(rows) \in Nat,
           \A p \in DOMAIN atts : LineHolds(atts[p], p),
           Len(atts) <= Len(rows), \A i \in 1 .. Len(rows) : rows[i] = i
    PROVE  /\ ~(\E p \in DOMAIN atts : atts[p] = Malformed)
           /\ ~TrailMismatch(atts, rows)
           /\ verify_seals(atts) = "ok"
<1>1. ASSUME NEW p \in DOMAIN atts
      PROVE  /\ atts[p] # Malformed /\ ~(p > Len(rows)) /\ atts[p].entry_hash = rows[p]
             /\ SealReason(atts[p], p) = "ok"
  <2>1. /\ atts[p] \in Att /\ atts[p].seq = p - 1 /\ atts[p].entry_hash = p
        /\ atts[p].value = <<p - 1, p>>
    BY DEF LineHolds
  <2>2. p \in 1 .. Len(rows) /\ p - 1 \in Nat
    OBVIOUS
  <2>3. EpochKey(p - 1) = p - 1
    BY <2>2, KeyOfEpoch
  <2>4. SealReason(atts[p], p) = "ok"
    BY <2>1, <2>3 DEF SealReason, seal_entry
  <2> QED
    BY <2>1, <2>2, <2>4, MalformedIsNoAtt
<1>2. verify_seals(atts) = "ok"
  <2>1. {p \in DOMAIN atts : SealReason(atts[p], p) # "ok"} = {}
    BY <1>1
  <2> QED
    BY <2>1 DEF verify_seals
<1> QED
  BY <1>1, <1>2 DEF TrailMismatch

\* An aggregate that is the rows it names verifies, or is not level.
LEMMA AggregateVerifies ==
    ASSUME NEW atts, NEW s \in Nat, NEW e \in Nat, s < e, DOMAIN atts = 1 .. Len(atts),
           Len(atts) \in Nat,
           \A p \in DOMAIN atts : LineHolds(atts[p], p),
           \A p \in DOMAIN atts : s < p /\ p <= e => atts[p].scheme = FS_HMAC_AGG_SCHEME
    PROVE  /\ verify_aggregate(atts, s, e, Ideal(s, e)) \in {"ok", "aggregate_epoch_mismatch"}
           /\ e <= Len(atts) => Fold(atts, s, e) = Ideal(s, e)
           /\ /\ e <= Len(atts)
              /\ \A p \in DOMAIN atts : e < p => atts[p].scheme # FS_HMAC_AGG_SCHEME
              => verify_aggregate(atts, s, e, Ideal(s, e)) = "ok"
<1>1. ASSUME e <= Len(atts) PROVE Fold(atts, s, e) = Ideal(s, e)
  <2>1. \A p \in s + 1 .. e : /\ atts[p].scheme = FS_HMAC_AGG_SCHEME
                              /\ atts[p].value = <<p - 1, p>>
    <3> SUFFICES ASSUME NEW p \in s + 1 .. e
                 PROVE  atts[p].scheme = FS_HMAC_AGG_SCHEME /\ atts[p].value = <<p - 1, p>>
      OBVIOUS
    <3>1. p \in DOMAIN atts /\ s < p /\ p <= e
      BY <1>1
    <3> QED
      BY <3>1 DEF LineHolds
  <2> QED
    BY <2>1, FoldIsIdeal
<1>2. ~(s > e)
  OBVIOUS
<1>3. verify_aggregate(atts, s, e, Ideal(s, e)) \in {"ok", "aggregate_epoch_mismatch"}
  BY <1>1, <1>2 DEF verify_aggregate
<1>4. ASSUME e <= Len(atts), \A p \in DOMAIN atts : e < p => atts[p].scheme # FS_HMAC_AGG_SCHEME
      PROVE  verify_aggregate(atts, s, e, Ideal(s, e)) = "ok"
  <2>1. ~(\E p \in e + 1 .. Len(atts) : RowIsUnfolded(atts[p]))
    BY <1>4 DEF RowIsUnfolded
  <2>2. ~(e > Len(atts))
    BY <1>4
  <2> QED
    BY <1>1, <1>2, <1>4, <2>1, <2>2 DEF verify_aggregate
<1> QED
  BY <1>1, <1>3, <1>4

\* A verification beside the process finds files that are not level, at most.
LEMMA VerdictsAreHonest ==
    ASSUME IInv, OneHolds, alone # Nobody
    PROVE  LiveVerdictIsHonest
<1> SUFFICES ASSUME reads = 4, Healthy
             PROVE  verify_sidecar("key", snap) \in
                       {"ok", "attestation_gap", "keyfile_missing", "keyfile_epoch_mismatch",
                        "aggregate_epoch_mismatch"}
  BY DEF LiveVerdictIsHonest
<1>0. /\ LinesHold /\ AggregateHolds /\ SnapHolds /\ attest \in Seq(Lines)
      /\ Len(attest) \in Nat /\ snap \in FileSet
      /\ sealagg # << >> => sealagg[1].agg_start \in Nat /\ sealagg[1].epoch \in Nat
  BY HealthyFacts DEF IInv, Shape
<1>1. /\ snap.attest \in Seq(Lines) /\ snap.trail \in Seq(Nat) /\ snap.sealkey \in Seq(EpochKeys)
      /\ snap.sealagg \in Seq(Agg)
  BY <1>0 DEF FileSet
<1> DEFINE atts == snap.attest
           rows == snap.trail
<1>2. /\ DOMAIN atts = 1 .. Len(atts) /\ Len(atts) \in Nat /\ Len(rows) \in Nat
      /\ Len(atts) <= Len(attest) /\ (\A p \in DOMAIN atts : atts[p] = attest[p])
      /\ Len(atts) <= Len(rows) /\ (\A i \in 1 .. Len(rows) : rows[i] = i)
  BY <1>0, <1>1 DEF SnapHolds
<1>3. \A p \in DOMAIN atts : p \in DOMAIN attest /\ LineHolds(atts[p], p)
  BY <1>0, <1>1, <1>2 DEF LinesHold
<1> HIDE DEF atts, rows
<1>4. /\ ~(\E p \in DOMAIN atts : atts[p] = Malformed)
      /\ ~TrailMismatch(atts, rows)
      /\ verify_seals(atts) = "ok"
  BY <1>2, <1>3, LinesVerify
<1>5. check_continuity(snap.sealkey, Len(atts)) \in
         {"ok", "keyfile_missing", "keyfile_epoch_mismatch"}
  <2>1. ASSUME snap.sealkey # << >> PROVE snap.sealkey[1].key = EpochKey(snap.sealkey[1].epoch)
    <3>1. snap.sealkey[1] \in EpochKeys
      BY <1>1, <2>1
    <3>2. snap.sealkey[1].epoch \in Nat /\ snap.sealkey[1].key = snap.sealkey[1].epoch
      BY <3>1 DEF EpochKeys
    <3> QED
      BY <3>2, KeyOfEpoch
  <2> QED
    BY <2>1 DEF check_continuity
<1>6. AggregateReason(atts, snap.sealagg) \in {"ok", "aggregate_epoch_mismatch"}
  <2>1. CASE snap.sealagg = << >>
    BY <1>0, <2>1 DEF SnapHolds, AggregateReason, atts
  <2>2. CASE snap.sealagg # << >>
    <3>1. /\ sealagg # << >> /\ snap.sealagg[1].agg_start = sealagg[1].agg_start
          /\ snap.sealagg[1].agg_start < snap.sealagg[1].epoch
          /\ snap.sealagg[1].epoch <= sealagg[1].epoch
          /\ snap.sealagg[1].agg = Ideal(snap.sealagg[1].agg_start, snap.sealagg[1].epoch)
      BY <1>0, <2>2 DEF SnapHolds
    <3>2. snap.sealagg[1] \in Agg
      BY <1>1, <2>2
    <3> DEFINE s == snap.sealagg[1].agg_start
               e == snap.sealagg[1].epoch
    <3>3. s \in Nat /\ e \in Nat /\ s < e
      BY <3>1, <3>2 DEF Agg
    <3>4. \A p \in DOMAIN atts : s < p /\ p <= e => atts[p].scheme = FS_HMAC_AGG_SCHEME
      <4> SUFFICES ASSUME NEW p \in DOMAIN atts, s < p, p <= e
                   PROVE  atts[p].scheme = FS_HMAC_AGG_SCHEME
        OBVIOUS
      <4>1. p \in DOMAIN attest /\ atts[p] = attest[p] /\ p \in Nat
        BY <1>0, <1>2, <1>3
      <4>2. sealagg[1].agg_start < p /\ p <= sealagg[1].epoch
        BY <1>0, <3>1, <3>3, <4>1
      <4> QED
        BY <1>0, <3>1, <4>1, <4>2 DEF AggregateHolds, Folds
    <3> HIDE DEF s, e
    <3>5. verify_aggregate(atts, s, e, Ideal(s, e)) \in {"ok", "aggregate_epoch_mismatch"}
      BY <1>2, <1>3, <3>3, <3>4, AggregateVerifies
    <3>6. snap.sealagg[1].agg = Ideal(s, e)
      BY <3>1 DEF s, e
    <3> QED
      BY <2>2, <3>5, <3>6 DEF AggregateReason, s, e
  <2> QED
    BY <2>1, <2>2
<1> QED
  BY <1>4, <1>5, <1>6 DEF verify_sidecar, atts, rows

\* The sidecars of a healthy trail at rest are sound as far as they go.
LEMMA RestingFiles ==
    ASSUME IInv, OneHolds, alone # Nobody, Quiet, Healthy
    PROVE  /\ ~(\E p \in DOMAIN attest : attest[p] = Malformed)
           /\ ~TrailMismatch(attest, trail) /\ verify_seals(attest) = "ok"
           /\ AggregateReason(attest, sealagg) = "ok"
           /\ sealagg # << >> => sealagg[1].epoch <= Len(attest)
           /\ sealkey # << >> => check_continuity(sealkey, Len(attest)) = "ok"
           /\ failed = {} => Len(trail) = Len(attest)
           /\ DOMAIN attest = 1 .. Len(attest)
<1>0. /\ LinesHold /\ AggregateHolds /\ attest \in Seq(Lines) /\ trail \in Seq(Nat)
      /\ Len(attest) \in Nat /\ Len(trail) \in Nat /\ alone \in Writer
      /\ \A i \in 1 .. Len(trail) : trail[i] = i
      /\ sealkey \in Seq(EpochKeys)
      /\ sealkey # << >> => sealkey[1].epoch \in Nat
      /\ sealagg # << >> => sealagg[1].agg_start \in Nat /\ sealagg[1].epoch \in Nat
  BY HealthyFacts DEF IInv, Shape
<1>1. pc[alone] \in {"off", "idle"}
  BY <1>0 DEF Quiet
<1>2. Evolved = 0 /\ ~Live(alone) /\ ~FoldedAhead
  BY <1>1 DEF Evolved, HasEvolved, Live, FoldedAhead
<1>3. /\ \A p \in DOMAIN attest : LineHolds(attest[p], p)
      /\ Len(attest) <= Len(trail) /\ DOMAIN attest = 1 .. Len(attest)
      /\ sealkey # << >> => sealkey[1].epoch = Len(attest) + 0
      /\ failed = {} => Len(trail) = Len(attest) + 0
      /\ sealagg # << >> => sealagg[1].epoch <= Len(attest) + 0
      /\ Folds(sealagg, attest)
  BY <1>0, <1>2 DEF LinesHold, AggregateHolds
<1>4. /\ ~(\E p \in DOMAIN attest : attest[p] = Malformed)
      /\ ~TrailMismatch(attest, trail) /\ verify_seals(attest) = "ok"
  BY <1>0, <1>3, LinesVerify
<1>5. ASSUME sealkey # << >> PROVE check_continuity(sealkey, Len(attest)) = "ok"
  <2>1. sealkey[1] \in EpochKeys
    BY <1>0, <1>5
  <2>2. sealkey[1].key = sealkey[1].epoch
    BY <2>1 DEF EpochKeys
  <2>3. EpochKey(sealkey[1].epoch) = sealkey[1].epoch
    BY <1>0, <1>5, KeyOfEpoch
  <2>4. sealkey[1].epoch = Len(attest)
    BY <1>0, <1>3, <1>5
  <2> QED
    BY <1>5, <2>2, <2>3, <2>4 DEF check_continuity
<1>6. AggregateReason(attest, sealagg) = "ok"
  <2>1. CASE sealagg = << >>
    BY <1>3, <2>1 DEF Folds, AggregateReason
  <2>2. CASE sealagg # << >>
    <3> DEFINE s == sealagg[1].agg_start
               e == sealagg[1].epoch
    <3>1. /\ s \in Nat /\ e \in Nat /\ s < e /\ e <= Len(attest)
          /\ sealagg[1].agg = Ideal(s, e)
          /\ \A p \in DOMAIN attest : attest[p].scheme = FS_HMAC_AGG_SCHEME <=> s < p /\ p <= e
      BY <1>0, <1>3, <2>2 DEF Folds
    <3> HIDE DEF s, e
    <3>2. /\ \A p \in DOMAIN attest : s < p /\ p <= e => attest[p].scheme = FS_HMAC_AGG_SCHEME
          /\ \A p \in DOMAIN attest : e < p => attest[p].scheme # FS_HMAC_AGG_SCHEME
      <4>1. \A p \in DOMAIN attest : p \in Nat
        BY <1>3
      <4>2. \A p \in Nat : e < p => ~(p <= e)
        BY <3>1
      <4> QED
        BY <3>1, <4>1, <4>2, Zenon
    <3>3. verify_aggregate(attest, s, e, Ideal(s, e)) = "ok"
      BY <1>0, <1>3, <3>1, <3>2, AggregateVerifies
    <3> QED
      BY <2>2, <3>1, <3>3 DEF AggregateReason, s, e
  <2> QED
    BY <2>1, <2>2
<1> QED
  BY <1>0, <1>3, <1>4, <1>5, <1>6

\* At rest nothing is wrong with the seals unless an append raised.
LEMMA AlarmsAreAnnounced ==
    ASSUME IInv, OneHolds, alone # Nobody
    PROVE  NoAlarmWithoutFailure
<1> SUFFICES ASSUME Quiet, Healthy, NEW w \in Writer, pc[w] = "idle", failed = {}
             PROVE  verify_sidecar("key", Files) = "ok"
  BY DEF NoAlarmWithoutFailure
<1>1. pc[alone] = "idle"
  BY DEF IInv, AloneHolds
<1>2. sealkey # << >>
  BY <1>1, HealthyFacts DEF LinesHold
<1>3. /\ ~(\E p \in DOMAIN attest : attest[p] = Malformed)
      /\ ~TrailMismatch(attest, trail) /\ verify_seals(attest) = "ok"
      /\ AggregateReason(attest, sealagg) = "ok"
      /\ check_continuity(sealkey, Len(attest)) = "ok"
      /\ Len(trail) = Len(attest) /\ Len(trail) \in Nat
  BY <1>2, RestingFiles, HealthyFacts
<1>4. ~Gap(attest, trail)
  BY <1>3 DEF Gap
<1>5. /\ Files.attest = attest /\ Files.trail = trail /\ Files.sealkey = sealkey
      /\ Files.sealagg = sealagg
  BY DEF Files
<1> QED
  BY <1>3, <1>4, <1>5 DEF verify_sidecar

\* What was anchored is the fold over the lines that are there.
LEMMA AnchorsVerify ==
    ASSUME IInv, OneHolds, alone # Nobody
    PROVE  AnchoredAggregatesVerify
<1> SUFFICES ASSUME Quiet, Healthy, NEW a \in anchored
             PROVE  verify_anchored_aggregates(a) = "ok"
  BY DEF AnchoredAggregatesVerify
<1>0. /\ AnchorsHold /\ SealsOnly /\ LinesHold /\ AggregateHolds /\ Len(attest) \in Nat
      /\ sealagg # << >> => sealagg[1].agg_start \in Nat /\ sealagg[1].epoch \in Nat
  BY HealthyFacts DEF OneHolds
<1>1. /\ ~(\E p \in DOMAIN attest : attest[p] = Malformed)
      /\ sealagg # << >> => sealagg[1].epoch <= Len(attest)
      /\ DOMAIN attest = 1 .. Len(attest)
  BY RestingFiles
<1> DEFINE s == sealagg[1].agg_start
           e == a.epoch
<1>2. /\ sealagg # << >> /\ s < e /\ e <= sealagg[1].epoch /\ a.agg = Ideal(s, e)
      /\ e \in Nat /\ a.commit = <<e, a.agg>> /\ s \in Nat
  BY <1>0 DEF AnchorsHold, SealsOnly
<1>3. e <= Len(attest)
  BY <1>0, <1>1, <1>2
<1>4. \A p \in DOMAIN attest : s < p /\ p <= e => attest[p].scheme = FS_HMAC_AGG_SCHEME
  BY <1>0, <1>1, <1>2 DEF AggregateHolds, Folds
<1>5. \A p \in DOMAIN attest : LineHolds(attest[p], p)
  BY <1>0 DEF LinesHold
<1> HIDE DEF s, e
<1>6. Fold(attest, s, e) = Ideal(s, e)
  BY <1>0, <1>1, <1>2, <1>3, <1>4, <1>5, AggregateVerifies
<1>7. verify_anchored_aggregate(attest, s, e, a.commit) = "ok"
  BY <1>0, <1>2, <1>3, <1>6 DEF verify_anchored_aggregate, AnchoredRowsMissing, aggregate_commit
<1> QED
  BY <1>1, <1>2, <1>7 DEF verify_anchored_aggregates, s, e

\* History that was cut off or put back stays reported, however the trail grows
\* afterwards: the keyfile's epoch stays ahead of the lines (check_continuity),
\* and no later line makes an anchored aggregate of a removed row fold again
\* (verify_anchored_aggregates).
THEOREM RewindsAreCaught == TrailSpec => []RewindIsCaught
<1>1. TrailInit => IInv /\ OneHolds
  BY InitHolds, OneInit
<1>2. IInv /\ OneHolds /\ [TrailNext]_trailVars => (IInv /\ OneHolds)'
  BY NextKeeps, OneKept
<1>3. IInv /\ OneHolds => RewindIsCaught
  BY CutsAreReported, RollbacksAreCaught DEF RewindIsCaught
<1> QED
  BY <1>1, <1>2, <1>3, PTL DEF TrailSpec

\* One process whose writes succeed never makes its trail look bad: not to a
\* verification that reads the four files at four times, not at rest unless an
\* append raised, and not to what an anchor took between two of its writes
\* (verify_sidecar, verify_anchored_aggregates).
THEOREM OneProcessRaisesNoAlarm == TrailSpec => []NoFalseAlarm
<1>1. TrailInit => IInv /\ OneHolds
  BY InitHolds, OneInit
<1>2. IInv /\ OneHolds /\ [TrailNext]_trailVars => (IInv /\ OneHolds)'
  BY NextKeeps, OneKept
<1>3. IInv /\ OneHolds => NoFalseAlarm
  BY VerdictsAreHonest, AlarmsAreAnnounced, AnchorsVerify DEF NoFalseAlarm
<1> QED
  BY <1>1, <1>2, <1>3, PTL DEF TrailSpec
=============================================================================
