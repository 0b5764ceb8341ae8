------------------------------ MODULE Rotation ------------------------------
(***************************************************************************)
(* sources/rotation.py and domain/segments.py: a trail as a directory of   *)
(* segments, each a chain of its own, linked by the binding at row 0 of    *)
(* every segment but the first.                                            *)
(*                                                                         *)
(* Two kinds of writers open_segmented the trail: hooks append through the *)
(* AuditLog it returns, holding no rotation lock; the chain server appends *)
(* under segments.lock to whatever is active by then.  A row is its entry  *)
(* hash, a number; sizes count rows (a torn line counts as one).           *)
(***************************************************************************)
EXTENDS Naturals, Sequences, FiniteSets, Functions

CONSTANTS
    Hook,         \* writers that append through AuditLog
    Server,       \* handlers of the chain server
    NoWriter,     \* segments.lock while it is free
    MaxSegment,   \* max_segment_bytes, in rows
    MaxRows,      \* bound: no call starts once this many rows are written
    Incidents,    \* of {"torn", "archive", "bind", "crash", "crash_bind", "delete"}
    MaxIncidents  \* bound on the incidents

Writer == Hook \cup Server

ASSUME RotationAssumption ==
    /\ Hook \cap Server = {}
    /\ NoWriter \notin Writer
    /\ IsFiniteSet(Writer)
    /\ MaxSegment \in Nat \ {0}
    /\ {MaxRows, MaxIncidents} \subseteq Nat
    /\ Incidents \subseteq {"torn", "archive", "bind", "crash", "crash_bind", "delete"}

VARIABLES
    segs,      \* the segment files, by ordinal
    lock,      \* segments.lock
    pc,        \* where each writer is
    handle,    \* the segment its AuditLog is open on
    tail,      \* the closing segment's tip as the rotation read it
    archive,   \* the copies an archive destination holds: {<<segment, rows>>}
    deleted,   \* segments that are no longer in the directory
    written,   \* rows ever written
    incidents  \* how often each incident has happened

vars == <<segs, lock, pc, handle, tail, archive, deleted, written, incidents>>

\* A row: its hash, and what it binds if it is a rotation binding.
Row(id) == [id |-> id, binds |-> << >>]
BindingRow(id, b) == [id |-> id, binds |-> <<b>>]

NoTail == [segment |-> 0, seq |-> 0, head_hash |-> 0]

Empty == [rows |-> << >>, torn |-> FALSE]

Active == Len(segs)

Size(s) == Len(segs[s].rows) + (IF segs[s].torn THEN 1 ELSE 0)

Init ==
    /\ segs = <<Empty>>
    /\ lock = NoWriter
    /\ pc = [w \in Writer |-> "idle"]
    /\ handle = [w \in Writer |-> 0]
    /\ tail = [w \in Writer |-> NoTail]
    /\ archive = {}
    /\ deleted = {}
    /\ written = 0
    /\ incidents = [k \in Incidents |-> 0]

Goto(w, where) == pc' = [pc EXCEPT ![w] = where]

Incident(kind) ==
    /\ kind \in Incidents
    /\ SumFunction(incidents) < MaxIncidents
    /\ incidents' = [incidents EXCEPT ![kind] = @ + 1]

Happened(kind) == kind \in Incidents /\ incidents[kind] > 0

Done(w) ==
    /\ Goto(w, "idle")
    /\ handle' = [handle EXCEPT ![w] = 0]
    /\ tail' = [tail EXCEPT ![w] = NoTail]

Release(w) == lock' = NoWriter

\* Mutant: an exception leaves the lock taken.
KeepLock(w) == UNCHANGED lock

\* The with block is left by an exception.
Unwind(w) == Release(w)

-----------------------------------------------------------------------------
(* open_segmented.                                                         *)

\* Mutant: a segment that has just reached the threshold may grow once more.
UnderThresholdOrAt(s) == Size(s) <= MaxSegment

UnderThreshold(s) == Size(s) < MaxSegment

\* One stat of the active segment, without the lock.
OpenStat(w) ==
    /\ pc[w] = "idle"
    /\ written < MaxRows
    /\ handle' = [handle EXCEPT ![w] = Active]
    /\ Goto(w, IF UnderThreshold(Active) THEN "append" ELSE "lock")
    /\ UNCHANGED <<segs, lock, tail, archive, deleted, written, incidents>>

AcquireLock(w) ==
    /\ pc[w] = "lock"
    /\ lock = NoWriter
    /\ lock' = w
    /\ Goto(w, "resolve")
    /\ UNCHANGED <<segs, handle, tail, archive, deleted, written, incidents>>

\* Mutant: the segment seen before the lock is rotated, whatever happened
\* while this writer waited.
ResolvedStale(w) == handle[w]

Resolved(w) == Active

\* Under the lock: nothing to seal any more, or a tail that does not parse.
ResolveNothingToSeal(w) ==
    LET a == Resolved(w) IN
    /\ pc[w] = "resolve"
    /\ a = Active /\ (UnderThreshold(a) \/ segs[a].torn)
    /\ handle' = [handle EXCEPT ![w] = a]
    /\ Release(w)
    /\ Goto(w, "append")
    /\ UNCHANGED <<segs, tail, archive, deleted, written, incidents>>

\* The last row of segment a, as a binding names it.
TailOf(a) ==
    LET n == Len(segs[a].rows)
    IN  [segment |-> a, seq |-> n - 1, head_hash |-> segs[a].rows[n].id]

\* Under the lock: the tail the binding will name is read.
ResolveTail(w) ==
    LET a == Resolved(w) IN
    /\ pc[w] = "resolve"
    /\ ~(a = Active /\ (UnderThreshold(a) \/ segs[a].torn))
    /\ tail' = [tail EXCEPT ![w] = TailOf(a)]
    /\ Goto(w, "create")
    /\ UNCHANGED <<segs, lock, handle, archive, deleted, written, incidents>>

\* The new segment's file comes into being, under its own file lock ...
CreateSegment(w) ==
    /\ pc[w] = "create"
    /\ segs' = Append(segs, Empty)
    /\ Goto(w, "bind")
    /\ UNCHANGED <<lock, handle, tail, archive, deleted, written, incidents>>

\* ... and its first row is the binding.
WriteBinding(w) ==
    /\ pc[w] = "bind"
    /\ written' = written + 1
    /\ segs' = [segs EXCEPT ![Active].rows = <<BindingRow(written + 1, tail[w])>>]
    /\ handle' = [handle EXCEPT ![w] = Active]
    /\ Release(w)
    /\ Goto(w, "archive")
    /\ UNCHANGED <<tail, archive, deleted, incidents>>

\* The append of the binding raises out of open_segmented: no file, an empty
\* one, or one with a torn line.
BindingRaises(w) ==
    /\ \/ pc[w] = "create" /\ UNCHANGED segs
       \/ pc[w] = "bind" /\ UNCHANGED segs
       \/ pc[w] = "bind" /\ segs' = [segs EXCEPT ![Active].torn = TRUE]
    /\ Incident("bind")
    /\ Unwind(w)
    /\ Done(w)
    /\ UNCHANGED <<archive, deleted, written>>

\* Mutant: the active segment is looked up again after the lock.
SealedLookedUp(w) == Active

Sealed(w) == tail[w].segment

\* _archive_sealed, outside the lock: the sealed file as it is by now.
ArchiveSealed(w) ==
    /\ pc[w] = "archive"
    /\ \/ /\ archive' = archive \cup {<<Sealed(w), segs[Sealed(w)].rows>>}
          /\ UNCHANGED incidents
       \/ Incident("archive") /\ UNCHANGED archive
    /\ Goto(w, "append")
    /\ UNCHANGED <<segs, lock, handle, tail, deleted, written>>

-----------------------------------------------------------------------------
(* The append itself.                                                      *)

\* The file lock of a segment whose binding is being written is taken.
FileLockFree(s) == \A v \in Writer : pc[v] = "bind" => s # Active

\* Where the row goes: a hook's AuditLog is open on one file, the server
\* resolves the active one under segments.lock.
AppendTarget(w) == IF w \in Server THEN Active ELSE handle[w]

AppendRow(w) ==
    LET s == AppendTarget(w) IN
    /\ pc[w] = "append"
    /\ w \in Server => lock = NoWriter
    /\ FileLockFree(s)
    /\ ~segs[s].torn
    /\ written' = written + 1
    /\ segs' = [segs EXCEPT ![s].rows = Append(@, Row(written + 1))]
    /\ Done(w)
    /\ UNCHANGED <<lock, archive, deleted, incidents>>

\* A torn tail refuses every append; a short write leaves one.
AppendRaises(w) ==
    LET s == AppendTarget(w) IN
    /\ pc[w] = "append"
    /\ w \in Server => lock = NoWriter
    /\ FileLockFree(s)
    /\ \/ segs[s].torn /\ UNCHANGED <<segs, incidents>>
       \/ /\ ~segs[s].torn
          /\ Incident("torn")
          /\ segs' = [segs EXCEPT ![s].torn = TRUE]
    /\ Done(w)
    /\ UNCHANGED <<lock, archive, deleted, written>>

\* A process dies; its locks go with it.
Crash(w) ==
    /\ pc[w] # "idle"
    /\ IF pc[w] = "bind"
         THEN /\ Incident("crash_bind")
              /\ \/ UNCHANGED segs
                 \/ segs' = [segs EXCEPT ![Active].torn = TRUE]
         ELSE Incident("crash") /\ UNCHANGED segs
    /\ lock' = IF lock = w THEN NoWriter ELSE lock
    /\ Done(w)
    /\ UNCHANGED <<archive, deleted, written>>

\* A sealed segment is taken out of the directory.
DeleteSealed(s) ==
    /\ Incident("delete")
    /\ s \notin deleted
    /\ \A w \in Writer : pc[w] = "idle"
    /\ deleted' = deleted \cup {s}
    /\ UNCHANGED <<segs, lock, pc, handle, tail, archive, written>>

Step(w) ==
    \/ AcquireLock(w) \/ ResolveNothingToSeal(w) \/ ResolveTail(w)
    \/ CreateSegment(w) \/ WriteBinding(w) \/ BindingRaises(w)
    \/ ArchiveSealed(w) \/ AppendRow(w) \/ AppendRaises(w)

Next ==
    \/ \E w \in Writer : OpenStat(w) \/ Step(w) \/ Crash(w)
    \/ \E s \in 1 .. Active - 1 : DeleteSealed(s)

\* A writer that can go on does, and a file lock is not withheld from one
\* waiter for ever; nobody has to open the trail.
Fairness == \A w \in Writer : SF_vars(Step(w))

Spec == Init /\ [][Next]_vars /\ Fairness

-----------------------------------------------------------------------------
(* verify_segments over the files in the directory.                        *)

Present == (1 .. Active) \ deleted

\* Mutant: the bound row has to be the last one.
binding_holds_last(b) ==
    /\ b.seq + 1 = Len(segs[b.segment].rows)
    /\ segs[b.segment].rows[b.seq + 1].id = b.head_hash

binding_holds(b) ==
    /\ b.seq < Len(segs[b.segment].rows)
    /\ segs[b.segment].rows[b.seq + 1].id = b.head_hash

\* Mutant: whatever is lowest in the directory needs no predecessor.
_binding_finding_lowest_exempt(s) ==
    LET rows == segs[s].rows IN
    IF \A t \in Present : t >= s THEN "ok"
    ELSE IF rows = << >> \/ rows[1].binds = << >> THEN "rotation_binding_missing"
    ELSE IF rows[1].binds[1].segment \notin Present THEN "segment_missing"
    ELSE IF segs[rows[1].binds[1].segment].torn THEN "rotation_binding_unchecked"
    ELSE IF ~binding_holds(rows[1].binds[1]) THEN "rotation_binding_mismatch"
    ELSE "ok"

\* The finding about segment s and its binding.
_binding_finding(s) ==
    LET rows == segs[s].rows IN
    IF rows = << >> \/ rows[1].binds = << >>
      THEN IF \A t \in Present : t >= s THEN "ok" ELSE "rotation_binding_missing"
    ELSE IF rows[1].binds[1].segment \notin Present THEN "segment_missing"
    ELSE IF segs[rows[1].binds[1].segment].torn THEN "rotation_binding_unchecked"
    ELSE IF ~binding_holds(rows[1].binds[1]) THEN "rotation_binding_mismatch"
    ELSE "ok"

SegmentReason(s) == IF segs[s].torn THEN "segment_unreadable" ELSE _binding_finding(s)

Broken == {"rotation_binding_missing", "rotation_binding_mismatch", "segment_missing"}

\* The join of the segments' states.
verify_segments ==
    LET Reasons == {SegmentReason(s) : s \in Present}
    IN  IF Reasons \cap Broken # {} THEN "broken"
        ELSE IF Reasons # {"ok"} THEN "unverifiable"
        ELSE "ok"

-----------------------------------------------------------------------------
(* Correctness.                                                            *)

Bindings(s) == {b \in {segs[s].rows[i].binds : i \in DOMAIN segs[s].rows} : b # << >>}

\* "N racing writers produce exactly one rotation" (SPEC.md 20.2): each
\* segment is bound by its direct successor and by no other.
OneRotationPerSegment ==
    \A s \in DOMAIN segs : \A b \in Bindings(s) : b[1].segment = s - 1

\* Rotation never looks like tampering: whoever appends to a closing segment
\* late, dies or leaves a torn line, no finding is a break.  (While a rotation
\* is between creating its file and writing the binding, a reader of the live
\* directory does see the binding missing.)
RotationIsNeverABreak ==
    (deleted = {} /\ \A w \in Writer : pc[w] # "bind") => verify_segments # "broken"

\* No rotation stopped between creating its segment and writing the binding.
RotationsComplete == ~Happened("bind") /\ ~Happened("crash_bind")

\* The same as far as the code keeps it.
RotationIsNoBreak == RotationsComplete => RotationIsNeverABreak

\* A directory without some of its sealed segments, a prefix included, is
\* reported as broken while every later segment can be read.
DeletionIsReported ==
    /\ RotationsComplete
    /\ \E s \in deleted : /\ \E t \in Present : t > s
                          /\ \A u \in s + 1 .. Active : ~segs[u].torn
    => verify_segments = "broken"

\* An archived copy holds the tail its successor's binding names, although
\* it was read after the lock was gone.
ArchiveHoldsBoundTail ==
    \A c \in archive : \A s \in DOMAIN segs : \A b \in Bindings(s) :
        b[1].segment = c[1] =>
            /\ b[1].seq < Len(c[2])
            /\ c[2][b[1].seq + 1].id = b[1].head_hash

\* The rows a segment can have while a writer may still be let in: short of
\* the threshold, or the binding alone where that fills a segment by itself.
OpenRows == IF MaxSegment = 1 THEN 1 ELSE MaxSegment - 1

\* A segment outgrows the threshold by at most the writers that had it open
\* when it was reached.
SegmentIsBounded ==
    \A s \in DOMAIN segs : Len(segs[s].rows) <= OpenRows + Cardinality(Writer)

\* Every call ends, also when the rotation raises or a rotating writer dies.
EveryAppendEnds == \A w \in Writer : pc[w] # "idle" ~> pc[w] = "idle"

\* What verify_segments says of a directory is so: no race, late append or torn
\* line makes it a break, and a missing segment does.
SegmentVerdictHolds == RotationIsNoBreak /\ DeletionIsReported

\* A full segment is closed once, with little past its threshold, and its copy
\* is one the successor's binding vouches for.
SegmentsCloseOnce ==
    OneRotationPerSegment /\ SegmentIsBounded /\ ArchiveHoldsBoundTail

==============================================================================
