------------------------------ MODULE AuditLog ------------------------------
(***************************************************************************)
(* log/facade.py: the AuditLog facade, as many threads drive it.  Several  *)
(* AuditLog objects (one per process, or a with_anchor_sink view) share    *)
(* one trail; the threads of one object share its _append_lock, its Merkle *)
(* forest and its counters.                                                *)
(*                                                                         *)
(* The backend is the append-only log of ports/backend.py that             *)
(* JsonlBackend is shown to implement: one append lands at the end, or     *)
(* raises and leaves nothing.  Reading the whole trail back raises when a  *)
(* stored line does not parse, or when the server cannot be reached.       *)
(***************************************************************************)
EXTENDS Naturals, Sequences, Functions

CONSTANTS
    Log,          \* AuditLog objects
    Thread,       \* threads that call into them
    LogOf,        \* the object each thread uses
    NoThread,     \* the lock's value while nobody holds it
    Event,        \* what callers record
    NoEvent,      \* the value of `event` between two calls
    AnchorEvery,  \* anchor_every
    TryCallers,   \* the threads that use try_append; the others use append
    MaxAnchors,   \* bound on explicit anchor() calls
    FaultKinds,   \* what may fail: "append", "read", "seal", "sink", "damage"
    MaxFaults     \* bound on the failures

ASSUME AuditLogAssumption ==
    /\ LogOf \in [Thread -> Log]
    /\ NoThread \notin Thread
    /\ NoEvent \notin Event
    /\ AnchorEvery \in Nat \ {0}
    /\ TryCallers \subseteq Thread
    /\ MaxAnchors \in Nat
    /\ FaultKinds \subseteq {"append", "read", "seal", "sink", "damage"}
    /\ MaxFaults \in Nat

VARIABLES
    trail,            \* the durable chain, row by row; a row's hash is its event
    damaged,          \* positions of rows that no longer parse
    appendLock,       \* _append_lock of each object
    merkle,           \* _merkle of each object: the leaves it holds
    dropped,          \* _dropped: the events each object counted as lost
    attestFailures,   \* _attest_failures: the rows counted as unsealed
    anchorFailures,   \* _anchor_failures
    sealed,           \* rows the attestor sealed
    checkpoints,      \* checkpoints the anchor sink holds
    pc,               \* where each thread is
    event,            \* the event a thread is recording
    seq,              \* the row a thread's append landed on
    hashes,           \* entry_hashes() as anchor() read it
    root,             \* the root anchor() computed
    anchors,          \* explicit anchor() calls so far
    faults            \* how often each kind of fault has happened

vars == <<trail, damaged, appendLock, merkle, dropped, attestFailures,
          anchorFailures, sealed, checkpoints, pc, event, seq,
          hashes, root, anchors, faults>>

\* What a thread's own frame holds.
frame == <<event, seq, hashes, root>>

counters == <<dropped, attestFailures, anchorFailures>>

Checkpoint == [seq : Nat, entry_hash : Event, root : Seq(Event)]

TypeOK ==
    /\ trail \in Seq(Event)
    /\ damaged \subseteq DOMAIN trail
    /\ appendLock \in [Log -> Thread \cup {NoThread}]
    /\ merkle \in [Log -> Seq(Event)]
    /\ dropped \in [Log -> SUBSET Event]
    /\ attestFailures \in [Log -> SUBSET Nat]
    /\ anchorFailures \in [Log -> Nat]
    /\ sealed \subseteq DOMAIN trail
    /\ checkpoints \subseteq Checkpoint
    /\ pc \in [Thread -> {"idle", "lock", "backend", "note", "attest",
                          "anchor", "root", "publish"}]
    /\ event \in [Thread -> Event \cup {NoEvent}]
    /\ seq \in [Thread -> Nat]
    /\ hashes \in [Thread -> Seq(Event)]
    /\ root \in [Thread -> Seq(Event)]
    /\ anchors \in 0 .. MaxAnchors
    /\ faults \in [FaultKinds -> 0 .. MaxFaults]

Init ==
    /\ trail = << >>
    /\ damaged = {}
    /\ appendLock = [l \in Log |-> NoThread]
    /\ merkle = [l \in Log |-> << >>]
    /\ dropped = [l \in Log |-> {}]
    /\ attestFailures = [l \in Log |-> {}]
    /\ anchorFailures = [l \in Log |-> 0]
    /\ sealed = {}
    /\ checkpoints = {}
    /\ pc = [t \in Thread |-> "idle"]
    /\ event = [t \in Thread |-> NoEvent]
    /\ seq = [t \in Thread |-> 0]
    /\ hashes = [t \in Thread |-> << >>]
    /\ root = [t \in Thread |-> << >>]
    /\ anchors = 0
    /\ faults = [k \in FaultKinds |-> 0]

Goto(t, where) == pc' = [pc EXCEPT ![t] = where]

\* The call returns or raises: the thread's frame is gone.
Finish(t) ==
    /\ Goto(t, "idle")
    /\ event' = [event EXCEPT ![t] = NoEvent]
    /\ seq' = [seq EXCEPT ![t] = 0]
    /\ hashes' = [hashes EXCEPT ![t] = << >>]
    /\ root' = [root EXCEPT ![t] = << >>]

\* Mutant: the lock survives an exception of the backend.
UnlockOnReturn(t) ==
    appendLock' = [appendLock EXCEPT ![LogOf[t]] =
                      IF pc[t] = "backend" THEN @ ELSE NoThread]

Unlock(t) == appendLock' = [appendLock EXCEPT ![LogOf[t]] = NoThread]

Fault(kind) ==
    /\ kind \in FaultKinds
    /\ SumFunction(faults) < MaxFaults
    /\ faults' = [faults EXCEPT ![kind] = @ + 1]

\* entry_hashes() raises: a row does not parse, or the remote read fails.
ReadRaises ==
    \/ damaged # {} /\ UNCHANGED faults
    \/ Fault("read")

\* entry_hashes() returns every row's hash.
ReadOk == damaged = {} /\ UNCHANGED faults

-----------------------------------------------------------------------------
(* append and try_append.                                                  *)

\* _canonical_payload accepted the event; the hash and ts are computed.
Begin(t, e) ==
    /\ pc[t] = "idle"
    /\ e \notin {trail[i] : i \in DOMAIN trail}
    /\ \A l \in Log : e \notin dropped[l]
    /\ \A u \in Thread : event[u] # e
    /\ Goto(t, "lock")
    /\ event' = [event EXCEPT ![t] = e]
    /\ UNCHANGED <<trail, damaged, appendLock, merkle, counters, sealed,
                   checkpoints, seq, hashes, root, anchors, faults>>

AcquireAppendLock(t) ==
    /\ pc[t] = "lock"
    /\ appendLock[LogOf[t]] = NoThread
    /\ appendLock' = [appendLock EXCEPT ![LogOf[t]] = t]
    /\ Goto(t, "backend")
    /\ UNCHANGED <<trail, damaged, merkle, counters, sealed, checkpoints,
                   frame, anchors, faults>>

\* try_append's `except Exception`; append lets it out.
CountDrop(t) ==
    dropped' = [dropped EXCEPT ![LogOf[t]] =
                   IF t \in TryCallers THEN @ \cup {event[t]} ELSE @]

\* self._backend.append(build) lands the row.
BackendAppend(t) ==
    /\ pc[t] = "backend"
    /\ trail' = Append(trail, event[t])
    /\ seq' = [seq EXCEPT ![t] = Len(trail)]
    /\ Goto(t, "note")
    /\ UNCHANGED <<damaged, appendLock, merkle, counters, sealed, checkpoints,
                   event, hashes, root, anchors, faults>>

\* ... or raises, and the row is not there.
BackendRaises(t) ==
    /\ pc[t] = "backend"
    /\ Fault("append")
    /\ CountDrop(t)
    /\ Unlock(t)
    /\ Finish(t)
    /\ UNCHANGED <<trail, damaged, merkle, attestFailures, anchorFailures,
                   sealed, checkpoints, anchors>>

CanPush(t) == Len(merkle[LogOf[t]]) = seq[t]

\* _note_appended: push on a forest of exactly seq leaves, else rebuild it
\* from the whole trail, rows other objects appended meanwhile included.
NoteAppended(t) ==
    /\ pc[t] = "note"
    /\ \/ /\ CanPush(t)
          /\ merkle' = [merkle EXCEPT ![LogOf[t]] = Append(@, event[t])]
          /\ UNCHANGED faults
       \/ /\ ~CanPush(t)
          /\ ReadOk
          /\ merkle' = [merkle EXCEPT ![LogOf[t]] = trail]
    /\ Goto(t, "attest")
    /\ UNCHANGED <<trail, damaged, appendLock, counters, sealed, checkpoints,
                   frame, anchors>>

\* The rebuild's read raises: out of append, with the row on the chain.
NoteRaises(t) ==
    /\ pc[t] = "note"
    /\ ~CanPush(t)
    /\ ReadRaises
    /\ CountDrop(t)
    /\ Unlock(t)
    /\ Finish(t)
    /\ UNCHANGED <<trail, damaged, merkle, attestFailures, anchorFailures,
                   sealed, checkpoints, anchors>>

\* Mutant: the cadence counts from the row's seq instead of the trail size.
AnchorDueOffByOne(n) == n % AnchorEvery = 0

AnchorDue(n) == (n + 1) % AnchorEvery = 0

\* The attestor seals the row, the lock is released, and the cadence decides
\* between anchoring and returning.
Attest(t) ==
    /\ pc[t] = "attest"
    /\ sealed' = sealed \cup {seq[t] + 1}
    /\ Unlock(t)
    /\ IF AnchorDue(seq[t])
         THEN Goto(t, "anchor") /\ UNCHANGED frame
         ELSE Finish(t)
    /\ UNCHANGED <<trail, damaged, merkle, counters, checkpoints, anchors,
                   faults>>

\* Mutant: a failed seal is counted as a lost write.
CountUnsealedAsDrop(t) ==
    /\ CountDrop(t)
    /\ UNCHANGED attestFailures

\* try_append's `except AttestationFailure`.
CountUnsealed(t) ==
    /\ attestFailures' = [attestFailures EXCEPT ![LogOf[t]] =
                             IF t \in TryCallers THEN @ \cup {seq[t] + 1} ELSE @]
    /\ UNCHANGED dropped

\* The attestor raises: AttestationFailure, before the cadence is looked at.
AttestRaises(t) ==
    /\ pc[t] = "attest"
    /\ Fault("seal")
    /\ CountUnsealed(t)
    /\ Unlock(t)
    /\ Finish(t)
    /\ UNCHANGED <<trail, damaged, merkle, anchorFailures, sealed, checkpoints,
                   anchors>>

-----------------------------------------------------------------------------
(* anchor(), from the cadence or called for itself.                        *)

CallAnchor(t) ==
    /\ pc[t] = "idle"
    /\ anchors < MaxAnchors
    /\ anchors' = anchors + 1
    /\ Goto(t, "anchor")
    /\ UNCHANGED <<trail, damaged, appendLock, merkle, counters, sealed,
                   checkpoints, frame, faults>>

\* An exception of anchor() is counted when the cadence asked for it, and
\* goes to the caller of an explicit anchor().
AnchorRaises(t) ==
    /\ anchorFailures' = [anchorFailures EXCEPT ![LogOf[t]] =
                             IF event[t] # NoEvent THEN @ + 1 ELSE @]
    /\ Finish(t)
    /\ UNCHANGED <<trail, damaged, appendLock, merkle, dropped,
                   attestFailures, sealed, checkpoints, anchors>>

\* hashes = self.entry_hashes(), without the lock.
AnchorRead(t) ==
    /\ pc[t] = "anchor"
    /\ trail # << >>
    /\ ReadOk
    /\ hashes' = [hashes EXCEPT ![t] = trail]
    /\ Goto(t, "root")
    /\ UNCHANGED <<trail, damaged, appendLock, merkle, counters, sealed,
                   checkpoints, event, seq, root, anchors>>

AnchorReadRaises(t) ==
    /\ pc[t] = "anchor"
    /\ \/ trail = << >> /\ UNCHANGED faults
       \/ ReadRaises
    /\ AnchorRaises(t)

\* Mutant: the forest's root is published whatever its size.
TreeForLive(tree, hs) == IF tree = << >> THEN hs ELSE tree

\* The leaves whose root _merkle_root_for returns: the live forest if it has
\* the size and the last leaf of `hashes`, a forest built from them if not.
TreeFor(tree, hs) ==
    IF Len(tree) = Len(hs) /\ tree[Len(tree)] = hs[Len(hs)] THEN tree ELSE hs

\* _merkle_root_for, under the append lock.  The rebuilt forest is kept when
\* the live one is empty or disagrees at equal size, and is dropped when
\* another thread has already extended the live one.
AnchorRoot(t) ==
    LET l == LogOf[t]
        tree == TreeFor(merkle[l], hashes[t])
    IN  /\ pc[t] = "root"
        /\ appendLock[l] = NoThread
        /\ root' = [root EXCEPT ![t] = tree]
        /\ merkle' = [merkle EXCEPT ![l] =
                         IF @ = << >> \/ Len(@) = Len(hashes[t]) THEN tree ELSE @]
        /\ Goto(t, "publish")
        /\ UNCHANGED <<trail, damaged, appendLock, counters, sealed,
                       checkpoints, event, seq, hashes, anchors, faults>>

\* checkpoint_for over the hashes read, with the root just computed.
CheckpointFor(t) ==
    [seq |-> Len(hashes[t]) - 1, entry_hash |-> hashes[t][Len(hashes[t])],
     root |-> root[t]]

Publish(t) ==
    /\ pc[t] = "publish"
    /\ checkpoints' = checkpoints \cup {CheckpointFor(t)}
    /\ Finish(t)
    /\ UNCHANGED <<trail, damaged, appendLock, merkle, counters, sealed,
                   anchors, faults>>

PublishRaises(t) ==
    /\ pc[t] = "publish"
    /\ Fault("sink")
    /\ AnchorRaises(t)

-----------------------------------------------------------------------------
\* A stored row stops parsing: a torn write or an out-of-band edit.
Damage(i) ==
    /\ Fault("damage")
    /\ i < Len(trail)
    /\ damaged' = damaged \cup {i}
    /\ UNCHANGED <<trail, appendLock, merkle, counters, sealed, checkpoints, pc,
                   frame, anchors>>

Step(t) ==
    \/ AcquireAppendLock(t)
    \/ BackendAppend(t)
    \/ BackendRaises(t)
    \/ NoteAppended(t)
    \/ NoteRaises(t)
    \/ Attest(t)
    \/ AttestRaises(t)
    \/ AnchorRead(t)
    \/ AnchorReadRaises(t)
    \/ AnchorRoot(t)
    \/ Publish(t)
    \/ PublishRaises(t)

Next ==
    \/ \E t \in Thread : \/ \E e \in Event : Begin(t, e)
                         \/ CallAnchor(t)
                         \/ Step(t)
    \/ \E i \in DOMAIN trail : Damage(i)

\* A thread that can go on does; no caller has to call.
Spec == Init /\ [][Next]_vars /\ \A t \in Thread : WF_vars(Step(t))

-----------------------------------------------------------------------------
(* Correctness.                                                            *)

IsPrefixOfTrail(s) == Len(s) <= Len(trail) /\ s = SubSeq(trail, 1, Len(s))

\* The forest an AuditLog object keeps in memory always holds a prefix of
\* the durable trail, whichever other objects append between its steps.
MerkleIsPrefix == \A l \in Log : IsPrefixOfTrail(merkle[l])

\* Every published checkpoint verifies against the trail: the root covers
\* exactly the rows up to its seq, although the rows were read before the
\* lock was taken and the forest may have grown or shrunk behind them.
CheckpointsVerify ==
    \A cp \in checkpoints :
        /\ cp.seq < Len(trail)
        /\ cp.entry_hash = trail[cp.seq + 1]
        /\ cp.root = SubSeq(trail, 1, cp.seq + 1)

\* The trail could be read back so far: nothing has made entry_hashes() raise.
Readable == damaged = {} /\ ("read" \in FaultKinds => faults["read"] = 0)

SealsHold == "seal" \in FaultKinds => faults["seal"] = 0

\* "callers never account a persisted entry as a dropped write": what
\* dropped_writes counts is not on the chain, whatever raised inside append.
PersistedIsNeverDropped ==
    \A l \in Log : \A i \in DOMAIN trail : trail[i] \notin dropped[l]

\* The same as far as the code keeps it: while the trail can be read back.
DropsAreLost == Readable => PersistedIsNeverDropped

Quiet == \A t \in Thread : pc[t] = "idle"

\* Anchoring happens every anchor_every appends: once the callers are done,
\* each due row is covered by a checkpoint, or a failed anchor was counted.
AnchoredEveryN ==
    Quiet =>
        \A i \in DOMAIN trail : i % AnchorEvery = 0 =>
            \/ \E cp \in checkpoints : cp.seq >= i - 1
            \/ \E l \in Log : anchorFailures[l] > 0

\* The same as far as the code keeps it: while no exception leaves append
\* between the row and the cadence check.
CadenceKept == Readable /\ SealsHold => AnchoredEveryN

\* With every caller on try_append, the rows without a seal are exactly the
\* ones attest_failures counted, while the trail can be read back.
UnsealedIsReported ==
    Quiet /\ Readable /\ TryCallers = Thread =>
        DOMAIN trail \ sealed = UNION {attestFailures[l] : l \in Log}

\* Every call returns: anchor() takes the append lock only after append has
\* released it, and every exception releases it too.
EveryCallReturns == \A t \in Thread : pc[t] # "idle" ~> pc[t] = "idle"

\* The counters tell every loss and nothing else: no stored row is counted as
\* dropped, and no row is left without its seal uncounted.
LossesAreCounted == DropsAreLost /\ UnsealedIsReported

==============================================================================
