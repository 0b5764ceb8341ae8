------------------------------ MODULE Backends ------------------------------
(***************************************************************************)
(* The storage backends other than the JSONL file: S3 objects written with *)
(* a conditional PUT (adapters/s3/backend.py), a SQLite or Postgres table  *)
(* appended to in a transaction that excludes other writers                *)
(* (adapters/sqlite.py, adapters/postgres.py), and a list under a lock     *)
(* (adapters/memory.py).                                                   *)
(*                                                                         *)
(* An entry hash commits to the history before its row, so it is the       *)
(* sequence of events up to that row.  Any request to S3 may fail before   *)
(* or after it took effect, and a client library that asks again by itself *)
(* meets its own object; a COMMIT's answer may be lost.                    *)
(***************************************************************************)
EXTENDS Integers, Sequences, FiniteSets

CONSTANTS
    Writer,       \* appenders
    Event,        \* what they append, each event once
    Kinds,        \* of {"s3", "sqlite", "postgres", "memory"}
    MaxRetries,   \* _MAX_RACE_RETRIES
    MaxFaults     \* bound on failed requests, lost answers and crashes

ASSUME BackendsAssumption ==
    /\ Kinds \subseteq {"s3", "sqlite", "postgres", "memory"}
    /\ MaxRetries \in Nat \ {0} /\ MaxFaults \in Nat

VARIABLES
    kind,      \* which backend this is
    objects,   \* the rows, by seq
    head,      \* head.json: a set with at most one hint
    lock,      \* the writers holding the database lock: at most one
    at,        \* each writer's append under way
    returned,  \* events whose append returned
    raised,    \* events whose append raised
    unsure,    \* events of which an answer was lost or the writer died
    faults

vars == <<kind, objects, head, lock, at, returned, raised, unsure, faults>>

Idle == [pc |-> "idle", ev |-> {}, seq |-> -1, hash |-> << >>, tries |-> 0]

\* build(seq, prev_hash): the row and its hash.
Entry(prev, ev) == [prev |-> prev, ev |-> ev]
entry_hash(e) == Append(e.prev, e.ev)

Init ==
    /\ kind \in Kinds
    /\ objects = << >> /\ head = {} /\ lock = {}
    /\ at = [w \in Writer |-> Idle]
    /\ returned = {} /\ raised = {} /\ unsure = {}
    /\ faults = 0

Begun == returned \cup raised \cup unsure \cup UNION {at[w].ev : w \in Writer}

Fault == faults < MaxFaults /\ faults' = faults + 1

Returns(w) ==
    /\ returned' = returned \cup at[w].ev /\ at' = [at EXCEPT ![w] = Idle]
    /\ UNCHANGED raised

Raises(w) ==
    /\ raised' = raised \cup at[w].ev /\ at' = [at EXCEPT ![w] = Idle]
    /\ UNCHANGED returned

Event1(w) == CHOOSE e \in at[w].ev : TRUE

-----------------------------------------------------------------------------
(* S3Backend.append.                                                       *)

\* _tail: the hint, or the beginning when it is missing or cannot be read.
ReadHint(w) ==
    \/ \E h \in head : at' = [at EXCEPT ![w] = [@ EXCEPT !.pc = "probe", !.seq = h.seq,
                                                         !.hash = h.hash]]
    \/ at' = [at EXCEPT ![w] = [@ EXCEPT !.pc = "probe", !.seq = -1, !.hash = << >>]]

Begin(w, e) ==
    /\ kind = "s3" /\ at[w].pc = "idle" /\ e \notin Begun
    /\ at' = [at EXCEPT ![w] = [Idle EXCEPT !.pc = "hint", !.ev = {e}]]
    /\ UNCHANGED <<kind, objects, head, lock, returned, raised, unsure, faults>>

ReadHead(w) ==
    /\ at[w].pc = "hint"
    /\ ReadHint(w)
    /\ UNCHANGED <<kind, objects, head, lock, returned, raised, unsure, faults>>

\* Mutant: the hash stays the hint's while the seq moves on.
NextProbeKeepsHash(w) == [at[w] EXCEPT !.seq = @ + 1]

NextProbe(w) == [at[w] EXCEPT !.seq = @ + 1, !.hash = entry_hash(objects[at[w].seq + 1])]

\* One GET of the row after the last one known.
Probe(w) ==
    /\ at[w].pc = "probe"
    /\ \/ /\ at[w].seq + 1 \in DOMAIN objects
          /\ at' = [at EXCEPT ![w] = NextProbe(w)]
          /\ UNCHANGED <<raised, returned, faults>>
       \/ /\ at[w].seq + 1 \notin DOMAIN objects
          /\ at' = [at EXCEPT ![w].pc = "put"]
          /\ UNCHANGED <<raised, returned, faults>>
       \/ Fault /\ Raises(w)
    /\ UNCHANGED <<kind, objects, head, lock, unsure>>

\* The race is lost: read the tail again, as often as is allowed.
LostRace(w) ==
    IF at[w].tries + 1 < MaxRetries
    THEN /\ at' = [at EXCEPT ![w] = [at[w] EXCEPT !.pc = "hint", !.tries = @ + 1]]
         /\ UNCHANGED <<returned, raised>>
    ELSE Raises(w)

\* Mutant: the PUT is unconditional.
KeyFreeIgnored(k) == TRUE

\* If-None-Match: *
KeyFree(k) == k \notin DOMAIN objects

Stored(w) ==
    [k \in DOMAIN objects \cup {at[w].seq + 1} |->
        IF k = at[w].seq + 1 THEN Entry(at[w].hash, Event1(w)) ELSE objects[k]]

Put(w) ==
    /\ at[w].pc = "put"
    /\ IF KeyFree(at[w].seq + 1)
       THEN \/ /\ objects' = Stored(w) /\ at' = [at EXCEPT ![w].pc = "done"]
               /\ UNCHANGED <<returned, raised, unsure, faults>>
            \/ /\ Fault /\ objects' = Stored(w)
               /\ unsure' = unsure \cup at[w].ev
               /\ Raises(w) \/ LostRace(w)
            \/ Fault /\ Raises(w) /\ UNCHANGED <<objects, unsure>>
       ELSE LostRace(w) /\ UNCHANGED <<objects, unsure, faults>>
    /\ UNCHANGED <<kind, head, lock>>

\* Mutant: a hint that cannot be written fails the append.
PutHeadOrRaise(w) ==
    /\ at[w].pc = "done"
    /\ \/ /\ head' = {[seq |-> at[w].seq + 1, hash |-> Append(at[w].hash, Event1(w))]}
          /\ Returns(w)
       \/ Raises(w) /\ UNCHANGED head
    /\ UNCHANGED <<kind, objects, lock, unsure, faults>>

\* The hint is best effort; the entry counts as written either way.
PutHead(w) ==
    /\ at[w].pc = "done"
    /\ \/ head' = {[seq |-> at[w].seq + 1, hash |-> Append(at[w].hash, Event1(w))]}
       \/ UNCHANGED head
    /\ Returns(w)
    /\ UNCHANGED <<kind, objects, lock, unsure, faults>>

-----------------------------------------------------------------------------
(* SQLite, Postgres and memory: read the tail, build, insert and commit    *)
(* with every other writer shut out.                                       *)

LastSeq == Cardinality(DOMAIN objects) - 1

\* BEGIN IMMEDIATE, pg_advisory_xact_lock, threading.Lock
Excluded(w) == lock = {}

Lock(w, e) ==
    /\ kind # "s3" /\ at[w].pc = "idle" /\ e \notin Begun
    /\ \/ /\ Excluded(w)
          /\ lock' = lock \cup {w}
          /\ at' = [at EXCEPT ![w] = [Idle EXCEPT
                !.pc = "insert", !.ev = {e}, !.seq = LastSeq,
                !.hash = IF LastSeq = -1 THEN << >>
                         ELSE entry_hash(objects[LastSeq])]]
          /\ UNCHANGED <<raised, faults>>
       \* "database is locked" after the timeout, or no connection.
       \/ /\ kind # "memory" /\ Fault
          /\ raised' = raised \cup {e}
          /\ UNCHANGED <<lock, at>>
    /\ UNCHANGED <<kind, objects, head, returned, unsure>>

\* The primary key: a seq is inserted once.
Commit(w) ==
    /\ at[w].pc = "insert"
    /\ lock' = lock \ {w}
    /\ \/ /\ KeyFree(at[w].seq + 1)
          /\ objects' = Stored(w) /\ Returns(w)
          /\ UNCHANGED <<unsure, faults>>
       \/ /\ KeyFree(at[w].seq + 1) /\ kind = "postgres" /\ Fault
          /\ objects' = Stored(w) /\ Raises(w)
          /\ unsure' = unsure \cup at[w].ev
       \/ /\ Fault \/ (~KeyFree(at[w].seq + 1) /\ UNCHANGED faults)
          /\ Raises(w) /\ UNCHANGED <<objects, unsure>>
    /\ UNCHANGED <<kind, head>>

\* A writer dies; its transaction and its locks die with it.
Crash(w) ==
    /\ at[w].pc # "idle" /\ kind # "memory" /\ Fault
    /\ unsure' = unsure \cup at[w].ev
    /\ at' = [at EXCEPT ![w] = Idle]
    /\ lock' = lock \ {w}
    /\ UNCHANGED <<kind, objects, head, returned, raised>>

Next ==
    \E w \in Writer :
        \/ \E e \in Event : Begin(w, e) \/ Lock(w, e)
        \/ ReadHead(w) \/ Probe(w) \/ Put(w) \/ PutHead(w)
        \/ Commit(w) \/ Crash(w)

Spec == Init /\ [][Next]_vars

-----------------------------------------------------------------------------
(* Properties.                                                             *)

Rows(e) == {k \in DOMAIN objects : objects[k].ev = e}

\* Whatever the hint says and however many writers race, the rows are one
\* chain without a gap: every row's prev_hash is the hash of the row before.
RowsAreOneChain ==
    /\ DOMAIN objects = 0 .. Cardinality(DOMAIN objects) - 1
    /\ \A k \in DOMAIN objects :
          objects[k].prev = IF k = 0 THEN << >> ELSE entry_hash(objects[k - 1])

\* An append that returned is stored once, and one that raised is not stored,
\* unless the answer to that very append was lost.
AppendOutcomesHold ==
    /\ \A e \in returned : Rows(e) # {} /\ (e \notin unsure => Cardinality(Rows(e)) = 1)
    /\ \A e \in raised \ unsure : Rows(e) = {}

==============================================================================
