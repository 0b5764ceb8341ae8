---------------------------- MODULE JsonlBackend ----------------------------
(***************************************************************************)
(* adapters/jsonl.py: the JSONL trail, appended to by any number of        *)
(* writers (threads and processes), each through a JSONLBackend object of  *)
(* its own, serialised by the advisory lock of adapters/filelock.py.       *)
(*                                                                         *)
(* One append is four steps, so that steps of other writers, crashes and   *)
(* damage to the file come between them:                                   *)
(*   AcquireFileLock  file_lock(self._path)                                *)
(*   ReadTail         _tail_locked: read_last_line, json.loads             *)
(*   IntegrityScan    every ScanEvery-th append, before the write          *)
(*   WriteLine        build, write(line + "\n"), flush, unlock, return     *)
(* A write may stop short (disk full) and a process may die in any step.   *)
(***************************************************************************)
EXTENDS HashChain, FiniteSets

CONSTANTS
    Writer,       \* threads and processes that append
    NoWriter,     \* the lock's value while nobody holds it
    NoCall,       \* the value of `call` between two calls
    Unparseable,  \* a stored line json.loads rejects
    Fingerprint,  \* fingerprint(): the hash_version this build stamps
    ScanEvery,    \* integrity_scan_every
    ShortWrites,  \* how a write that stops short may leave the file
    MaxCrashes,   \* bound on process deaths
    MaxDamage     \* bound on stored lines damaged out of band

\* What a write(line + "\n") that stops short leaves: no byte, a prefix that
\* is not JSON, or the whole line without its newline.
ShortWriteKind == {"nothing", "torn", "no_newline"}

ASSUME JsonlAssumption ==
    /\ NoWriter \notin Writer
    /\ NoCall \notin Payload
    /\ Fingerprint \in Version
    /\ ScanEvery \in Nat \ {0}
    /\ ShortWrites \subseteq ShortWriteKind
    /\ MaxCrashes \in Nat
    /\ MaxDamage \in Nat

\* An unparseable line is not an entry.
ASSUME UnparseableAssumption == Unparseable \notin Entry

VARIABLES
    rows,          \* the file, line by line
    unterminated,  \* the last line has no newline
    lock,          \* holder of <path>.lock
    pc,            \* where each writer is in append
    call,          \* the payload each writer's append was called with
    tail,          \* what _tail_locked returned to each writer
    cleared,       \* the lines 1 .. _scanned_lines of each writer's backend object
    returned,      \* payloads whose append returned an entry
    raised,        \* payloads whose append raised
    crashes,       \* processes that died so far
    damaged        \* lines damaged out of band so far

vars == <<rows, unterminated, lock, pc, call, tail, cleared, returned,
          raised, crashes, damaged>>

file == <<rows, unterminated>>

TailFields == [seq : Nat, prev : Digest]

EmptyTail == [seq |-> 0, prev |-> GENESIS_PREV_HASH]

Readable(i) == i \in 1 .. Len(rows) /\ rows[i] # Unparseable

TypeOK ==
    /\ rows \in Seq(Entry \cup {Unparseable})
    /\ unterminated \in BOOLEAN
    /\ lock \in Writer \cup {NoWriter}
    /\ pc \in [Writer -> {"idle", "waiting", "locked", "scan", "write"}]
    /\ call \in [Writer -> Payload \cup {NoCall}]
    /\ tail \in [Writer -> TailFields]
    /\ cleared \in [Writer -> SUBSET Nat]
    /\ returned \in SUBSET Payload
    /\ raised \in SUBSET Payload
    /\ crashes \in 0 .. MaxCrashes
    /\ damaged \in SUBSET Nat

Init ==
    /\ rows = << >>
    /\ unterminated = FALSE
    /\ lock = NoWriter
    /\ pc = [w \in Writer |-> "idle"]
    /\ call = [w \in Writer |-> NoCall]
    /\ tail = [w \in Writer |-> EmptyTail]
    /\ cleared = [w \in Writer |-> {}]
    /\ returned = {}
    /\ raised = {}
    /\ crashes = 0
    /\ damaged = {}

-----------------------------------------------------------------------------
(* JSONLBackend.append.                                                    *)

InFlight == {call[w] : w \in {u \in Writer : pc[u] # "idle"}}

\* Payloads the chain commits to, also where the line itself was damaged.
Committed ==
    {p \in Payload :
        \E i \in 1 .. Len(rows) :
            /\ Readable(i)
            /\ \E k \in DOMAIN rows[i].entry_hash :
                  rows[i].entry_hash[k].payload_hash = compute_payload_hash(p)}

\* A caller hands over an event that is not recorded yet.
Call(w, p) ==
    /\ pc[w] = "idle"
    /\ p \notin returned \cup raised \cup InFlight \cup Committed
    /\ pc' = [pc EXCEPT ![w] = "waiting"]
    /\ call' = [call EXCEPT ![w] = p]
    /\ UNCHANGED <<file, lock, tail, cleared, returned, raised, crashes,
                   damaged>>

\* Mutant: the lock does not exclude (an flock on a shared descriptor).
LockFreeShared == TRUE

LockFree == lock = NoWriter

\* file_lock: flock(LOCK_EX) on a descriptor of its own, so it excludes
\* threads of one process as well as other processes.
AcquireFileLock(w) ==
    /\ pc[w] = "waiting"
    /\ LockFree
    /\ lock' = w
    /\ pc' = [pc EXCEPT ![w] = "locked"]
    /\ UNCHANGED <<file, call, tail, cleared, returned, raised, crashes,
                   damaged>>

\* The frame of append is gone, by return, exception or death.
EndCall(w) ==
    /\ pc' = [pc EXCEPT ![w] = "idle"]
    /\ call' = [call EXCEPT ![w] = NoCall]
    /\ tail' = [tail EXCEPT ![w] = EmptyTail]

\* Mutant: an exception of the tail read leaves the lock taken.
ReleaseFileLockAfterRead(w) ==
    lock' = IF pc[w] = "locked" THEN lock ELSE NoWriter

\* Leaving `with file_lock`, by return or by exception.
ReleaseFileLock(w) == lock' = NoWriter

ScanDue(seq) == seq > 0 /\ (seq + 1) % ScanEvery = 0

\* Mutant: the tail's own seq is used for the next row.
tail_fields_same_seq(e) == [seq |-> e.header.seq, prev |-> e.entry_hash]

\* What the next row needs of the last one.
tail_fields(e) == [seq |-> e.header.seq + 1, prev |-> e.entry_hash]

\* _tail_locked when there is no line yet, or the last one parses.
ReadTail(w) ==
    /\ pc[w] = "locked"
    /\ rows # << >> => Readable(Len(rows))
    /\ LET t == IF rows = << >> THEN EmptyTail ELSE tail_fields(rows[Len(rows)])
       IN  /\ tail' = [tail EXCEPT ![w] = t]
           /\ pc' = [pc EXCEPT ![w] = IF ScanDue(t.seq) THEN "scan" ELSE "write"]
    /\ UNCHANGED <<file, lock, call, cleared, returned, raised, crashes,
                   damaged>>

\* _tail_locked on a last line json.loads rejects: append raises.
ReadTailRaises(w) ==
    /\ pc[w] = "locked"
    /\ rows # << >> /\ ~Readable(Len(rows))
    /\ raised' = raised \cup {call[w]}
    /\ ReleaseFileLock(w)
    /\ EndCall(w)
    /\ UNCHANGED <<file, cleared, returned, crashes, damaged>>

\* Mutant: a last line without its newline is cleared too.
ScanFromUnterminated(done) ==
    {i \in 1 .. Len(rows) : \A j \in 1 .. i : j \in done \/ Readable(j)}

\* The lines that stand cleared after a scan that resumes behind the lines
\* `done`: it goes on through newline-terminated lines that parse, and stops
\* at the first one that does not.
ScanFrom(done) ==
    {i \in 1 .. Len(rows) :
        \A j \in 1 .. i :
            j \in done \/ (Readable(j) /\ ~(j = Len(rows) /\ unterminated))}

\* _integrity_scan from append: a line that does not parse is a warning and
\* never an exception of this append.  A file shorter than the cleared part
\* is scanned from its start.
IntegrityScan(w) ==
    /\ pc[w] = "scan"
    /\ cleared' = [cleared EXCEPT ![w] =
                      ScanFrom(IF cleared[w] \subseteq 1 .. Len(rows)
                                 THEN cleared[w] ELSE {})]
    /\ pc' = [pc EXCEPT ![w] = "write"]
    /\ UNCHANGED <<file, lock, call, tail, returned, raised, crashes, damaged>>

\* The entry this append writes.
Built(w) == BuildEntry(tail[w].seq, tail[w].prev, call[w], Fingerprint)

\* The effect on the file of writing Built(w) + "\n" (kind "all") or of a
\* write that stopped short.  O_APPEND adds bytes at the end of the file: on
\* a last line without a newline they extend that line, and two envelopes on
\* one line do not parse.
WriteBytes(w, kind) ==
    \/ /\ kind = "nothing"
       /\ UNCHANGED file
    \/ /\ kind # "nothing"
       /\ unterminated' = (kind # "all")
       /\ rows' = IF unterminated
                    THEN [rows EXCEPT ![Len(rows)] = Unparseable]
                    ELSE Append(rows, IF kind = "torn" THEN Unparseable
                                                       ELSE Built(w))

\* Mutant: the scan runs, and raises, after the line was written.
ScanRaisesAfterWrite(w) ==
    /\ pc[w] = "scan"
    /\ WriteBytes(w, "all")
    /\ raised' = raised \cup {call[w]}
    /\ ReleaseFileLock(w)
    /\ EndCall(w)
    /\ UNCHANGED <<cleared, returned, crashes, damaged>>

\* An OSError off the scan's read, or a warning escalated to an error: the
\* append raises, before anything was written.
ScanRaises(w) ==
    /\ pc[w] = "scan"
    /\ raised' = raised \cup {call[w]}
    /\ ReleaseFileLock(w)
    /\ EndCall(w)
    /\ UNCHANGED <<file, cleared, returned, crashes, damaged>>

\* write, flush, unlock, return the entry.
WriteLine(w) ==
    /\ pc[w] = "write"
    /\ WriteBytes(w, "all")
    /\ returned' = returned \cup {call[w]}
    /\ ReleaseFileLock(w)
    /\ EndCall(w)
    /\ UNCHANGED <<cleared, raised, crashes, damaged>>

\* The write stops short and the OSError leaves append.
WriteRaises(w) ==
    /\ pc[w] = "write"
    /\ \E kind \in ShortWrites : WriteBytes(w, kind)
    /\ raised' = raised \cup {call[w]}
    /\ ReleaseFileLock(w)
    /\ EndCall(w)
    /\ UNCHANGED <<cleared, returned, crashes, damaged>>

-----------------------------------------------------------------------------
(* The environment.                                                        *)

\* The process dies.  The kernel drops its lock; a death during the write
\* leaves any part of the line, or all of it; the next process opens a
\* backend that has scanned nothing.
Crash(w) ==
    /\ crashes < MaxCrashes
    /\ pc[w] # "idle"
    /\ crashes' = crashes + 1
    /\ IF pc[w] = "write"
         THEN \E kind \in ShortWrites \cup {"nothing", "all"} : WriteBytes(w, kind)
         ELSE UNCHANGED file
    /\ lock' = IF lock = w THEN NoWriter ELSE lock
    /\ EndCall(w)
    /\ cleared' = [cleared EXCEPT ![w] = {}]
    /\ UNCHANGED <<returned, raised, damaged>>

\* An out-of-band edit leaves an old line, one with a readable line behind
\* it, unparseable.
Damage(i) ==
    /\ Cardinality(damaged) < MaxDamage
    /\ Readable(i)
    /\ \E j \in i + 1 .. Len(rows) : Readable(j)
    /\ rows' = [rows EXCEPT ![i] = Unparseable]
    /\ damaged' = damaged \cup {i}
    /\ UNCHANGED <<unterminated, lock, pc, call, tail, cleared, returned,
                   raised, crashes>>

Append_(w) ==
    \/ AcquireFileLock(w)
    \/ ReadTail(w)
    \/ ReadTailRaises(w)
    \/ IntegrityScan(w)
    \/ ScanRaises(w)
    \/ WriteLine(w)
    \/ WriteRaises(w)

Next ==
    \/ \E w \in Writer : \/ \E p \in Payload : Call(w, p)
                         \/ Append_(w)
                         \/ Crash(w)
    \/ \E i \in 1 .. Len(rows) : Damage(i)

\* A writer that is not blocked keeps going; nobody has to call append, crash
\* or damage the file.
Spec == Init /\ [][Next]_vars /\ \A w \in Writer : WF_vars(Append_(w))

-----------------------------------------------------------------------------
(* Correctness.                                                            *)

\* Concurrent writers never fork the chain: the history a readable line
\* commits to is a prefix of the history of every readable line behind it,
\* one row per line, whatever crashed, stopped short or was damaged between
\* them (append's lock covers the tail read and the write).
NoFork ==
    \A i, j \in 1 .. Len(rows) :
        Readable(i) /\ Readable(j) /\ i <= j =>
            /\ Len(rows[i].entry_hash) = i
            /\ \A k \in 1 .. i : rows[i].entry_hash[k] = rows[j].entry_hash[k]

\* Crashes, disk-full errors and races alone never make verify_chain report
\* a break: a trail whose lines all parse verifies.
WritersNeverBreakTheChain ==
    (\A i \in 1 .. Len(rows) : Readable(i)) =>
        ChainVerdict(verify_chain(rows, {Fingerprint})) = "ok"

\* An append that returned its entry has it on the chain: a lost write is
\* reported, never silent (try_append counts what append raises).
ReturnedIsCommitted == returned \subseteq Committed

\* _integrity_scan clears only lines nobody can extend any more: a line a
\* backend object cleared still parses unless it was edited out of band.
ClearedLinesParse ==
    \A w \in Writer : \A i \in cleared[w] :
        i \in damaged \/ Readable(i)

\* What writers leave is a file the next append can build on and a reader can
\* verify, whatever stopped short, died or was damaged.
WritersKeepTheFile == WritersNeverBreakTheChain /\ ClearedLinesParse

\* Every append ends: whoever waits for the file lock gets it, because every
\* way out of append (return, raise, death) releases it.
EveryCallEnds == \A w \in Writer : pc[w] # "idle" ~> pc[w] = "idle"

\* Why NoFork holds.  The lock is held from the tail read to the write, so
\* what _tail_locked returned is still the end of the file when the line is
\* written; and the line at position i is the row with seq i - 1.
LockHeld ==
    \A w \in Writer : pc[w] \in {"locked", "scan", "write"} => lock = w

CallPending == \A w \in Writer : pc[w] # "idle" => call[w] \in Payload

SeqIsPosition ==
    \A i \in 1 .. Len(rows) : Readable(i) => rows[i].header.seq = i - 1

TailIsFresh ==
    \A w \in Writer : pc[w] \in {"scan", "write"} =>
        /\ tail[w].seq = Len(rows)
        /\ rows = << >> => tail[w].prev = GENESIS_PREV_HASH
        /\ rows # << >> => /\ Readable(Len(rows))
                          /\ tail[w].prev = rows[Len(rows)].entry_hash

NoForkInv ==
    /\ TypeOK
    /\ LockHeld
    /\ CallPending
    /\ SeqIsPosition
    /\ TailIsFresh
    /\ NoFork

\* The history the file holds: the one its last readable line commits to.
HeadHistory ==
    LET readable == {i \in 1 .. Len(rows) : Readable(i)}
    IN  IF readable = {} THEN GENESIS_PREV_HASH
        ELSE rows[CHOOSE i \in readable : \A j \in readable : j <= i].entry_hash
==============================================================================
