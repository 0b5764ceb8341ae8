------------------------------- MODULE Ingest -------------------------------
(***************************************************************************)
(* The OpenClaw ledger source (sources/openclaw.py): timer runs that page  *)
(* a ledger which grows and prunes itself into a waxseal trail.  A run     *)
(* takes the ingest lock, reads its resume point from the chain, walks the *)
(* export newest first, and appends what is new in ascending order, each   *)
(* hole preceded by a gap entry.  Runs overlap, crash, time out on the     *)
(* lock, meet failing exports and failing appends.                         *)
(***************************************************************************)
EXTENDS Integers, Sequences, FiniteSets, FiniteSetsExt

CONSTANTS
    Runner,      \* timer runs that may overlap
    KINDS,       \* the ledger's record kinds
    None,        \* Python's None
    limit,       \* records per page
    max_pages,   \* pages per run
    MaxSequence, \* bound: sequences the ledger hands out
    MaxFaults    \* bound: crashes, failed exports, appends and bad records

ASSUME IngestAssumption ==
    /\ limit \in Nat \ {0} /\ max_pages \in Nat
    /\ MaxSequence \in Nat /\ MaxFaults \in Nat
    /\ None \notin Nat \cup Runner \cup {{}}

VARIABLES
    ledger,   \* the ledger's rows: sequence -> kind
    top,      \* the highest sequence the ledger has handed out
    trail,    \* the trail's ingest entries, in chain order
    dropped,    \* ghost: the entries try_append lost, each a counted drop
    lock,     \* who holds <trail>.ingest.lock, or None
    run,      \* per runner: its locals, or its last IngestResult
    faults

ingestVars == <<ledger, top, trail, dropped, lock, run, faults>>

Sequence_ == 1..MaxSequence

Gap(after, before, cause) ==
    [type |-> "gap", missing_after |-> after, missing_before |-> before, cause |-> cause]

\* unfiltered is a ghost: whether the run that appended it looked for gaps.
AuditEvent(s, unfiltered) == [type |-> "record", sequence |-> s, unfiltered |-> unfiltered]

RecordsOf(c) == {i \in DOMAIN c : c[i].type = "record"}

\* span is a ghost: the sequences the ledger had handed out above the resume
\* point when the run took the lock.
IngestResult(gaps, truncated, notice, span) ==
    [pc |-> "done", gaps |-> gaps, truncated |-> truncated, notice |-> notice, span |-> span]

Failed == IngestResult(None, FALSE, TRUE, {})

IngestInit ==
    /\ ledger = << >> /\ top = 0 /\ trail = << >> /\ dropped = {}
    /\ lock = None /\ faults = 0
    /\ run = [r \in Runner |-> Failed]

last_ingested_sequence(c) ==
    LET s == {c[i].sequence : i \in RecordsOf(c)}
    IN  IF s = {} THEN None ELSE Max(s)

Span(resume_from) == {s \in 1..top : resume_from # None => s > resume_from}

\* The documented export: rows below the exclusive cursor, newest first.
Page(cursor, kind) ==
    LET rows == {s \in DOMAIN ledger : /\ cursor # None => s < cursor
                                       /\ kind # None => ledger[s] = kind}
    IN  {s \in rows : Cardinality({t \in rows : t > s}) < limit}

More(cursor, kind, page) ==
    \E s \in DOMAIN ledger \ page : s < Min(page) /\ (kind # None => ledger[s] = kind)

-----------------------------------------------------------------------------
(* The gateway.                                                            *)

\* The gateway records an action under the next sequence.
RecordRow(kind) ==
    /\ top < MaxSequence
    /\ top' = top + 1
    /\ ledger' = [s \in DOMAIN ledger \cup {top + 1} |->
                    IF s = top + 1 THEN kind ELSE ledger[s]]
    /\ UNCHANGED <<trail, dropped, lock, run, faults>>

\* Retention expires the oldest row.
Prune ==
    /\ DOMAIN ledger # {}
    /\ ledger' = [s \in DOMAIN ledger \ {Min(DOMAIN ledger)} |-> ledger[s]]
    /\ UNCHANGED <<top, trail, dropped, lock, run, faults>>

-----------------------------------------------------------------------------
(* A run.                                                                  *)

Fault == faults < MaxFaults /\ faults' = faults + 1

\* The timer fires: main opens the trail and calls ingest.
Tick(r, kind) ==
    /\ run[r].pc = "done"
    /\ run' = [run EXCEPT ![r] = [pc |-> "lock", kind |-> kind]]
    /\ UNCHANGED <<ledger, top, trail, dropped, lock, faults>>

\* Mutant: the resume point is read before the lock is taken.
ingest_unlocked(r) ==
    /\ run[r].pc = "lock"
    /\ lock' = r
    /\ run' = [run EXCEPT ![r] =
                 [pc |-> "fetch", kind |-> run[r].kind,
                  resume_from |-> last_ingested_sequence(trail),
                  fresh |-> {}, unusable |-> FALSE, cursor |-> None, pages |-> 0,
                  span |-> Span(last_ingested_sequence(trail))]]
    /\ UNCHANGED <<ledger, top, trail, dropped, faults>>

\* The lock is granted and the resume point is read under it.
ingest(r) ==
    /\ run[r].pc = "lock" /\ lock = None
    /\ lock' = r
    /\ run' = [run EXCEPT ![r] =
                 [pc |-> "fetch", kind |-> run[r].kind,
                  resume_from |-> last_ingested_sequence(trail),
                  fresh |-> {}, unusable |-> FALSE, cursor |-> None, pages |-> 0,
                  span |-> Span(last_ingested_sequence(trail))]]
    /\ UNCHANGED <<ledger, top, trail, dropped, faults>>

Release(r) == lock' = IF lock = r THEN None ELSE lock

\* The lock cannot be had, or the chain cannot be read: nothing is ingested.
BackOff(r) ==
    /\ run[r].pc = "lock" /\ Fault
    /\ run' = [run EXCEPT ![r] = Failed]
    /\ UNCHANGED <<ledger, top, trail, dropped, lock>>

\* run_openclaw_audit fails, or its output is not a page.
FetchFails(r) ==
    /\ run[r].pc = "fetch" /\ run[r].pages < max_pages /\ Fault
    /\ run' = [run EXCEPT ![r] = Failed]
    /\ Release(r)
    /\ UNCHANGED <<ledger, top, trail, dropped>>

\* Mutant: the hole below the first fresh record is not looked for.
found_gaps_between(kind, resume_from, fresh, truncated) ==
    {g \in {Gap(a, b, "prune_or_drop") : a \in fresh, b \in fresh} :
        /\ kind = None
        /\ g.missing_before > g.missing_after + 1
        /\ \A s \in fresh : ~(g.missing_after < s /\ s < g.missing_before)}

\* The holes an unfiltered run sees below and between its records.
found_gaps(kind, resume_from, fresh, truncated) ==
    LET Cause(a) == IF a = resume_from /\ truncated THEN "page_cap" ELSE "prune_or_drop"
    IN  {g \in {Gap(a, b, Cause(a)) : a \in (fresh \cup {resume_from}) \ {None}, b \in fresh} :
            /\ kind = None
            /\ g.missing_before > g.missing_after + 1
            /\ \A s \in fresh : ~(g.missing_after < s /\ s < g.missing_before)}

\* What the run will append: the records and the gaps.
Plan(kind, gaps, fresh) == gaps \cup {AuditEvent(s, kind = None) : s \in fresh}

\* It appends in ascending order, a gap before the record above it.
Place(e) == IF e.type = "gap" THEN 2 * e.missing_before - 1 ELSE 2 * e.sequence

First(todo) == {e \in todo : \A f \in todo : Place(e) <= Place(f)}

\* Paging is over: the run either has nothing to append or starts appending.
EndPaging(r, fresh, unusable, truncated) ==
    LET kind == run[r].kind
        gaps == found_gaps(kind, run[r].resume_from, fresh, truncated)
    IN  IF fresh = {}
        THEN /\ run' = [run EXCEPT ![r] =
                          IngestResult(IF kind = None THEN {} ELSE None,
                                       truncated, unusable, run[r].span)]
             /\ Release(r)
        ELSE /\ run' = [run EXCEPT ![r] =
                          [pc |-> "append", kind |-> kind, gaps |-> gaps,
                           truncated |-> truncated, span |-> run[r].span, notice |-> unusable \/ truncated \/ gaps # {},
                           todo |-> Plan(kind, gaps, fresh)]]
             /\ UNCHANGED lock

PageCap(r) ==
    /\ run[r].pc = "fetch" /\ run[r].pages >= max_pages
    /\ EndPaging(r, run[r].fresh, run[r].unusable, TRUE)
    /\ UNCHANGED <<ledger, top, trail, dropped, faults>>

\* Mutant: the walk stops at the first page that holds anything new.
Fetch_one(r, bad) ==
    LET me == run[r]
        page == Page(me.cursor, me.kind)
        fresh == {s \in page \ bad : me.resume_from # None => s > me.resume_from}
    IN  /\ me.pc = "fetch" /\ me.pages < max_pages
        /\ bad = {} /\ UNCHANGED <<faults, ledger, top, trail, dropped>>
        /\ EndPaging(r, fresh, me.unusable, FALSE)

\* One page: bad are its records without a usable sequence.  The walk ends at
\* an empty page, at a record the chain already has, or without a next cursor.
Fetch(r, bad) ==
    LET me == run[r]
        page == Page(me.cursor, me.kind)
        read == page \ bad
        known == {s \in read : me.resume_from # None /\ s <= me.resume_from}
        fresh == me.fresh \cup (read \ known)
        unusable == me.unusable \/ bad # {}
    IN  /\ me.pc = "fetch" /\ me.pages < max_pages
        /\ bad \subseteq page
        /\ IF bad = {} THEN UNCHANGED faults ELSE Fault
        /\ IF page = {} \/ known # {} \/ ~More(me.cursor, me.kind, page)
           THEN EndPaging(r, fresh, unusable, FALSE)
           ELSE /\ run' = [run EXCEPT ![r] =
                             [me EXCEPT !.fresh = fresh, !.unusable = unusable,
                                        !.cursor = Min(page), !.pages = me.pages + 1]]
                /\ UNCHANGED lock
        /\ UNCHANGED <<ledger, top, trail, dropped>>

\* try_append of the next planned entry: it lands, or it is a counted drop.
Append_(r, lands) ==
    /\ run[r].pc = "append"
    /\ \E e \in First(run[r].todo) :
         LET rest == run[r].todo \ {e}
             notice == run[r].notice \/ ~lands
         IN  /\ IF lands
                THEN trail' = Append(trail, e) /\ UNCHANGED <<dropped, faults>>
                ELSE dropped' = dropped \cup {e} /\ Fault /\ UNCHANGED trail
             /\ IF rest = {}
                THEN /\ run' = [run EXCEPT ![r] =
                                  IngestResult(IF run[r].kind = None THEN run[r].gaps ELSE None,
                                               run[r].truncated, notice, run[r].span)]
                     /\ Release(r)
                ELSE /\ run' = [run EXCEPT ![r] = [@ EXCEPT !.todo = rest, !.notice = notice]]
                     /\ UNCHANGED lock
    /\ UNCHANGED <<ledger, top>>

\* The process dies; the kernel dropped its lock.
Die(r) ==
    /\ run[r].pc # "done" /\ Fault
    /\ run' = [run EXCEPT ![r] = Failed]
    /\ Release(r)
    /\ UNCHANGED <<ledger, top, trail, dropped>>

Step(r) ==
    \/ \E kind \in KINDS \cup {None} : Tick(r, kind)
    \/ ingest(r) \/ BackOff(r) \/ PageCap(r) \/ FetchFails(r)
    \/ \E bad \in SUBSET DOMAIN ledger : Fetch(r, bad)
    \/ \E lands \in BOOLEAN : Append_(r, lands)
    \/ Die(r)

IngestNext ==
    \/ \E kind \in KINDS : RecordRow(kind)
    \/ Prune
    \/ \E r \in Runner : Step(r)

IngestSpec == IngestInit /\ [][IngestNext]_ingestVars

-----------------------------------------------------------------------------
(* Properties.                                                             *)

Ingested == {trail[i].sequence : i \in RecordsOf(trail)}

\* ingest is idempotent ("the resume point comes from the chain, and the WHOLE
\* run, resume-read through append, holds one ingest lock"): however timer runs
\* overlap, crash and retry, the ledger's records stand on the chain in
\* ascending order, none of them twice.
IngestedOnceInOrder ==
    \A i, j \in RecordsOf(trail) : i < j => trail[i].sequence < trail[j].sequence

\* A hole an unfiltered run leaves behind a record is on the chain as a gap
\* entry, or was lost by an append that counted the drop; crashes between the
\* gap and its record, pruning between pages and earlier dropped records
\* included (_ingest_run: found_gaps and the append loop).
HolesAreAccountedFor ==
    \A j \in DOMAIN trail : (trail[j].type = "record" /\ trail[j].unfiltered) =>
        LET before == {i \in RecordsOf(trail) : i < j}
            entries == {trail[i] : i \in 1..j} \cup dropped
        IN  before # {} =>
              \A s \in (trail[Max(before)].sequence + 1)..(trail[j].sequence - 1) :
                \E e \in entries :
                    IF e.type = "record" THEN e.sequence = s
                    ELSE e.missing_after < s /\ s < e.missing_before

\* A run that reports no gap, no truncation and no notice ingested everything:
\* whatever the ledger had handed out when it took the lock and still holds is
\* on the chain (IngestResult: gaps = () is "looked and found none", None is
\* "did not look").
SilentRunIsComplete ==
    \A r \in Runner :
        (/\ run[r].pc = "done" /\ run[r].gaps = {}
         /\ ~run[r].truncated /\ ~run[r].notice)
        => run[r].span \cap DOMAIN ledger \subseteq Ingested

\* What was not ingested is said, on the chain or by the run.
NoHoleIsSilent == HolesAreAccountedFor /\ SilentRunIsComplete

==============================================================================
