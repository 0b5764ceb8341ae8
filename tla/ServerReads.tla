----------------------------- MODULE ServerReads -----------------------------
(***************************************************************************)
(* The reads a chain server answers by running the waxseal command         *)
(* (runtime/cli.py, api/views.py): the outcome of a run is kept under the  *)
(* stamps of the files it was asked about, for a while.                    *)
(*                                                                         *)
(* The files change under the server.  A change gives a file a new stamp,  *)
(* unless somebody sets the times back.  Stamps are taken one file at a    *)
(* time, and so are the files read.                                        *)
(***************************************************************************)
EXTENDS Integers, Sequences, FiniteSets, FiniteSetsExt

CONSTANTS
    Reader,     \* requests under way at once
    Command,    \* of READ_ONLY_COMMANDS
    Network,    \* those whose outcome depends on more than files
    Absent,     \* those this waxseal build does not have
    Paths,      \* how many files: the trail and its sidecars, or a directory's
    TTL,        \* _CACHE_TTL_S
    Timeout,    \* of a run
    CacheSize,  \* _OUTCOME_CACHE_MAX
    MaxTime, MaxWrites, MaxForged, MaxReads   \* bounds

ASSUME ReadsAssumption ==
    /\ "none" \notin Command
    /\ {Paths, TTL, Timeout, CacheSize, MaxTime, MaxWrites, MaxForged, MaxReads} \subseteq Nat

VARIABLES
    content,    \* each file's content: how often it was written, 0 if missing
    stamp,      \* each file's stamp
    cache,      \* the kept outcomes, least recently used first
    job,        \* each reader's request
    answers,    \* the last answer, and to what
    nowR, reads

Path == 1 .. Paths

readVars == <<content, stamp, cache, job, answers, nowR, reads>>

NoJob == [pc |-> "idle", cmd |-> "none", st |-> << >>, seen |-> << >>, from |-> 0,
          ran |-> 0, since |-> << >>]

ReadInit ==
    /\ content = [p \in Path |-> 0] /\ stamp = content
    /\ cache = << >> /\ answers = {} /\ nowR = 0 /\ reads = 0
    /\ job = [r \in Reader |-> NoJob]

files == <<content, stamp>>

-----------------------------------------------------------------------------
MayWrite == MapThenSumSet(LAMBDA p : content[p], Path) < MaxWrites

Write(p) ==
    /\ MayWrite
    /\ content' = [content EXCEPT ![p] = @ + 1]
    /\ stamp' = [stamp EXCEPT ![p] = @ + 1]
    /\ UNCHANGED <<cache, job, answers, nowR, reads>>

\* A new content under the old times, which a file that is there may get.
Forge(p) ==
    /\ 0 < stamp[p] /\ content[p] - stamp[p] < MaxForged /\ MayWrite
    /\ content' = [content EXCEPT ![p] = @ + 1]
    /\ UNCHANGED <<stamp, cache, job, answers, nowR, reads>>

\* Time passes; a run that lasts too long is killed and answers nothing.
Tick ==
    /\ nowR < MaxTime /\ nowR' = nowR + 1
    /\ job' = [r \in Reader |-> IF job[r].pc = "run" /\ nowR' - job[r].ran > Timeout
                                THEN NoJob ELSE job[r]]
    /\ UNCHANGED <<files, cache, answers, reads>>

skips_outcome_cache(cmd) == cmd \in Network

Ask(r, cmd) ==
    /\ job[r].pc = "idle" /\ reads < MaxReads /\ reads' = reads + 1
    /\ LET j == [NoJob EXCEPT !.cmd = cmd, !.from = nowR, !.since = stamp]
       IN  job' = [job EXCEPT ![r] =
              IF cmd \in Absent THEN NoJob
              ELSE IF skips_outcome_cache(cmd) THEN [j EXCEPT !.pc = "run", !.ran = nowR]
              ELSE [j EXCEPT !.pc = "stamp"]]
    /\ UNCHANGED <<files, cache, answers, nowR>>

\* _input_stamp, file after file; a missing file is left out.
input_stamp(r) ==
    /\ job[r].pc = "stamp" /\ Len(job[r].st) < Paths
    /\ job' = [job EXCEPT ![r].st = Append(@, stamp[Len(@) + 1])]
    /\ UNCHANGED <<files, cache, answers, nowR, reads>>

Under(e, cmd, st) == e.cmd = cmd /\ e.st = st

Del(i) == SubSeq(cache, 1, i - 1) \o SubSeq(cache, i + 1, Len(cache))

\* The kept outcomes without the one under this key, if there is one.
Without(cmd, st) ==
    LET hits == {i \in 1 .. Len(cache) : Under(cache[i], cmd, st)}
    IN  IF hits = {} THEN cache ELSE Del(CHOOSE i \in hits : TRUE)

Answer(r, o) ==
    /\ answers' = {[cmd |-> job[r].cmd, from |-> job[r].from, since |-> job[r].since,
                    seen |-> o.seen, ran |-> o.ran]}
    /\ job' = [job EXCEPT ![r] = NoJob]

fresh(e) == nowR - e.at <= TTL

Stamped(r) == job[r].pc = "stamp" /\ Len(job[r].st) = Paths

\* Under the lock: an outcome that is fresh is served and moved to the end.
serve(r) ==
    /\ Stamped(r)
    /\ \E i \in 1 .. Len(cache) :
          /\ Under(cache[i], job[r].cmd, job[r].st) /\ fresh(cache[i])
          /\ Answer(r, cache[i]) /\ cache' = Append(Del(i), cache[i])
    /\ UNCHANGED <<files, nowR, reads>>

\* There is none, or it is too old and dropped: the command is run.
miss(r) ==
    /\ Stamped(r)
    /\ \A i \in 1 .. Len(cache) :
          Under(cache[i], job[r].cmd, job[r].st) => ~fresh(cache[i])
    /\ cache' = Without(job[r].cmd, job[r].st)
    /\ job' = [job EXCEPT ![r].pc = "run", ![r].ran = nowR]
    /\ UNCHANGED <<files, answers, nowR, reads>>

\* The command reads its files.
run(r) ==
    /\ job[r].pc = "run" /\ Len(job[r].seen) < Paths
    /\ job' = [job EXCEPT ![r].seen = Append(@, content[Len(@) + 1])]
    /\ UNCHANGED <<files, cache, answers, nowR, reads>>

\* Mutant: the outcome is kept under the stamps the files have by now.
key_after(r) == stamp

key(r) == job[r].st

\* The run ends; its outcome is kept, the least recently used goes.
store(r) ==
    /\ job[r].pc = "run" /\ Len(job[r].seen) = Paths
    /\ LET o == [cmd |-> job[r].cmd, st |-> key(r), seen |-> job[r].seen,
                 ran |-> job[r].ran, at |-> nowR]
           with == Append(Without(o.cmd, o.st), o)
       IN  /\ Answer(r, o)
           /\ cache' = IF skips_outcome_cache(job[r].cmd) THEN cache
                       ELSE IF Len(with) > CacheSize THEN Tail(with) ELSE with
    /\ UNCHANGED <<files, nowR, reads>>

ReadNext ==
    \/ \E p \in Path : Write(p) \/ Forge(p)
    \/ Tick
    \/ \E r \in Reader :
          \/ \E cmd \in Command : Ask(r, cmd)
          \/ input_stamp(r) \/ serve(r) \/ miss(r) \/ run(r) \/ store(r)

ReadSpec == ReadInit /\ [][ReadNext]_readVars

-----------------------------------------------------------------------------
(* Properties.                                                             *)

\* "A stamp that only watched argv files would serve a stale ok": no answer is
\* older than its question, as far as the stamps tell, whichever runs and
\* writes overlap; and where a stamp was forged, or the outcome is not about
\* files at all, the run is no older than the time to live and one run allow.
ServedIsCurrent ==
    \A a \in answers :
        /\ \A p \in Path : a.seen[p] >= a.since[p]
        /\ a.ran >= a.from - (IF a.cmd \in Network THEN 0 ELSE TTL + Timeout)

==============================================================================
