--------------------------- MODULE SegmentArchive ---------------------------
(***************************************************************************)
(* The off-box copy of a sealed segment (integrations/_archive.py,         *)
(* adapters/segment_archive.py, domain/archive.py): a versioned S3 bucket  *)
(* with or without Object Lock (adapters/s3/upload.py and worm.py), or a   *)
(* chain server that takes it as an imported trail (storage/imports.py).   *)
(*                                                                         *)
(* Each archiver has sealed one segment and makes one attempt.  Two of     *)
(* them may use one key, and whoever runs the bucket removes what S3 lets  *)
(* them remove.                                                            *)
(***************************************************************************)
EXTENDS Integers, Sequences, FiniteSets, FiniteSetsExt

CONSTANTS
    Archiver,    \* processes that have just sealed a segment
    Settings,    \* what WAXSEAL_ARCHIVE may say
    Retain,      \* the retentions an upload may ask for: sets with at most one
    Locks,       \* Object Lock of the bucket: "off", "on", or a default mode
    MaxClock     \* bound on the time

ASSUME ArchiveAssumption ==
    /\ Settings \subseteq {"", "other_scheme", "s3_no_bucket", "s3", "http"}
    /\ Retain \subseteq SUBSET [mode : {"COMPLIANCE", "GOVERNANCE"}, until : Nat]
    /\ MaxClock \in Nat

VARIABLES
    clock,
    olock,      \* the bucket's Object Lock configuration
    versions,   \* every object version ever put
    gone,       \* those removed since
    imports,    \* the server's import directories, oldest first
    arch,       \* each archiver's attempt
    bucketSaid, \* the last answer of bucket_worm_state
    listed      \* the last listing of the imports

archiveVars == <<clock, olock, versions, gone, imports, arch, bucketSaid, listed>>

Report(state, worm, until) == [state |-> state, worm |-> worm, until |-> until]

NoReport == Report("none", "none", 0)

Attempt == [pc |-> "sealed", key |-> "k", retain |-> {}, version |-> 0,
            answered |-> 0, said |-> NoReport]

ArchiveInit ==
    /\ clock = 0
    /\ olock \in Locks
    /\ versions = << >> /\ gone = {}
    /\ imports = << >>
    /\ arch = [a \in Archiver |-> Attempt]
    /\ bucketSaid = "none" /\ listed = {}

Say(a, state, worm, until) ==
    arch' = [arch EXCEPT ![a] = [@ EXCEPT !.pc = "done", !.said = Report(state, worm, until)]]

store == <<versions, gone, imports>>
rest == <<clock, olock, bucketSaid, listed>>

-----------------------------------------------------------------------------
(* archive_destination: what WAXSEAL_ARCHIVE names.                        *)
Choose(a, setting, retain, key) ==
    /\ arch[a].pc = "sealed"
    /\ CASE setting = ""  -> Say(a, "none", "none", 0)
         [] setting \in {"other_scheme", "s3_no_bucket"} -> Say(a, "not_attempted", "none", 0)
         [] setting = "s3" -> arch' = [arch EXCEPT ![a] = [@ EXCEPT !.pc = "put",
                                             !.retain = retain, !.key = key]]
         [] setting = "http" -> arch' = [arch EXCEPT ![a].pc = "post"]
    /\ UNCHANGED <<store, rest>>

-----------------------------------------------------------------------------
(* upload_sealed_segment.                                                  *)

\* Without boto3 there is no client to ask.
NoClient(a) ==
    /\ arch[a].pc = "put"
    /\ Say(a, "not_attempted", "unknown", 0)
    /\ UNCHANGED <<store, rest>>

\* What the new version carries: its own retention or the bucket's default.
Retention(retain) ==
    IF retain # {} THEN CHOOSE r \in retain : TRUE
    ELSE IF olock \in {"COMPLIANCE", "GOVERNANCE"} THEN [mode |-> olock, until |-> clock + 1]
    ELSE [mode |-> "none", until |-> 0]

Version(a, retention) ==
    [by |-> a, key |-> arch[a].key, mode |-> retention.mode, until |-> retention.until]

\* Mutant: an upload that raised counts as one that was not made.
Put_NotAttempted(a) ==
    /\ arch[a].pc = "put"
    /\ LET v == Version(a, Retention(arch[a].retain))
       IN  \/ Say(a, "not_attempted", "none", 0) /\ UNCHANGED versions
           \/ /\ arch[a].retain # {} => olock # "off"
              /\ versions' = Append(versions, v)
              /\ \/ Say(a, "not_attempted", "none", 0)
                 \/ arch' = [arch EXCEPT ![a].pc = "ask", ![a].version = Len(versions')]
    /\ UNCHANGED <<gone, imports, rest>>

\* put_object; a retention needs a bucket with Object Lock.  The answer may
\* be lost, which reads as a failed archive.
Put_(a) ==
    /\ arch[a].pc = "put"
    /\ LET v == Version(a, Retention(arch[a].retain))
       IN  \/ Say(a, "failed", "none", 0) /\ UNCHANGED versions
           \/ /\ arch[a].retain # {} => olock # "off"
              /\ versions' = Append(versions, v)
              /\ \/ Say(a, "failed", "none", 0)
                 \/ arch' = [arch EXCEPT ![a].pc = "ask", ![a].version = Len(versions')]
    /\ UNCHANGED <<gone, imports, rest>>

\* Mutant: every retention mode is taken for the irreversible one.
mode_strength_any(mode) == "irreversible"

\* RETENTION_MODE_STRENGTH
mode_strength(mode) == IF mode = "COMPLIANCE" THEN "irreversible" ELSE "bypassable"

\* object_worm_state of what S3 replied.
object_worm_state(reply) ==
    IF reply.mode = "error" THEN "unknown"
    ELSE IF reply.mode = "none" \/ reply.until <= clock THEN "unlocked"
    ELSE mode_strength(reply.mode)

\* The key's newest version that is not removed answers for the key.
Newest(key) == Max({0} \cup {i \in DOMAIN versions \ gone : versions[i].key = key})

\* get_object_retention, by key and not by version.
AskRetention(a) ==
    /\ arch[a].pc = "ask"
    /\ \E i \in {0, Newest(arch[a].key)} :
          LET reply == IF i = 0 THEN [mode |-> "error", until |-> 0] ELSE versions[i]
          IN  arch' = [arch EXCEPT ![a] = [@ EXCEPT !.pc = "done", !.answered = i,
                         !.said = Report("stored", object_worm_state(reply), reply.until)]]
    /\ UNCHANGED <<store, rest>>

\* Of the configuration: whether there is one, and the default mode if it is
\* readable.
bucket_worm_state(reply) ==
    CASE reply = "error" -> "unknown"
      [] reply = "off" -> "unlocked"
      [] reply = "on" -> "unestablished"
      [] OTHER -> mode_strength(reply)

AskBucket ==
    /\ \E reply \in {olock, "error"} : bucketSaid' = bucket_worm_state(reply)
    /\ UNCHANGED <<store, arch, clock, olock, listed>>

\* S3 refuses to remove a version under retention, unless its mode lets the
\* account's operator bypass it.
RemoveVersion(i) ==
    /\ i \notin gone
    /\ versions[i].mode # "COMPLIANCE" \/ versions[i].until <= clock
    /\ gone' = gone \cup {i}
    /\ UNCHANGED <<versions, imports, arch, rest>>

Pass ==
    /\ clock < MaxClock /\ clock' = clock + 1
    /\ UNCHANGED <<store, arch, olock, bucketSaid, listed>>

-----------------------------------------------------------------------------
(* server_import_destination and the server's POST /v1/imports.            *)

\* The name or the body cannot be framed, the server refuses the key or the
\* suffix, or nobody answers.
PostFails(a) ==
    /\ arch[a].pc = "post"
    /\ Say(a, "failed", "none", 0)
    /\ UNCHANGED <<store, rest>>

\* ImportStore.create runs to its end before another one starts: the handler
\* is a coroutine that never awaits in between.
Creating == \E a \in Archiver : arch[a].pc = "creating"

\* The directory and the trail are there before the import is.
CreateDirectory(a) ==
    /\ arch[a].pc = "post" /\ ~Creating
    /\ imports' = Append(imports, [by |-> a, meta |-> "none", ordinal |-> -1])
    /\ arch' = [arch EXCEPT ![a].pc = "creating"]
    /\ UNCHANGED <<versions, gone, rest>>

next_ordinal == Cardinality({i \in DOMAIN imports : imports[i].meta # "none"})

\* write_text: the file exists before its content does.
WriteMeta(a) ==
    LET i == Len(imports) IN
    /\ arch[a].pc = "creating"
    /\ \/ /\ imports[i].meta = "none"
          /\ imports' = [imports EXCEPT ![i].meta = "empty", ![i].ordinal = next_ordinal]
          /\ UNCHANGED arch
       \/ /\ imports[i].meta = "empty"
          /\ imports' = [imports EXCEPT ![i].meta = "whole"]
          /\ Say(a, "stored", "none", 0) \/ Say(a, "failed", "none", 0)
    /\ UNCHANGED <<versions, gone, rest>>

\* The server stops in the middle and leaves what there is: a directory
\* without a meta.json is no import.
ServerStops(a) ==
    /\ arch[a].pc = "creating"
    /\ Say(a, "failed", "none", 0)
    /\ UNCHANGED <<store, rest>>

\* records(): newest first.
records ==
    LET whole == {i \in DOMAIN imports : imports[i].meta = "whole"}
    IN  {[k \in 1 .. Cardinality(whole) |-> imports[o[k]]] :
           o \in {p \in [1 .. Cardinality(whole) -> whole] :
                    \A i, j \in DOMAIN p : i < j =>
                       p[i] # p[j] /\ imports[p[i]].ordinal >= imports[p[j]].ordinal}}

\* A meta.json without content raises.
List ==
    /\ \A i \in DOMAIN imports : imports[i].meta # "empty"
    /\ \E l \in records : listed' = {l}
    /\ UNCHANGED <<store, arch, clock, olock, bucketSaid>>

ArchiveNext ==
    \/ \E a \in Archiver :
         \/ \E setting \in Settings : Choose(a, setting, {}, a)
         \/ \E retain \in Retain, key \in {"k", a} : Choose(a, "s3", retain, key)
         \/ NoClient(a) \/ Put_(a) \/ AskRetention(a)
         \/ PostFails(a) \/ CreateDirectory(a) \/ WriteMeta(a) \/ ServerStops(a)
    \/ AskBucket \/ Pass \/ List
    \/ \E i \in DOMAIN versions : RemoveVersion(i)

ArchiveSpec == ArchiveInit /\ [][ArchiveNext]_archiveVars

-----------------------------------------------------------------------------
(* Properties.                                                             *)

\* The line a rotation prints about the copy is true: "stored" means that the
\* destination took it, "not attempted" that nothing was sent anywhere, and
\* an import that was acknowledged is listed in the order of arrival, also
\* after one that was abandoned half way.
CopyIsWhereItIsSaid ==
    /\ \A a \in Archiver :
         LET taken == {i \in DOMAIN versions : versions[i].by = a}
             kept  == {i \in DOMAIN imports : imports[i].by = a /\ imports[i].meta = "whole"}
         IN  /\ arch[a].said.state = "stored" => taken \cup kept # {}
             /\ arch[a].said.state = "not_attempted" => taken \cup kept = {}
    /\ \A l \in listed : \A i, j \in DOMAIN l : i < j => l[i].ordinal > l[j].ordinal
    /\ \A i, j \in DOMAIN imports :
         i < j /\ imports[i].meta = "whole" /\ imports[j].meta = "whole" =>
             imports[i].ordinal < imports[j].ordinal

\* "REFUSED by storage ... for EVERY principal" (worm.py): a copy reported
\* irreversible is there until its date, whoever tries to remove it, if it
\* is that copy that answered; and a bucket reported without Object Lock holds
\* no version that is reported locked.
ReportedLocksHold ==
    \A a \in Archiver :
        /\ arch[a].said.worm = "irreversible" /\ arch[a].answered = arch[a].version /\ clock < arch[a].said.until =>
             arch[a].version \notin gone
        /\ bucketSaid = "unlocked" => arch[a].said.worm \notin {"irreversible", "bypassable"}

\* The archive's two reports, of the copy and of its lock, hold.
ArchiveReportsHold == CopyIsWhereItIsSaid /\ ReportedLocksHold

==============================================================================
