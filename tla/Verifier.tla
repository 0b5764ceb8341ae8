------------------------------ MODULE Verifier ------------------------------
(***************************************************************************)
(* `waxseal verify` and `waxseal anchor` beside a trail that is still      *)
(* being written (cli/verify.py, cli/_dimensions.py, cli/anchor.py,        *)
(* adapters/anchors.py, adapters/pinstore.py and the witness routes).      *)
(*                                                                         *)
(* A verifier reads the trail once and then, one after the other, the      *)
(* sidecar, the witnesses, the pin and the receipts; the trail, the        *)
(* sidecar and the pin may all move between two of those reads.  An        *)
(* anchoring job takes a checkpoint, publishes it sink by sink, writes a   *)
(* sidecar record for each sink that answered, and then tells the          *)
(* witnesses.  Whoever can write the files may also change any of them.    *)
(***************************************************************************)
EXTENDS Evidence

CONSTANTS
    Verifier,     \* processes running verify over one trail and one pin file
    Sink,         \* external sinks a job may be given, in the order it uses them
    Witness,      \* witnesses both commands are given
    Options,      \* the flag sets each verifier runs with
    Binding,      \* whether checkpoints carry an aggregate: a set of BOOLEAN
    Acked,        \* whether appends leave a receipt behind: a set of BOOLEAN
    MaxRows,      \* bound on the trail
    MaxJobs,      \* bound on anchoring jobs
    MaxNow,       \* bound on the clock
    Incidents,    \* what may happen to the files
    MaxIncidents  \* and how often

\* What a verifier's flags say: which dimensions to measure, and what to
\* declare for later runs.
Topology == [declared : BOOLEAN, sinks : Nat, witness : BOOLEAN, ledger : BOOLEAN]

Flags == [anchors : BOOLEAN, ca : BOOLEAN, witness : BOOLEAN, ledger : BOOLEAN, pin : BOOLEAN,
          declare : [bind : BOOLEAN, age : Nat \cup {-1}, topo : Topology]]

\* "file" is the sidecar's own name among the sinks.
ASSUME VerifierAssumption ==
    /\ \A v \in Verifier : Options[v] \subseteq Flags
    /\ Sink \in Seq(Range(Sink)) /\ "file" \notin Range(Sink)
    /\ Binding \subseteq BOOLEAN /\ Acked \subseteq BOOLEAN
    /\ {MaxRows, MaxJobs, MaxNow, MaxIncidents} \subseteq Nat

VARIABLES
    trail,      \* the rows on disk, which are also their hashes
    chain,      \* what verify_chain says of them
    sidecar,    \* .anchors: its lines, and whether it still parses
    receipts,   \* .receipts: its lines
    pin,        \* the pin file
    held,       \* what each witness was told, in order, never de-duplicated
    published,  \* what the external sinks hold: [sink, head]
    job,        \* the anchoring job
    run,        \* each verifier's run
    clock,      \* the time
    jobs,       \* anchoring jobs started
    incidents   \* incidents so far

verifierVars == <<trail, chain, sidecar, receipts, pin, held, published, job, run,
          clock, jobs, incidents>>

files == <<trail, chain, sidecar, receipts, pin>>

-----------------------------------------------------------------------------
IdleJob == [pc |-> "idle", cp |-> [head |-> << >>, bound |-> FALSE], todo |-> {},
            ask |-> {}, tell |-> {}, failed |-> {}, exit |-> -1]

NoOption == [anchors |-> FALSE, ca |-> FALSE, witness |-> FALSE, ledger |-> FALSE,
             pin |-> FALSE, declare |-> [bind |-> FALSE, age |-> -1, topo |-> NoTopology]]

IdleRun == [pc |-> "idle", opt |-> NoOption, hashes |-> << >>, codes |-> {"ok"},
            sinks |-> 0, records |-> << >>, witness |-> {}, ledger |-> "off",
            loaded |-> NoPin, pending |-> NoPin, reasons |-> {}, exit |-> -1]

VerifierInit ==
    /\ trail = << >>
    /\ chain = "ok"
    /\ sidecar = [lines |-> << >>, malformed |-> FALSE]
    /\ receipts = << >>
    /\ pin = NoPin
    /\ held = [w \in Witness |-> << >>]
    /\ published = {}
    /\ job = IdleJob
    /\ run = [v \in Verifier |-> IdleRun]
    /\ clock = 0
    /\ jobs = 0
    /\ incidents = 0

-----------------------------------------------------------------------------
(* The writer.                                                             *)

\* A row lands; the server's acknowledgment of it may be recorded beside it.
AppendRow ==
    /\ Len(trail) < MaxRows
    /\ trail' = Append(trail, "written")
    /\ \E ack \in Acked :
         receipts' = IF ack THEN Append(receipts, [form |-> "record", head |-> trail'])
                     ELSE receipts
    /\ UNCHANGED <<chain, sidecar, pin, held, published, job, run, clock, jobs, incidents>>

TimePasses ==
    /\ clock < MaxNow
    /\ clock' = clock + 1
    /\ UNCHANGED <<files, held, published, job, run, jobs, incidents>>

-----------------------------------------------------------------------------
(* `waxseal anchor`.                                                       *)

\* AuditLog.anchor takes the checkpoint of the head; an empty trail is an
\* error before anything is published.
StartAnchor(sinks) ==
    /\ job.pc \in {"idle", "done"}
    /\ jobs < MaxJobs
    /\ jobs' = jobs + 1
    /\ \E agg \in Binding :
         job' = IF trail = << >>
                THEN [IdleJob EXCEPT !.pc = "done", !.exit = 1]
                ELSE [IdleJob EXCEPT !.pc = "sinks", !.cp = checkpoint_for(trail, agg),
                        !.todo = sinks, !.ask = sinks, !.tell = Witness]
    /\ UNCHANGED <<files, held, published, run, clock, incidents>>

record_obj(sink, receipt, nonce) ==
    [version |-> "known", cp |-> job.cp, sink |-> sink, receipt |-> receipt,
     nonce |-> nonce, ts |-> clock]

\* _append_record: one whole line, under the sidecar's lock.
Record(sink, receipt, nonce) ==
    sidecar' = [sidecar EXCEPT !.lines = Append(@, record_obj(sink, receipt, nonce))]

\* FileAnchorSink: no external sink was configured.
RecordLocally ==
    /\ job.pc = "sinks" /\ job.ask = {}
    /\ Record("file", NoReceipt, 0)
    /\ job' = [job EXCEPT !.pc = "witnesses"]
    /\ UNCHANGED <<trail, chain, receipts, pin, held, published, run, clock, jobs, incidents>>

\* An exchange with a third party: it answers, refuses, or its answer is
\* lost after it took the checkpoint.
Outcome == {"answered", "refused", "lost"}

\* The sinks are used in their order.
Turn(s) ==
    \E i \in DOMAIN Sink : /\ s = Sink[i] /\ s \in job.todo
                          /\ \A j \in 1 .. i - 1 : Sink[j] \notin job.todo

\* MultiAnchorSink goes on with the next sink when one fails.
Publish(s, outcome) ==
    /\ job.pc = "sinks" /\ Turn(s)
    /\ published' = IF outcome = "refused" THEN published
                    ELSE published \cup {[sink |-> s, head |-> job.cp.head]}
    /\ job' = IF outcome = "answered" THEN [job EXCEPT !.pc = "record"]
              ELSE [job EXCEPT !.todo = @ \ {s}, !.failed = @ \cup {s}]
    /\ UNCHANGED <<files, held, run, clock, jobs, incidents>>

\* A timestamp token over the checkpoint's frame, checked on arrival, with the
\* nonce of its request; a calendar's proof is opaque.
Rfc3161Answer == Receipt("rfc3161", job.cp.head, jobs, "tsa")
OtsAnswer == Receipt("ots", << >>, 0, "none")

\* RecordingAnchorSink: the record is written only after the sink answered.
RecordAnswer(s) ==
    /\ job.pc = "record" /\ Turn(s)
    /\ IF s = "rfc3161" THEN Record(s, Rfc3161Answer, jobs) ELSE Record(s, OtsAnswer, 0)
    /\ job' = [job EXCEPT !.pc = "sinks", !.todo = @ \ {s}]
    /\ UNCHANGED <<trail, chain, receipts, pin, held, published, run, clock, jobs, incidents>>

\* Mutant: the command goes on as if a failed sink had not been asked.
AfterSinksForgetsFailures ==
    /\ job.pc = "sinks" /\ job.ask # {} /\ job.todo = {}
    /\ job' = [job EXCEPT !.pc = "witnesses", !.failed = {}]
    /\ UNCHANGED <<files, held, published, run, clock, jobs, incidents>>

\* When every sink failed nothing was recorded and the command ends in error;
\* otherwise the witnesses are told.
AfterSinks ==
    /\ job.pc = "sinks" /\ job.ask # {} /\ job.todo = {}
    /\ job' = IF job.failed = job.ask
              THEN [job EXCEPT !.pc = "done", !.exit = 1]
              ELSE [job EXCEPT !.pc = "witnesses"]
    /\ UNCHANGED <<files, held, published, run, clock, jobs, incidents>>

\* WitnessStore.record: the witness route appends what it is told.
WitnessRecord(w, cp) == [held EXCEPT ![w] = Append(@, cp)]

TellWitness(w, outcome) ==
    /\ job.pc = "witnesses" /\ w \in job.tell
    /\ held' = IF outcome = "refused" THEN held
               ELSE WitnessRecord(w, job.cp)
    /\ job' = [job EXCEPT !.tell = @ \ {w},
                 !.failed = IF outcome = "answered" THEN @ ELSE @ \cup {w}]
    /\ UNCHANGED <<files, published, run, clock, jobs, incidents>>

FinishAnchor ==
    /\ job.pc = "witnesses" /\ job.tell = {}
    /\ job' = [job EXCEPT !.pc = "done", !.exit = IF job.failed = {} THEN 0 ELSE 1]
    /\ UNCHANGED <<files, held, published, run, clock, jobs, incidents>>

CrashAnchor ==
    /\ job.pc \in {"sinks", "record", "witnesses"}
    /\ job' = IdleJob
    /\ UNCHANGED <<files, held, published, run, clock, jobs, incidents>>

-----------------------------------------------------------------------------
(* `waxseal verify`.  Every dimension asked for is measured, whatever an   *)
(* earlier one said; codes collects the verdicts.                          *)

Step(v, from, next) ==
    /\ run[v].pc = from
    /\ run' = [run EXCEPT ![v] = next]
    /\ UNCHANGED <<trail, chain, sidecar, receipts, held, published, job, clock,
                   jobs, incidents>>

\* One materialising pass: the chain verdict and the hashes every later
\* dimension is computed over.
ReadTrail(v, opt) ==
    /\ run[v].pc \in {"idle", "done"}
    /\ run' = [run EXCEPT ![v] = [IdleRun EXCEPT !.pc = "anchors", !.opt = opt,
                  !.hashes = trail, !.codes = {chain}]]
    /\ UNCHANGED <<files, held, published, job, clock, jobs, incidents>>

\* _anchor_check, on its own read of the sidecar.
CheckAnchors(v) ==
    LET r == run[v]
        c == anchor_check(r.hashes, sidecar, r.opt.ca)
    IN  /\ Step(v, "anchors",
             IF r.opt.anchors
             THEN [r EXCEPT !.pc = "observe", !.codes = @ \cup {c.verdict},
                            !.reasons = @ \cup {c.reason}]
             ELSE [r EXCEPT !.pc = "witness"])
        /\ UNCHANGED pin

\* _observed_anchor_sinks, _records and _unreadable read it again.
ObserveAnchors(v) ==
    /\ Step(v, "observe", [run[v] EXCEPT !.pc = "witness", !.sinks = observed_sinks(sidecar),
                              !.records = observed_records(sidecar)])
    /\ UNCHANGED pin

\* HTTPWitness.fetch: what the witness holds, unless it cannot be asked.
Fetch(w, reached) == [reached |-> w \in reached, held |-> held[w]]

witness_verdicts(hashes, reached) ==
    {witness_status(hashes, Fetch(w, reached)) : w \in Witness}

\* _witness_verdicts and _ledger_check: a witness or an RPC endpoint may be
\* out of reach, and the ledger never says more than that it agrees.
AskOthers(v, reached, ledger) ==
    LET r == run[v]
        statuses == IF r.opt.witness THEN witness_verdicts(r.hashes, reached) ELSE {}
        answer == IF r.opt.ledger THEN ledger ELSE "off"
    IN  /\ Step(v, "witness",
             [r EXCEPT !.pc = "pin", !.witness = statuses, !.ledger = answer,
                       !.codes = @ \cup {witness_verdict(statuses)} \cup ({answer} \cap Verdict)])
        /\ UNCHANGED pin

\* FilePinStore.load and _pin_check.
CheckPin(v) ==
    LET r == run[v]
        c == pin_check(pin, r, clock)
    IN  /\ Step(v, "pin",
             IF r.opt.pin
             THEN [r EXCEPT !.pc = "receipts", !.loaded = pin, !.pending = c.pending,
                            !.sinks = 0, !.records = << >>, !.codes = @ \cup {c.verdict},
                            !.reasons = @ \cup {c.reason}]
             ELSE [r EXCEPT !.pc = "receipts", !.sinks = 0, !.records = << >>])
        /\ UNCHANGED pin

CheckReceipts(v) ==
    /\ Step(v, "receipts", [run[v] EXCEPT !.pc = "save",
          !.codes = @ \cup {reconcile_receipts(run[v].hashes, receipts)}])
    /\ UNCHANGED pin

\* Mutant: the pin advances whatever the other dimensions found.
SaveAlways(v) ==
    LET r == run[v]
    IN  /\ Step(v, "save", [r EXCEPT !.pc = "done", !.exit = exit_code(Combine(r.codes)),
                  !.codes = {}, !.pending = NoPin, !.ledger = "off", !.reasons = {}])
        /\ pin' = IF r.pending.file THEN r.pending ELSE pin

\* The verdicts are joined, and anything but a break lets the pin advance.
\* The pin is replaced whole (atomic_write_bytes), under no lock.
Save(v) ==
    LET r == run[v]
        code == exit_code(Combine(r.codes))
    IN  /\ Step(v, "save", [r EXCEPT !.pc = "done", !.exit = code, !.codes = {},
                  !.pending = NoPin, !.ledger = "off", !.reasons = {}])
        /\ pin' = IF r.pending.file /\ code # 1 THEN r.pending ELSE pin

-----------------------------------------------------------------------------
(* What else happens to the files: rows and sidecar lines rewritten by     *)
(* whoever can write them, files from a newer waxseal, a torn line.        *)

EditTrail(kind) ==
    CASE kind = "truncate" ->
           /\ Len(trail) > 0
           /\ trail' = Front(trail) /\ UNCHANGED <<chain, sidecar, receipts, pin>>
      [] kind = "rewrite" ->
           /\ \E i \in DOMAIN trail :
                trail' = [trail EXCEPT ![i] = IF @ = "written" THEN "forged" ELSE "written"]
           /\ UNCHANGED <<chain, sidecar, receipts, pin>>
      [] kind = "edit" ->
           /\ Len(trail) > 0 /\ chain # "broken"
           /\ chain' = "broken" /\ UNCHANGED <<trail, sidecar, receipts, pin>>
      [] kind = "newer_row" ->
           /\ Len(trail) \in 1 .. MaxRows - 1 /\ chain = "ok"
           /\ chain' = "unverifiable" /\ trail' = Append(trail, "written")
           /\ UNCHANGED <<sidecar, receipts, pin>>

EditSidecar(kind) ==
    LET last == Len(sidecar.lines)
    IN  /\ last > 0
        /\ UNCHANGED <<trail, chain, receipts, pin>>
        /\ CASE kind = "strip" -> sidecar' = [sidecar EXCEPT !.lines = Front(@)]
             [] kind = "newer_line" ->
                  sidecar' = [sidecar EXCEPT !.lines[last].version = "newer"]
             [] kind = "swap_token" ->
                  /\ sidecar.lines[last].receipt.kind = "rfc3161"
                  /\ sidecar' = [sidecar EXCEPT !.lines[last].receipt.nonce = 0]
             [] kind = "resign_token" ->
                  /\ sidecar.lines[last].receipt.kind = "rfc3161"
                  /\ \E who \in Signer \ {"tsa"} :
                       sidecar' = [sidecar EXCEPT !.lines[last].receipt.signer = who]
             [] kind = "tear" -> sidecar' = [sidecar EXCEPT !.malformed = TRUE]

EditPin(kind) ==
    /\ UNCHANGED <<trail, chain, sidecar, receipts>>
    /\ parse_pin_state(pin) = "state"
    /\ pin' = CASE kind = "lose_pin" -> NoPin
                 [] kind = "garble_pin" -> [pin EXCEPT !.whole = FALSE]
                 [] kind = "newer_pin" -> [pin EXCEPT !.v = 2, !.whole = FALSE]
                 [] kind = "other_pin" -> [pin EXCEPT !.target = "elsewhere"]

EditReceipts(form) ==
    /\ receipts # << >>
    /\ receipts' = [receipts EXCEPT ![Len(receipts)].form = form]
    /\ UNCHANGED <<trail, chain, sidecar, pin>>

TrailIncidents == {"truncate", "rewrite", "edit", "newer_row"}
SidecarIncidents == {"strip", "newer_line", "swap_token", "resign_token", "tear"}
PinIncidents == {"lose_pin", "garble_pin", "newer_pin", "other_pin"}
ReceiptIncidents == ReceiptForm \ {"record"}

Incident(kind) ==
    /\ incidents < MaxIncidents
    /\ incidents' = incidents + 1
    /\ \/ kind \in TrailIncidents /\ EditTrail(kind)
       \/ kind \in SidecarIncidents /\ EditSidecar(kind)
       \/ kind \in PinIncidents /\ EditPin(kind)
       \/ kind \in ReceiptIncidents /\ EditReceipts(kind)
    /\ UNCHANGED <<held, published, job, run, clock, jobs>>

-----------------------------------------------------------------------------
VerifyStep(v) ==
    \/ \E opt \in Options[v] : ReadTrail(v, opt)
    \/ CheckAnchors(v)
    \/ ObserveAnchors(v)
    \/ \E reached \in SUBSET Witness, ledger \in {"ok", "unverifiable"} :
          AskOthers(v, reached, ledger)
    \/ CheckPin(v)
    \/ CheckReceipts(v)
    \/ Save(v)

AnchorStep ==
    \/ \E sinks \in SUBSET Range(Sink) : StartAnchor(sinks)
    \/ RecordLocally
    \/ \E s \in Range(Sink), o \in Outcome : Publish(s, o)
    \/ \E s \in Range(Sink) : RecordAnswer(s)
    \/ AfterSinks
    \/ \E w \in Witness, o \in Outcome : TellWitness(w, o)
    \/ FinishAnchor
    \/ CrashAnchor

VerifierNext ==
    \/ AppendRow
    \/ TimePasses
    \/ AnchorStep
    \/ \E v \in Verifier : VerifyStep(v)
    \/ \E kind \in Incidents : Incident(kind)

VerifierSpec == VerifierInit /\ [][VerifierNext]_verifierVars

-----------------------------------------------------------------------------
(* Properties.                                                             *)

\* cli/verify.py _save_pin: what this verifier confirmed stays confirmed.  A
\* pin is replaced only by one that extends it and keeps every declared
\* policy, and never by a run that read anything contradicting it: a break
\* found in another dimension is not laundered into the new baseline.
ConfirmedHistoryStands ==
    [][\A v \in Verifier :
         LET r == run[v]
         IN  (r.pc = "save" /\ run'[v].pc = "done" /\ pin' # pin) =>
               /\ "broken" \notin r.codes
               /\ r.loaded.file =>
                    /\ IsPrefix(r.loaded.head, pin'.head)
                    /\ r.loaded.topo.declared => pin'.topo.declared
                    /\ r.loaded.age # -1 => pin'.age # -1
                    /\ r.loaded.bind => pin'.bind]_verifierVars

\* An exit of 1 is the operator's evidence of tampering.  While nothing has
\* touched the files but the writer, the anchoring job and the verifiers, a
\* run over a trail that did not grow under it never raises it, whichever
\* sink, witness or answer failed and however verifiers and jobs interleave.
QuietTrailRaisesNoAlarm ==
    \A v \in Verifier :
        (run[v].pc = "done" /\ incidents = 0 /\ run[v].hashes = trail)
            => run[v].exit # 1

\* adapters/anchors.py MultiAnchorSink and cli/anchor.py _anchor: a record
\* names only a sink that holds the checkpoint, whichever of several sinks
\* failed, and a job that exits 0 left its checkpoint with every sink it was
\* given and with every witness.
AnchorRecordsArePublished ==
    /\ \A r \in Range(sidecar.lines) :
          r.sink # "file" => [sink |-> r.sink, head |-> r.cp.head] \in published
    /\ (job.pc = "done" /\ job.exit = 0) =>
          /\ \A s \in job.ask : [sink |-> s, head |-> job.cp.head] \in published
          /\ \A w \in Witness : job.cp \in Range(held[w])
          /\ incidents = 0 =>
               \A s \in (IF job.ask = {} THEN {"file"} ELSE job.ask) :
                   \E r \in Range(sidecar.lines) : r.cp = job.cp /\ r.sink = s

\* cli/pin.py _pin_check against a declared topology: exit 0 means that
\* somebody other than the writer holds a checkpoint of the history this run
\* read, or of a later state of it, and that a witness was reached and agrees.
ExitZeroIsCorroborated ==
    \A v \in Verifier :
        LET r == run[v]
        IN  (/\ r.pc = "done" /\ r.exit = 0
             /\ r.opt.pin /\ r.opt.anchors /\ r.opt.witness
             /\ r.loaded.topo.declared) =>
               /\ r.loaded.topo.sinks > 0 =>
                    \E p \in published :
                        incidents = 0 => IsPrefix(p.head, trail)
               /\ r.loaded.topo.witness => "consistent" \in r.witness

\* cli/preflight.py and domain/preflight.py: "NOT MEASURED is not ABSENT", and
\* the ladder claims no more than there is.  A line in the sidecar is never
\* reported as no anchor, readable or not; a finished anchoring job shows on the
\* rungs it was for; a claim that reaches rung 3 rests on a checkpoint somebody
\* else holds of this history; and the anchored prefix lies within the trail.
\* The trail is sealed, which only adds to the claim.
PreflightClaimsHold ==
    /\ incidents = 0 => _preflight_anchors(sidecar).latest < Len(trail)
    /\ LET reading == _preflight(sidecar, TRUE)
           rungs == reading.rungs
       IN  /\ sidecar.lines # << >> => rungs[2] # "absent"
           /\ rungs[3] # "absent"
           /\ (incidents = 0 /\ job.pc = "done" /\ job.exit = 0) =>
                 /\ rungs[2] = "present"
                 /\ job.ask # {} => rungs[3] = "present"
                 /\ job.cp.bound => rungs[4] = "present"
           /\ reading.stops_at >= 3 =>
                 \E p \in published : incidents = 0 => IsPrefix(p.head, trail)

\* What counts as corroboration is held by somebody else: the records name what
\* was published, exit 0 rests on such a record, and so does a preflight's claim.
CorroborationIsReal ==
    AnchorRecordsArePublished /\ ExitZeroIsCorroborated /\ PreflightClaimsHold

==============================================================================
