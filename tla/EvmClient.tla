------------------------------ MODULE EvmClient ------------------------------
(***************************************************************************)
(* The two sides of the ledger layer that talk JSON-RPC                    *)
(* (adapters/evm/sink.py and reader.py, domain/liveness.py,                *)
(* domain/registry.py, cli/ledger.py): sinks that share one signer send    *)
(* transactions through one node and wait for them, and `ledger-status`    *)
(* and `verify` read the contracts back through several nodes and conclude *)
(* from what those agree on.                                               *)
(*                                                                         *)
(* The chain moves by itself: blocks are mined, finalized and, until then, *)
(* undone; a pending transaction may be evicted.  Any answer may be lost.  *)
(* A node answers a read at a finalized height that may lag, and a lying   *)
(* node answers what it likes.  The contracts are the ones of module       *)
(* Ledger, for one trail, one descriptor and one writer's bond.            *)
(***************************************************************************)
EXTENDS Evidence

CONSTANTS
    Sink,       \* callers sharing the signer: the anchoring job, the CLI
    Url,        \* the nodes a reader asks are 1 .. Url
    Liars,      \* those that may answer what they like
    SeqNos,     \* checkpoint seqs that are submitted
    Deadline,   \* the trail's deadline_s
    MaxPolls,
    MaxLag,     \* how far a node's finalized block may lag, in blocks
    MaxTime,    \* bound on the blocks ever mined
    MaxCalls,   \* bound on the sinks' calls
    MaxReads,   \* bound on the reads
    MaxReorgs   \* bound on the blocks undone

ASSUME EvmClientAssumption ==
    /\ Url \in Nat /\ Liars \subseteq 1 .. Url
    /\ {Deadline, MaxPolls} \subseteq Nat \ {0}
    /\ SeqNos \subseteq Nat
    /\ {MaxLag, MaxTime, MaxCalls, MaxReads, MaxReorgs} \subseteq Nat

VARIABLES
    now,      \* the time, one tick a block
    chain,    \* the canonical blocks: one call each, or none
    final,    \* how many of them are finalized
    pool,     \* transactions broadcast and not mined
    reorged,  \* transactions a reorg has undone
    job,      \* each sink's call under way
    ended,    \* how the sinks' calls have ended
    reorgs,   \* blocks undone
    rd        \* the read under way, or the last one

evm == <<now, chain, final, pool, reorged, reorgs>>
vars == <<now, chain, final, pool, reorged, job, ended, reorgs, rd>>

-----------------------------------------------------------------------------
(* The contracts after the first k blocks.                                 *)

Ran(k, f) == {i \in 1 .. k : chain[i].ok /\ chain[i].op[1] = f}

Slashed(k) == Ran(k, "prove") # {}

\* What the contracts accept; a duplicate descriptor, a second registration
\* and a seq that does not grow revert.
Accepts(k, op) ==
    CASE op[1] = "registerTrail" -> Ran(k, "registerTrail") = {}
      [] op[1] = "submit"   -> /\ Ran(k, "registerTrail") # {}
                               /\ \A i \in Ran(k, "submit") : chain[i].op[2] < op[2]
      [] op[1] = "register" -> Ran(k, "register") = {}
      [] op[1] = "deposit"  -> ~Slashed(k)
      [] op[1] = "prove"    -> ~Slashed(k)
      [] OTHER -> FALSE

\* An error answer the client tells from a node that could not answer.
Reverts(k, op) == ~Accepts(k, op)

-----------------------------------------------------------------------------
(* The chain.                                                              *)

Taken(n) == \/ \E t \in pool : t.nonce = n
            \/ \E i \in DOMAIN chain : chain[i].nonce = n

\* A miner takes the pending transaction whose nonce is next, or none.
Mine ==
    /\ now < MaxTime
    /\ now' = now + 1
    /\ \/ \E t \in pool :
             /\ \A n \in 0 .. t.nonce - 1 : \E i \in DOMAIN chain : chain[i].nonce = n
             /\ chain' = Append(chain, [op |-> t.op, nonce |-> t.nonce, time |-> now',
                                        ok |-> Accepts(Len(chain), t.op)])
             /\ pool' = pool \ {t}
       \/ /\ chain' = Append(chain, [op |-> <<"none", 0>>, nonce |-> -1, time |-> now',
                                     ok |-> FALSE])
          /\ UNCHANGED pool
    /\ UNCHANGED <<final, reorged, job, ended, reorgs, rd>>

Finalize ==
    /\ final < Len(chain) /\ final' = final + 1
    /\ UNCHANGED <<now, chain, pool, reorged, job, ended, reorgs, rd>>

\* The last block is undone and what it held is pending again.
Reorg ==
    /\ final < Len(chain) /\ reorgs < MaxReorgs
    /\ LET b == chain[Len(chain)]
           undone == {t \in {[op |-> b.op, nonce |-> b.nonce]} : t.nonce # -1}
       IN  /\ pool' = pool \cup undone
           /\ reorged' = reorged \cup undone
    /\ chain' = Front(chain) /\ reorgs' = reorgs + 1
    /\ UNCHANGED <<now, final, job, ended, rd>>

Evict ==
    /\ \E t \in pool : pool' = pool \ {t}
    /\ UNCHANGED <<now, chain, final, reorged, job, ended, reorgs, rd>>

-----------------------------------------------------------------------------
(* EvmLedgerSink._send, one round trip a step.                             *)

Idle == [pc |-> "idle", op |-> <<"none", 0>>, nonce |-> -1, polls |-> 0, block |-> 0]

End(s, how) ==
    /\ job' = [job EXCEPT ![s] = Idle]
    /\ ended' = ended \cup {[op |-> job[s].op, nonce |-> job[s].nonce,
                             block |-> job[s].block, how |-> how]}

Begun == Cardinality(ended) + Cardinality({s \in Sink : job[s].pc # "idle"})

\* The call ends before anything is sent.
Refuse(s, op) ==
    /\ job' = [job EXCEPT ![s] = Idle]
    /\ ended' = ended \cup {[op |-> op, nonce |-> -1, block |-> 0, how |-> "refused"]}

\* A sink needs its reader's two endpoints and a signer that answers.
Begin(s, op, ready) ==
    /\ job[s].pc = "idle" /\ Begun < MaxCalls
    /\ IF ready
       THEN job' = [job EXCEPT ![s] = [Idle EXCEPT !.pc = "quote", !.op = op]] /\ UNCHANGED ended
       ELSE Refuse(s, op)
    /\ UNCHANGED <<evm, rd>>

\* The calls; each has inputs it refuses to send.
register_trail(s, ready) == Begin(s, <<"registerTrail", 0>>, ready)

submit_checkpoint(s, n, ready) == Begin(s, <<"submit", n>>, ready)

\* `registry publish`: a fingerprint this build holds field names for.
registry_publish(s, known) == Begin(s, <<"register", 0>>, known)

\* `bond deposit`: an amount that is positive.
bond_deposit(s, positive) == Begin(s, <<"deposit", 0>>, positive)

\* submit_fraud_proof checks the pair itself before it asks anybody.
validate(proof) == proof = "fraud"

\* `bond prove`: a file that parses as one of the two proofs.
bond_prove(s, proof) ==
    Begin(s, <<"prove", 0>>, proof # "malformed" /\ validate(proof))

\* Chain id, pending nonce, fees and the gas estimate: the estimate runs the
\* call on the latest block and a revert there ends it before anything is sent.
Quote(s) ==
    /\ job[s].pc = "quote"
    /\ IF Reverts(Len(chain), job[s].op)
       THEN Refuse(s, job[s].op)
       ELSE /\ \E n \in 0 .. MaxCalls :
                  /\ ~Taken(n) /\ \A k \in 0 .. n - 1 : Taken(k)
                  /\ job' = [job EXCEPT ![s].pc = "broadcast", ![s].nonce = n]
            /\ UNCHANGED ended
    /\ UNCHANGED <<evm, rd>>

\* The external signer does not run, fails, or prints no transaction.
SignerFails(s) ==
    /\ job[s].pc = "broadcast"
    /\ Refuse(s, job[s].op)
    /\ UNCHANGED <<evm, rd>>

\* The node refuses a nonce that is taken; its answer may be lost either way.
Broadcast(s) ==
    /\ job[s].pc = "broadcast"
    /\ IF Taken(job[s].nonce)
       THEN End(s, "unreachable") /\ UNCHANGED pool
       ELSE /\ pool' = pool \cup {[op |-> job[s].op, nonce |-> job[s].nonce]}
            /\ \/ job' = [job EXCEPT ![s].pc = "receipt"] /\ UNCHANGED ended
               \/ End(s, "unreachable")
    /\ UNCHANGED <<now, chain, final, reorged, reorgs, rd>>

\* Mutant: a poll that never resolves reads as the node refusing the call.
Unresolved_refused(s) ==
    IF job[s].polls + 1 < MaxPolls
    THEN job' = [job EXCEPT ![s].polls = @ + 1] /\ UNCHANGED ended
    ELSE End(s, "refused")

\* _poll: ask again, or give up.
Unresolved(s) ==
    IF job[s].polls + 1 < MaxPolls
    THEN job' = [job EXCEPT ![s].polls = @ + 1] /\ UNCHANGED ended
    ELSE End(s, "unreachable")

At(t) == {i \in DOMAIN chain : chain[i].nonce = t.nonce /\ chain[i].op = t.op}

\* _receipt: the transaction in a block, or nothing yet.
PollReceipt(s) ==
    /\ job[s].pc = "receipt"
    /\ LET mined == At(job[s])
       IN  \/ mined = {} /\ Unresolved(s)
           \/ \E i \in mined : ~chain[i].ok /\ End(s, "refused")
           \/ \E i \in mined : /\ chain[i].ok
                               /\ job' = [job EXCEPT ![s].pc = "confirm", ![s].block = i,
                                                     ![s].polls = 0]
                               /\ UNCHANGED ended
    /\ UNCHANGED <<evm, rd>>

\* _confirmed: whether the finalized block has reached that height; the
\* transaction is not looked up again.
confirmed(block) == final >= block

PollConfirm(s) ==
    /\ job[s].pc = "confirm"
    /\ IF confirmed(job[s].block) THEN End(s, "receipt") ELSE Unresolved(s)
    /\ UNCHANGED <<evm, rd>>

\* The node does not answer: at any round trip, polls included.
Silent(s) ==
    /\ job[s].pc # "idle"
    /\ End(s, "unreachable")
    /\ UNCHANGED <<evm, rd>>

-----------------------------------------------------------------------------
(* EvmLedgerReader: every question is put to every node.                   *)

\* What the contracts answer at height k; a trail that never anchored
\* reverts, which is an answer too.
latest_checkpoint(k) ==
    IF Ran(k, "submit") = {} THEN <<>>
    ELSE LET i == Max(Ran(k, "submit")) IN <<chain[i].op[2], chain[i].time>>

deadline_s(k) == IF Ran(k, "registerTrail") = {} THEN 0 ELSE Deadline

registry_lookup(k) == IF Ran(k, "register") = {} THEN "" ELSE "descriptor"

bond_of(k) == [amount |-> IF Slashed(k) THEN 0 ELSE Cardinality(Ran(k, "deposit")),
               slashed |-> Slashed(k)]

Answer(q, k) ==
    CASE q = "lastSeen"   -> latest_checkpoint(k)
      [] q = "deadlineOf" -> deadline_s(k)
      [] q = "lookup"     -> registry_lookup(k)
      [] q = "bondOf"     -> bond_of(k)

\* What a lying node may say instead; -1 is no time at all.
Lies(q) ==
    CASE q = "lastSeen"   -> {<<>>} \cup (SeqNos \X {-1, now})
      [] q = "deadlineOf" -> {0, Deadline}
      [] q = "lookup"     -> {"", "other"}
      [] q = "bondOf"     -> {[amount |-> 0, slashed |-> TRUE], [amount |-> 1, slashed |-> FALSE]}

\* The head and its deadline, then what --registry or --bond adds.
Questions == {<<"lastSeen", "deadlineOf">> \o rest :
                 rest \in {<< >>, <<"lookup">>, <<"bondOf">>}}

\* The answers worth having: at one of the heights the node may be at, or a
\* lie.
Answers(u, q) ==
    {Answer(q, k) : k \in (IF final > MaxLag THEN final - MaxLag ELSE 0) .. final}
    \cup (IF u \in Liars THEN Lies(q) ELSE {})

\* The block time takes no part.
checkpoints_agree(a, b) ==
    IF a # <<>> /\ b # <<>> THEN a[1] = b[1] ELSE a = b

Same(q, a, b) == IF q = "lastSeen" THEN checkpoints_agree(a, b) ELSE a = b

\* Mutant: one endpoint's word is taken.
MinEndpoints_one == 1

\* MIN_ENDPOINTS
MinEndpoints == 2

\* _agree: a conflict outranks silence, and the first answer is the one kept.
agree(q, answers) ==
    IF \E i, j \in DOMAIN answers : ~Same(q, answers[i].value, answers[j].value)
    THEN [how |-> "disagreement"]
    ELSE IF Len(answers) < MinEndpoints THEN [how |-> "unreachable"]
    ELSE [how |-> "agreed", url |-> answers[1].url, value |-> answers[1].value]

Unasked == [how |-> "unasked"]

NoRead == [ask |-> << >>, q |-> 0, url |-> 1, got |-> << >>, now |-> 0, final |-> 0, n |-> 0,
           res |-> [k \in {"lastSeen", "deadlineOf", "lookup", "bondOf"} |-> Unasked]]

StartRead(ask) ==
    /\ rd.q = 0 /\ rd.n < MaxReads
    /\ rd' = [NoRead EXCEPT !.ask = ask, !.q = 1, !.now = now, !.final = final, !.n = rd.n + 1]
    /\ UNCHANGED <<evm, job, ended>>

\* One node is asked: it answers, is silent, or its answer is not one this
\* build can read, which counts as silence.
Ask ==
    /\ rd.q # 0 /\ rd.url <= Url
    /\ \/ rd' = [rd EXCEPT !.url = @ + 1]
       \/ \E v \in Answers(rd.url, rd.ask[rd.q]) :
             rd' = [rd EXCEPT !.url = @ + 1, !.got = Append(@, [url |-> rd.url, value |-> v])]
    /\ UNCHANGED <<evm, job, ended>>

\* All have been asked.  A head that could not be read spares the question
\* for its deadline.
Settle ==
    /\ rd.q # 0 /\ rd.url > Url
    /\ LET q    == rd.ask[rd.q]
           r    == agree(q, rd.got)
           skip == IF q = "lastSeen" /\ r.how # "agreed" THEN 2 ELSE 1
           next == IF rd.q + skip > Len(rd.ask) THEN 0 ELSE rd.q + skip
       IN  rd' = [rd EXCEPT !.q = next, !.url = 1, !.got = << >>, !.res[q] = r]
    /\ UNCHANGED <<evm, job, ended>>

-----------------------------------------------------------------------------
(* What a finished read concludes.                                         *)

\* Mutant: a trail that never anchored is taken to be live.
delinquency_lenient(head, deadline, at) ==
    IF deadline = 0 THEN "unreachable"
    ELSE IF head = <<>> THEN "live"
    ELSE IF head[2] = -1 THEN "unreachable"
    ELSE IF at - head[2] > deadline THEN "delinquent" ELSE "live"

\* domain/liveness.delinquency; a deadline of 0 is no deadline.
delinquency(head, deadline, at) ==
    IF deadline = 0 THEN "unreachable"
    ELSE IF head = <<>> THEN "delinquent"
    ELSE IF head[2] = -1 THEN "unreachable"
    ELSE IF at - head[2] > deadline THEN "delinquent" ELSE "live"

\* reader.liveness, with the disagreement it lets through.
liveness(r) ==
    LET hows == {r.res["lastSeen"].how, r.res["deadlineOf"].how}
    IN  IF "disagreement" \in hows THEN "disagreement"
        ELSE IF "unreachable" \in hows THEN "unreachable"
        ELSE delinquency(r.res["lastSeen"].value, r.res["deadlineOf"].value, r.now)

\* _LEDGER_STATUS and, for `verify`, _VERIFY_STATUS; a disagreement is
\* unverifiable to both.
to_verdict(status) ==
    IF status = "live" THEN "ok" ELSE IF status = "delinquent" THEN "broken" ELSE "unverifiable"

to_verify_verdict(status) == IF status = "live" THEN "ok" ELSE "unverifiable"

\* RegistryCrossCheck.check: only the descriptor that hashes to the
\* fingerprint agrees.
registry_check(descriptor) ==
    CASE descriptor = "" -> "absent"
      [] descriptor = "descriptor" -> "agrees"
      [] OTHER -> "disagrees"

registry_agreement(r) == IF r.how = "agreed" THEN registry_check(r.value) ELSE r.how

registry_verdict(status) == IF status \in {"agrees", "unasked"} THEN "ok" ELSE "unverifiable"

bond_status_for(b) ==
    IF b.slashed THEN "slashed" ELSE IF b.amount <= 0 THEN "unbonded" ELSE "bonded"

bond(r) == IF r.how = "agreed" THEN bond_status_for(r.value) ELSE r.how

bond_verdict(status) ==
    CASE status \in {"bonded", "unasked"} -> "ok"
      [] status \in {"slashed", "unbonded"} -> "broken"
      [] OTHER -> "unverifiable"

\* `ledger-status`: every dimension asked for.
ledger_status(r) == Combine({to_verdict(liveness(r)),
                             registry_verdict(registry_agreement(r.res["lookup"])),
                             bond_verdict(bond(r.res["bondOf"]))})

\* The dimension `verify` folds in.
ledger_check(r) == Combine({to_verify_verdict(liveness(r)),
                            registry_verdict(registry_agreement(r.res["lookup"]))})

-----------------------------------------------------------------------------
(* The contracts are deployed, and what their operator has already sent is *)
(* final.                                                                  *)
Setup(f) == [op |-> <<f, 0>>, nonce |-> -1, time |-> 0, ok |-> TRUE]

Init ==
    /\ now = 0
    /\ chain \in {<< >>, <<Setup("registerTrail"), Setup("register"), Setup("deposit")>>}
    /\ final = Len(chain)
    /\ pool = {} /\ reorged = {} /\ reorgs = 0
    /\ job = [s \in Sink |-> Idle] /\ ended = {}
    /\ rd = NoRead

SinkStep(s) ==
    \/ \E fit \in BOOLEAN :
          \/ register_trail(s, fit) \/ registry_publish(s, fit) \/ bond_deposit(s, fit)
          \/ \E n \in SeqNos : submit_checkpoint(s, n, fit)
    \/ \E proof \in {"malformed", "no_fraud", "fraud"} : bond_prove(s, proof)
    \/ Quote(s) \/ SignerFails(s) \/ Broadcast(s) \/ PollReceipt(s) \/ PollConfirm(s) \/ Silent(s)

Next ==
    \/ Mine \/ Finalize \/ Reorg \/ Evict
    \/ \E s \in Sink : SinkStep(s)
    \/ (\E ask \in Questions : StartRead(ask)) \/ Ask \/ Settle

Spec == Init /\ [][Next]_vars

-----------------------------------------------------------------------------
(* Properties.                                                             *)

Done == rd.q = 0 /\ rd.n > 0

\* With one lying node at most, whatever EvmLedgerReader._agree lets through
\* is what the contract held at some finalized height, block times aside.
AgreedIsOnChain ==
    Done => \A q \in Range(rd.ask) :
        rd.res[q].how = "agreed" =>
            \E k \in 0 .. final : Same(q, rd.res[q].value, Answer(q, k))

\* A submit recorded in time, in blocks every node had when the read began.
Fresh(k) == \E i \in Ran(k, "submit") : rd.now - chain[i].time <= Deadline

Reached == IF rd.final > MaxLag THEN rd.final - MaxLag ELSE 0

\* `ledger-status` (cli/ledger.py) accuses nobody for a slow, silent or lying
\* node: exit 1 means that the bond was missing or slashed, or that no head
\* every node could see was recorded in time; exit 0 means one was.  The
\* block time is the first answering node's word, so that node is honest.
ExitCodesAreEarned ==
    Done /\ rd.res["lastSeen"].how = "agreed" /\ rd.res["lastSeen"].url \notin Liars =>
        /\ ledger_status(rd) = "broken" =>
             \/ \E k \in Reached .. final : Answer("bondOf", k).amount = 0
             \/ ~Fresh(Reached)
        /\ "ok" \in {ledger_status(rd), ledger_check(rd)} => Fresh(final)

\* What is read of the ledger is what the chain held, and what is said about a
\* writer follows from it.
ReadsAreEarned == AgreedIsOnChain /\ ExitCodesAreEarned

\* The two ways a sink's call ends for certain are certain, as long as no
\* reorg has undone its transaction: a receipt is for a call that took effect
\* in a finalized block, and after a refusal the call takes no effect.
OutcomesHold ==
    \A e \in ended : [op |-> e.op, nonce |-> e.nonce] \notin reorged =>
        /\ e.how = "receipt" => e.block <= final /\ e.block \in At(e) /\ chain[e.block].ok
        /\ e.how = "refused" /\ e.nonce # -1 => \A i \in At(e) : ~chain[i].ok

==============================================================================
