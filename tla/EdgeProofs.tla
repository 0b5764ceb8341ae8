----------------------------- MODULE EdgeProofs ------------------------------
(***************************************************************************)
(* Proofs about what crosses the edges of the system: the EVM sinks and    *)
(* readers, for any number of sinks, nodes, calls, polls, lags and reorgs; *)
(* the ingest runs, for any runners, pages, prunes and faults; and the     *)
(* agent hooks, for any hosts, events, rotations and failures.             *)
(***************************************************************************)
EXTENDS EvmClient, Ingest, Hooks,
        FiniteSetTheorems, SequenceTheorems, WellFoundedInduction, TLAPS

\* A set of naturals has a least element, and a bounded one a greatest.
LEMMA LeastNat ==
  ASSUME NEW T \in SUBSET Nat, T # {}
  PROVE  \E x \in T : \A y \in T : x <= y
<1> DEFINE R == OpToRel(<, Nat)
<1>1. IsWellFoundedOn(R, Nat)
  BY NatLessThanWellFounded
<1>2. PICK x \in T : \A y \in T : ~(<<y, x>> \in R)
  BY <1>1, WFMin
<1>3. \A y \in T : ~(y < x)
  BY <1>2 DEF OpToRel
<1> QED
  BY <1>3

LEMMA GreatestNat ==
  ASSUME NEW T \in SUBSET Nat, T # {}, NEW n \in Nat, \A t \in T : t <= n
  PROVE  \E x \in T : \A y \in T : y <= x
<1> DEFINE U == {u \in Nat : \E t \in T : t = n - u}
<1>1. \A t \in T : t \in Nat /\ n - t \in Nat /\ t = n - (n - t)
  OBVIOUS
<1>2. U \in SUBSET Nat /\ U # {}
  BY <1>1
<1>3. PICK u \in U : \A v \in U : u <= v
  BY <1>2, LeastNat
<1>4. PICK x \in T : x = n - u
  BY <1>3
<1>5. ASSUME NEW y \in T PROVE y <= x
  <2>1. y \in Nat /\ n - y \in U
    BY <1>1
  <2>2. u <= n - y
    BY <2>1, <1>3
  <2> QED
    BY <2>1, <2>2, <1>3, <1>4
<1> QED
  BY <1>5

\* What Min and Max return.
LEMMA MinIsLeast ==
  ASSUME NEW T \in SUBSET Nat, T # {}
  PROVE  Min(T) \in T /\ \A y \in T : Min(T) <= y
BY LeastNat DEF Min

LEMMA MaxIsGreatest ==
  ASSUME NEW T \in SUBSET Nat, T # {}, NEW n \in Nat, \A t \in T : t <= n
  PROVE  Max(T) \in T /\ \A y \in T : y <= Max(T)
<1>1. \E x \in T : \A y \in T : x >= y
  <2>1. PICK x \in T : \A y \in T : y <= x
    BY GreatestNat
  <2> QED
    BY <2>1
<1>2. Max(T) \in T /\ \A y \in T : Max(T) >= y
  BY <1>1 DEF Max
<1> QED
  BY <1>2

-----------------------------------------------------------------------------
(* The inductive invariant of EvmClient.                                   *)

Calls == {"none", "registerTrail", "submit", "register", "deposit", "prove"} \X Nat
Blocks == [op : Calls, nonce : Nat \cup {-1}, time : Nat, ok : BOOLEAN]
Transactions == [op : Calls, nonce : Nat]
Jobs == [pc : {"idle", "quote", "broadcast", "receipt", "confirm"}, op : Calls,
         nonce : Int, polls : Nat, block : Nat]
Question == {"lastSeen", "deadlineOf", "lookup", "bondOf"}

EvmShape ==
    /\ now \in Nat /\ chain \in Seq(Blocks) /\ final \in 0 .. Len(chain)
    /\ pool \subseteq Transactions /\ job \in [Sink -> Jobs]

\* A nonce is used once, by what is mined and what is pending together.
NoncesHold ==
    /\ \A i, k \in DOMAIN chain : chain[i].nonce = chain[k].nonce /\ chain[i].nonce # -1 => i = k
    /\ \A t \in pool : \A i \in DOMAIN chain : chain[i].nonce # t.nonce
    /\ \A t, u \in pool : t.nonce = u.nonce => t = u

\* Blocks are mined in the order of time.
TimesHold ==
    /\ \A i \in DOMAIN chain : chain[i].time <= now
    /\ \A i, k \in DOMAIN chain : i < k => chain[i].time <= chain[k].time

TxOf(j) == [op |-> j.op, nonce |-> j.nonce]

\* A job that has seen its transaction in a block, and a call that has ended,
\* know the truth about it as long as no reorg has undone it.
JobHolds(j) ==
    /\ j.pc \in {"broadcast", "receipt", "confirm"} => j.nonce \in Nat
    /\ j.pc = "confirm" /\ TxOf(j) \notin reorged => j.block \in At(j) /\ chain[j.block].ok

EndedHolds(e) ==
    TxOf(e) \notin reorged =>
        /\ e.how = "receipt" => e.block <= final /\ e.block \in At(e) /\ chain[e.block].ok
        /\ e.how = "refused" /\ e.nonce # -1 => \E i \in At(e) : ~chain[i].ok

SinksHold == (\A s \in Sink : JobHolds(job[s])) /\ (\A e \in ended : EndedHolds(e))

SinkInv == EvmShape /\ NoncesHold /\ TimesHold /\ SinksHold

\* Where a read stands in its questions.
Asking ==
    /\ rd = [ask |-> rd.ask, q |-> rd.q, url |-> rd.url, got |-> rd.got, now |-> rd.now,
             final |-> rd.final, n |-> rd.n, res |-> rd.res]
    /\ DOMAIN rd.res = Question
    /\ rd.n \in Nat /\ rd.q \in 0 .. 3 /\ rd.url \in 1 .. Url + 1
    /\ rd.final \in 0 .. final /\ rd.now \in Nat
    /\ rd.n > 0 => rd.ask \in Questions
    /\ rd.q # 0 => rd.n > 0 /\ rd.q <= Len(rd.ask)
    /\ rd.n > 0 /\ rd.q \notin {1, 2} /\ rd.res["lastSeen"].how = "agreed" =>
         rd.res["deadlineOf"].how # "unasked"

\* A node's answer: an honest one's is what the contract held at a height
\* every node had when the read began, or a later one.
Honest(q, a) == a.url \notin Liars => \E k \in Reached .. final : a.value = Answer(q, k)

\* The answers so far, one of each node at most.
GotHolds ==
    rd.q # 0 =>
        /\ rd.got \in Seq({rd.got[i] : i \in DOMAIN rd.got})
        /\ \A i \in DOMAIN rd.got :
             rd.got[i].url \in 1 .. rd.url - 1 /\ Honest(rd.ask[rd.q], rd.got[i])
        /\ \A i, k \in DOMAIN rd.got : i < k => rd.got[i].url < rd.got[k].url

\* What was agreed is what the contract held at such a height.
ResultHolds(q, r) ==
    /\ r.how \in {"unasked", "disagreement", "unreachable", "agreed"}
    /\ r.how = "agreed" =>
         /\ \E k \in Reached .. final : Same(q, r.value, Answer(q, k))
         /\ Honest(q, r)

ReadHolds == GotHolds /\ \A q \in Question : ResultHolds(q, rd.res[q])

ReadInv == SinkInv /\ Asking /\ ReadHolds

LEMMA IdleTypes == Idle \in Jobs /\ Idle.pc = "idle" /\ JobHolds(Idle)
BY DEF Idle, Jobs, Calls, JobHolds

LEMMA SinkInitHolds == Init => SinkInv
<1> SUFFICES ASSUME Init PROVE SinkInv
  OBVIOUS
<1> DEFINE deployed == <<Setup("registerTrail"), Setup("register"), Setup("deposit")>>
<1>1. \A f \in {"registerTrail", "register", "deposit"} :
         /\ Setup(f) \in Blocks /\ Setup(f).nonce = -1 /\ Setup(f).time = 0
  BY DEF Setup, Blocks, Calls
<1>2. deployed \in Seq(Blocks) /\ \A i \in DOMAIN deployed : deployed[i].nonce = -1 /\ deployed[i].time = 0
  BY <1>1
<1>3. chain \in Seq(Blocks) /\ \A i \in DOMAIN chain : chain[i].nonce = -1 /\ chain[i].time = 0
  <2>1. CASE chain = << >>
    BY <2>1
  <2>2. CASE chain = deployed
    BY <1>2, <2>2
  <2> QED
    BY <2>1, <2>2 DEF Init
<1>4. final \in 0 .. Len(chain) /\ pool = {} /\ now = 0 /\ ended = {} /\ job = [s \in Sink |-> Idle]
  BY <1>3 DEF Init
<1>5. EvmShape
  BY <1>3, <1>4, IdleTypes DEF EvmShape
<1>6. NoncesHold /\ TimesHold
  BY <1>3, <1>4 DEF NoncesHold, TimesHold
<1>7. SinksHold
  BY <1>4, IdleTypes DEF SinksHold
<1> QED
  BY <1>5, <1>6, <1>7 DEF SinkInv

\* A step of one sink: the chain stays.
LEMMA SinkStepKeeps ==
  ASSUME SinkInv, NEW s \in Sink, NEW j \in Jobs, job' = [job EXCEPT ![s] = j],
         UNCHANGED <<now, chain, final, reorged>>,
         pool' \subseteq Transactions, NoncesHold',
         JobHolds(j), \A e \in ended' : e \in ended \/ EndedHolds(e)
  PROVE  SinkInv'
<1>1. EvmShape' /\ TimesHold'
  BY DEF SinkInv, EvmShape, TimesHold
<1>2. ASSUME NEW q \in Sink PROVE JobHolds(job[q])'
  <2>1. JobHolds(job'[q])
    BY DEF SinkInv, EvmShape, SinksHold
  <2> QED
    BY <2>1 DEF JobHolds, At
<1>3. ASSUME NEW e \in ended' PROVE EndedHolds(e)'
  <2>1. EndedHolds(e)
    BY <1>3 DEF SinkInv, SinksHold
  <2> QED
    BY <2>1 DEF EndedHolds, At
<1> QED
  BY <1>1, <1>2, <1>3 DEF SinkInv, SinksHold

\* A call that ends without a word about its transaction, or before it has one.
LEMMA EndsUncertain ==
  ASSUME SinkInv, NEW s \in Sink, UNCHANGED <<now, chain, final, reorged>>,
         pool' \subseteq Transactions, NoncesHold',
         NEW op, Refuse(s, op) \/ End(s, "unreachable")
  PROVE  SinkInv'
<1>1. job' = [job EXCEPT ![s] = Idle]
  BY DEF Refuse, End
<1>2. \A e \in ended' : e \in ended \/ EndedHolds(e)
  <2>1. CASE Refuse(s, op)
    <3>1. PICK e : e = [op |-> op, nonce |-> -1, block |-> 0, how |-> "refused"]
      OBVIOUS
    <3>2. EndedHolds(e)
      BY <3>1 DEF EndedHolds
    <3> QED
      BY <2>1, <3>1, <3>2 DEF Refuse
  <2>2. CASE End(s, "unreachable")
    <3>1. PICK e : e = [op |-> job[s].op, nonce |-> job[s].nonce, block |-> job[s].block,
                        how |-> "unreachable"]
      OBVIOUS
    <3>2. EndedHolds(e)
      BY <3>1 DEF EndedHolds
    <3> QED
      BY <2>2, <3>1, <3>2 DEF End
  <2> QED
    BY <2>1, <2>2
<1> QED
  BY <1>1, <1>2, IdleTypes, SinkStepKeeps

LEMMA SamePool ==
  ASSUME SinkInv, UNCHANGED <<chain, pool>>
  PROVE  pool' \subseteq Transactions /\ NoncesHold'
BY DEF SinkInv, EvmShape, NoncesHold

LEMMA BeginKeeps ==
  ASSUME SinkInv, NEW s \in Sink, NEW op \in Calls, NEW ready \in BOOLEAN, Begin(s, op, ready)
  PROVE  SinkInv'
<1>1. UNCHANGED <<now, chain, final, pool, reorged>>
  BY DEF Begin, evm
<1>2. CASE ready
  <2>1. PICK j : j = [Idle EXCEPT !.pc = "quote", !.op = op]
    OBVIOUS
  <2>2. job' = [job EXCEPT ![s] = j] /\ ended' = ended
    BY <1>2, <2>1 DEF Begin
  <2>3. j \in Jobs /\ j.pc = "quote"
    BY <2>1, IdleTypes DEF Jobs
  <2>4. JobHolds(j)
    BY <2>3 DEF JobHolds
  <2> QED
    BY <1>1, <2>2, <2>3, <2>4, SamePool, SinkStepKeeps
<1>3. CASE ~ready
  BY <1>1, <1>3, SamePool, EndsUncertain DEF Begin
<1> QED
  BY <1>2, <1>3

LEMMA QuoteKeeps ==
  ASSUME SinkInv, NEW s \in Sink, Quote(s)
  PROVE  SinkInv'
<1>1. UNCHANGED <<now, chain, final, pool, reorged>>
  BY DEF Quote, evm
<1>2. job[s] \in Jobs
  BY DEF SinkInv, EvmShape
<1>3. CASE Reverts(Len(chain), job[s].op)
  BY <1>1, <1>3, SamePool, EndsUncertain DEF Quote
<1>4. CASE ~Reverts(Len(chain), job[s].op)
  <2>1. PICK n \in 0 .. MaxCalls : job' = [job EXCEPT ![s].pc = "broadcast", ![s].nonce = n]
    BY <1>4 DEF Quote
  <2>2. PICK j : j = [job[s] EXCEPT !.pc = "broadcast", !.nonce = n]
    OBVIOUS
  <2>3. job' = [job EXCEPT ![s] = j] /\ ended' = ended
    BY <1>4, <2>1, <2>2 DEF Quote, SinkInv, EvmShape
  <2>4. n \in Nat /\ n \in Int
    BY <2>1, EvmClientAssumption
  <2>5. j \in Jobs /\ j.pc = "broadcast" /\ j.nonce = n
    BY <1>2, <2>2, <2>4 DEF Jobs
  <2>6. JobHolds(j)
    BY <2>4, <2>5 DEF JobHolds
  <2> QED
    BY <1>1, <2>3, <2>5, <2>6, SamePool, SinkStepKeeps
<1> QED
  BY <1>3, <1>4

LEMMA BroadcastKeeps ==
  ASSUME SinkInv, NEW s \in Sink, Broadcast(s)
  PROVE  SinkInv'
<1>1. job[s].pc = "broadcast" /\ UNCHANGED <<now, chain, final, reorged>>
  BY DEF Broadcast
<1>2. job[s] \in Jobs /\ JobHolds(job[s])
  BY DEF SinkInv, EvmShape, SinksHold
<1>3. CASE Taken(job[s].nonce)
  BY <1>1, <1>3, SamePool, EndsUncertain DEF Broadcast
<1>4. CASE ~Taken(job[s].nonce)
  <2>1. PICK t : t = [op |-> job[s].op, nonce |-> job[s].nonce]
    OBVIOUS
  <2>2. t \in Transactions /\ t.nonce = job[s].nonce
    BY <1>1, <1>2, <2>1 DEF Jobs, JobHolds, Transactions
  <2>3. pool' = pool \cup {t}
    BY <1>4, <2>1 DEF Broadcast
  <2>4. pool' \subseteq Transactions
    BY <2>2, <2>3 DEF SinkInv, EvmShape
  <2>5. NoncesHold'
    BY <1>1, <1>4, <2>2, <2>3 DEF SinkInv, NoncesHold, Taken
  <2>6. CASE End(s, "unreachable")
    BY <1>1, <2>4, <2>5, <2>6, EndsUncertain
  <2>7. CASE job' = [job EXCEPT ![s].pc = "receipt"] /\ UNCHANGED ended
    <3>1. PICK j : j = [job[s] EXCEPT !.pc = "receipt"]
      OBVIOUS
    <3>2. job' = [job EXCEPT ![s] = j]
      BY <2>7, <3>1
    <3>3. j \in Jobs /\ j.pc = "receipt" /\ j.nonce = job[s].nonce
      BY <1>2, <3>1 DEF Jobs
    <3>4. JobHolds(j)
      BY <1>1, <1>2, <3>3 DEF JobHolds
    <3> QED
      BY <1>1, <2>4, <2>5, <2>7, <3>2, <3>3, <3>4, SinkStepKeeps
  <2> QED
    BY <1>4, <2>6, <2>7 DEF Broadcast
<1> QED
  BY <1>3, <1>4

LEMMA UnresolvedKeeps ==
  ASSUME SinkInv, NEW s \in Sink, Unresolved(s), UNCHANGED <<now, chain, final, pool, reorged>>
  PROVE  SinkInv'
<1>1. job[s] \in Jobs /\ JobHolds(job[s])
  BY DEF SinkInv, EvmShape, SinksHold
<1>2. CASE job[s].polls + 1 < MaxPolls
  <2>1. PICK j : j = [job[s] EXCEPT !.polls = job[s].polls + 1]
    OBVIOUS
  <2>2. job' = [job EXCEPT ![s] = j] /\ ended' = ended
    BY <1>2, <2>1 DEF Unresolved
  <2>3. /\ j \in Jobs /\ j.pc = job[s].pc /\ j.nonce = job[s].nonce /\ j.op = job[s].op
        /\ j.block = job[s].block
    BY <1>1, <2>1 DEF Jobs
  <2>4. JobHolds(j)
    BY <1>1, <2>3 DEF JobHolds, TxOf, At
  <2> QED
    BY <2>2, <2>3, <2>4, SamePool, SinkStepKeeps
<1>3. CASE ~(job[s].polls + 1 < MaxPolls)
  BY <1>3, SamePool, EndsUncertain DEF Unresolved
<1> QED
  BY <1>2, <1>3

LEMMA PollReceiptKeeps ==
  ASSUME SinkInv, NEW s \in Sink, PollReceipt(s)
  PROVE  SinkInv'
<1>1. job[s].pc = "receipt" /\ UNCHANGED <<now, chain, final, pool, reorged>>
  BY DEF PollReceipt, evm
<1>2. job[s] \in Jobs /\ JobHolds(job[s]) /\ chain \in Seq(Blocks)
  BY DEF SinkInv, EvmShape, SinksHold
<1>3. CASE Unresolved(s)
  BY <1>1, <1>3, UnresolvedKeeps
<1>4. ASSUME NEW i \in At(job[s]), ~chain[i].ok, End(s, "refused") PROVE SinkInv'
  <2>1. PICK e : e = [op |-> job[s].op, nonce |-> job[s].nonce, block |-> job[s].block, how |-> "refused"]
    OBVIOUS
  <2>2. i \in At(e) /\ ~chain[i].ok /\ e.how = "refused"
    BY <1>4, <2>1 DEF At
  <2>3. EndedHolds(e)
    BY <2>2 DEF EndedHolds
  <2>4. job' = [job EXCEPT ![s] = Idle] /\ ended' = ended \cup {e}
    BY <1>4, <2>1 DEF End
  <2> QED
    BY <1>1, <2>3, <2>4, IdleTypes, SamePool, SinkStepKeeps
<1>5. ASSUME NEW i \in At(job[s]), chain[i].ok,
             job' = [job EXCEPT ![s].pc = "confirm", ![s].block = i, ![s].polls = 0],
             UNCHANGED ended
      PROVE  SinkInv'
  <2>1. PICK j : j = [job[s] EXCEPT !.pc = "confirm", !.block = i, !.polls = 0]
    OBVIOUS
  <2>2. job' = [job EXCEPT ![s] = j]
    BY <1>5, <2>1 DEF SinkInv, EvmShape
  <2>3. i \in Nat
    BY <1>2, <1>5 DEF At
  <2>4. /\ j \in Jobs /\ j.pc = "confirm" /\ j.nonce = job[s].nonce /\ j.op = job[s].op
        /\ j.block = i
    BY <1>2, <2>1, <2>3 DEF Jobs
  <2>5. JobHolds(j)
    BY <1>1, <1>2, <1>5, <2>4 DEF JobHolds, At
  <2> QED
    BY <1>1, <1>5, <2>2, <2>4, <2>5, SamePool, SinkStepKeeps
<1> QED
  BY <1>3, <1>4, <1>5 DEF PollReceipt

LEMMA PollConfirmKeeps ==
  ASSUME SinkInv, NEW s \in Sink, PollConfirm(s)
  PROVE  SinkInv'
<1>1. job[s].pc = "confirm" /\ UNCHANGED <<now, chain, final, pool, reorged>>
  BY DEF PollConfirm, evm
<1>2. job[s] \in Jobs /\ JobHolds(job[s]) /\ final \in Nat
  BY DEF SinkInv, EvmShape, SinksHold
<1>3. CASE confirmed(job[s].block)
  <2>1. PICK e : e = [op |-> job[s].op, nonce |-> job[s].nonce, block |-> job[s].block, how |-> "receipt"]
    OBVIOUS
  <2>2. e.block <= final
    BY <1>2, <1>3, <2>1 DEF confirmed, Jobs
  <2>3. TxOf(e) = TxOf(job[s]) /\ At(e) = At(job[s]) /\ e.block = job[s].block /\ e.how = "receipt"
    BY <2>1 DEF TxOf, At
  <2>4. EndedHolds(e)
    BY <1>1, <1>2, <2>2, <2>3 DEF JobHolds, EndedHolds
  <2>5. job' = [job EXCEPT ![s] = Idle] /\ ended' = ended \cup {e}
    BY <1>3, <2>1 DEF PollConfirm, End
  <2> QED
    BY <1>1, <2>4, <2>5, IdleTypes, SamePool, SinkStepKeeps
<1>4. CASE ~confirmed(job[s].block)
  BY <1>1, <1>4, UnresolvedKeeps DEF PollConfirm
<1> QED
  BY <1>3, <1>4

LEMMA SinkStepsKeep ==
  ASSUME SinkInv, NEW s \in Sink, SinkStep(s)
  PROVE  SinkInv'
<1>1. ASSUME NEW f \in {"registerTrail", "submit", "register", "deposit", "prove"}, NEW n \in Nat,
             NEW ready \in BOOLEAN, Begin(s, <<f, n>>, ready)
      PROVE  SinkInv'
  <2>1. PICK op : op = <<f, n>>
    OBVIOUS
  <2>2. op \in Calls /\ Begin(s, op, ready)
    BY <1>1, <2>1 DEF Calls
  <2> QED
    BY <2>2, BeginKeeps
<1>2. ASSUME NEW fit \in BOOLEAN, register_trail(s, fit) PROVE SinkInv'
  BY <1>1, <1>2 DEF register_trail
<1>3. ASSUME NEW fit \in BOOLEAN, registry_publish(s, fit) PROVE SinkInv'
  BY <1>1, <1>3 DEF registry_publish
<1>4. ASSUME NEW fit \in BOOLEAN, bond_deposit(s, fit) PROVE SinkInv'
  BY <1>1, <1>4 DEF bond_deposit
<1>5. ASSUME NEW fit \in BOOLEAN, NEW n \in SeqNos, submit_checkpoint(s, n, fit) PROVE SinkInv'
  <2>1. n \in Nat
    BY EvmClientAssumption
  <2> QED
    BY <1>1, <1>5, <2>1 DEF submit_checkpoint
<1>6. ASSUME NEW proof, bond_prove(s, proof) PROVE SinkInv'
  <2>1. PICK fit \in BOOLEAN : fit = (proof # "malformed" /\ validate(proof))
    OBVIOUS
  <2>2. Begin(s, <<"prove", 0>>, fit)
    BY <1>6, <2>1 DEF bond_prove
  <2> QED
    BY <1>1, <2>2
<1>7. CASE SignerFails(s)
  BY <1>7, SamePool, EndsUncertain DEF SignerFails, evm
<1>8. CASE Silent(s)
  BY <1>8, SamePool, EndsUncertain DEF Silent, evm
<1> QED
  BY <1>2, <1>3, <1>4, <1>5, <1>6, <1>7, <1>8, QuoteKeeps, BroadcastKeeps, PollReceiptKeeps,
     PollConfirmKeeps DEF SinkStep

-----------------------------------------------------------------------------
(* The chain's own steps.                                                  *)

\* What a longer chain keeps of a shorter one.
LEMMA LongerChainKeeps ==
  ASSUME SinkInv, UNCHANGED <<job, ended, reorged>>,
         DOMAIN chain \subseteq DOMAIN chain',
         \A i \in DOMAIN chain : chain'[i] = chain[i],
         final' \in Nat, final <= final'
  PROVE  SinksHold'
<1>1. \A t : At(t) \subseteq At(t)' /\ \A i \in At(t) : chain'[i] = chain[i]
  BY DEF At
<1>2. ASSUME NEW s \in Sink PROVE JobHolds(job[s])'
  <2>1. JobHolds(job[s])
    BY DEF SinkInv, SinksHold
  <2> QED
    BY <1>1, <2>1 DEF JobHolds
<1>3. ASSUME NEW e \in ended' PROVE EndedHolds(e)'
  <2>1. EndedHolds(e) /\ final \in Nat /\ \A i \in At(e) : i \in Nat
    BY <1>3 DEF SinkInv, EvmShape, SinksHold, At
  <2> QED
    BY <1>1, <2>1 DEF EndedHolds
<1> QED
  BY <1>2, <1>3 DEF SinksHold

LEMMA MinedKeeps ==
  ASSUME SinkInv, NEW b \in Blocks, chain' = Append(chain, b), now' = now + 1, b.time = now',
         UNCHANGED <<final, reorged, job, ended>>, pool' \subseteq pool,
         b.nonce # -1 => /\ \A i \in DOMAIN chain : chain[i].nonce # b.nonce
                         /\ \A t \in pool' : t.nonce # b.nonce
  PROVE  SinkInv'
<1> DEFINE n == Len(chain)
<1>1. chain \in Seq(Blocks) /\ now \in Nat /\ final \in 0 .. Len(chain) /\ pool \subseteq Transactions
  BY DEF SinkInv, EvmShape
<1>2. /\ chain' \in Seq(Blocks) /\ Len(chain') = n + 1 /\ n \in Nat
      /\ DOMAIN chain = 1 .. n /\ DOMAIN chain' = DOMAIN chain \cup {n + 1}
      /\ \A i \in DOMAIN chain : chain'[i] = chain[i]
      /\ chain'[n + 1] = b
  BY <1>1
<1> HIDE DEF n
<1>3. EvmShape'
  <2>1. final' \in 0 .. Len(chain')
    BY <1>1, <1>2 DEF n
  <2> QED
    BY <1>1, <1>2, <2>1 DEF SinkInv, EvmShape
<1>4. NoncesHold'
  <2>1. \A t \in pool' : t.nonce # -1 /\ t \in pool
    BY <1>1 DEF Transactions
  <2> QED
    BY <1>2, <2>1 DEF SinkInv, NoncesHold
<1>5. TimesHold'
  <2>0. \A i \in DOMAIN chain : chain[i].time \in Nat /\ chain[i].time <= now
    <3>1. \A i \in DOMAIN chain : chain[i] \in Blocks
      BY <1>1
    <3> QED
      BY <3>1 DEF SinkInv, TimesHold, Blocks
  <2>1. \A i \in DOMAIN chain' : chain'[i].time <= now'
    BY <1>1, <1>2, <2>0
  <2>2. ASSUME NEW i \in DOMAIN chain', NEW k \in DOMAIN chain', i < k
        PROVE  chain'[i].time <= chain'[k].time
    <3>1. i \in DOMAIN chain
      BY <2>2, <1>2
    <3>2. CASE k \in DOMAIN chain
      BY <2>2, <3>1, <3>2, <1>2 DEF SinkInv, TimesHold
    <3>3. CASE k \notin DOMAIN chain
      BY <2>1, <3>3, <1>2
    <3> QED
      BY <3>2, <3>3
  <2> QED
    BY <2>1, <2>2 DEF TimesHold
<1>6. SinksHold'
  <2>1. final' \in Nat /\ final <= final'
    BY <1>1
  <2> QED
    BY <1>2, <2>1, LongerChainKeeps
<1> QED
  BY <1>3, <1>4, <1>5, <1>6 DEF SinkInv

LEMMA MineKeeps ==
  ASSUME SinkInv, Mine
  PROVE  SinkInv'
<1>1. now' = now + 1 /\ now \in Nat /\ now' \in Nat /\ UNCHANGED <<final, reorged, job, ended>>
  BY DEF Mine, SinkInv, EvmShape
<1>2. ASSUME NEW t \in pool, pool' = pool \ {t},
             chain' = Append(chain, [op |-> t.op, nonce |-> t.nonce, time |-> now',
                                     ok |-> Accepts(Len(chain), t.op)])
      PROVE  SinkInv'
  <2>1. PICK ok : ok = Accepts(Len(chain), t.op)
    OBVIOUS
  <2>2. ok \in BOOLEAN
    BY <2>1 DEF Accepts
  <2>3. PICK b : b = [op |-> t.op, nonce |-> t.nonce, time |-> now', ok |-> ok]
    OBVIOUS
  <2>4. t \in Transactions
    BY <1>2 DEF SinkInv, EvmShape
  <2>5. b \in Blocks /\ b.time = now' /\ b.nonce = t.nonce
    BY <1>1, <2>2, <2>3, <2>4 DEF Blocks, Transactions
  <2>6. chain' = Append(chain, b)
    BY <1>2, <2>1, <2>3
  <2>7. /\ \A i \in DOMAIN chain : chain[i].nonce # b.nonce
        /\ \A u \in pool' : u.nonce # b.nonce
    BY <1>2, <2>5 DEF SinkInv, NoncesHold
  <2> QED
    BY <1>1, <1>2, <2>5, <2>6, <2>7, MinedKeeps
<1>3. ASSUME pool' = pool,
             chain' = Append(chain, [op |-> <<"none", 0>>, nonce |-> -1, time |-> now', ok |-> FALSE])
      PROVE  SinkInv'
  <2>1. PICK b : b = [op |-> <<"none", 0>>, nonce |-> -1, time |-> now', ok |-> FALSE]
    OBVIOUS
  <2>2. b \in Blocks /\ b.time = now' /\ b.nonce = -1
    BY <1>1, <2>1 DEF Blocks, Calls
  <2>3. chain' = Append(chain, b)
    BY <1>3, <2>1
  <2> QED
    BY <1>1, <1>3, <2>2, <2>3, MinedKeeps
<1> QED
  BY <1>2, <1>3 DEF Mine

LEMMA FinalizeKeeps ==
  ASSUME SinkInv, Finalize
  PROVE  SinkInv'
<1>1. chain \in Seq(Blocks) /\ final \in 0 .. Len(chain) /\ Len(chain) \in Nat
  BY DEF SinkInv, EvmShape
<1>2. final' = final + 1 /\ final < Len(chain) /\ UNCHANGED <<now, chain, pool, reorged, job, ended>>
  BY DEF Finalize
<1>3. final' \in Nat /\ final <= final' /\ final' \in 0 .. Len(chain')
  BY <1>1, <1>2
<1>4. SinksHold'
  BY <1>2, <1>3, LongerChainKeeps
<1> QED
  BY <1>2, <1>3, <1>4 DEF SinkInv, EvmShape, NoncesHold, TimesHold

LEMMA EvictKeeps ==
  ASSUME SinkInv, Evict
  PROVE  SinkInv'
<1>1. pool' \subseteq pool /\ UNCHANGED <<now, chain, final, reorged, job, ended>>
  BY DEF Evict
<1> QED
  BY <1>1 DEF SinkInv, EvmShape, NoncesHold, TimesHold, SinksHold, JobHolds, EndedHolds, At

LEMMA ReorgKeeps ==
  ASSUME SinkInv, Reorg
  PROVE  SinkInv'
<1> DEFINE n == Len(chain)
           b == chain[n]
           undone == {t \in {[op |-> b.op, nonce |-> b.nonce]} : t.nonce # -1}
<1>1. /\ final < n /\ UNCHANGED <<now, final, job, ended>> /\ chain' = Front(chain)
      /\ pool' = pool \cup undone /\ reorged' = reorged \cup undone
  BY DEF Reorg
<1>2. chain \in Seq(Blocks) /\ n \in Nat /\ final \in 0 .. n /\ pool \subseteq Transactions
  BY DEF SinkInv, EvmShape
<1>3. DOMAIN chain = 1 .. n /\ n \in DOMAIN chain /\ b \in Blocks
  BY <1>1, <1>2
<1>4. /\ chain' \in Seq(Blocks) /\ Len(chain') = n - 1
      /\ DOMAIN chain' = DOMAIN chain \ {n}
      /\ \A i \in DOMAIN chain' : chain'[i] = chain[i]
  <2>1. chain' = SubSeq(chain, 1, n - 1)
    BY <1>1 DEF Front
  <2>2. chain' \in Seq(Blocks) /\ Len(chain') = n - 1 /\ \A i \in 1 .. n - 1 : chain'[i] = chain[i]
    BY <1>1, <1>2, <1>3, <2>1
  <2>3. DOMAIN chain' = 1 .. n - 1
    BY <2>2
  <2> QED
    BY <1>2, <1>3, <2>2, <2>3
<1>5. undone \subseteq Transactions /\ \A t \in undone : t.nonce = b.nonce /\ b.nonce # -1
      /\ t.op = b.op
  <2>1. PICK t : t = [op |-> b.op, nonce |-> b.nonce]
    OBVIOUS
  <2>2. b.op \in Calls /\ b.nonce \in Nat \cup {-1} /\ t.nonce = b.nonce /\ t.op = b.op
    BY <1>3, <2>1 DEF Blocks
  <2>3. t.nonce # -1 => t \in Transactions
    BY <2>1, <2>2 DEF Transactions
  <2> QED
    BY <2>1, <2>2, <2>3
<1>6. \A e : n \in At(e) => TxOf(e) \in undone \/ e.nonce = -1
  BY DEF At, TxOf
<1> HIDE DEF n, undone
<1>7. \A e : TxOf(e) \notin reorged' /\ e.nonce # -1 => At(e)' = At(e) /\ n \notin At(e)
  BY <1>1, <1>4, <1>6 DEF At
<1>8. EvmShape'
  <2>1. final' \in 0 .. Len(chain')
    BY <1>1, <1>2, <1>4
  <2> QED
    BY <1>1, <1>2, <1>4, <1>5, <2>1 DEF SinkInv, EvmShape
<1>9. NoncesHold'
  <2>1. \A t \in pool : t.nonce # b.nonce
    BY <1>3 DEF SinkInv, NoncesHold
  <2>2. \A i \in DOMAIN chain' : b.nonce # -1 => chain'[i].nonce # b.nonce
    BY <1>3, <1>4 DEF SinkInv, NoncesHold
  <2>3. \A t, u \in undone : t = u
    BY DEF undone
  <2> QED
    BY <1>1, <1>4, <1>5, <2>1, <2>2, <2>3 DEF SinkInv, NoncesHold
<1>10. TimesHold'
  BY <1>1, <1>4 DEF SinkInv, TimesHold
<1>11. SinksHold'
  <2>1. ASSUME NEW s \in Sink PROVE JobHolds(job[s])'
    <3>1. PICK j : j = job[s]
      OBVIOUS
    <3>2. j \in Jobs /\ JobHolds(j) /\ job'[s] = j
      BY <1>1, <3>1 DEF SinkInv, EvmShape, SinksHold
    <3>3. ASSUME j.pc = "confirm", TxOf(j) \notin reorged'
          PROVE  j.block \in At(j)' /\ chain'[j.block].ok
      <4>1. j.nonce \in Nat /\ j.block \in At(j) /\ chain[j.block].ok
        BY <1>1, <3>2, <3>3 DEF JobHolds
      <4>2. j.block \in At(j)' /\ j.block \in DOMAIN chain'
        BY <1>7, <3>3, <4>1 DEF At
      <4> QED
        BY <1>4, <4>1, <4>2
    <3> QED
      BY <3>2, <3>3 DEF JobHolds
  <2>2. ASSUME NEW e \in ended' PROVE EndedHolds(e)'
    <3>1. EndedHolds(e)
      BY <1>1, <2>2 DEF SinkInv, SinksHold
    <3>2. ASSUME TxOf(e) \notin reorged', e.how = "receipt"
          PROVE  e.block <= final' /\ e.block \in At(e)' /\ chain'[e.block].ok
      <4>1. e.block <= final /\ e.block \in At(e) /\ chain[e.block].ok
        BY <1>1, <3>1, <3>2 DEF EndedHolds
      <4>2. e.block # n /\ e.block \in DOMAIN chain
        BY <1>1, <1>2, <1>3, <4>1 DEF At
      <4> QED
        BY <1>1, <1>4, <4>1, <4>2 DEF At
    <3>3. ASSUME TxOf(e) \notin reorged', e.how = "refused", e.nonce # -1
          PROVE  \E i \in At(e)' : ~chain'[i].ok
      <4>1. PICK i \in At(e) : ~chain[i].ok
        BY <1>1, <3>1, <3>3 DEF EndedHolds
      <4>2. i \in At(e)' /\ i \in DOMAIN chain'
        BY <1>7, <3>3, <4>1 DEF At
      <4> QED
        BY <1>4, <4>1, <4>2
    <3> QED
      BY <3>2, <3>3 DEF EndedHolds
  <2> QED
    BY <2>1, <2>2 DEF SinksHold
<1> QED
  BY <1>8, <1>9, <1>10, <1>11 DEF SinkInv

LEMMA SinkInvInductive ==
  ASSUME SinkInv, [Next]_vars
  PROVE  SinkInv'
<1>1. CASE UNCHANGED <<evm, job, ended>>
  BY <1>1 DEF SinkInv, EvmShape, NoncesHold, TimesHold, SinksHold, JobHolds, EndedHolds, At, evm
<1>2. (\E ask \in Questions : StartRead(ask)) \/ Ask \/ Settle => UNCHANGED <<evm, job, ended>>
  BY DEF StartRead, Ask, Settle
<1>3. UNCHANGED vars => UNCHANGED <<evm, job, ended>>
  BY DEF vars, evm
<1> QED
  BY <1>1, <1>2, <1>3, MineKeeps, FinalizeKeeps, ReorgKeeps, EvictKeeps, SinkStepsKeep DEF Next

\* A nonce is mined once, so a call that failed in one block runs in no other.
LEMMA SinkInvGivesOutcomes == SinkInv => OutcomesHold
<1> SUFFICES ASSUME SinkInv, NEW e \in ended, TxOf(e) \notin reorged
             PROVE  /\ e.how = "receipt" => e.block <= final /\ e.block \in At(e) /\ chain[e.block].ok
                    /\ e.how = "refused" /\ e.nonce # -1 => \A i \in At(e) : ~chain[i].ok
  BY DEF OutcomesHold, TxOf
<1>1. EndedHolds(e)
  BY DEF SinkInv, SinksHold
<1>2. \A i, k \in At(e) : e.nonce # -1 => i = k
  BY DEF SinkInv, NoncesHold, At
<1> QED
  BY <1>1, <1>2 DEF EndedHolds

\* The two ways EvmLedgerSink._send ends for certain are certain: a receipt is
\* for a call that took effect in a finalized block and a refused call took
\* none, unless a reorg has undone the transaction since.
THEOREM OutcomesAreCertain == Spec => []OutcomesHold
<1>1. SinkInv /\ [Next]_vars => SinkInv'
  BY SinkInvInductive
<1> QED
  BY <1>1, SinkInitHolds, SinkInvGivesOutcomes, PTL DEF Spec

-----------------------------------------------------------------------------
(* What is final stays, and what the contracts answer at a final height.   *)

LEMMA FinalStays ==
  ASSUME SinkInv, [Next]_vars
  PROVE  /\ final \in Nat /\ final' \in Nat /\ final <= final'
         /\ \A i \in 1 .. final : i \in DOMAIN chain /\ i \in DOMAIN chain' /\ chain'[i] = chain[i]
<1>1. chain \in Seq(Blocks) /\ final \in 0 .. Len(chain) /\ Len(chain) \in Nat
  BY DEF SinkInv, EvmShape
<1>2. CASE UNCHANGED <<chain, final>>
  BY <1>1, <1>2
<1>3. CASE Mine
  <2>1. final' = final /\ \E b : chain' = Append(chain, b)
    BY <1>3 DEF Mine
  <2> QED
    BY <1>1, <2>1
<1>4. CASE Finalize
  BY <1>1, <1>4 DEF Finalize
<1>5. CASE Reorg
  <2>1. final' = final /\ final < Len(chain) /\ chain' = SubSeq(chain, 1, Len(chain) - 1)
    BY <1>5 DEF Reorg, Front
  <2>2. Len(chain') = Len(chain) - 1 /\ \A i \in 1 .. Len(chain) - 1 : chain'[i] = chain[i]
    <3>1. PICK n : n = Len(chain)
      OBVIOUS
    <3>2. n \in Nat /\ n - 1 \in Nat /\ n - 1 <= n /\ 1 \in 1 .. n + 1 /\ n - 1 \in 0 .. n
      BY <1>1, <2>1, <3>1
    <3>3. SubSeq(chain, 1, n - 1) = [i \in 1 .. n - 1 |-> chain[i]]
      BY <1>1, <3>1, <3>2
    <3> QED
      BY <2>1, <3>1, <3>2, <3>3
  <2>3. DOMAIN chain' = 1 .. Len(chain) - 1 /\ DOMAIN chain = 1 .. Len(chain)
    BY <1>1, <2>1, <2>2
  <2> QED
    BY <1>1, <2>1, <2>2, <2>3
<1>6. Evict => UNCHANGED <<chain, final>>
  BY DEF Evict
<1>7. ASSUME NEW s \in Sink, SinkStep(s) PROVE UNCHANGED <<chain, final>>
  BY <1>7 DEF SinkStep, register_trail, registry_publish, bond_deposit, submit_checkpoint, bond_prove,
     Begin, Quote, SignerFails, Broadcast, PollReceipt, PollConfirm, Silent, evm
<1>8. (\E ask \in Questions : StartRead(ask)) \/ Ask \/ Settle => UNCHANGED <<chain, final>>
  BY DEF StartRead, Ask, Settle, evm
<1>9. UNCHANGED vars => UNCHANGED <<chain, final>>
  BY DEF vars
<1> QED
  BY <1>2, <1>3, <1>4, <1>5, <1>6, <1>7, <1>8, <1>9 DEF Next

LEMMA RanShape ==
  ASSUME NEW k \in Nat, NEW f
  PROVE  /\ Ran(k, f) \in SUBSET Nat /\ \A i \in Ran(k, f) : i <= k
         /\ IsFiniteSet(Ran(k, f)) /\ Cardinality(Ran(k, f)) \in Nat
         /\ Ran(k, f) # {} => /\ Max(Ran(k, f)) \in Ran(k, f)
                              /\ \A i \in Ran(k, f) : i <= Max(Ran(k, f))
<1>1. Ran(k, f) \subseteq 1 .. k
  BY DEF Ran
<1>2. IsFiniteSet(1 .. k)
  BY FS_Interval
<1>3. IsFiniteSet(Ran(k, f))
  BY <1>1, <1>2, FS_Subset
<1>4. Cardinality(Ran(k, f)) \in Nat
  BY <1>3, FS_CardinalityType
<1>5. Ran(k, f) \in SUBSET Nat /\ \A i \in Ran(k, f) : i <= k
  BY <1>1
<1> QED
  BY <1>3, <1>4, <1>5, MaxIsGreatest

LEMMA RanGrows ==
  ASSUME NEW k \in Nat, NEW m \in Nat, k <= m, NEW f
  PROVE  Ran(k, f) \subseteq Ran(m, f)
BY DEF Ran

\* What a contract answers at a final height is its answer for good.
LEMMA AnswerStays ==
  ASSUME NEW k \in Nat, NEW q \in Question, \A i \in 1 .. k : chain'[i] = chain[i]
  PROVE  Answer(q, k)' = Answer(q, k)
<1>1. \A f : Ran(k, f)' = Ran(k, f)
  BY DEF Ran
<1>2. Slashed(k)' = Slashed(k)
  BY <1>1 DEF Slashed
<1>3. latest_checkpoint(k)' = latest_checkpoint(k)
  <2>1. CASE Ran(k, "submit") = {}
    BY <1>1, <2>1 DEF latest_checkpoint
  <2>2. CASE Ran(k, "submit") # {}
    <3>1. PICK i : i = Max(Ran(k, "submit"))
      OBVIOUS
    <3>2. i \in 1 .. k
      BY <2>2, <3>1, RanShape DEF Ran
    <3>3. Max(Ran(k, "submit"))' = Max(Ran(k, "submit"))
      BY <1>1
    <3>4. chain'[i] = chain[i]
      BY <3>2
    <3> QED
      BY <1>1, <2>2, <3>1, <3>3, <3>4 DEF latest_checkpoint
  <2> QED
    BY <2>1, <2>2
<1>4. deadline_s(k)' = deadline_s(k)
  BY <1>1 DEF deadline_s
<1>5. registry_lookup(k)' = registry_lookup(k)
  <2>1. (Ran(k, "register") = {})' <=> Ran(k, "register") = {}
    BY <1>1
  <2>2. CASE Ran(k, "register") = {}
    BY <2>1, <2>2 DEF registry_lookup
  <2>3. CASE Ran(k, "register") # {}
    BY <2>1, <2>3 DEF registry_lookup
  <2> QED
    BY <2>2, <2>3
<1>6. bond_of(k)' = bond_of(k)
  BY <1>1, <1>2 DEF bond_of
<1> QED
  BY <1>3, <1>4, <1>5, <1>6 DEF Answer, Question

-----------------------------------------------------------------------------
(* The read.                                                               *)

LEMMA QuestionShape ==
  ASSUME NEW ask \in Questions
  PROVE  /\ Len(ask) \in {2, 3} /\ DOMAIN ask = 1 .. Len(ask)
         /\ ask[1] = "lastSeen" /\ ask[2] = "deadlineOf"
         /\ Len(ask) = 3 => ask[3] \in {"lookup", "bondOf"}
         /\ \A i \in 1 .. Len(ask) : ask[i] \in Question
<1>1. PICK rest \in {<< >>, <<"lookup">>, <<"bondOf">>} : ask = <<"lastSeen", "deadlineOf">> \o rest
  BY DEF Questions
<1>2. CASE rest = << >>
  BY <1>1, <1>2 DEF Question
<1>3. CASE rest = <<"lookup">>
  BY <1>1, <1>3 DEF Question
<1>4. CASE rest = <<"bondOf">>
  BY <1>1, <1>4 DEF Question
<1> QED
  BY <1>1, <1>2, <1>3, <1>4

LEMMA ReachedNat ==
  ASSUME Asking, final \in Nat
  PROVE  Reached \in Nat /\ Reached <= final /\ rd.final \in Nat
<1>1. rd.final \in 0 .. final
  BY DEF Asking
<1>2. MaxLag \in Nat
  BY EvmClientAssumption
<1> QED
  BY <1>1, <1>2 DEF Reached

LEMMA ReadInitHolds == Init => ReadInv
<1> SUFFICES ASSUME Init PROVE ReadInv
  OBVIOUS
<1>1. SinkInv /\ final \in Nat
  BY SinkInitHolds DEF SinkInv, EvmShape
<1>2. rd = NoRead
  BY DEF Init
<1>3. Asking
  BY <1>1, <1>2, EvmClientAssumption DEF NoRead, Asking, Question, Unasked
<1>4. ReadHolds
  BY <1>2 DEF NoRead, ReadHolds, GotHolds, ResultHolds, Question, Unasked
<1> QED
  BY <1>1, <1>3, <1>4 DEF ReadInv

\* The chain may move under a read.
LEMMA HeightsStay ==
  ASSUME SinkInv, [Next]_vars, Asking, rd'.final = rd.final, NEW q \in Question
  PROVE  /\ Reached' = Reached
         /\ \A k \in Reached .. final : k \in (Reached .. final)' /\ Answer(q, k)' = Answer(q, k)
<1>1. final \in Nat /\ final' \in Nat /\ final <= final' /\ \A i \in 1 .. final : chain'[i] = chain[i]
  BY FinalStays
<1>2. Reached' = Reached /\ Reached \in Nat
  BY <1>1, ReachedNat DEF Reached
<1>3. ASSUME NEW k \in Reached .. final PROVE k \in Reached' .. final' /\ Answer(q, k)' = Answer(q, k)
  <2>1. k \in Nat /\ \A i \in 1 .. k : chain'[i] = chain[i]
    BY <1>1, <1>2
  <2> QED
    BY <1>1, <1>2, <2>1, AnswerStays
<1> QED
  BY <1>2, <1>3

LEMMA HonestStays ==
  ASSUME SinkInv, [Next]_vars, Asking, rd'.final = rd.final, NEW q \in Question, NEW a, Honest(q, a)
  PROVE  Honest(q, a)'
BY HeightsStay DEF Honest

LEMMA ResultStays ==
  ASSUME SinkInv, [Next]_vars, Asking, rd'.final = rd.final, NEW q \in Question, NEW r,
         ResultHolds(q, r)
  PROVE  ResultHolds(q, r)'
<1>1. Honest(q, r) => Honest(q, r)'
  BY HonestStays
<1>2. ASSUME NEW k \in Reached .. final, Same(q, r.value, Answer(q, k))
      PROVE  k \in (Reached .. final)' /\ Same(q, r.value, Answer(q, k))'
  BY <1>2, HeightsStay DEF Same, checkpoints_agree
<1> QED
  BY <1>1, <1>2 DEF ResultHolds

LEMMA ChainUnderRead ==
  ASSUME ReadInv, [Next]_vars, UNCHANGED rd
  PROVE  Asking' /\ ReadHolds'
<1>1. SinkInv /\ Asking /\ ReadHolds /\ rd'.final = rd.final
  BY DEF ReadInv
<1>2. final \in Nat /\ final' \in Nat /\ final <= final'
  BY <1>1, FinalStays
<1>3. Asking'
  BY <1>1, <1>2 DEF Asking
<1>4. GotHolds'
  <2>1. CASE rd.q = 0
    BY <2>1 DEF GotHolds
  <2>2. CASE rd.q # 0
    <3>1. PICK q : q = rd.ask[rd.q]
      OBVIOUS
    <3>2. q \in Question /\ rd'.ask[rd'.q] = q
      <4>1. rd.ask \in Questions /\ rd.q \in 1 .. Len(rd.ask)
        BY <1>1, <2>2, QuestionShape DEF Asking
      <4> QED
        BY <3>1, <4>1, QuestionShape
    <3>3. \A i \in DOMAIN rd.got : Honest(q, rd.got[i])
      BY <1>1, <2>2, <3>1 DEF ReadHolds, GotHolds
    <3>4. ASSUME NEW i \in DOMAIN rd.got PROVE Honest(q, rd.got[i])'
      <4>1. PICK a : a = rd.got[i]
        OBVIOUS
      <4>2. Honest(q, a)'
        BY <1>1, <3>2, <3>3, <4>1, HonestStays
      <4> QED
        BY <4>1, <4>2 DEF Honest
    <3> QED
      BY <1>1, <2>2, <3>1, <3>2, <3>4 DEF ReadHolds, GotHolds, Honest
  <2> QED
    BY <2>1, <2>2
<1>5. ASSUME NEW q \in Question PROVE ResultHolds(q, rd.res[q])'
  <2>1. PICK r : r = rd.res[q]
    OBVIOUS
  <2>2. ResultHolds(q, r)'
    BY <1>1, <2>1, ResultStays DEF ReadHolds
  <2> QED
    BY <2>1, <2>2 DEF ResultHolds, Honest
<1> QED
  BY <1>3, <1>4, <1>5 DEF ReadHolds

LEMMA StartReadKeeps ==
  ASSUME ReadInv, NEW ask \in Questions, StartRead(ask)
  PROVE  Asking' /\ ReadHolds'
<1>1. SinkInv /\ Asking /\ now \in Nat /\ final \in Nat /\ UNCHANGED <<final, now>>
  BY DEF ReadInv, SinkInv, EvmShape, StartRead, evm
<1>2. /\ rd' = [NoRead EXCEPT !.ask = ask, !.q = 1, !.now = now, !.final = final, !.n = rd.n + 1]
      /\ rd.n \in Nat
  BY <1>1 DEF StartRead, Asking
<1>3. PICK m : m = rd.n + 1
  OBVIOUS
<1>4. m \in Nat /\ m > 0
  BY <1>2, <1>3
<1>5. rd' = [ask |-> ask, q |-> 1, url |-> 1, got |-> << >>, now |-> now, final |-> final, n |-> m,
             res |-> [k \in Question |-> Unasked]]
  BY <1>2, <1>3 DEF NoRead, Question
<1>6. \A q \in Question : rd'.res[q] = Unasked
  BY <1>5
<1>7. Asking'
  <2>1. Len(ask) \in {2, 3} /\ Url \in Nat
    BY QuestionShape, EvmClientAssumption
  <2>2. /\ rd'.ask = ask /\ rd'.q = 1 /\ rd'.url = 1 /\ rd'.now = now /\ rd'.final = final
        /\ rd'.n = m /\ DOMAIN rd'.res = Question
    BY <1>5
  <2>3. rd' = [ask |-> rd'.ask, q |-> rd'.q, url |-> rd'.url, got |-> rd'.got, now |-> rd'.now,
               final |-> rd'.final, n |-> rd'.n, res |-> rd'.res]
    BY <1>5
  <2>4. /\ rd'.q \in 0 .. 3 /\ rd'.url \in 1 .. Url + 1 /\ rd'.final \in 0 .. final'
        /\ rd'.q <= Len(rd'.ask)
    BY <1>1, <2>1, <2>2
  <2> QED
    BY <1>1, <1>4, <2>2, <2>3, <2>4 DEF Asking
<1>8. GotHolds'
  BY <1>5 DEF GotHolds
<1>9. ASSUME NEW q \in Question PROVE ResultHolds(q, rd.res[q])'
  <2>1. ResultHolds(q, Unasked)'
    BY DEF ResultHolds, Unasked
  <2> QED
    BY <1>6, <2>1 DEF ResultHolds, Honest
<1> QED
  BY <1>7, <1>8, <1>9 DEF ReadHolds

\* The question under way.
LEMMA AskedNow ==
  ASSUME Asking, rd.q # 0
  PROVE  /\ rd.ask \in Questions /\ rd.q \in 1 .. Len(rd.ask) /\ rd.ask[rd.q] \in Question
         /\ Len(rd.ask) \in {2, 3} /\ rd.n > 0 /\ rd.n \in Nat
<1>1. rd.ask \in Questions /\ rd.q \in 0 .. 3 /\ rd.q <= Len(rd.ask) /\ rd.n > 0 /\ rd.n \in Nat
  BY DEF Asking
<1>2. rd.q \in 1 .. Len(rd.ask)
  BY <1>1, QuestionShape
<1> QED
  BY <1>1, <1>2, QuestionShape

\* A node that does not lie answers at a height every node has.
LEMMA HonestAnswer ==
  ASSUME SinkInv, Asking, NEW q \in Question, NEW u, NEW v \in Answers(u, q), NEW a,
         a.url = u, a.value = v
  PROVE  Honest(q, a)
<1> SUFFICES ASSUME u \notin Liars PROVE \E k \in Reached .. final : v = Answer(q, k)
  BY DEF Honest
<1> DEFINE low == IF final > MaxLag THEN final - MaxLag ELSE 0
<1>1. PICK k \in low .. final : v = Answer(q, k)
  BY DEF Answers
<1>2. final \in Nat /\ MaxLag \in Nat /\ rd.final \in Nat /\ rd.final <= final
  <2>1. final \in Nat /\ rd.final \in 0 .. final
    BY DEF SinkInv, EvmShape, Asking
  <2> QED
    BY <2>1, EvmClientAssumption
<1>3. k \in Reached .. final
  BY <1>1, <1>2 DEF Reached
<1> QED
  BY <1>1, <1>3

LEMMA AskKeeps ==
  ASSUME ReadInv, [Next]_vars, Ask
  PROVE  Asking' /\ ReadHolds'
<1>1. SinkInv /\ Asking /\ ReadHolds /\ rd.q # 0 /\ rd.url <= Url /\ UNCHANGED <<now, final>>
  BY DEF ReadInv, Ask, evm
<1>2. PICK q : q = rd.ask[rd.q]
  OBVIOUS
<1>3. q \in Question /\ rd.n > 0
  BY <1>1, <1>2, AskedNow
<1>4. PICK u : u = rd.url + 1
  OBVIOUS
<1>5. u \in 1 .. Url + 1 /\ rd.url \in 1 .. Url /\ u - 1 = rd.url /\ Url \in Nat
  BY <1>1, <1>4, EvmClientAssumption DEF Asking
<1>6. rd = [ask |-> rd.ask, q |-> rd.q, url |-> rd.url, got |-> rd.got, now |-> rd.now,
            final |-> rd.final, n |-> rd.n, res |-> rd.res]
  BY <1>1 DEF Asking
<1>7. \E got : rd' = [ask |-> rd.ask, q |-> rd.q, url |-> u, got |-> got, now |-> rd.now,
                      final |-> rd.final, n |-> rd.n, res |-> rd.res]
  <2>1. CASE rd' = [rd EXCEPT !.url = rd.url + 1]
    <3>1. rd' = [ask |-> rd.ask, q |-> rd.q, url |-> u, got |-> rd.got, now |-> rd.now,
                 final |-> rd.final, n |-> rd.n, res |-> rd.res]
      BY <1>4, <1>6, <2>1
    <3> QED
      BY <3>1
  <2>2. ASSUME NEW got, rd' = [rd EXCEPT !.url = rd.url + 1, !.got = got]
        PROVE rd' = [ask |-> rd.ask, q |-> rd.q, url |-> u, got |-> got, now |-> rd.now,
                     final |-> rd.final, n |-> rd.n, res |-> rd.res]
      BY <1>4, <1>6, <2>2
  <2> QED
    BY <2>1, <2>2 DEF Ask
<1>8. /\ rd'.ask = rd.ask /\ rd'.q = rd.q /\ rd'.url = u /\ rd'.now = rd.now
      /\ rd'.final = rd.final /\ rd'.n = rd.n /\ rd'.res = rd.res
      /\ rd' = [ask |-> rd'.ask, q |-> rd'.q, url |-> rd'.url, got |-> rd'.got, now |-> rd'.now,
                final |-> rd'.final, n |-> rd'.n, res |-> rd'.res]
  BY <1>7
<1>9. Asking'
  BY <1>1, <1>5, <1>8 DEF Asking
<1>10. /\ rd.got \in Seq({rd.got[i] : i \in DOMAIN rd.got})
       /\ \A i \in DOMAIN rd.got : rd.got[i].url \in 1 .. rd.url - 1 /\ Honest(q, rd.got[i])
       /\ \A i, k \in DOMAIN rd.got : i < k => rd.got[i].url < rd.got[k].url
  BY <1>1, <1>2 DEF ReadHolds, GotHolds
<1>11. \A a : Honest(q, a) => Honest(q, a)'
  BY <1>1, <1>3, <1>8, HonestStays
<1>12. PICK g : g = rd.got
  OBVIOUS
<1>13. PICK S : S = {g[i] : i \in DOMAIN g}
  OBVIOUS
<1>14. /\ g \in Seq(S) /\ Len(g) \in Nat /\ DOMAIN g = 1 .. Len(g)
       /\ \A i \in DOMAIN g : g[i].url \in 1 .. u - 2 /\ Honest(q, g[i])
       /\ \A i, k \in DOMAIN g : i < k => g[i].url < g[k].url
  <2>1. g \in Seq(S)
    BY <1>10, <1>12, <1>13
  <2>2. rd.url - 1 = u - 2
    BY <1>5
  <2> QED
    BY <1>10, <1>12, <2>1, <2>2
<1>15. PICK h : h = rd'.got
  OBVIOUS
<1>16. SUFFICES /\ h \in Seq({h[i] : i \in DOMAIN h})
                /\ \A i \in DOMAIN h : h[i].url \in 1 .. u - 1 /\ Honest(q, h[i])
                /\ \A i, k \in DOMAIN h : i < k => h[i].url < h[k].url
  <2>1. ASSUME NEW p \in Question PROVE ResultHolds(p, rd.res[p])'
    <3>1. PICK r : r = rd.res[p]
      OBVIOUS
    <3>2. ResultHolds(p, r)'
      BY <1>1, <1>8, <3>1, ResultStays DEF ReadHolds
    <3> QED
      BY <1>8, <3>1, <3>2 DEF ResultHolds, Honest
  <2>2. ASSUME h \in Seq({h[i] : i \in DOMAIN h}),
               \A i \in DOMAIN h : h[i].url \in 1 .. u - 1 /\ Honest(q, h[i]),
               \A i, k \in DOMAIN h : i < k => h[i].url < h[k].url
        PROVE  GotHolds'
    <3>1. \A i \in DOMAIN h : Honest(q, h[i])'
      BY <1>11, <2>2
    <3> QED
      BY <1>2, <1>8, <1>15, <2>2, <3>1 DEF GotHolds, Honest
  <2> QED
    BY <1>9, <2>1, <2>2 DEF ReadHolds
<1>17. CASE h = g
  <2>1. \A i \in DOMAIN g : g[i].url \in 1 .. u - 1
    BY <1>5, <1>14
  <2> QED
    BY <1>13, <1>14, <1>17, <2>1
<1>18. ASSUME NEW v \in Answers(rd.url, q), h = Append(g, [url |-> rd.url, value |-> v])
       PROVE  /\ h \in Seq({h[i] : i \in DOMAIN h})
              /\ \A i \in DOMAIN h : h[i].url \in 1 .. u - 1 /\ Honest(q, h[i])
              /\ \A i, k \in DOMAIN h : i < k => h[i].url < h[k].url
  <2>1. PICK a : a = [url |-> rd.url, value |-> v]
    OBVIOUS
  <2>2. a.url = rd.url /\ a.value = v /\ Honest(q, a)
    BY <1>1, <1>3, <1>18, <2>1, HonestAnswer
  <2>3. /\ h \in Seq(S \cup {a}) /\ DOMAIN h = 1 .. Len(g) + 1
        /\ h[Len(g) + 1] = a /\ \A i \in 1 .. Len(g) : h[i] = g[i]
    <3>1. h = Append(g, a) /\ g \in Seq(S \cup {a})
      BY <1>14, <1>18, <2>1
    <3> QED
      BY <1>14, <3>1
  <2>4. S \cup {a} = {h[i] : i \in DOMAIN h}
    BY <1>13, <1>14, <2>3
  <2>5. \A i \in DOMAIN g : /\ g[i].url \in 1 .. u - 1 /\ Honest(q, g[i])
                            /\ g[i].url \in Nat /\ g[i].url < a.url
    BY <1>5, <1>14, <2>2
  <2>6. a.url \in 1 .. u - 1
    BY <1>5, <2>2
  <2>7. \A i \in DOMAIN h : h[i].url \in 1 .. u - 1 /\ Honest(q, h[i])
    BY <1>14, <2>2, <2>3, <2>5, <2>6
  <2>8. ASSUME NEW i \in DOMAIN h, NEW k \in DOMAIN h, i < k PROVE h[i].url < h[k].url
    <3>1. i \in DOMAIN g /\ h[i] = g[i] /\ (k \in DOMAIN g \/ k = Len(g) + 1)
      BY <1>14, <2>3, <2>8
    <3>2. CASE k \in DOMAIN g
      BY <1>14, <2>3, <2>8, <3>1, <3>2
    <3>3. CASE k = Len(g) + 1
      BY <2>3, <2>5, <3>1, <3>3
    <3> QED
      BY <3>1, <3>2, <3>3
  <2> QED
    BY <2>3, <2>4, <2>7, <2>8
<1>19. rd'.got = rd.got \/ \E v \in Answers(rd.url, q) :
          rd'.got = Append(rd.got, [url |-> rd.url, value |-> v])
  <2>1. CASE rd' = [rd EXCEPT !.url = rd.url + 1]
    BY <1>6, <2>1
  <2>2. ASSUME NEW got, rd' = [rd EXCEPT !.url = rd.url + 1, !.got = got] PROVE rd'.got = got
    BY <1>6, <2>2
  <2> QED
    BY <1>2, <2>1, <2>2 DEF Ask
<1> QED
  BY <1>12, <1>15, <1>17, <1>18, <1>19

\* Two nodes that agree are not both liars.
LEMMA AgreeHolds ==
  ASSUME \A u, v \in Liars : u = v, ReadInv, rd.q # 0, NEW q, q = rd.ask[rd.q]
  PROVE  ResultHolds(q, agree(q, rd.got)) /\ agree(q, rd.got).how # "unasked"
<1>1. PICK g : g = rd.got
  OBVIOUS
<1>2. /\ g \in Seq({g[i] : i \in DOMAIN g})
      /\ \A i \in DOMAIN g : Honest(q, g[i])
      /\ \A i, k \in DOMAIN g : i < k => g[i].url < g[k].url
      /\ \A i \in DOMAIN g : g[i].url \in Int
  <2>1. Asking /\ Url \in Nat
    BY EvmClientAssumption DEF ReadInv
  <2>2. rd.url \in Int
    BY <2>1 DEF Asking
  <2> QED
    BY <1>1, <2>2 DEF ReadInv, ReadHolds, GotHolds
<1>3. PICK r : r = agree(q, g)
  OBVIOUS
<1>4. CASE \E i, j \in DOMAIN g : ~Same(q, g[i].value, g[j].value)
  <2>1. r.how = "disagreement"
    BY <1>3, <1>4 DEF agree
  <2> QED
    BY <1>1, <1>3, <2>1 DEF ResultHolds
<1>5. CASE ~(\E i, j \in DOMAIN g : ~Same(q, g[i].value, g[j].value)) /\ Len(g) < MinEndpoints
  <2>1. r.how = "unreachable"
    BY <1>3, <1>5 DEF agree
  <2> QED
    BY <1>1, <1>3, <2>1 DEF ResultHolds
<1>6. CASE ~(\E i, j \in DOMAIN g : ~Same(q, g[i].value, g[j].value)) /\ ~(Len(g) < MinEndpoints)
  <2>1. r = [how |-> "agreed", url |-> g[1].url, value |-> g[1].value]
    BY <1>3, <1>6 DEF agree
  <2>2. r.how = "agreed" /\ r.url = g[1].url /\ r.value = g[1].value
    BY <2>1
  <2>3. 1 \in DOMAIN g /\ 2 \in DOMAIN g
    BY <1>2, <1>6 DEF MinEndpoints
  <2>4. Honest(q, r)
    BY <1>2, <2>2, <2>3 DEF Honest
  <2>5. Same(q, g[1].value, g[2].value) /\ g[1].url # g[2].url
    <3>1. g[1].url \in Int /\ g[2].url \in Int /\ g[1].url < g[2].url
      BY <1>2, <2>3
    <3> QED
      BY <1>6, <2>3, <3>1
  <2>6. \E k \in Reached .. final : Same(q, r.value, Answer(q, k))
    <3>1. CASE g[1].url \notin Liars
      <4>1. PICK k \in Reached .. final : r.value = Answer(q, k)
        BY <2>2, <2>4, <3>1 DEF Honest
      <4>2. Same(q, r.value, Answer(q, k))
        BY <4>1 DEF Same, checkpoints_agree
      <4> QED
        BY <4>2
    <3>2. CASE g[1].url \in Liars
      <4>1. g[2].url \notin Liars
        BY <2>5, <3>2
      <4>2. PICK k \in Reached .. final : g[2].value = Answer(q, k)
        BY <1>2, <2>3, <4>1 DEF Honest
      <4>3. Same(q, r.value, Answer(q, k))
        BY <2>2, <2>5, <4>2
      <4> QED
        BY <4>3
    <3> QED
      BY <3>1, <3>2
  <2>7. ResultHolds(q, r)
    BY <2>2, <2>4, <2>6 DEF ResultHolds
  <2> QED
    BY <1>1, <1>3, <2>2, <2>7
<1> QED
  BY <1>4, <1>5, <1>6

LEMMA SettleKeeps ==
  ASSUME \A u, v \in Liars : u = v, ReadInv, [Next]_vars, Settle
  PROVE  Asking' /\ ReadHolds'
<1>1. SinkInv /\ Asking /\ ReadHolds /\ rd.q # 0 /\ UNCHANGED <<now, final>>
  BY DEF ReadInv, Settle, evm
<1>2. PICK q : q = rd.ask[rd.q]
  OBVIOUS
<1>3. PICK r : r = agree(q, rd.got)
  OBVIOUS
<1>4. ResultHolds(q, r) /\ r.how # "unasked"
  BY <1>1, <1>2, <1>3, AgreeHolds
<1>5. PICK m : m = IF rd.q + (IF q = "lastSeen" /\ r.how # "agreed" THEN 2 ELSE 1) > Len(rd.ask) THEN 0
                   ELSE rd.q + (IF q = "lastSeen" /\ r.how # "agreed" THEN 2 ELSE 1)
  OBVIOUS
<1>6. /\ rd.ask \in Questions /\ rd.q \in 1 .. Len(rd.ask) /\ q \in Question
      /\ Len(rd.ask) \in {2, 3} /\ rd.n > 0 /\ rd.n \in Nat
  BY <1>1, <1>2, AskedNow
<1>7. /\ rd.q \in {1, 2, 3} /\ (rd.q = 1 => q = "lastSeen") /\ (rd.q = 2 => q = "deadlineOf")
      /\ (rd.q = 3 => q \in {"lookup", "bondOf"})
  BY <1>2, <1>6, QuestionShape
<1>8. m \in 0 .. 3 /\ m <= Len(rd.ask) /\ (rd.q = 1 /\ r.how = "agreed" => m = 2)
  <2>1. PICK skip : skip = IF q = "lastSeen" /\ r.how # "agreed" THEN 2 ELSE 1
    OBVIOUS
  <2>2. skip \in {1, 2} /\ (rd.q = 1 /\ r.how = "agreed" => skip = 1)
    BY <2>1
  <2>3. PICK len : len = Len(rd.ask)
    OBVIOUS
  <2>4. m = IF rd.q + skip > len THEN 0 ELSE rd.q + skip
    BY <1>5, <2>1, <2>3
  <2>5. PICK x : x = rd.q
    OBVIOUS
  <2>6. x \in {1, 2, 3} /\ len \in {2, 3} /\ x <= len
    BY <1>6, <1>7, <2>3, <2>5
  <2>7. CASE x + skip > len
    <3>1. m = 0 /\ ~(x = 1 /\ skip = 1)
      BY <2>4, <2>5, <2>6, <2>7
    <3> QED
      BY <2>2, <2>3, <2>5, <2>6, <3>1
  <2>8. CASE ~(x + skip > len)
    <3>1. m = x + skip
      BY <2>4, <2>5, <2>8
    <3>2. m \in Nat /\ m <= len
      BY <2>2, <2>6, <2>8, <3>1
    <3>3. m \in 0 .. 3 /\ (x = 1 /\ skip = 1 => m = 2)
      BY <2>6, <3>1, <3>2
    <3> QED
      BY <2>2, <2>3, <2>5, <3>2, <3>3
  <2> QED
    BY <2>7, <2>8
<1>9. PICK res : res = [rd.res EXCEPT ![q] = r]
  OBVIOUS
<1>10. rd = [ask |-> rd.ask, q |-> rd.q, url |-> rd.url, got |-> rd.got, now |-> rd.now,
             final |-> rd.final, n |-> rd.n, res |-> rd.res]
       /\ DOMAIN rd.res = Question
  BY <1>1 DEF Asking
<1>11. rd' = [rd EXCEPT !.q = m, !.url = 1, !.got = << >>, !.res[q] = r]
  BY <1>2, <1>3, <1>5 DEF Settle
<1>12. rd' = [ask |-> rd.ask, q |-> m, url |-> 1, got |-> << >>, now |-> rd.now,
              final |-> rd.final, n |-> rd.n, res |-> res]
  BY <1>9, <1>10, <1>11
<1>13. /\ rd'.ask = rd.ask /\ rd'.q = m /\ rd'.url = 1 /\ rd'.got = << >> /\ rd'.now = rd.now
       /\ rd'.final = rd.final /\ rd'.n = rd.n /\ rd'.res = res
       /\ rd' = [ask |-> rd'.ask, q |-> rd'.q, url |-> rd'.url, got |-> rd'.got, now |-> rd'.now,
                 final |-> rd'.final, n |-> rd'.n, res |-> rd'.res]
  BY <1>12
<1>14. DOMAIN res = Question /\ res[q] = r /\ \A p \in Question \ {q} : res[p] = rd.res[p]
  BY <1>6, <1>9, <1>10
<1>15. Asking'
  <2>1. ASSUME m \notin {1, 2}, res["lastSeen"].how = "agreed" PROVE res["deadlineOf"].how # "unasked"
    <3>1. CASE rd.q = 1
      BY <1>7, <1>8, <1>14, <2>1, <3>1
    <3>2. CASE rd.q = 2
      BY <1>4, <1>7, <1>14, <3>2
    <3>3. CASE rd.q = 3
      <4>1. res["lastSeen"] = rd.res["lastSeen"] /\ res["deadlineOf"] = rd.res["deadlineOf"]
        BY <1>7, <1>14, <3>3 DEF Question
      <4> QED
        BY <1>1, <1>6, <2>1, <3>3, <4>1 DEF Asking
    <3> QED
      BY <1>7, <3>1, <3>2, <3>3
  <2>2. rd'.url \in 1 .. Url + 1
    BY <1>13, EvmClientAssumption
  <2>3. rd'.final \in 0 .. final' /\ rd'.now \in Nat
    BY <1>1, <1>13 DEF Asking
  <2> QED
    BY <1>6, <1>8, <1>13, <1>14, <2>1, <2>2, <2>3 DEF Asking
<1>16. GotHolds'
  BY <1>13 DEF GotHolds
<1>17. ASSUME NEW p \in Question PROVE ResultHolds(p, rd.res[p])'
  <2>1. PICK x : x = res[p]
    OBVIOUS
  <2>2. ResultHolds(p, x)
    BY <1>1, <1>4, <1>14, <2>1 DEF ReadHolds
  <2>3. ResultHolds(p, x)'
    BY <1>1, <1>13, <2>2, ResultStays
  <2> QED
    BY <1>13, <2>1, <2>3 DEF ResultHolds, Honest
<1> QED
  BY <1>15, <1>16, <1>17 DEF ReadHolds

LEMMA ReadInvInductive ==
  ASSUME \A u, v \in Liars : u = v, ReadInv, [Next]_vars
  PROVE  ReadInv'
<1>1. SinkInv'
  BY SinkInvInductive DEF ReadInv
<1>2. CASE UNCHANGED rd
  BY <1>1, <1>2, ChainUnderRead DEF ReadInv
<1>3. Mine \/ Finalize \/ Reorg \/ Evict => UNCHANGED rd
  BY DEF Mine, Finalize, Reorg, Evict
<1>4. ASSUME NEW s \in Sink, SinkStep(s) PROVE UNCHANGED rd
  BY <1>4 DEF SinkStep, register_trail, registry_publish, bond_deposit, submit_checkpoint, bond_prove,
     Begin, Quote, SignerFails, Broadcast, PollReceipt, PollConfirm, Silent
<1>5. UNCHANGED vars => UNCHANGED rd
  BY DEF vars
<1> QED
  BY <1>1, <1>2, <1>3, <1>4, <1>5, StartReadKeeps, AskKeeps, SettleKeeps DEF Next, ReadInv

-----------------------------------------------------------------------------
(* What a finished read concludes.                                         *)

\* The combined verdict is one of them, and the best only if all are.
LEMMA CombineIsWorst ==
  ASSUME NEW V \in SUBSET Verdict, V # {}
  PROVE  /\ Combine(V) \in V
         /\ Combine(V) = "ok" => V = {"ok"}
<1>1. Severity("ok") = 0 /\ Severity("unverifiable") = 1 /\ Severity("broken") = 2
  BY DEF Severity
<1>2. \E v \in V : \A w \in V : Severity(w) <= Severity(v)
  <2>1. CASE "broken" \in V
    BY <1>1, <2>1 DEF Verdict
  <2>2. CASE "broken" \notin V /\ "unverifiable" \in V
    BY <1>1, <2>2 DEF Verdict
  <2>3. CASE "broken" \notin V /\ "unverifiable" \notin V
    <3>1. \A v \in V : v = "ok"
      BY <2>3 DEF Verdict
    <3>2. PICK v \in V : TRUE
      OBVIOUS
    <3> QED
      BY <1>1, <3>1, <3>2
  <2> QED
    BY <2>1, <2>2, <2>3
<1>3. PICK c : c = Combine(V)
  OBVIOUS
<1>4. c \in V /\ \A w \in V : Severity(w) <= Severity(c)
  BY <1>2, <1>3 DEF Combine
<1>5. ASSUME c = "ok" PROVE V = {"ok"}
  <2>1. ASSUME NEW w \in V PROVE w = "ok"
    <3>1. Severity(w) <= 0 /\ w \in Verdict
      BY <1>1, <1>4, <1>5
    <3> QED
      BY <1>1, <3>1 DEF Verdict
  <2> QED
    BY <1>4, <1>5, <2>1
<1> QED
  BY <1>3, <1>4, <1>5

\* The liveness a finished read reports, when the head is an honest node's.
LEMMA LivenessIsEarned ==
  ASSUME ReadInv, Done, rd.res["lastSeen"].how = "agreed", rd.res["lastSeen"].url \notin Liars
  PROVE  /\ liveness(rd) = "live" => Fresh(final)
         /\ liveness(rd) = "delinquent" => ~Fresh(Reached)
<1>1. PICK h, d : h = rd.res["lastSeen"] /\ d = rd.res["deadlineOf"]
  OBVIOUS
<1>2. ResultHolds("lastSeen", h) /\ ResultHolds("deadlineOf", d) /\ d.how # "unasked"
  BY <1>1 DEF ReadInv, ReadHolds, Question, Asking, Done
<1>3. final \in Nat /\ rd.now \in Nat /\ Reached \in Nat /\ final <= Len(chain) /\ Len(chain) \in Nat
  BY ReachedNat DEF ReadInv, SinkInv, EvmShape, Asking
<1>4. PICK k \in Reached .. final : h.value = Answer("lastSeen", k)
  BY <1>1, <1>2 DEF ResultHolds, Honest
<1>5. k \in Nat /\ h.value = latest_checkpoint(k) /\ Reached <= k /\ k <= final
  BY <1>3, <1>4 DEF Answer
<1>6. CASE d.how # "agreed"
  <2>1. d.how \in {"disagreement", "unreachable"}
    BY <1>2, <1>6 DEF ResultHolds
  <2>2. liveness(rd) \in {"disagreement", "unreachable"}
    BY <1>1, <2>1 DEF liveness
  <2> QED
    BY <2>2
<1>7. CASE d.how = "agreed"
  <2>1. d.value \in {0, Deadline}
    BY <1>2, <1>7 DEF ResultHolds, Same, Answer, deadline_s
  <2>2. liveness(rd) = delinquency(h.value, d.value, rd.now)
    BY <1>1, <1>7 DEF liveness
  <2>3. CASE d.value = 0
    BY <2>2, <2>3 DEF delinquency
  <2>4. CASE d.value # 0 /\ Ran(k, "submit") = {}
    <3>1. h.value = << >>
      BY <1>5, <2>4 DEF latest_checkpoint
    <3>2. liveness(rd) = "delinquent"
      BY <2>2, <2>4, <3>1 DEF delinquency
    <3>3. Ran(Reached, "submit") = {}
      BY <1>3, <1>5, <2>4, RanGrows
    <3> QED
      BY <3>2, <3>3 DEF Fresh
  <2>5. CASE d.value # 0 /\ Ran(k, "submit") # {}
    <3>1. PICK i : i = Max(Ran(k, "submit"))
      OBVIOUS
    <3>2. i \in Ran(k, "submit") /\ \A j \in Ran(k, "submit") : j <= i
      BY <1>5, <2>5, <3>1, RanShape
    <3>3. h.value = <<chain[i].op[2], chain[i].time>>
      BY <1>5, <2>5, <3>1 DEF latest_checkpoint
    <3>4. h.value # << >> /\ h.value[2] = chain[i].time
      BY <3>3
    <3>5. \A j \in 1 .. k : j \in DOMAIN chain /\ chain[j].time \in Nat
      <4>1. \A j \in DOMAIN chain : chain[j] \in Blocks
        BY DEF ReadInv, SinkInv, EvmShape
      <4>2. \A j \in 1 .. k : j \in DOMAIN chain
        BY <1>3, <1>5 DEF ReadInv, SinkInv, EvmShape
      <4> QED
        BY <4>1, <4>2 DEF Blocks
    <3>6. i \in 1 .. k /\ chain[i].time \in Nat
      BY <3>2, <3>5 DEF Ran
    <3>7. Deadline \in Nat /\ d.value = Deadline
      BY <2>1, <2>5, EvmClientAssumption
    <3>8. liveness(rd) = IF rd.now - chain[i].time > Deadline THEN "delinquent" ELSE "live"
      BY <2>2, <2>5, <3>4, <3>6, <3>7 DEF delinquency
    <3>9. CASE rd.now - chain[i].time > Deadline
      <4>1. ASSUME NEW j \in Ran(Reached, "submit") PROVE ~(rd.now - chain[j].time <= Deadline)
        <5>1. j \in Ran(k, "submit") /\ j \in 1 .. k /\ j <= i
          BY <1>3, <1>5, <3>2, RanGrows DEF Ran
        <5>2. chain[j].time <= chain[i].time
          BY <3>5, <3>6, <5>1 DEF ReadInv, SinkInv, TimesHold
        <5>3. chain[j].time \in Nat
          BY <3>5, <5>1
        <5> QED
          BY <1>3, <3>6, <3>7, <3>9, <5>2, <5>3
      <4>2. ~Fresh(Reached)
        BY <4>1 DEF Fresh
      <4> QED
        BY <3>8, <3>9, <4>2
    <3>10. CASE ~(rd.now - chain[i].time > Deadline)
      <4>1. i \in Ran(final, "submit")
        BY <1>3, <1>5, <3>2, RanGrows
      <4>2. rd.now - chain[i].time <= Deadline
        BY <1>3, <3>6, <3>7, <3>10
      <4>3. Fresh(final)
        BY <4>1, <4>2 DEF Fresh
      <4> QED
        BY <3>8, <3>10, <4>3
    <3> QED
      BY <3>9, <3>10
  <2> QED
    BY <2>3, <2>4, <2>5
<1> QED
  BY <1>6, <1>7

LEMMA BondVerdictIsEarned ==
  ASSUME ReadInv, bond_verdict(bond(rd.res["bondOf"])) = "broken"
  PROVE  \E k \in Reached .. final : Answer("bondOf", k).amount = 0
<1>1. PICK b : b = rd.res["bondOf"]
  OBVIOUS
<1>2. ResultHolds("bondOf", b) /\ Asking /\ final \in Nat
  BY <1>1 DEF ReadInv, ReadHolds, Question, SinkInv, EvmShape
<1>3. b.how = "agreed"
  BY <1>1, <1>2 DEF ResultHolds, bond, bond_verdict
<1>4. PICK k \in Reached .. final : b.value = Answer("bondOf", k)
  BY <1>2, <1>3 DEF ResultHolds, Same
<1>5. k \in Nat
  BY <1>2, ReachedNat
<1>6. PICK c : c = Cardinality(Ran(k, "deposit"))
  OBVIOUS
<1>7. PICK a : a = IF Slashed(k) THEN 0 ELSE c
  OBVIOUS
<1>8. c \in Nat /\ Answer("bondOf", k) = [amount |-> a, slashed |-> Slashed(k)]
  BY <1>5, <1>6, <1>7, RanShape DEF Answer, bond_of
<1>9. bond_status_for(b.value) \in {"slashed", "unbonded"}
  BY <1>1, <1>3 DEF bond, bond_verdict, bond_status_for
<1>10. Slashed(k) \/ a <= 0
  BY <1>4, <1>8, <1>9 DEF bond_status_for
<1> QED
  BY <1>7, <1>8, <1>10

LEMMA ReadInvGivesReads == ReadInv => ReadsAreEarned
<1> SUFFICES ASSUME ReadInv PROVE AgreedIsOnChain /\ ExitCodesAreEarned
  BY DEF ReadsAreEarned
<1>1. final \in Nat /\ Reached \in Nat
  BY ReachedNat DEF ReadInv, SinkInv, EvmShape
<1>2. AgreedIsOnChain
  <2> SUFFICES ASSUME Done, NEW q \in Range(rd.ask), rd.res[q].how = "agreed"
               PROVE  \E k \in 0 .. final : Same(q, rd.res[q].value, Answer(q, k))
    BY DEF AgreedIsOnChain
  <2>1. q \in Question
    <3>1. rd.ask \in Questions
      BY DEF Done, ReadInv, Asking
    <3> QED
      BY <3>1, QuestionShape DEF Range
  <2>2. PICK k \in Reached .. final : Same(q, rd.res[q].value, Answer(q, k))
    BY <2>1 DEF ReadInv, ReadHolds, ResultHolds
  <2>3. k \in 0 .. final
    BY <1>1
  <2> QED
    BY <2>2, <2>3
<1>3. ExitCodesAreEarned
  <2> SUFFICES ASSUME Done, rd.res["lastSeen"].how = "agreed", rd.res["lastSeen"].url \notin Liars
               PROVE  /\ ledger_status(rd) = "broken" =>
                           \/ \E k \in Reached .. final : Answer("bondOf", k).amount = 0
                           \/ ~Fresh(Reached)
                      /\ "ok" \in {ledger_status(rd), ledger_check(rd)} => Fresh(final)
    BY DEF ExitCodesAreEarned
  <2>1. /\ liveness(rd) = "live" => Fresh(final)
        /\ liveness(rd) = "delinquent" => ~Fresh(Reached)
    BY LivenessIsEarned
  <2>2. PICK l, y, g, b : /\ l = to_verdict(liveness(rd)) /\ y = to_verify_verdict(liveness(rd))
                          /\ g = registry_verdict(registry_agreement(rd.res["lookup"]))
                          /\ b = bond_verdict(bond(rd.res["bondOf"]))
    OBVIOUS
  <2>3. {l, y, g, b} \subseteq Verdict
    BY <2>2 DEF Verdict, to_verdict, to_verify_verdict, registry_verdict, bond_verdict
  <2>4. g # "broken" /\ (l = "broken" => ~Fresh(Reached)) /\ (l = "ok" \/ y = "ok" => Fresh(final))
    BY <2>1, <2>2 DEF registry_verdict, to_verdict, to_verify_verdict
  <2>5. b = "broken" => \E k \in Reached .. final : Answer("bondOf", k).amount = 0
    BY <2>2, BondVerdictIsEarned
  <2>6. ledger_status(rd) \in {l, g, b} /\ (ledger_status(rd) = "ok" => l = "ok")
    <3>1. ledger_status(rd) = Combine({l, g, b})
      BY <2>2 DEF ledger_status
    <3>2. {l, g, b} \in SUBSET Verdict /\ {l, g, b} # {}
      BY <2>3
    <3> QED
      BY <3>1, <3>2, CombineIsWorst
  <2>7. ledger_check(rd) = "ok" => y = "ok"
    <3>1. ledger_check(rd) = Combine({y, g})
      BY <2>2 DEF ledger_check
    <3>2. {y, g} \in SUBSET Verdict /\ {y, g} # {}
      BY <2>3
    <3> QED
      BY <3>1, <3>2, CombineIsWorst
  <2> QED
    BY <2>4, <2>5, <2>6, <2>7
<1> QED
  BY <1>2, <1>3

\* With one lying node at most, what EvmLedgerReader agrees on is what the
\* contracts held at a finalized height, and the exit code `ledger-status` draws
\* from it accuses and acquits only for what every node could see: for any
\* number of nodes, lag, deadline and reorgs.
THEOREM ReadsAreTrue ==
  ASSUME \A u, v \in Liars : u = v
  PROVE  Spec => []ReadsAreEarned
<1>1. ReadInv /\ [Next]_vars => ReadInv'
  BY ReadInvInductive
<1> QED
  BY <1>1, ReadInitHolds, ReadInvGivesReads, PTL DEF Spec

-----------------------------------------------------------------------------
(* The inductive invariant of Ingest.                                      *)

GapEntry == [type : {"gap"}, missing_after : Nat, missing_before : Nat, cause : {"page_cap", "prune_or_drop"}]
RecordEntry == [type : {"record"}, sequence : Nat, unfiltered : BOOLEAN]
IngestEntry == GapEntry \cup RecordEntry

LockRun == [pc : {"lock"}, kind : KINDS \cup {None}]
FetchRun == [pc : {"fetch"}, kind : KINDS \cup {None}, resume_from : Nat \cup {None},
             fresh : SUBSET Nat, unusable : BOOLEAN, cursor : Nat \cup {None}, pages : Nat,
             span : SUBSET Nat]
AppendRun == [pc : {"append"}, kind : KINDS \cup {None}, gaps : SUBSET GapEntry,
              truncated : BOOLEAN, span : SUBSET Nat, notice : BOOLEAN,
              todo : SUBSET IngestEntry]
DoneRun == [pc : {"done"}, gaps : (SUBSET GapEntry) \cup {None}, truncated : BOOLEAN,
            notice : BOOLEAN, span : SUBSET Nat]

IngestShape ==
    /\ top \in Nat /\ DOMAIN ledger \subseteq 1 .. top
    /\ trail \in Seq(IngestEntry) /\ dropped \subseteq IngestEntry
    /\ run \in [Runner -> LockRun \cup FetchRun \cup AppendRun \cup DoneRun]

\* A run that has read its resume point holds the ingest lock.
OneRun == \A r \in Runner : run[r].pc \in {"fetch", "append"} => lock = r

\* What a paging run knows: the chain ends where it resumes, and what the
\* ledger still holds of its span is read or below the cursor.
FetchHolds(j) ==
    j.pc = "fetch" =>
        /\ IF j.resume_from = None THEN Ingested = {}
           ELSE j.resume_from \in Ingested /\ \A s \in Ingested : s <= j.resume_from
        /\ \A s \in j.fresh \cup j.span : j.resume_from # None => s > j.resume_from
        /\ \A s \in j.span : s <= top
        /\ j.kind = None /\ ~j.unusable =>
             \A s \in j.span \cap DOMAIN ledger : s \in j.fresh \/ j.cursor = None \/ s < j.cursor

Covers(e, s) == IF e.type = "record" THEN e.sequence = s
                ELSE e.missing_after < s /\ s < e.missing_before

\* A sequence that a later record may not pass over.
Passed(j, s) ==
    /\ \A x \in Ingested : x < s
    /\ Ingested # {} \/ \E f \in j.todo : f.type = "record" /\ f.sequence < s

\* What an appending run still has to append is above the chain, and what it
\* passes over is accounted for before it does.
AppendHolds(j) ==
    j.pc = "append" =>
        /\ \A s \in j.span : s <= top
        /\ \A e \in j.todo : e.type = "record" =>
             /\ e.unfiltered = (j.kind = None)
             /\ \A x \in Ingested : x < e.sequence
             /\ j.kind = None => \A s \in Nat : s < e.sequence /\ Passed(j, s) =>
                  \E f \in {trail[i] : i \in DOMAIN trail} \cup dropped
                           \cup {g \in j.todo : Place(g) < Place(e)} : Covers(f, s)
        /\ j.kind = None /\ ~j.notice =>
             \A s \in j.span \cap DOMAIN ledger :
                s \in Ingested \/ \E e \in j.todo : e.type = "record" /\ e.sequence = s

DoneHolds(j) ==
    j.pc = "done" =>
        /\ \A s \in j.span : s <= top
        /\ j.gaps = {} /\ ~j.truncated /\ ~j.notice =>
             j.span \cap DOMAIN ledger \subseteq Ingested

RunsHold == \A r \in Runner : FetchHolds(run[r]) /\ AppendHolds(run[r]) /\ DoneHolds(run[r])

IngestInv == IngestShape /\ OneRun /\ RunsHold /\ IngestedOnceInOrder /\ HolesAreAccountedFor

Holds(j) == FetchHolds(j) /\ AppendHolds(j) /\ DoneHolds(j)

AnyRun == LockRun \cup FetchRun \cup AppendRun \cup DoneRun

LEMMA RunTypes ==
  ASSUME IngestShape, NEW r \in Runner
  PROVE  /\ run[r] \in AnyRun
         /\ run[r].pc = "lock" => run[r] \in LockRun
         /\ run[r].pc = "fetch" => run[r] \in FetchRun
         /\ run[r].pc = "append" => run[r] \in AppendRun
         /\ run[r].pc = "done" => run[r] \in DoneRun
BY DEF IngestShape, AnyRun, LockRun, FetchRun, AppendRun, DoneRun

LEMMA IngestedIsNat ==
  ASSUME IngestShape
  PROVE  Ingested \in SUBSET Nat
BY DEF IngestShape, Ingested, RecordsOf, IngestEntry, GapEntry, RecordEntry

LEMMA RecordsAreEntries ==
  ASSUME IngestShape, NEW i \in RecordsOf(trail)
  PROVE  i \in 1 .. Len(trail) /\ trail[i] \in RecordEntry /\ trail[i].sequence \in Ingested
BY DEF IngestShape, Ingested, RecordsOf, IngestEntry, GapEntry, RecordEntry

LEMMA IngestInitHolds == IngestInit => IngestInv
<1> SUFFICES ASSUME IngestInit PROVE IngestInv
  OBVIOUS
<1>1. Failed \in DoneRun
  BY DEF Failed, IngestResult, DoneRun
<1>2. IngestShape
  BY <1>1 DEF IngestInit, IngestShape
<1>3. OneRun /\ RunsHold
  BY DEF IngestInit, OneRun, RunsHold, Failed, IngestResult, FetchHolds, AppendHolds, DoneHolds
<1>4. IngestedOnceInOrder /\ HolesAreAccountedFor
  BY DEF IngestInit, IngestedOnceInOrder, HolesAreAccountedFor, RecordsOf
<1> QED
  BY <1>2, <1>3, <1>4 DEF IngestInv

\* A step of one run that appends nothing.
LEMMA QuietStepKeeps ==
  ASSUME IngestInv, NEW r \in Runner, NEW j \in AnyRun,
         run' = [run EXCEPT ![r] = j],
         UNCHANGED <<ledger, top, trail, dropped>>,
         j.pc \in {"fetch", "append"} => lock' = r,
         \A q \in Runner \ {r} : run[q].pc \in {"fetch", "append"} => lock' = q,
         Holds(j)
  PROVE  IngestInv'
<1>1. /\ DOMAIN run = Runner
      /\ run'[r] = j
      /\ \A q \in Runner \ {r} : run'[q] = run[q]
  BY DEF IngestInv, IngestShape
<1>2. IngestShape'
  BY <1>1 DEF IngestInv, IngestShape, AnyRun
<1>3. OneRun'
  BY <1>1 DEF IngestInv, OneRun
<1>4. Ingested' = Ingested /\ IngestedOnceInOrder' /\ HolesAreAccountedFor'
  BY DEF IngestInv, Ingested, IngestedOnceInOrder, HolesAreAccountedFor
<1>5. ASSUME NEW q \in Runner PROVE FetchHolds(run[q])' /\ AppendHolds(run[q])' /\ DoneHolds(run[q])'
  <2>1. Holds(run'[q])
    BY <1>1 DEF IngestInv, RunsHold, Holds
  <2> QED
    BY <2>1, <1>4 DEF Holds, FetchHolds, AppendHolds, DoneHolds, Passed
<1> QED
  BY <1>2, <1>3, <1>4, <1>5 DEF IngestInv, RunsHold

LEMMA ReleaseKeepsOthers ==
  ASSUME IngestInv, NEW r \in Runner, Release(r)
  PROVE  \A q \in Runner \ {r} : run[q].pc \in {"fetch", "append"} => lock' = q
BY DEF IngestInv, OneRun, Release

LEMMA FailedHolds == Failed \in AnyRun /\ Failed.pc = "done" /\ Holds(Failed)
BY DEF Failed, IngestResult, AnyRun, DoneRun, Holds, FetchHolds, AppendHolds, DoneHolds

LEMMA EndsFailed ==
  ASSUME IngestInv, NEW r \in Runner, run' = [run EXCEPT ![r] = Failed],
         UNCHANGED <<ledger, top, trail, dropped>>,
         Release(r) \/ (UNCHANGED lock /\ run[r].pc = "lock")
  PROVE  IngestInv'
<1>1. \A q \in Runner \ {r} : run[q].pc \in {"fetch", "append"} => lock' = q
  BY ReleaseKeepsOthers DEF IngestInv, OneRun
<1> QED
  BY <1>1, FailedHolds, QuietStepKeeps

LEMMA TickKeeps ==
  ASSUME IngestInv, NEW r \in Runner, NEW kind \in KINDS \cup {None}, Tick(r, kind)
  PROVE  IngestInv'
<1> DEFINE j == [pc |-> "lock", kind |-> kind]
<1>1. j \in AnyRun /\ j.pc = "lock" /\ Holds(j)
  BY DEF AnyRun, LockRun, Holds, FetchHolds, AppendHolds, DoneHolds
<1>2. \A q \in Runner \ {r} : run[q].pc \in {"fetch", "append"} => lock' = q
  BY DEF Tick, IngestInv, OneRun
<1> QED
  BY <1>1, <1>2, QuietStepKeeps DEF Tick

\* The resume point is the greatest sequence on the chain.
LEMMA ResumePoint ==
  ASSUME IngestInv
  PROVE  LET R == last_ingested_sequence(trail)
         IN  /\ R \in Nat \cup {None}
             /\ IF R = None THEN Ingested = {}
                ELSE R \in Ingested /\ \A s \in Ingested : s <= R
<1>1. Ingested \in SUBSET Nat
  BY IngestedIsNat DEF IngestInv
<1>2. last_ingested_sequence(trail) = IF Ingested = {} THEN None ELSE Max(Ingested)
  BY DEF last_ingested_sequence, Ingested
<1>3. CASE Ingested = {}
  BY <1>2, <1>3, IngestAssumption
<1>4. CASE Ingested # {}
  <2>0. trail \in Seq(IngestEntry) /\ Len(trail) \in Nat /\ RecordsOf(trail) \subseteq 1 .. Len(trail)
    BY DEF IngestInv, IngestShape, RecordsOf
  <2>1. RecordsOf(trail) # {} /\ RecordsOf(trail) \in SUBSET Nat /\ \A i \in RecordsOf(trail) : i <= Len(trail)
    BY <1>4, <2>0 DEF Ingested
  <2>2. PICK i \in RecordsOf(trail) : \A k \in RecordsOf(trail) : k <= i
    BY <2>0, <2>1, GreatestNat
  <2>3. trail[i].sequence \in Nat
    BY <1>1, RecordsAreEntries DEF IngestInv
  <2>4. \A s \in Ingested : s <= trail[i].sequence
    <3> SUFFICES ASSUME NEW k \in RecordsOf(trail) PROVE trail[k].sequence <= trail[i].sequence
      BY DEF Ingested
    <3>1. k <= i /\ k \in Nat /\ i \in Nat
      BY <2>1, <2>2
    <3>2. k < i => trail[k].sequence < trail[i].sequence
      BY DEF IngestInv, IngestedOnceInOrder
    <3>3. trail[k].sequence \in Nat
      BY <1>1, RecordsAreEntries DEF IngestInv
    <3> QED
      BY <3>1, <3>2, <3>3, <2>3
  <2>5. Max(Ingested) \in Ingested /\ \A s \in Ingested : s <= Max(Ingested)
    BY <1>1, <1>4, <2>3, <2>4, MaxIsGreatest
  <2> QED
    BY <1>1, <1>2, <1>4, <2>5, IngestAssumption
<1> QED
  BY <1>3, <1>4

LEMMA ingestKeeps ==
  ASSUME IngestInv, NEW r \in Runner, ingest(r)
  PROVE  IngestInv'
<1> DEFINE R == last_ingested_sequence(trail)
<1> DEFINE j == [pc |-> "fetch", kind |-> run[r].kind, resume_from |-> R,
                 fresh |-> {}, unusable |-> FALSE, cursor |-> None, pages |-> 0, span |-> Span(R)]
<1>1. run' = [run EXCEPT ![r] = j] /\ lock' = r /\ lock = None /\ run[r].pc = "lock"
      /\ UNCHANGED <<ledger, top, trail, dropped>>
  BY DEF ingest
<1>2. /\ R \in Nat \cup {None}
      /\ IF R = None THEN Ingested = {} ELSE R \in Ingested /\ \A s \in Ingested : s <= R
  BY ResumePoint
<1>3. Span(R) \in SUBSET Nat /\ \A s \in Span(R) : s <= top /\ (R # None => s > R)
  BY DEF Span, IngestInv, IngestShape
<1>4. j \in FetchRun
  <2>1. run[r].kind \in KINDS \cup {None}
    BY <1>1, RunTypes DEF IngestInv, LockRun
  <2> QED
    BY <2>1, <1>2, <1>3 DEF FetchRun
<1>5. Holds(j)
  BY <1>2, <1>3 DEF Holds, FetchHolds, AppendHolds, DoneHolds
<1>6. \A q \in Runner \ {r} : run[q].pc \in {"fetch", "append"} => lock' = q
  BY <1>1, IngestAssumption DEF IngestInv, OneRun
<1> QED
  BY <1>1, <1>4, <1>5, <1>6, QuietStepKeeps DEF AnyRun

-----------------------------------------------------------------------------
(* Pages.                                                                  *)

Rows(cursor, kind) == {s \in DOMAIN ledger : /\ cursor # None => s < cursor
                                             /\ kind # None => ledger[s] = kind}

LEMMA RowsAreFinite ==
  ASSUME IngestShape, NEW cursor, NEW kind
  PROVE  /\ Rows(cursor, kind) \in SUBSET Nat
         /\ \A s \in Rows(cursor, kind) : s <= top
         /\ \A T \in SUBSET Rows(cursor, kind) : IsFiniteSet(T) /\ Cardinality(T) \in Nat
<1>1. IsFiniteSet(1 .. top)
  BY FS_Interval DEF IngestShape
<1>2. Rows(cursor, kind) \subseteq 1 .. top
  BY DEF Rows, IngestShape
<1> QED
  BY <1>1, <1>2, FS_Subset, FS_CardinalityType DEF IngestShape

\* A page is an upper part of the rows below the cursor, empty only if there
\* are none.
LEMMA PageIsTop ==
  ASSUME IngestShape, NEW cursor, NEW kind
  PROVE  /\ Page(cursor, kind) \subseteq Rows(cursor, kind)
         /\ \A p \in Page(cursor, kind), t \in Rows(cursor, kind) : t > p => t \in Page(cursor, kind)
         /\ Page(cursor, kind) = {} => Rows(cursor, kind) = {}
<1> DEFINE rows == Rows(cursor, kind)
           Above(s) == {t \in rows : t > s}
<1>1. Page(cursor, kind) = {s \in rows : Cardinality(Above(s)) < limit}
  BY DEF Page, Rows
<1>2. rows \in SUBSET Nat /\ \A s \in rows : s <= top
  BY RowsAreFinite
<1>3. \A s : IsFiniteSet(Above(s)) /\ Cardinality(Above(s)) \in Nat
  BY RowsAreFinite
<1>4. ASSUME NEW p \in rows, NEW t \in rows, t > p PROVE Cardinality(Above(t)) <= Cardinality(Above(p))
  <2>1. Above(t) \subseteq Above(p)
    BY <1>2, <1>4
  <2> QED
    BY <2>1, <1>3, FS_Subset
<1>5. ASSUME NEW p \in Page(cursor, kind), NEW t \in rows, t > p PROVE t \in Page(cursor, kind)
  <2>1. p \in rows /\ Cardinality(Above(p)) < limit
    BY <1>1
  <2>2. Cardinality(Above(t)) <= Cardinality(Above(p))
    BY <2>1, <1>4, <1>5
  <2>3. Cardinality(Above(t)) < limit
    <3>1. Cardinality(Above(t)) \in Nat /\ Cardinality(Above(p)) \in Nat /\ limit \in Nat
      BY <1>3, IngestAssumption
    <3> HIDE DEF Above
    <3> QED
      BY <3>1, <2>1, <2>2
  <2> QED
    BY <2>3, <1>1
<1>6. ASSUME rows # {} PROVE Page(cursor, kind) # {}
  <2>1. PICK m \in rows : \A y \in rows : y <= m
    BY <1>2, <1>6, GreatestNat DEF IngestShape
  <2>2. Above(m) = {}
    BY <2>1, <1>2
  <2>3. Cardinality(Above(m)) < limit
    BY <2>2, FS_EmptySet, IngestAssumption
  <2> QED
    BY <2>3, <1>1
<1> QED
  BY <1>1, <1>5, <1>6

-----------------------------------------------------------------------------
LEMMA CoveredByThePlan ==
  ASSUME NEW R \in Nat \cup {None}, NEW fresh \in SUBSET Nat, NEW truncated \in BOOLEAN,
         \A s \in fresh : R # None => s > R,
         NEW b \in fresh, NEW s \in Nat, s < b,
         (R # None /\ R < s) \/ \E a \in fresh : a < s
  PROVE  \E f \in Plan(None, found_gaps(None, R, fresh, truncated), fresh) :
            Covers(f, s) /\ Place(f) < 2 * b
<1> DEFINE gaps == found_gaps(None, R, fresh, truncated)
<1>1. CASE s \in fresh
  <2> DEFINE f == AuditEvent(s, TRUE)
  <2>1. f \in Plan(None, gaps, fresh)
    BY <1>1 DEF Plan
  <2>2. Covers(f, s) /\ Place(f) = 2 * s
    BY DEF Covers, Place, AuditEvent
  <2>3. 2 * s < 2 * b
    OBVIOUS
  <2> QED
    BY <2>1, <2>2, <2>3
<1>2. CASE s \notin fresh
  <2> DEFINE below == {x \in (fresh \cup {R}) \ {None} : x < s}
             above == {x \in fresh : x > s}
  <2>1. PICK hi \in above : \A y \in above : hi <= y
    <3>1. b \in above /\ above \in SUBSET Nat
      OBVIOUS
    <3> QED
      BY <3>1, LeastNat
  <2>2. PICK lo \in below : \A y \in below : y <= lo
    <3>1. \A y \in fresh \cup {R} : y # None => y \in Nat
      OBVIOUS
    <3>2. \A y \in fresh : y # None
      BY IngestAssumption
    <3>3. below \in SUBSET Nat /\ \A y \in below : y <= s
      <4> SUFFICES ASSUME NEW y \in below PROVE y \in Nat /\ y <= s
        OBVIOUS
      <4>1. y \in Nat /\ y < s
        BY <3>1
      <4> QED
        BY <4>1
    <3>4. below # {}
      BY <3>1, <3>2
    <3> QED
      BY <3>3, <3>4, GreatestNat
  <2>3. lo \in Nat /\ hi \in Nat /\ lo < s /\ s < hi /\ hi <= b /\ hi \in fresh
        /\ lo \in (fresh \cup {R}) \ {None}
    BY <2>1, <2>2
  <2>4. \A x \in fresh : ~(lo < x /\ x < hi)
    <3> SUFFICES ASSUME NEW x \in fresh, lo < x, x < hi PROVE FALSE
      OBVIOUS
    <3>1. x \in Nat /\ x # s /\ x # None
      BY <1>2, IngestAssumption
    <3>2. CASE x < s
      BY <3>1, <3>2, <2>2, <2>3
    <3>3. CASE x > s
      BY <3>1, <3>3, <2>1, <2>3
    <3> QED
      BY <3>1, <3>2, <3>3
  <2> DEFINE f == Gap(lo, hi, IF lo = R /\ truncated THEN "page_cap" ELSE "prune_or_drop")
  <2>5. hi > lo + 1
    BY <2>3
  <2>6. f \in gaps
    <3>1. f.missing_after = lo /\ f.missing_before = hi
      BY DEF Gap
    <3> HIDE DEF f
    <3>2. f \in {Gap(a, c, IF a = R /\ truncated THEN "page_cap" ELSE "prune_or_drop") :
                    a \in (fresh \cup {R}) \ {None}, c \in fresh}
      BY <2>3 DEF f
    <3> QED
      BY <3>1, <3>2, <2>4, <2>5 DEF found_gaps
  <2>7. f \in Plan(None, gaps, fresh)
    BY <2>6 DEF Plan
  <2>8. Covers(f, s) /\ Place(f) = 2 * hi - 1
    BY <2>3 DEF Covers, Place, Gap
  <2>9. 2 * hi - 1 < 2 * b
    BY <2>3
  <2> QED
    BY <2>7, <2>8, <2>9
<1> QED
  BY <1>1, <1>2

LEMMA PlanTypes ==
  ASSUME NEW kind, NEW fresh \in SUBSET Nat, NEW gaps \in SUBSET GapEntry,
         NEW todo, todo = Plan(kind, gaps, fresh)
  PROVE  /\ todo \in SUBSET IngestEntry
         /\ \A e \in todo : e.type = "record" =>
              e.sequence \in fresh /\ e.unfiltered = (kind = None) /\ Place(e) = 2 * e.sequence
         /\ \A s \in fresh : \E e \in todo : e.type = "record" /\ e.sequence = s
<1>2. \A s \in fresh : AuditEvent(s, kind = None) \in RecordEntry
  BY DEF AuditEvent, RecordEntry
<1>3. todo \in SUBSET IngestEntry
  BY <1>2 DEF Plan, IngestEntry
<1>4. ASSUME NEW e \in todo, e.type = "record"
      PROVE  e.sequence \in fresh /\ e.unfiltered = (kind = None) /\ Place(e) = 2 * e.sequence
  <2>1. e \notin gaps
    BY <1>4 DEF GapEntry
  <2>2. PICK s \in fresh : e = AuditEvent(s, kind = None)
    BY <2>1 DEF Plan
  <2> QED
    BY <2>2 DEF AuditEvent, Place
<1>5. ASSUME NEW s \in fresh PROVE \E e \in todo : e.type = "record" /\ e.sequence = s
  <2>1. AuditEvent(s, kind = None) \in todo
    BY DEF Plan
  <2>2. AuditEvent(s, kind = None).type = "record" /\ AuditEvent(s, kind = None).sequence = s
    BY DEF AuditEvent
  <2> QED
    BY <2>1, <2>2
<1> QED
  BY <1>3, <1>4, <1>5

\* Paging ends, with everything that can be read of the span in fresh if the
\* run is to be silent.
LEMMA EndPagingKeeps ==
  ASSUME IngestInv, NEW r \in Runner, run[r].pc = "fetch",
         NEW fresh \in SUBSET Nat, NEW unusable \in BOOLEAN, NEW truncated \in BOOLEAN,
         EndPaging(r, fresh, unusable, truncated),
         UNCHANGED <<ledger, top, trail, dropped>>,
         \A s \in fresh : run[r].resume_from # None => s > run[r].resume_from,
         run[r].kind = None /\ ~unusable /\ ~truncated =>
            run[r].span \cap DOMAIN ledger \subseteq fresh
  PROVE  IngestInv'
<1> DEFINE kind == run[r].kind
           R == run[r].resume_from
           gaps == found_gaps(kind, R, fresh, truncated)
           todo == Plan(kind, gaps, fresh)
<1>0. run[r] \in FetchRun /\ FetchHolds(run[r]) /\ lock = r
  BY RunTypes DEF IngestInv, OneRun, RunsHold
<1>1. R \in Nat \cup {None} /\ kind \in KINDS \cup {None} /\ run[r].span \in SUBSET Nat
  BY <1>0 DEF FetchRun
<1>2. /\ IF R = None THEN Ingested = {} ELSE R \in Ingested /\ \A s \in Ingested : s <= R
      /\ \A s \in run[r].span : s <= top
  BY <1>0 DEF FetchHolds
<1>3. CASE fresh = {}
  <2> DEFINE j == IngestResult(IF kind = None THEN {} ELSE None, truncated, unusable, run[r].span)
  <2>1. run' = [run EXCEPT ![r] = j] /\ Release(r)
    BY <1>3 DEF EndPaging
  <2>2. j \in DoneRun
    BY <1>1 DEF IngestResult, DoneRun
  <2>3. Holds(j)
    BY <1>2, <1>3, IngestAssumption DEF IngestResult, Holds, FetchHolds, AppendHolds, DoneHolds
  <2>4. j.pc = "done"
    BY DEF IngestResult
  <2> QED
    BY <2>1, <2>2, <2>3, <2>4, ReleaseKeepsOthers, QuietStepKeeps DEF AnyRun
<1>4. CASE fresh # {}
  <2> DEFINE j == [pc |-> "append", kind |-> kind, gaps |-> gaps,
                   truncated |-> truncated, span |-> run[r].span,
                   notice |-> unusable \/ truncated \/ gaps # {}, todo |-> todo]
  <2>1. run' = [run EXCEPT ![r] = j] /\ lock' = lock
    BY <1>4 DEF EndPaging
  <2>2. /\ gaps \in SUBSET GapEntry /\ todo \in SUBSET IngestEntry
        /\ \A e \in todo : e.type = "record" =>
             e.sequence \in fresh /\ e.unfiltered = (kind = None) /\ Place(e) = 2 * e.sequence
        /\ \A s \in fresh : \E e \in todo : e.type = "record" /\ e.sequence = s
    <3>1. gaps \in SUBSET GapEntry
      <4> SUFFICES ASSUME NEW g \in gaps PROVE g \in GapEntry
        OBVIOUS
      <4>1. PICK a \in (fresh \cup {R}) \ {None}, c \in fresh :
              g = Gap(a, c, IF a = R /\ truncated THEN "page_cap" ELSE "prune_or_drop")
        BY DEF found_gaps
      <4>2. a \in Nat /\ c \in Nat
        BY <1>1
      <4>3. (IF a = R /\ truncated THEN "page_cap" ELSE "prune_or_drop")
              \in {"page_cap", "prune_or_drop"}
        OBVIOUS
      <4> QED
        BY <4>1, <4>2, <4>3 DEF Gap, GapEntry
    <3>2. todo = Plan(kind, gaps, fresh)
      OBVIOUS
    <3> HIDE DEF kind, gaps, todo
    <3> QED
      BY <3>1, <3>2, PlanTypes
  <2>3. j \in AppendRun
    BY <1>1, <2>2 DEF AppendRun
  <2>4. Ingested \in SUBSET Nat
    BY IngestedIsNat DEF IngestInv
  <2>5. ASSUME NEW e \in todo, e.type = "record"
        PROVE  \A x \in Ingested : x < e.sequence
    <3>1. e.sequence \in fresh /\ e.sequence \in Nat
      BY <2>2, <2>5
    <3>2. R # None => R \in Nat /\ R < e.sequence
      BY <3>1, <1>1
    <3>3. CASE R = None
      BY <3>3, <1>2
    <3>4. CASE R # None
      <4> SUFFICES ASSUME NEW x \in Ingested PROVE x < e.sequence
        OBVIOUS
      <4>1. x \in Nat /\ x <= R
        BY <2>4, <1>2, <3>4
      <4> QED
        BY <4>1, <3>1, <3>2, <3>4
    <3> QED
      BY <3>3, <3>4
  <2>6. ASSUME NEW e \in todo, e.type = "record", kind = None,
               NEW s \in Nat, s < e.sequence, Passed(j, s)
        PROVE  \E f \in todo : Place(f) < Place(e) /\ Covers(f, s)
    <3>1. e.sequence \in fresh /\ Place(e) = 2 * e.sequence
      BY <2>2, <2>6
    <3>2. (R # None /\ R < s) \/ \E a \in fresh : a < s
      <4>1. CASE Ingested # {}
        BY <4>1, <2>6, <1>1, <1>2 DEF Passed
      <4>2. ASSUME NEW f \in todo, f.type = "record", f.sequence < s
            PROVE  \E a \in fresh : a < s
        BY <4>2, <2>2
      <4> QED
        BY <2>6, <4>1, <4>2 DEF Passed
    <3>3. \E f \in Plan(None, found_gaps(None, R, fresh, truncated), fresh) :
             Covers(f, s) /\ Place(f) < 2 * e.sequence
      BY <1>1, <2>6, <3>1, <3>2, CoveredByThePlan
    <3> QED
      BY <3>1, <3>3, <2>6
  <2>7. AppendHolds(j)
    <3>1. j.pc = "append" /\ j.kind = kind /\ j.todo = todo /\ j.span = run[r].span
          /\ j.notice = (unusable \/ truncated \/ gaps # {})
      OBVIOUS
    <3>2. ASSUME kind = None, ~j.notice, NEW s \in j.span \cap DOMAIN ledger
          PROVE  \E e \in todo : e.type = "record" /\ e.sequence = s
      BY <3>1, <3>2, <2>2
    <3>3. ASSUME NEW e \in todo, e.type = "record"
          PROVE  /\ e.unfiltered = (kind = None)
                 /\ \A x \in Ingested : x < e.sequence
                 /\ kind = None => \A s \in Nat : s < e.sequence /\ Passed(j, s) =>
                      \E f \in {trail[i] : i \in DOMAIN trail} \cup dropped
                               \cup {g \in todo : Place(g) < Place(e)} : Covers(f, s)
      BY <3>3, <2>2, <2>5, <2>6
    <3> HIDE DEF j
    <3> QED
      BY <3>1, <3>2, <3>3, <1>2 DEF AppendHolds
  <2>8. Holds(j)
    BY <2>7 DEF Holds, FetchHolds, DoneHolds
  <2>9. \A q \in Runner \ {r} : run[q].pc \in {"fetch", "append"} => lock' = q
    BY <2>1 DEF IngestInv, OneRun
  <2> QED
    BY <2>1, <2>3, <2>8, <2>9, <1>0, QuietStepKeeps DEF AnyRun
<1> QED
  BY <1>3, <1>4

LEMMA PageCapKeeps ==
  ASSUME IngestInv, NEW r \in Runner, PageCap(r)
  PROVE  IngestInv'
<1>1. run[r].pc = "fetch" /\ EndPaging(r, run[r].fresh, run[r].unusable, TRUE)
      /\ UNCHANGED <<ledger, top, trail, dropped>>
  BY DEF PageCap
<1>2. run[r] \in FetchRun /\ FetchHolds(run[r])
  BY <1>1, RunTypes DEF IngestInv, RunsHold
<1>3. run[r].fresh \in SUBSET Nat /\ run[r].unusable \in BOOLEAN
  BY <1>2 DEF FetchRun
<1>4. \A s \in run[r].fresh : run[r].resume_from # None => s > run[r].resume_from
  BY <1>1, <1>2 DEF FetchHolds
<1> QED
  BY <1>1, <1>3, <1>4, EndPagingKeeps

LEMMA FetchKeeps ==
  ASSUME IngestInv, NEW r \in Runner, NEW bad \in SUBSET DOMAIN ledger, Fetch(r, bad)
  PROVE  IngestInv'
<1> DEFINE me == run[r]
           page == Page(me.cursor, me.kind)
           read == page \ bad
           known == {s \in read : me.resume_from # None /\ s <= me.resume_from}
           fresh == me.fresh \cup (read \ known)
           unusable == me.unusable \/ bad # {}
           rows == Rows(me.cursor, me.kind)
<1>1. /\ me.pc = "fetch" /\ bad \subseteq page /\ UNCHANGED <<ledger, top, trail, dropped>>
      /\ IF page = {} \/ known # {} \/ ~More(me.cursor, me.kind, page)
         THEN EndPaging(r, fresh, unusable, FALSE)
         ELSE /\ run' = [run EXCEPT ![r] =
                           [me EXCEPT !.fresh = fresh, !.unusable = unusable,
                                      !.cursor = Min(page), !.pages = me.pages + 1]]
              /\ UNCHANGED lock
  BY DEF Fetch
<1>2. me \in FetchRun /\ FetchHolds(me) /\ lock = r
  BY <1>1, RunTypes DEF IngestInv, RunsHold, OneRun
<1>3. /\ me.fresh \in SUBSET Nat /\ me.unusable \in BOOLEAN /\ me.resume_from \in Nat \cup {None}
      /\ me.cursor \in Nat \cup {None} /\ me.pages \in Nat /\ me.span \in SUBSET Nat
      /\ me.kind \in KINDS \cup {None}
  BY <1>2 DEF FetchRun
<1>4. /\ page \subseteq rows
      /\ \A p \in page, t \in rows : t > p => t \in page
      /\ page = {} => rows = {}
      /\ rows \in SUBSET Nat
  BY PageIsTop, RowsAreFinite DEF IngestInv
<1>5. fresh \in SUBSET Nat /\ unusable \in BOOLEAN
  BY <1>3, <1>4
<1>6. \A s \in fresh : me.resume_from # None => s > me.resume_from
  BY <1>1, <1>2, <1>3, <1>4 DEF FetchHolds
\* What the page passes over is read.
<1>7. ASSUME me.kind = None, ~unusable, NEW s \in me.span \cap DOMAIN ledger
      PROVE  s \in fresh \/ s \in rows \ page
  <2>1. s \in me.fresh \/ me.cursor = None \/ s < me.cursor
    BY <1>7, <1>1, <1>2 DEF FetchHolds
  <2>2. s \notin known
    BY <1>1, <1>2, <1>3, <1>7 DEF FetchHolds
  <2>3. CASE s \in me.fresh
    BY <2>3
  <2>4. CASE s \notin me.fresh
    <3>1. s \in rows
      BY <2>1, <2>4, <1>7 DEF Rows
    <3> QED
      BY <3>1, <2>2, <1>7
  <2> QED
    BY <2>3, <2>4
<1>8. CASE page = {} \/ known # {} \/ ~More(me.cursor, me.kind, page)
  <2>1. ASSUME me.kind = None, ~unusable, NEW s \in me.span \cap DOMAIN ledger
        PROVE  s \in fresh
    <3> SUFFICES ASSUME s \in rows \ page PROVE FALSE
      BY <2>1, <1>7
    <3>1. CASE page = {}
      BY <3>1, <1>4
    <3>2. CASE known # {}
      <4>1. PICK k \in known : TRUE
        BY <3>2
      <4>2. k \in page /\ k \in Nat /\ s \in Nat /\ k <= me.resume_from /\ me.resume_from \in Nat
        BY <4>1, <1>3, <1>4
      <4>3. s > me.resume_from
        BY <1>1, <1>2, <2>1, <4>1 DEF FetchHolds
      <4> QED
        BY <4>2, <4>3, <1>4
    <3>3. CASE page # {} /\ ~More(me.cursor, me.kind, page)
      <4>1. Min(page) \in page
        BY <3>3, <1>4, MinIsLeast
      <4>2. s \in Nat /\ Min(page) \in Nat /\ s # Min(page)
        BY <4>1, <1>4
      <4>3. ~(s < Min(page))
        BY <3>3, <2>1 DEF More
      <4> QED
        BY <4>1, <4>2, <4>3, <1>4
    <3> QED
      BY <1>8, <3>1, <3>2, <3>3
  <2>2. EndPaging(r, fresh, unusable, FALSE)
    BY <1>1, <1>8
  <2>3. run[r].kind = None /\ ~unusable /\ ~FALSE => run[r].span \cap DOMAIN ledger \subseteq fresh
    BY <2>1
  <2>4. run[r].pc = "fetch" /\ \A s \in fresh : run[r].resume_from # None => s > run[r].resume_from
    BY <1>1, <1>6
  <2>5. UNCHANGED <<ledger, top, trail, dropped>> /\ FALSE \in BOOLEAN
    BY <1>1
  <2> HIDE DEF fresh, unusable
  <2> QED
    BY <1>5, <2>2, <2>3, <2>4, <2>5, EndPagingKeeps
<1>9. CASE ~(page = {} \/ known # {} \/ ~More(me.cursor, me.kind, page))
  <2> DEFINE j == [me EXCEPT !.fresh = fresh, !.unusable = unusable,
                             !.cursor = Min(page), !.pages = me.pages + 1]
  <2>1. run' = [run EXCEPT ![r] = j] /\ lock' = lock
    BY <1>1, <1>9
  <2>2. Min(page) \in page /\ Min(page) \in Nat /\ \A p \in page : Min(page) <= p
    BY <1>4, <1>9, MinIsLeast
  <2>3. j \in FetchRun
    <3>1. Min(page) \in Nat \cup {None} /\ me.pages + 1 \in Nat
      BY <2>2, <1>3
    <3> HIDE DEF me, fresh, unusable, page
    <3> QED
      BY <3>1, <1>2, <1>5 DEF FetchRun
  <2>4. /\ j.pc = "fetch" /\ j.resume_from = me.resume_from /\ j.kind = me.kind
        /\ j.span = me.span /\ j.fresh = fresh /\ j.unusable = unusable /\ j.cursor = Min(page)
    BY <1>1, <1>2 DEF FetchRun
  <2>5. ASSUME me.kind = None, ~unusable, NEW s \in me.span \cap DOMAIN ledger
        PROVE  s \in fresh \/ s < Min(page)
    <3> SUFFICES ASSUME s \in rows \ page PROVE s < Min(page)
      BY <2>5, <1>7
    <3> QED
      BY <2>2, <1>4
  <2>6. FetchHolds(j)
    <3> HIDE DEF j, fresh, unusable
    <3> QED
      BY <2>4, <2>5, <1>1, <1>2, <1>6 DEF FetchHolds
  <2>7. Holds(j)
    BY <2>4, <2>6 DEF Holds, AppendHolds, DoneHolds
  <2>8. \A q \in Runner \ {r} : run[q].pc \in {"fetch", "append"} => lock' = q
    BY <2>1 DEF IngestInv, OneRun
  <2> HIDE DEF j
  <2> QED
    BY <1>1, <1>2, <2>1, <2>3, <2>7, <2>8, QuietStepKeeps DEF AnyRun
<1> QED
  BY <1>8, <1>9


-----------------------------------------------------------------------------
(* Appending.                                                              *)

Said == {trail[i] : i \in DOMAIN trail} \cup dropped

\* What one append of e does to the chain and the counted drops.
LEMMA Appended ==
  ASSUME IngestInv, NEW e \in IngestEntry, trail' = Append(trail, e), dropped' = dropped
  PROVE  /\ trail' \in Seq(IngestEntry) /\ Len(trail') = Len(trail) + 1 /\ Len(trail) \in Nat
         /\ DOMAIN trail' = DOMAIN trail \cup {Len(trail) + 1}
         /\ DOMAIN trail = 1 .. Len(trail)
         /\ \A i \in DOMAIN trail : trail'[i] = trail[i]
         /\ trail'[Len(trail) + 1] = e
<1>1. trail \in Seq(IngestEntry)
  BY DEF IngestInv, IngestShape
<1> QED
  BY <1>1

LEMMA AppendedRecords ==
  ASSUME IngestInv, NEW e \in IngestEntry, trail' = Append(trail, e), dropped' = dropped
  PROVE  /\ RecordsOf(trail)' = RecordsOf(trail) \cup (IF e.type = "record" THEN {Len(trail) + 1} ELSE {})
         /\ Ingested' = Ingested \cup (IF e.type = "record" THEN {e.sequence} ELSE {})
         /\ Said' = Said \cup {e}
<1>1. /\ DOMAIN trail' = DOMAIN trail \cup {Len(trail) + 1}
      /\ \A i \in DOMAIN trail : trail'[i] = trail[i]
      /\ trail'[Len(trail) + 1] = e
  BY Appended
<1>2. RecordsOf(trail)' = RecordsOf(trail) \cup (IF e.type = "record" THEN {Len(trail) + 1} ELSE {})
  BY <1>1 DEF RecordsOf
<1>3. \A i \in RecordsOf(trail) : trail'[i] = trail[i]
  BY <1>1 DEF RecordsOf
<1>4. Ingested' = {trail'[i].sequence : i \in RecordsOf(trail)'}
  BY DEF Ingested
<1>5. Ingested' = Ingested \cup (IF e.type = "record" THEN {e.sequence} ELSE {})
  <2>1. {trail'[i].sequence : i \in RecordsOf(trail)} = Ingested
    BY <1>3 DEF Ingested
  <2>2. CASE e.type = "record"
    <3>1. RecordsOf(trail)' = RecordsOf(trail) \cup {Len(trail) + 1}
      BY <1>2, <2>2
    <3>2. Ingested' = {trail'[i].sequence : i \in RecordsOf(trail)} \cup {trail'[Len(trail) + 1].sequence}
      BY <1>4, <3>1
    <3> QED
      BY <1>1, <2>1, <2>2, <3>2
  <2>3. CASE e.type # "record"
    BY <1>2, <1>4, <2>1, <2>3
  <2> QED
    BY <2>2, <2>3
<1>6. Said' = Said \cup {e}
  BY <1>1 DEF Said
<1> QED
  BY <1>2, <1>5, <1>6

\* A run at the head of its plan: nothing it still has to append comes before e.
LEMMA HeadOfThePlan ==
  ASSUME IngestInv, NEW r \in Runner, run[r].pc = "append", NEW e \in First(run[r].todo)
  PROVE  /\ run[r] \in AppendRun /\ AppendHolds(run[r]) /\ lock = r
         /\ e \in IngestEntry /\ e \in run[r].todo
         /\ \A f \in run[r].todo : ~(Place(f) < Place(e))
         /\ \A f \in run[r].todo \ {e} : (e.type = "record" /\ f.type = "record") =>
               e.sequence < f.sequence
<1>1. run[r] \in AppendRun /\ AppendHolds(run[r]) /\ lock = r
  BY RunTypes DEF IngestInv, RunsHold, OneRun
<1>2. run[r].todo \in SUBSET IngestEntry
  BY <1>1 DEF AppendRun
<1>3. e \in run[r].todo /\ \A f \in run[r].todo : Place(e) <= Place(f)
  BY DEF First
<1>4. \A f \in IngestEntry : Place(f) \in Int
  BY DEF IngestEntry, GapEntry, RecordEntry, Place
<1>5. \A f \in run[r].todo : ~(Place(f) < Place(e))
  BY <1>2, <1>3, <1>4
<1>6. ASSUME NEW f \in run[r].todo \ {e}, e.type = "record", f.type = "record"
      PROVE  e.sequence < f.sequence
  <2>1. e \in RecordEntry /\ f \in RecordEntry
    BY <1>2, <1>3, <1>6 DEF IngestEntry, GapEntry
  <2>2. e.sequence \in Nat /\ f.sequence \in Nat /\ 2 * e.sequence <= 2 * f.sequence
    BY <2>1, <1>3, <1>6 DEF RecordEntry, Place
  <2>3. e.unfiltered = f.unfiltered
    BY <1>1, <1>3, <1>6 DEF AppendHolds
  <2>4. e.sequence # f.sequence
    BY <2>1, <2>3, <1>6 DEF RecordEntry
  <2> QED
    BY <2>2, <2>4
<1> QED
  BY <1>1, <1>2, <1>3, <1>5, <1>6

\* The appended record stands above all others, and what lies between it and
\* the record before it is accounted for.
LEMMA AppendedHolds ==
  ASSUME IngestInv, NEW r \in Runner, run[r].pc = "append", NEW e \in First(run[r].todo),
         trail' = Append(trail, e), dropped' = dropped
  PROVE  IngestedOnceInOrder' /\ HolesAreAccountedFor'
<1> DEFINE n == Len(trail)
<1>1. /\ run[r] \in AppendRun /\ AppendHolds(run[r]) /\ e \in IngestEntry /\ e \in run[r].todo
      /\ \A f \in run[r].todo : ~(Place(f) < Place(e))
  BY HeadOfThePlan
<1>2. /\ n \in Nat /\ DOMAIN trail' = DOMAIN trail \cup {n + 1} /\ DOMAIN trail = 1 .. n
      /\ \A i \in DOMAIN trail : trail'[i] = trail[i]
      /\ trail'[n + 1] = e
  BY <1>1, Appended
<1>3. RecordsOf(trail)' = RecordsOf(trail) \cup (IF e.type = "record" THEN {n + 1} ELSE {})
  BY <1>1, AppendedRecords
<1>4. /\ RecordsOf(trail) \subseteq 1 .. n
      /\ \A i \in RecordsOf(trail) : trail[i].sequence \in Ingested /\ trail[i].sequence \in Nat
  BY RecordsAreEntries DEF IngestInv, RecordEntry
<1>5. ASSUME e.type = "record" PROVE \A i \in RecordsOf(trail) : trail[i].sequence < e.sequence
  BY <1>1, <1>4, <1>5 DEF AppendHolds
<1>6. IngestedOnceInOrder'
  <2> SUFFICES ASSUME NEW i \in RecordsOf(trail)', NEW j \in RecordsOf(trail)', i < j
               PROVE  trail'[i].sequence < trail'[j].sequence
    BY DEF IngestedOnceInOrder
  <2>1. i \in RecordsOf(trail) /\ trail'[i] = trail[i]
    BY <1>2, <1>3, <1>4
  <2>2. CASE j \in RecordsOf(trail)
    <3>1. trail'[j] = trail[j]
      BY <2>2, <1>2, <1>4
    <3> QED
      BY <2>1, <2>2, <3>1 DEF IngestInv, IngestedOnceInOrder
  <2>3. CASE j \notin RecordsOf(trail)
    BY <2>1, <2>3, <1>2, <1>3, <1>5
  <2> QED
    BY <2>2, <2>3
<1>7. HolesAreAccountedFor'
  <2> DEFINE before(j) == {i \in RecordsOf(trail)' : i < j}
             entries(j) == {trail'[i] : i \in 1 .. j} \cup dropped'
             Say(f, s) == IF f.type = "record" THEN f.sequence = s
                          ELSE f.missing_after < s /\ s < f.missing_before
  <2> SUFFICES ASSUME NEW j \in DOMAIN trail', trail'[j].type = "record", trail'[j].unfiltered,
                      before(j) # {},
                      NEW s \in (trail'[Max(before(j))].sequence + 1) .. (trail'[j].sequence - 1)
               PROVE  \E f \in entries(j) : Say(f, s)
    BY DEF HolesAreAccountedFor
  <2>1. CASE j \in DOMAIN trail
    <3> DEFINE old == {i \in RecordsOf(trail) : i < j}
    <3>1. j \in 1 .. n /\ trail'[j] = trail[j]
      BY <2>1, <1>2
    <3>2. before(j) = old
      BY <3>1, <1>2, <1>3
    <3>3. Max(old) \in old
      <4>1. old \in SUBSET Nat /\ old # {} /\ \A i \in old : i <= n
        BY <3>2, <1>2, <1>4
      <4> HIDE DEF old, n
      <4> QED
        BY <4>1, <1>2, MaxIsGreatest
    <3>4. trail'[Max(before(j))] = trail[Max(old)]
      BY <3>2, <3>3, <1>2, <1>4
    <3>5. \A k \in 1 .. j : trail'[k] = trail[k]
      BY <3>1, <1>2
    <3>6. PICK f \in {trail[i] : i \in 1 .. j} \cup dropped : Say(f, s)
      <4>1. s \in (trail[Max(old)].sequence + 1) .. (trail[j].sequence - 1) /\ old # {}
        BY <3>1, <3>2, <3>4
      <4> QED
        BY <2>1, <3>1, <4>1 DEF IngestInv, HolesAreAccountedFor
    <3>7. f \in entries(j)
      BY <3>5, <3>6
    <3> QED
      BY <3>6, <3>7
  <2>2. CASE j \notin DOMAIN trail
    <3>1. j = n + 1 /\ trail'[j] = e /\ e.type = "record" /\ e.unfiltered
      BY <2>2, <1>2
    <3>2. e \in RecordEntry /\ e.sequence \in Nat
      BY <3>1, <1>1 DEF IngestEntry, GapEntry, RecordEntry
    <3>3. before(j) = RecordsOf(trail)
      BY <3>1, <1>2, <1>3, <1>4
    <3> DEFINE m == Max(RecordsOf(trail))
    <3>4. m \in RecordsOf(trail) /\ \A i \in RecordsOf(trail) : i <= m
      <4>1. RecordsOf(trail) \in SUBSET Nat /\ RecordsOf(trail) # {}
            /\ \A i \in RecordsOf(trail) : i <= n
        BY <3>3, <1>2, <1>4
      <4> HIDE DEF n
      <4> QED
        BY <4>1, <1>2, MaxIsGreatest
    <3> HIDE DEF m
    <3>5. trail'[m] = trail[m] /\ trail[m].sequence \in Nat /\ m \in Nat /\ m \in 1 .. n
      BY <3>4, <1>2, <1>4
    <3>6. s \in Nat /\ trail[m].sequence < s /\ s < e.sequence
      <4>1. s \in (trail[m].sequence + 1) .. (e.sequence - 1)
        BY <3>1, <3>3, <3>5 DEF m
      <4> QED
        BY <4>1, <3>2, <3>5
    <3>7. \A x \in Ingested : x < s
      <4> SUFFICES ASSUME NEW i \in RecordsOf(trail) PROVE trail[i].sequence < s
        BY DEF Ingested
      <4>1. i <= m /\ i \in Nat /\ trail[i].sequence \in Nat
        BY <3>4, <1>4
      <4>2. i < m => trail[i].sequence < trail[m].sequence
        BY <3>4 DEF IngestInv, IngestedOnceInOrder
      <4>3. CASE i = m
        BY <4>3, <3>6
      <4>4. CASE i < m
        BY <4>1, <4>2, <4>4, <3>5, <3>6
      <4> QED
        BY <4>1, <4>3, <4>4, <3>5
    <3>8. Passed(run[r], s)
      BY <3>4, <3>7, <1>4 DEF Passed
    <3>9. run[r].kind = None
      BY <1>1, <3>1 DEF AppendHolds
    <3>10. PICK f \in {trail[i] : i \in DOMAIN trail} \cup dropped
                      \cup {g \in run[r].todo : Place(g) < Place(e)} : Covers(f, s)
      BY <1>1, <3>1, <3>6, <3>8, <3>9 DEF AppendHolds
    <3>11. f \in {trail[i] : i \in DOMAIN trail} \cup dropped
      BY <3>10, <1>1
    <3>12. f \in entries(j)
      <4>1. CASE f \in dropped
        BY <4>1
      <4>2. ASSUME NEW i \in DOMAIN trail, f = trail[i] PROVE f \in entries(j)
        <5>1. i \in 1 .. j /\ trail'[i] = f
          BY <4>2, <3>1, <1>2
        <5> QED
          BY <5>1
      <4> QED
        BY <3>11, <4>1, <4>2
    <3>13. Say(f, s)
      BY <3>10 DEF Covers
    <3> QED
      BY <3>12, <3>13
  <2> QED
    BY <2>1, <2>2
<1> QED
  BY <1>6, <1>7

\* A dropped entry is still accounted for.
LEMMA DroppedHolds ==
  ASSUME IngestInv, NEW e, trail' = trail, dropped' = dropped \cup {e}
  PROVE  /\ IngestedOnceInOrder' /\ HolesAreAccountedFor'
         /\ Ingested' = Ingested /\ Said' = Said \cup {e}
<1>1. IngestedOnceInOrder' /\ Ingested' = Ingested
  BY DEF IngestInv, IngestedOnceInOrder, Ingested
<1>2. Said' = Said \cup {e}
  BY DEF Said
<1>3. RecordsOf(trail)' = RecordsOf(trail)
  OBVIOUS
<1>4. HolesAreAccountedFor'
  <2> DEFINE before(j) == {i \in RecordsOf(trail) : i < j}
             Say(f, s) == IF f.type = "record" THEN f.sequence = s
                          ELSE f.missing_after < s /\ s < f.missing_before
  <2> SUFFICES ASSUME NEW j \in DOMAIN trail, trail[j].type = "record", trail[j].unfiltered,
                      before(j) # {},
                      NEW s \in (trail[Max(before(j))].sequence + 1) .. (trail[j].sequence - 1)
               PROVE  \E f \in {trail[i] : i \in 1 .. j} \cup dropped' : Say(f, s)
    BY <1>3 DEF HolesAreAccountedFor
  <2>1. \E f \in {trail[i] : i \in 1 .. j} \cup dropped : Say(f, s)
    BY DEF IngestInv, HolesAreAccountedFor
  <2> QED
    BY <2>1
<1> QED
  BY <1>1, <1>2, <1>4

\* What the step leaves of the run holds, whether e landed or was dropped.
LEMMA RestHolds ==
  ASSUME IngestInv, NEW r \in Runner, run[r].pc = "append", NEW e \in First(run[r].todo),
         NEW j \in AppendRun, NEW lands \in BOOLEAN, UNCHANGED <<ledger, top>>,
         j.kind = run[r].kind, j.span = run[r].span, j.todo = run[r].todo \ {e},
         j.notice = (run[r].notice \/ ~lands),
         Ingested \subseteq Ingested',
         \A x \in Ingested' : x \in Ingested \/ (e.type = "record" /\ x = e.sequence),
         lands /\ e.type = "record" => e.sequence \in Ingested',
         Said' = Said \cup {e}
  PROVE  AppendHolds(j)' /\ FetchHolds(j)' /\ DoneHolds(j)'
<1> DEFINE me == run[r]
<1>1. /\ me \in AppendRun /\ AppendHolds(me) /\ me.pc = "append"
      /\ e \in me.todo
      /\ \A f \in me.todo \ {e} : (e.type = "record" /\ f.type = "record") => e.sequence < f.sequence
  BY HeadOfThePlan
<1>2. j.pc = "append"
  BY DEF AppendRun
<1>3. FetchHolds(j)' /\ DoneHolds(j)'
  BY <1>2 DEF FetchHolds, DoneHolds
<1>4. \A s \in j.span : s <= top'
  BY <1>1 DEF AppendHolds
<1>5. ASSUME j.kind = None, ~j.notice, NEW s \in j.span \cap DOMAIN ledger'
      PROVE  s \in Ingested' \/ \E f \in j.todo : f.type = "record" /\ f.sequence = s
  <2>1. s \in Ingested \/ \E f \in me.todo : f.type = "record" /\ f.sequence = s
    BY <1>1, <1>5 DEF AppendHolds
  <2> QED
    BY <2>1, <1>5
<1>6. ASSUME NEW f \in j.todo, f.type = "record"
      PROVE  f.unfiltered = (j.kind = None) /\ \A x \in Ingested' : x < f.sequence
  BY <1>1, <1>6 DEF AppendHolds
<1>7. ASSUME NEW f \in j.todo, f.type = "record", j.kind = None,
             NEW s \in Nat, s < f.sequence, Passed(j, s)'
      PROVE  \E g \in Said' \cup {h \in j.todo : Place(h) < Place(f)} : Covers(g, s)
  <2>1. \A x \in Ingested : x < s
    BY <1>7 DEF Passed
  <2>2. Ingested # {} \/ \E g \in me.todo : g.type = "record" /\ g.sequence < s
    <3>1. \A x \in Ingested' : x < s
      BY <1>7 DEF Passed
    <3>2. CASE Ingested' # {}
      BY <3>1, <3>2, <1>1
    <3>3. CASE \E g \in j.todo : g.type = "record" /\ g.sequence < s
      BY <3>3
    <3> QED
      BY <3>2, <3>3, <1>7 DEF Passed
  <2>3. Passed(me, s)
    BY <2>1, <2>2 DEF Passed
  <2>4. \E g \in Said \cup {h \in me.todo : Place(h) < Place(f)} : Covers(g, s)
    BY <2>3, <1>1, <1>7 DEF AppendHolds, Said
  <2> QED
    BY <2>4
<1>8. AppendHolds(j)'
  BY <1>4, <1>5, <1>6, <1>7 DEF AppendHolds, Said
<1> QED
  BY <1>3, <1>8

LEMMA AppendKeeps ==
  ASSUME IngestInv, NEW r \in Runner, NEW lands \in BOOLEAN, Append_(r, lands)
  PROVE  IngestInv'
<1> DEFINE me == run[r]
<1>1. PICK e \in First(me.todo) :
         /\ IF lands
            THEN trail' = Append(trail, e) /\ UNCHANGED <<dropped, faults>>
            ELSE dropped' = dropped \cup {e} /\ Fault /\ UNCHANGED trail
         /\ IF me.todo \ {e} = {}
            THEN /\ run' = [run EXCEPT ![r] =
                              IngestResult(IF me.kind = None THEN me.gaps ELSE None,
                                           me.truncated, me.notice \/ ~lands, me.span)]
                 /\ Release(r)
            ELSE /\ run' = [run EXCEPT ![r] = [me EXCEPT !.todo = me.todo \ {e},
                                                         !.notice = me.notice \/ ~lands]]
                 /\ UNCHANGED lock
  BY DEF Append_
<1>2. me.pc = "append" /\ UNCHANGED <<ledger, top>>
  BY DEF Append_
<1>3. /\ me \in AppendRun /\ AppendHolds(me) /\ lock = r
      /\ e \in IngestEntry /\ e \in me.todo
  BY <1>1, <1>2, HeadOfThePlan
<1>4. /\ IngestedOnceInOrder' /\ HolesAreAccountedFor'
      /\ Ingested \subseteq Ingested'
      /\ \A x \in Ingested' : x \in Ingested \/ (e.type = "record" /\ x = e.sequence)
      /\ lands /\ e.type = "record" => e.sequence \in Ingested'
      /\ Said' = Said \cup {e}
      /\ trail' \in Seq(IngestEntry) /\ dropped' \subseteq IngestEntry
  <2>1. CASE lands
    <3>1. trail' = Append(trail, e) /\ dropped' = dropped
      BY <1>1, <2>1
    <3>2. IngestedOnceInOrder' /\ HolesAreAccountedFor'
      BY <3>1, <1>1, <1>2, AppendedHolds
    <3>3. /\ Ingested' = Ingested \cup (IF e.type = "record" THEN {e.sequence} ELSE {})
          /\ Said' = Said \cup {e}
      BY <3>1, <1>3, AppendedRecords
    <3>4. trail' \in Seq(IngestEntry)
      BY <3>1, <1>3, Appended
    <3> QED
      BY <3>1, <3>2, <3>3, <3>4 DEF IngestInv, IngestShape
  <2>2. CASE ~lands
    <3>1. trail' = trail /\ dropped' = dropped \cup {e}
      BY <1>1, <2>2
    <3>2. /\ IngestedOnceInOrder' /\ HolesAreAccountedFor'
          /\ Ingested' = Ingested /\ Said' = Said \cup {e}
      BY <3>1, DroppedHolds
    <3> QED
      BY <3>1, <3>2, <2>2, <1>3 DEF IngestInv, IngestShape
  <2> QED
    BY <2>1, <2>2
<1>5. DOMAIN run = Runner
  BY DEF IngestInv, IngestShape
<1>6. ASSUME NEW q \in Runner \ {r}
      PROVE  /\ run'[q] = run[q] /\ run[q].pc \notin {"fetch", "append"}
             /\ FetchHolds(run[q])' /\ AppendHolds(run[q])' /\ DoneHolds(run[q])'
  <2>1. run'[q] = run[q]
    BY <1>1, <1>5
  <2>2. run[q].pc \notin {"fetch", "append"}
    BY <1>3 DEF IngestInv, OneRun
  <2>3. DoneHolds(run[q])
    BY DEF IngestInv, RunsHold
  <2> QED
    BY <2>1, <2>2, <2>3, <1>2, <1>4 DEF FetchHolds, AppendHolds, DoneHolds
<1>7. /\ me.kind \in KINDS \cup {None} /\ me.gaps \in SUBSET GapEntry /\ me.truncated \in BOOLEAN
      /\ me.notice \in BOOLEAN /\ me.span \in SUBSET Nat /\ me.todo \in SUBSET IngestEntry
  BY <1>3 DEF AppendRun
<1>8. \E j \in AnyRun :
         /\ run' = [run EXCEPT ![r] = j]
         /\ j.pc \in {"fetch", "append"} => lock' = r
         /\ FetchHolds(j)' /\ AppendHolds(j)' /\ DoneHolds(j)'
  <2>1. CASE me.todo \ {e} = {}
    <3>0. PICK j : j = IngestResult(IF me.kind = None THEN me.gaps ELSE None,
                                    me.truncated, me.notice \/ ~lands, me.span)
      OBVIOUS
    <3>1. run' = [run EXCEPT ![r] = j]
      BY <1>1, <2>1, <3>0
    <3>2. j \in DoneRun
      BY <1>7, <3>0 DEF IngestResult, DoneRun
    <3>3. j.pc = "done" /\ j.gaps = (IF me.kind = None THEN me.gaps ELSE None)
          /\ j.notice = (me.notice \/ ~lands) /\ j.span = me.span
      BY <3>0 DEF IngestResult
    <3>4. \A s \in j.span : s <= top'
      BY <3>3, <1>2, <1>3 DEF AppendHolds
    <3>5. ASSUME j.gaps = {}, ~j.notice, NEW s \in j.span \cap DOMAIN ledger'
          PROVE  s \in Ingested'
      <4>1. me.kind = None /\ ~me.notice /\ lands
        BY <3>3, <3>5, IngestAssumption
      <4>2. s \in Ingested \/ \E f \in me.todo : f.type = "record" /\ f.sequence = s
        BY <4>1, <3>3, <3>5, <1>2, <1>3 DEF AppendHolds
      <4> QED
        BY <4>1, <4>2, <2>1, <1>4
    <3>6. FetchHolds(j)' /\ AppendHolds(j)' /\ DoneHolds(j)'
      BY <3>3, <3>4, <3>5 DEF FetchHolds, AppendHolds, DoneHolds
    <3> QED
      BY <3>1, <3>2, <3>3, <3>6 DEF AnyRun
  <2>2. CASE me.todo \ {e} # {}
    <3>0. PICK j : j = [me EXCEPT !.todo = me.todo \ {e}, !.notice = me.notice \/ ~lands]
      OBVIOUS
    <3>1. run' = [run EXCEPT ![r] = j] /\ lock' = lock
      BY <1>1, <2>2, <3>0
    <3>2. j \in AppendRun
      BY <1>3, <1>7, <3>0 DEF AppendRun
    <3>3. /\ j.kind = run[r].kind /\ j.span = run[r].span /\ j.todo = run[r].todo \ {e}
          /\ j.notice = (run[r].notice \/ ~lands)
      BY <1>3, <3>0 DEF AppendRun
    <3>4. AppendHolds(j)' /\ FetchHolds(j)' /\ DoneHolds(j)'
      BY <1>1, <1>2, <1>4, <3>2, <3>3, RestHolds
    <3> QED
      BY <3>1, <3>2, <3>4, <1>3 DEF AnyRun
  <2> QED
    BY <2>1, <2>2
<1>9. PICK j \in AnyRun :
         /\ run' = [run EXCEPT ![r] = j]
         /\ j.pc \in {"fetch", "append"} => lock' = r
         /\ FetchHolds(j)' /\ AppendHolds(j)' /\ DoneHolds(j)'
  BY <1>8
<1>10. run'[r] = j
  BY <1>5, <1>9
<1>11. IngestShape'
  BY <1>2, <1>4, <1>9 DEF IngestInv, IngestShape, AnyRun
<1>12. OneRun'
  BY <1>6, <1>9, <1>10 DEF OneRun
<1>13. RunsHold'
  <2> SUFFICES ASSUME NEW q \in Runner
               PROVE  FetchHolds(run[q])' /\ AppendHolds(run[q])' /\ DoneHolds(run[q])'
    BY DEF RunsHold
  <2>1. CASE q = r
    BY <2>1, <1>9, <1>10 DEF FetchHolds, AppendHolds, DoneHolds, Passed
  <2>2. CASE q # r
    BY <2>2, <1>6 DEF FetchHolds, AppendHolds, DoneHolds, Passed
  <2> QED
    BY <2>1, <2>2
<1> QED
  BY <1>4, <1>11, <1>12, <1>13 DEF IngestInv

-----------------------------------------------------------------------------
(* The gateway, and every step.                                            *)

\* The ledger's steps: rows go, or a row comes above all that were handed out.
LEMMA LedgerStepKeeps ==
  ASSUME IngestInv, UNCHANGED <<trail, dropped, lock, run>>,
         top' \in Nat, top <= top', DOMAIN ledger' \subseteq 1 .. top',
         \A s \in DOMAIN ledger' : s \in DOMAIN ledger \/ s > top
  PROVE  IngestInv'
<1>1. IngestShape' /\ OneRun'
  BY DEF IngestInv, IngestShape, OneRun
<1>2. Ingested' = Ingested /\ IngestedOnceInOrder' /\ HolesAreAccountedFor'
  BY DEF IngestInv, Ingested, IngestedOnceInOrder, HolesAreAccountedFor
<1>3. ASSUME NEW q \in Runner
      PROVE  FetchHolds(run[q])' /\ AppendHolds(run[q])' /\ DoneHolds(run[q])'
  <2>1. FetchHolds(run[q]) /\ AppendHolds(run[q]) /\ DoneHolds(run[q]) /\ top \in Nat
    BY DEF IngestInv, IngestShape, RunsHold
  <2>2. ASSUME NEW S \in SUBSET Nat, \A s \in S : s <= top
        PROVE  S \cap DOMAIN ledger' \subseteq DOMAIN ledger /\ \A s \in S : s <= top'
    BY <2>1, <2>2
  <2>3. FetchHolds(run[q])'
    <3> SUFFICES ASSUME run[q].pc = "fetch" PROVE FetchHolds(run[q])'
      BY DEF FetchHolds
    <3>1. run[q] \in FetchRun
      BY RunTypes DEF IngestInv
    <3>2. run[q].span \in SUBSET Nat /\ \A s \in run[q].span : s <= top
      BY <3>1, <2>1 DEF FetchRun, FetchHolds
    <3> QED
      BY <3>2, <2>1, <2>2, <1>2 DEF FetchHolds
  <2>4. AppendHolds(run[q])'
    <3> SUFFICES ASSUME run[q].pc = "append" PROVE AppendHolds(run[q])'
      BY DEF AppendHolds
    <3>1. run[q] \in AppendRun
      BY RunTypes DEF IngestInv
    <3>2. run[q].span \in SUBSET Nat /\ \A s \in run[q].span : s <= top
      BY <3>1, <2>1 DEF AppendRun, AppendHolds
    <3> QED
      BY <3>2, <2>1, <2>2, <1>2 DEF AppendHolds, Passed
  <2>5. DoneHolds(run[q])'
    <3> SUFFICES ASSUME run[q].pc = "done" PROVE DoneHolds(run[q])'
      BY DEF DoneHolds
    <3>1. run[q] \in DoneRun
      BY RunTypes DEF IngestInv
    <3>2. run[q].span \in SUBSET Nat /\ \A s \in run[q].span : s <= top
      BY <3>1, <2>1 DEF DoneRun, DoneHolds
    <3> QED
      BY <3>2, <2>1, <2>2, <1>2 DEF DoneHolds
  <2> QED
    BY <2>3, <2>4, <2>5
<1> QED
  BY <1>1, <1>2, <1>3 DEF IngestInv, RunsHold

LEMMA RecordRowKeeps ==
  ASSUME IngestInv, NEW kind \in KINDS, RecordRow(kind)
  PROVE  IngestInv'
<1>1. top \in Nat /\ DOMAIN ledger \subseteq 1 .. top
  BY DEF IngestInv, IngestShape
<1>2. top' = top + 1 /\ DOMAIN ledger' = DOMAIN ledger \cup {top + 1}
      /\ UNCHANGED <<trail, dropped, lock, run>>
  BY DEF RecordRow
<1> QED
  BY <1>1, <1>2, LedgerStepKeeps

LEMMA PruneKeeps ==
  ASSUME IngestInv, Prune
  PROVE  IngestInv'
<1>1. top \in Nat /\ DOMAIN ledger \subseteq 1 .. top
  BY DEF IngestInv, IngestShape
<1>2. top' = top /\ DOMAIN ledger' \subseteq DOMAIN ledger /\ UNCHANGED <<trail, dropped, lock, run>>
  BY DEF Prune
<1> QED
  BY <1>1, <1>2, LedgerStepKeeps

LEMMA IngestNextKeeps ==
  ASSUME IngestInv, [IngestNext]_ingestVars
  PROVE  IngestInv'
<1>1. CASE \E kind \in KINDS : RecordRow(kind)
  BY <1>1, RecordRowKeeps
<1>2. CASE Prune
  BY <1>2, PruneKeeps
<1>3. ASSUME NEW r \in Runner, Step(r) PROVE IngestInv'
  <2>1. CASE \E kind \in KINDS \cup {None} : Tick(r, kind)
    BY <2>1, TickKeeps
  <2>2. CASE ingest(r)
    BY <2>2, ingestKeeps
  <2>3. CASE BackOff(r)
    BY <2>3, EndsFailed DEF BackOff
  <2>4. CASE PageCap(r)
    BY <2>4, PageCapKeeps
  <2>5. CASE FetchFails(r)
    BY <2>5, EndsFailed DEF FetchFails
  <2>6. CASE \E bad \in SUBSET DOMAIN ledger : Fetch(r, bad)
    BY <2>6, FetchKeeps
  <2>7. CASE \E lands \in BOOLEAN : Append_(r, lands)
    <3>1. PICK lands \in BOOLEAN : Append_(r, lands)
      BY <2>7
    <3> QED
      BY <3>1, AppendKeeps
  <2>8. CASE Die(r)
    BY <2>8, EndsFailed DEF Die
  <2> QED
    BY <1>3, <2>1, <2>2, <2>3, <2>4, <2>5, <2>6, <2>7, <2>8 DEF Step
<1>4. CASE UNCHANGED ingestVars
  <2>1. UNCHANGED <<trail, dropped, lock, run, top, ledger>>
    BY <1>4 DEF ingestVars
  <2>2. top \in Nat /\ DOMAIN ledger \subseteq 1 .. top
    BY DEF IngestInv, IngestShape
  <2> QED
    BY <2>1, <2>2, LedgerStepKeeps
<1> QED
  BY <1>1, <1>2, <1>3, <1>4 DEF IngestNext

LEMMA IngestIsInductive == IngestSpec => []IngestInv
<1>1. IngestInv /\ [IngestNext]_ingestVars => IngestInv'
  BY IngestNextKeeps
<1> QED
  BY <1>1, IngestInitHolds, PTL DEF IngestSpec

\* However timer runs overlap, crash, time out and retry, a ledger record is
\* never ingested twice and the records stand in ascending order: the resume
\* point read under the ingest lock is still the chain's last record when the
\* run appends (_ingest_run).
THEOREM IngestIsIdempotent == IngestSpec => []IngestedOnceInOrder
<1>1. IngestInv => IngestedOnceInOrder
  BY DEF IngestInv
<1> QED
  BY <1>1, IngestIsInductive, PTL

\* A record the ledger handed out and the trail lacks is said: by a gap entry
\* or a counted drop before the next record of an unfiltered run, and a run
\* that reported no gap, no truncation and no notice has everything the ledger
\* still holds of its span (_ingest_run, IngestResult).
THEOREM HolesAreSaid == IngestSpec => []NoHoleIsSilent
<1>1. IngestInv => NoHoleIsSilent
  BY DEF IngestInv, RunsHold, DoneHolds, NoHoleIsSilent, SilentRunIsComplete
<1> QED
  BY <1>1, IngestIsInductive, PTL


-----------------------------------------------------------------------------
(* The inductive invariant of Hooks.                                       *)

HookEvent == [host : Host, trail : Trail \cup {Unset}, segment : 0 .. MaxSegment,
              fate : {"open", "chained", "recorded", "stderr"}, clear : BOOLEAN, mute : BOOLEAN]

HookShape ==
    /\ \E n \in Nat : DOMAIN event = 1 .. n
    /\ \A i \in DOMAIN event : event[i] \in HookEvent
    /\ built \in [Listener -> Trail \cup {Unset}]
    /\ \A h \in Listener : ~IsRemote(built[h]) \/ built[h] = Unset
    /\ active \in [Trail -> 0 .. MaxSegment]
    /\ drops \in [Trail \X (0 .. MaxSegment) -> Nat]

\* An event under way has a trail, and one that ended while nothing was refused
\* is on it.
EventHolds(e) ==
    /\ e.fate = "open" => e.trail # Unset
    /\ (e.fate # "open" /\ e.clear /\ e.trail # Unset) => e.fate = "chained"

\* A loss that has a line in a sidecar.
Counts(e) == /\ e.fate \notin {"open", "chained"} /\ e.trail # Unset
             /\ ~IsRemote(e.trail) /\ ~e.mute

Counted(s) == {i \in DOMAIN event : Counts(event[i]) /\ <<event[i].trail, event[i].segment>> = s}

DropsHold == \A s \in DOMAIN drops : drops[s] = Cardinality(Counted(s))

HookInv == HookShape /\ (\A i \in DOMAIN event : EventHolds(event[i])) /\ DropsHold

LEMMA TrailsResolve ==
  ASSUME NEW h \in Host, NEW cwd \in Project \cup {Unset}
  PROVE  resolve_trail(h, cwd) \in Trail /\ _trail_target(h, cwd) \in Trail
<1>1. Default(h, cwd) \in Trail
  BY DEF Default, routed_trail, Trail, Host
<1>2. \A x \in {"env", "url", "collapsed"} : [of |-> x] \in Trail
  BY DEF Trail
<1>3. resolve_trail(h, cwd) \in Trail
  <2>1. CASE WAXSEAL_TRAIL = [kind |-> "path"]
    BY <2>1, <1>2 DEF resolve_trail
  <2>2. CASE WAXSEAL_TRAIL = [kind |-> "url"]
    BY <2>2, <1>2 DEF resolve_trail
  <2>3. CASE WAXSEAL_TRAIL # [kind |-> "path"] /\ WAXSEAL_TRAIL # [kind |-> "url"]
    BY <2>3, <1>1 DEF resolve_trail
  <2> QED
    BY <2>1, <2>2, <2>3
<1>4. [of |-> "url"] \in Trail
  BY <1>2
<1> QED
  BY <1>3, <1>4 DEF _trail_target

\* A listener's trail is a file: Path() has collapsed a URL.
LEMMA ListenersAreLocal ==
  ASSUME NEW h \in Listener
  PROVE  ~IsRemote(resolve_trail(h, Unset))
<1>1. [of |-> "env"].of # "url" /\ [of |-> "collapsed"].of # "url" /\ [of |-> "url"].of = "url"
  OBVIOUS
<1>2. Default(h, Unset).of = h
  BY DEF Default, routed_trail
<1>3. h # "url"
  BY HooksAssumption
<1>4. resolve_trail(h, Unset).of # "url"
  <2>1. CASE WAXSEAL_TRAIL = [kind |-> "path"]
    BY <2>1, <1>1 DEF resolve_trail
  <2>2. CASE WAXSEAL_TRAIL = [kind |-> "url"] /\ WAXSEAL_TRAIL # [kind |-> "path"]
    BY <2>2, <1>1 DEF resolve_trail
  <2>3. CASE WAXSEAL_TRAIL # [kind |-> "path"] /\ WAXSEAL_TRAIL # [kind |-> "url"]
    BY <2>3, <1>2, <1>3 DEF resolve_trail
  <2> QED
    BY <2>1, <2>2, <2>3
<1> QED
  BY <1>1, <1>4 DEF IsRemote

LEMMA CountedIsFinite ==
  ASSUME HookShape, NEW s
  PROVE  IsFiniteSet(Counted(s)) /\ Cardinality(Counted(s)) \in Nat
<1>1. PICK n \in Nat : DOMAIN event = 1 .. n
  BY DEF HookShape
<1>2. IsFiniteSet(DOMAIN event)
  BY <1>1, FS_Interval
<1> QED
  BY <1>2, FS_Subset, FS_CardinalityType DEF Counted

\* One more or one changed event: the sidecar beside its segment is one line
\* longer exactly if the event is now a loss that is written down.
LEMMA EventStepKeeps ==
  ASSUME HookInv, HookShape',
         NEW i, NEW e \in HookEvent, EventHolds(e),
         DOMAIN event' = DOMAIN event \cup {i}, event'[i] = e,
         \A k \in DOMAIN event : k # i => event'[k] = event[k],
         i \in DOMAIN event => ~Counts(event[i]),
         Counts(e) => drops' = [drops EXCEPT ![<<e.trail, e.segment>>] = @ + 1],
         ~Counts(e) => drops' = drops
  PROVE  HookInv'
<1>1. \A k \in DOMAIN event' : EventHolds(event'[k])
  BY DEF HookInv
<1>2. drops \in [Trail \X (0 .. MaxSegment) -> Nat] /\ DOMAIN drops' = DOMAIN drops
  BY DEF HookInv, HookShape
<1>3. ASSUME NEW s \in DOMAIN drops
      PROVE  drops'[s] = Cardinality(Counted(s)')
  <2>1. drops[s] = Cardinality(Counted(s)) /\ IsFiniteSet(Counted(s)) /\ i \notin Counted(s)
        /\ drops[s] \in Nat
    BY <1>2, <1>3, CountedIsFinite DEF HookInv, DropsHold, Counted
  <2>2. CASE Counts(e) /\ <<e.trail, e.segment>> = s
    <3>1. Counted(s)' = Counted(s) \cup {i}
      BY <2>2 DEF Counted
    <3>2. drops'[s] = drops[s] + 1
      BY <2>2, <1>2, <1>3
    <3>3. Cardinality(Counted(s) \cup {i}) = Cardinality(Counted(s)) + 1
      BY <2>1, FS_AddElement
    <3> QED
      BY <3>1, <3>2, <3>3, <2>1
  <2>3. CASE ~(Counts(e) /\ <<e.trail, e.segment>> = s)
    <3>1. Counted(s)' = Counted(s)
      BY <2>3, <2>1 DEF Counted
    <3>2. drops'[s] = drops[s]
      <4>1. CASE Counts(e)
        BY <4>1, <2>3, <1>2, <1>3
      <4>2. CASE ~Counts(e)
        BY <4>2
      <4> QED
        BY <4>1, <4>2
    <3> QED
      BY <3>1, <3>2, <2>1
  <2> QED
    BY <2>2, <2>3
<1>4. DropsHold'
  BY <1>2, <1>3 DEF DropsHold
<1> QED
  BY <1>1, <1>4 DEF HookInv

LEMMA PushKeeps ==
  ASSUME HookInv, NEW e \in HookEvent, EventHolds(e), Push(e),
         built' = built, active' \in [Trail -> 0 .. MaxSegment],
         Counts(e) => /\ <<e.trail, e.segment>> \in Trail \X (0 .. MaxSegment)
                      /\ drops' = [drops EXCEPT ![<<e.trail, e.segment>>] = @ + 1],
         ~Counts(e) => drops' = drops
  PROVE  HookInv'
<1>1. PICK n \in Nat : DOMAIN event = 1 .. n
  BY DEF HookInv, HookShape
<1>2. Cardinality(DOMAIN event) = n
  BY <1>1, FS_Interval
<1>3. event' = [k \in 1 .. (n + 1) |-> IF k \in 1 .. n THEN event[k] ELSE e]
  BY <1>1, <1>2 DEF Push
<1>4. /\ DOMAIN event' = 1 .. (n + 1) /\ 1 .. (n + 1) = 1 .. n \cup {n + 1} /\ n + 1 \notin 1 .. n
      /\ n + 1 \in Nat
  BY <1>3
<1>5. event'[n + 1] = e /\ \A k \in 1 .. n : event'[k] = event[k]
  BY <1>3
<1>6. drops' \in [Trail \X (0 .. MaxSegment) -> Nat]
  <2>1. drops \in [Trail \X (0 .. MaxSegment) -> Nat]
    BY DEF HookInv, HookShape
  <2>2. CASE Counts(e)
    BY <2>1, <2>2
  <2>3. CASE ~Counts(e)
    BY <2>1, <2>3
  <2> QED
    BY <2>2, <2>3
<1>7. HookShape'
  BY <1>1, <1>4, <1>5, <1>6 DEF HookInv, HookShape
<1> QED
  BY <1>1, <1>4, <1>5, <1>7, EventStepKeeps

LEMMA EventTypes ==
  ASSUME NEW h \in Host, NEW t \in Trail \cup {Unset}, NEW seg \in 0 .. MaxSegment,
         NEW fate \in {"open", "chained", "recorded", "stderr"},
         NEW e, e = Event(h, t, seg, fate)
  PROVE  /\ e \in HookEvent /\ e.trail = t /\ e.segment = seg /\ e.fate = fate
         /\ e.clear = (failing = {}) /\ e.mute = ("sidecar" \in failing)
BY DEF Event, HookEvent

LEMMA HookInitHolds == HookInit => HookInv
<1> SUFFICES ASSUME HookInit PROVE HookInv
  OBVIOUS
<1>1. DOMAIN event = {} /\ 0 \in Nat /\ 1 .. 0 = {} /\ 0 \in 0 .. MaxSegment
  BY HooksAssumption DEF HookInit
<1>2. HookShape
  <2>1. drops \in [Trail \X (0 .. MaxSegment) -> Nat]
    BY DEF HookInit
  <2>2. active \in [Trail -> 0 .. MaxSegment] /\ built \in [Listener -> Trail \cup {Unset}]
    BY <1>1 DEF HookInit
  <2>3. \A h \in Listener : built[h] = Unset
    BY DEF HookInit
  <2> QED
    BY <1>1, <2>1, <2>2, <2>3 DEF HookShape
<1>3. \A s : Counted(s) = {}
  BY <1>1 DEF Counted
<1>4. DropsHold
  BY <1>3, FS_EmptySet DEF DropsHold, HookInit
<1> QED
  BY <1>1, <1>2, <1>4 DEF HookInv

LEMMA SameEventsKeep ==
  ASSUME HookInv, UNCHANGED <<event, drops, active>>, built' \in [Listener -> Trail \cup {Unset}],
         \A h \in Listener : ~IsRemote(built'[h]) \/ built'[h] = Unset
  PROVE  HookInv'
BY DEF HookInv, HookShape, EventHolds, DropsHold, Counted, Counts

LEMMA ConstructKeeps ==
  ASSUME HookInv, NEW h \in Listener, Construct(h)
  PROVE  HookInv'
<1>1. resolve_trail(h, Unset) \in Trail
  BY TrailsResolve DEF Host
<1>2. built' \in [Listener -> Trail \cup {Unset}] /\ UNCHANGED <<event, drops, active>>
  BY <1>1 DEF Construct, HookInv, HookShape
<1>3. ~IsRemote(resolve_trail(h, Unset))
  BY ListenersAreLocal
<1>4. \A g \in Listener : ~IsRemote(built'[g]) \/ built'[g] = Unset
  BY <1>3 DEF Construct, HookInv, HookShape
<1> QED
  BY <1>2, <1>4, SameEventsKeep

LEMMA UnreadableKeeps ==
  ASSUME HookInv, NEW h \in Stdin, Unreadable_(h)
  PROVE  HookInv'
<1>1. PICK e : e = Event(h, Unset, 0, "stderr")
  OBVIOUS
<1>2. e \in HookEvent /\ e.trail = Unset /\ e.fate = "stderr"
  BY <1>1, EventTypes, HooksAssumption DEF Host
<1>3. EventHolds(e) /\ ~Counts(e)
  BY <1>2 DEF EventHolds, Counts
<1>4. Push(e) /\ UNCHANGED <<built, active, drops>>
  BY <1>1 DEF Unreadable_
<1>5. active' \in [Trail -> 0 .. MaxSegment]
  BY <1>4 DEF HookInv, HookShape
<1> QED
  BY <1>2, <1>3, <1>4, <1>5, PushKeeps

\* A local loss that is written down when the sidecar takes it.
LEMMA RecordedKeeps ==
  ASSUME HookInv, NEW t \in Trail \ {Unset}, ~IsRemote(t), NEW seg \in 0 .. MaxSegment,
         NEW e \in HookEvent, e.trail = t, e.segment = seg, ~e.clear,
         e.fate = RecordedFate, e.mute = ("sidecar" \in failing),
         Push(e), record(<<t, seg>>), UNCHANGED <<built, active>>
  PROVE  HookInv'
<1>1. e.fate \in {"stderr", "recorded"}
  BY DEF RecordedFate
<1>2. EventHolds(e) /\ (Counts(e) <=> "sidecar" \notin failing)
  BY <1>1 DEF EventHolds, Counts
<1>3. active' \in [Trail -> 0 .. MaxSegment]
  BY DEF HookInv, HookShape
<1>4. Counts(e) => /\ <<e.trail, e.segment>> \in Trail \X (0 .. MaxSegment)
                   /\ drops' = [drops EXCEPT ![<<e.trail, e.segment>>] = @ + 1]
  BY <1>2 DEF record
<1>5. ~Counts(e) => drops' = drops
  BY <1>2 DEF record
<1> QED
  BY <1>2, <1>3, <1>4, <1>5, PushKeeps

LEMMA WriteOneKeeps ==
  ASSUME HookInv, NEW h \in Governed, _write_one(h)
  PROVE  HookInv'
<1>1. PICK d : d = Event(h, built[h], 0, RecordedFate)
  OBVIOUS
<1>2. PICK e : e = [d EXCEPT !.clear = FALSE]
  OBVIOUS
<1>3. h \in Listener /\ h \in Host /\ built[h] \in Trail \ {Unset} /\ 0 \in 0 .. MaxSegment
  BY HooksAssumption DEF _write_one, HookInv, HookShape, Host
<1>4. RecordedFate \in {"open", "chained", "recorded", "stderr"}
  BY DEF RecordedFate
<1>5. d \in HookEvent /\ d.trail = built[h] /\ d.segment = 0 /\ d.fate = RecordedFate
      /\ d.mute = ("sidecar" \in failing)
  BY <1>1, <1>3, <1>4, EventTypes
<1>6. /\ e \in HookEvent /\ e.trail = built[h] /\ e.segment = 0 /\ e.fate = RecordedFate
      /\ e.mute = ("sidecar" \in failing) /\ ~e.clear
  BY <1>2, <1>5 DEF HookEvent
<1>7. Push(e) /\ record(<<built[h], 0>>) /\ UNCHANGED <<built, active>>
  BY <1>1, <1>2 DEF _write_one
<1>8. ~IsRemote(built[h])
  BY <1>3 DEF HookInv, HookShape
<1> QED
  BY <1>3, <1>6, <1>7, <1>8, RecordedKeeps

LEMMA TargetTypes ==
  ASSUME HookInv, NEW h \in Host, NEW cwd \in Project \cup {Unset}, TargetOf(h, cwd) # Unset
  PROVE  /\ TargetOf(h, cwd) \in Trail \ {Unset}
         /\ SegmentOf(h, TargetOf(h, cwd)) \in 0 .. MaxSegment
<1>1. _trail_target(h, cwd) \in Trail
  BY TrailsResolve
<1>2. TargetOf(h, cwd) \in Trail
  BY <1>1 DEF TargetOf, HookInv, HookShape
<1>3. active \in [Trail -> 0 .. MaxSegment] /\ 0 \in 0 .. MaxSegment
  BY HooksAssumption DEF HookInv, HookShape
<1> QED
  BY <1>2, <1>3 DEF SegmentOf

LEMMA OpenFailsKeeps ==
  ASSUME HookInv, NEW h \in Host, NEW cwd \in Project \cup {Unset}, OpenFails(h, cwd)
  PROVE  HookInv'
<1>1. PICK t : t = TargetOf(h, cwd)
  OBVIOUS
<1>2. PICK seg : seg = SegmentOf(h, t)
  OBVIOUS
<1>3. /\ t # Unset /\ "open" \in failing /\ UNCHANGED <<built, active>>
      /\ IF IsRemote(t)
         THEN Push(Event(h, t, 0, "stderr")) /\ UNCHANGED drops
         ELSE Push(Event(h, t, seg, RecordedFate)) /\ record(<<t, seg>>)
  BY <1>1, <1>2 DEF OpenFails
<1>4. t \in Trail \ {Unset} /\ seg \in 0 .. MaxSegment /\ 0 \in 0 .. MaxSegment
  BY <1>1, <1>2, <1>3, TargetTypes, HooksAssumption
<1>5. failing # {} /\ active' \in [Trail -> 0 .. MaxSegment]
  BY <1>3 DEF HookInv, HookShape
<1>6. CASE IsRemote(t)
  <2>1. PICK e : e = Event(h, t, 0, "stderr")
    OBVIOUS
  <2>2. e \in HookEvent /\ e.trail = t /\ e.fate = "stderr" /\ e.clear = (failing = {})
    BY <2>1, <1>4, EventTypes
  <2>3. EventHolds(e) /\ ~Counts(e)
    BY <2>2, <1>5, <1>6 DEF EventHolds, Counts
  <2>4. Push(e) /\ drops' = drops /\ built' = built
    BY <2>1, <1>3, <1>6
  <2> QED
    BY <2>2, <2>3, <2>4, <1>5, PushKeeps
<1>7. CASE ~IsRemote(t)
  <2>1. PICK e : e = Event(h, t, seg, RecordedFate)
    OBVIOUS
  <2>2. RecordedFate \in {"open", "chained", "recorded", "stderr"}
    BY DEF RecordedFate
  <2>3. /\ e \in HookEvent /\ e.trail = t /\ e.segment = seg /\ e.fate = RecordedFate
        /\ e.clear = (failing = {}) /\ e.mute = ("sidecar" \in failing)
    BY <2>1, <2>2, <1>4, EventTypes
  <2>4. Push(e) /\ record(<<t, seg>>) /\ UNCHANGED <<built, active>>
    BY <2>1, <1>3, <1>7
  <2>5. ~e.clear
    BY <2>3, <1>5
  <2> QED
    BY <2>3, <2>4, <2>5, <1>4, <1>7, RecordedKeeps
<1> QED
  BY <1>6, <1>7

LEMMA OpensKeeps ==
  ASSUME HookInv, NEW h \in Host, NEW cwd \in Project \cup {Unset}, NEW rotates \in BOOLEAN,
         Opens(h, cwd, rotates)
  PROVE  HookInv'
<1>1. PICK t : t = TargetOf(h, cwd)
  OBVIOUS
<1>2. /\ t # Unset /\ UNCHANGED <<built, drops>>
      /\ IF rotates /\ h \in Stdin /\ ~IsRemote(t) /\ active[t] < MaxSegment
         THEN active' = [active EXCEPT ![t] = @ + 1]
         ELSE ~rotates /\ UNCHANGED active
      /\ Push(Event(h, t, IF h \in Stdin THEN active'[t] ELSE 0, "open"))
  BY <1>1 DEF Opens
<1>3. t \in Trail \ {Unset} /\ 0 \in 0 .. MaxSegment /\ MaxSegment \in Nat
  BY <1>1, <1>2, TargetTypes, HooksAssumption
<1>4. active' \in [Trail -> 0 .. MaxSegment]
  <2>1. active \in [Trail -> 0 .. MaxSegment]
    BY DEF HookInv, HookShape
  <2>2. CASE rotates /\ h \in Stdin /\ ~IsRemote(t) /\ active[t] < MaxSegment
    <3>1. active[t] + 1 \in 0 .. MaxSegment
      BY <2>1, <2>2, <1>3
    <3> QED
      BY <2>1, <2>2, <3>1, <1>2
  <2>3. CASE ~(rotates /\ h \in Stdin /\ ~IsRemote(t) /\ active[t] < MaxSegment)
    BY <2>1, <2>3, <1>2
  <2> QED
    BY <2>2, <2>3
<1>5. PICK seg : seg = IF h \in Stdin THEN active'[t] ELSE 0
  OBVIOUS
<1>6. seg \in 0 .. MaxSegment
  BY <1>3, <1>4, <1>5
<1>7. PICK e : e = Event(h, t, seg, "open")
  OBVIOUS
<1>8. e \in HookEvent /\ e.trail = t /\ e.fate = "open"
  BY <1>3, <1>6, <1>7, EventTypes
<1>9. EventHolds(e) /\ ~Counts(e)
  BY <1>3, <1>8 DEF EventHolds, Counts
<1>10. Push(e) /\ drops' = drops /\ built' = built
  BY <1>2, <1>5, <1>7
<1> QED
  BY <1>4, <1>8, <1>9, <1>10, PushKeeps

LEMMA TryAppendKeeps ==
  ASSUME HookInv, NEW i \in DOMAIN event, try_append(i)
  PROVE  HookInv'
<1> DEFINE d == event[i]
           fails == "append" \in failing
           fate == IF ~fails THEN "chained"
                   ELSE IF IsRemote(d.trail) THEN "stderr" ELSE RecordedFate
<1>1. d \in HookEvent /\ EventHolds(d) /\ d.fate = "open"
  BY DEF HookInv, HookShape, try_append
<1>2. PICK e : e = [d EXCEPT !.fate = fate, !.clear = d.clear /\ failing = {},
                             !.mute = "sidecar" \in failing]
  OBVIOUS
<1>3. event' = [event EXCEPT ![i] = e]
  BY <1>2 DEF try_append
<1>4. fate \in {"chained", "recorded", "stderr"}
  BY DEF RecordedFate
<1>5. /\ e \in HookEvent /\ e.trail = d.trail /\ e.segment = d.segment /\ e.fate = fate
      /\ e.clear = (d.clear /\ failing = {}) /\ e.mute = ("sidecar" \in failing)
  <2>1. PICK c : c = (d.clear /\ failing = {})
    OBVIOUS
  <2>2. PICK m : m = ("sidecar" \in failing)
    OBVIOUS
  <2>3. PICK f : f = fate
    OBVIOUS
  <2>4. c \in BOOLEAN /\ m \in BOOLEAN /\ f \in {"chained", "recorded", "stderr"}
    BY <2>1, <2>2, <2>3, <1>4
  <2>5. e = [d EXCEPT !.fate = f, !.clear = c, !.mute = m]
    BY <1>2, <2>1, <2>2, <2>3
  <2>6. e \in HookEvent /\ e.trail = d.trail /\ e.segment = d.segment /\ e.fate = f
        /\ e.clear = c /\ e.mute = m
    <3> HIDE DEF d
    <3> QED
      BY <1>1, <2>4, <2>5 DEF HookEvent
  <2> QED
    BY <2>1, <2>2, <2>3, <2>6
<1>6. d.trail \in Trail \ {Unset} /\ d.segment \in 0 .. MaxSegment
  BY <1>1 DEF HookEvent, EventHolds
<1>7. IF fails /\ ~IsRemote(d.trail) THEN record(<<d.trail, d.segment>>) ELSE drops' = drops
  BY DEF try_append
<1>8. EventHolds(e)
  BY <1>4, <1>5, <1>6 DEF EventHolds
<1>9. Counts(e) <=> fails /\ ~IsRemote(d.trail) /\ "sidecar" \notin failing
  BY <1>5, <1>6 DEF Counts, RecordedFate
<1>10. /\ Counts(e) => drops' = [drops EXCEPT ![<<e.trail, e.segment>>] = @ + 1]
       /\ ~Counts(e) => drops' = drops
  BY <1>5, <1>7, <1>9 DEF record
<1>11. HookShape'
  <2>1. drops' \in [Trail \X (0 .. MaxSegment) -> Nat]
    <3>1. drops \in [Trail \X (0 .. MaxSegment) -> Nat]
      BY DEF HookInv, HookShape
    <3>2. CASE Counts(e)
      BY <3>1, <3>2, <1>5, <1>6, <1>10
    <3>3. CASE ~Counts(e)
      BY <3>1, <3>3, <1>10
    <3> QED
      BY <3>2, <3>3
  <2>2. DOMAIN event' = DOMAIN event /\ \A k \in DOMAIN event : event'[k] \in HookEvent
    BY <1>3, <1>5 DEF HookInv, HookShape
  <2>3. built' = built /\ active' = active
    BY DEF try_append
  <2> QED
    BY <2>1, <2>2, <2>3 DEF HookInv, HookShape
<1>12. DOMAIN event' = DOMAIN event \cup {i} /\ event'[i] = e
       /\ \A k \in DOMAIN event : k # i => event'[k] = event[k]
  BY <1>3
<1>13. ~Counts(event[i])
  BY <1>1 DEF Counts
<1> QED
  BY <1>5, <1>8, <1>10, <1>11, <1>12, <1>13, EventStepKeeps

LEMMA HookNextKeeps ==
  ASSUME HookInv, [HookNext]_hookVars
  PROVE  HookInv'
<1>0. built \in [Listener -> Trail \cup {Unset}] /\ \A h \in Listener : ~IsRemote(built[h]) \/ built[h] = Unset
  BY DEF HookInv, HookShape
<1>1. ASSUME NEW v, SetEnv(v) PROVE HookInv'
  BY <1>0, <1>1, SameEventsKeep DEF SetEnv
<1>2. ASSUME NEW r, FileSystem(r) PROVE HookInv'
  BY <1>0, <1>2, SameEventsKeep DEF FileSystem
<1>3. CASE UNCHANGED hookVars
  BY <1>0, <1>3, SameEventsKeep DEF hookVars
<1>4. CASE \E h \in Host, cwd \in Project \cup {Unset} :
              OpenFails(h, cwd) \/ \E rotates \in BOOLEAN : Opens(h, cwd, rotates)
  <2>1. PICK h \in Host, cwd \in Project \cup {Unset} :
              OpenFails(h, cwd) \/ \E rotates \in BOOLEAN : Opens(h, cwd, rotates)
    BY <1>4
  <2>2. CASE OpenFails(h, cwd)
    BY <2>2, OpenFailsKeeps
  <2>3. CASE \E rotates \in BOOLEAN : Opens(h, cwd, rotates)
    <3>1. PICK rotates \in BOOLEAN : Opens(h, cwd, rotates)
      BY <2>3
    <3> QED
      BY <3>1, OpensKeeps
  <2> QED
    BY <2>1, <2>2, <2>3
<1> QED
  BY <1>1, <1>2, <1>3, <1>4, ConstructKeeps, UnreadableKeeps, WriteOneKeeps, TryAppendKeeps
     DEF HookNext

LEMMA HooksAreInductive == HookSpec => []HookInv
<1>1. HookInv /\ [HookNext]_hookVars => HookInv'
  BY HookNextKeeps
<1> QED
  BY <1>1, HookInitHolds, PTL DEF HookSpec

\* However the hosts' environment, their trails and the file system change
\* under them, every sidecar has one line for each event lost beside its
\* segment while it could be written, and no event is lost while nothing was
\* refused (_stdin_hook, the listeners, the plugins).
THEOREM HookLossesAreCounted == HookSpec => []LossesAreNeverSilent
<1>1. HookInv => LossesAreNeverSilent
  <2> SUFFICES ASSUME HookInv PROVE LossesAreNeverSilent
    OBVIOUS
  <2> DEFINE over == {i \in DOMAIN event : event[i].fate # "open"}
             local == {i \in over : event[i].trail # Unset /\ ~IsRemote(event[i].trail)}
             lost == {i \in local : event[i].fate # "chained"}
             Lines(s) == {i \in lost : <<event[i].trail, event[i].segment>> = s /\ ~event[i].mute}
  <2>1. \A s : Lines(s) = Counted(s)
    BY DEF Counted, Counts
  <2>2. \A s \in DOMAIN drops : drops[s] = Cardinality(Lines(s))
    BY <2>1 DEF HookInv, DropsHold
  <2>3. \A i \in over : (event[i].clear /\ event[i].trail # Unset) => event[i].fate = "chained"
    BY DEF HookInv, EventHolds
  <2> QED
    BY <2>2, <2>3 DEF LossesAreNeverSilent
<1> QED
  BY <1>1, HooksAreInductive, PTL

==============================================================================
