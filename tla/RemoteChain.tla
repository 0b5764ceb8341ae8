---------------------------- MODULE RemoteChain ----------------------------
(***************************************************************************)
(* A chain kept by the chain server: adapters/remote.py on the writers'    *)
(* side, storage/chains.py with its receipt log behind POST /entries, GET  *)
(* /head and GET /entries.                                                 *)
(*                                                                         *)
(* Each append call records an event of its own, and has at most one       *)
(* request on the wire; a writer that gave up leaves its request behind.   *)
(* An entry stands for its hash: the history of its segment up to it, so   *)
(* seq, prev_hash and payload are read off it.                             *)
(***************************************************************************)
EXTENDS Integers, Sequences, FiniteSets

CONSTANTS
    Client,          \* writers with a RemoteBackend
    Event,           \* the append calls, each with what it records
    NoEvent,         \* a client between two calls
    MaxSegment,      \* max_segment_bytes, in entries
    MaxRaceRetries,  \* _MAX_RACE_RETRIES
    PageSize,        \* the server's page_size
    FaultKinds,      \* of {"lost", "ack", "torn", "sidecar"}
    MaxFaults,       \* bound on the faults
    MaxReads         \* bound on the cross-checks and paged reads

ASSUME RemoteAssumption ==
    /\ NoEvent \notin Event
    /\ Event \cap ({"rotation"} \X Nat) = {}  \* no call records the server's binding
    /\ {MaxSegment, MaxRaceRetries, PageSize} \subseteq Nat \ {0}
    /\ FaultKinds \subseteq {"lost", "ack", "torn", "sidecar"}
    /\ {MaxFaults, MaxReads} \subseteq Nat

VARIABLES
    segs,      \* the chain's segments, each a sequence of entries
    receipts,  \* the server's receipt log
    torn,      \* its last line does not parse
    request,   \* the request of each call
    event,     \* the call each client is in
    tries,     \* its lost races
    outcome,   \* how each call ended: "none", "returned", "raised"
    sidecar,   \* the acknowledgments the writers filed in .receipts
    check,     \* a cross_check_receipts in progress
    pager,     \* an entries() in progress
    reads,     \* cross-checks and paged reads so far
    faults

server == <<segs, receipts, torn>>
client == <<event, tries, outcome, sidecar>>
readers == <<check, pager, reads>>
vars == <<segs, receipts, torn, request, event, tries, outcome, sidecar,
          check, pager, reads, faults>>

-----------------------------------------------------------------------------
(* Entries.                                                                *)

GENESIS_PREV_HASH == << >>

\* What build(next_seq, prev_hash) makes, and its fields.
BuildEntry(prev_hash, what) == Append(prev_hash, what)
prev_hash(entry) == SubSeq(entry, 1, Len(entry) - 1)
seq(entry) == Len(entry) - 1

\* The binding row the server writes into segment s.
Binding(s) == BuildEntry(GENESIS_PREV_HASH, <<"rotation", s>>)

Active == Len(segs)

\* The tip an append goes on from; no entry yet is the genesis value.
Tip == IF segs[Active] = << >> THEN GENESIS_PREV_HASH
       ELSE segs[Active][Len(segs[Active])]

Stored == UNION {{segs[s][i] : i \in DOMAIN segs[s]} : s \in DOMAIN segs}

\* receipt_head: the history of what was acknowledged.
Acknowledged(n) == [i \in 1 .. n |-> receipts[i].entry]

NoRequest == [status |-> "none", entry |-> GENESIS_PREV_HASH, receipt |-> 0]

NoPager == [cursor |-> 0, entries |-> << >>]

\* A request's way: not sent, on the wire (or lost there), opened and stored
\* by the server, answered.
Status == {"none", "sent", "lost", "opened", "stored", "201", "409", "500"}

Init ==
    /\ segs = << << >> >>
    /\ receipts = << >>
    /\ torn = FALSE
    /\ request = [e \in Event |-> NoRequest]
    /\ event = [c \in Client |-> NoEvent]
    /\ tries = [c \in Client |-> 0]
    /\ outcome = [e \in Event |-> "none"]
    /\ sidecar = {}
    /\ check = [stage |-> "idle", records |-> << >>, stored |-> {}]
    /\ pager = NoPager
    /\ reads = 0
    /\ faults = 0

Fault(kind) == kind \in FaultKinds /\ faults < MaxFaults /\ faults' = faults + 1

-----------------------------------------------------------------------------
(* RemoteBackend.append.                                                   *)

Begin(c, e) ==
    /\ event[c] = NoEvent
    /\ outcome[e] = "none" /\ request[e] = NoRequest /\ \A d \in Client : event[d] # e
    /\ event' = [event EXCEPT ![c] = e]
    /\ tries' = [tries EXCEPT ![c] = 0]
    /\ UNCHANGED <<outcome, sidecar, request, faults>>
    /\ UNCHANGED server /\ UNCHANGED readers

\* GET /head, build and POST.
Send(c) ==
    LET e == event[c] IN
    /\ e # NoEvent
    /\ request[e].status = "none"
    /\ request' = [request EXCEPT ![e] =
                       [status |-> "sent", entry |-> BuildEntry(Tip, e), receipt |-> 0]]
    /\ UNCHANGED <<faults>>
    /\ UNCHANGED client /\ UNCHANGED server /\ UNCHANGED readers

End(c, how) ==
    /\ outcome' = [outcome EXCEPT ![event[c]] = how]
    /\ event' = [event EXCEPT ![c] = NoEvent]
    /\ tries' = [tries EXCEPT ![c] = 0]

\* 201: the acknowledgment is filed, or a warning says that it could not be.
Receive201(c) ==
    LET e == event[c] IN
    /\ e # NoEvent
    /\ request[e].status = "201"
    /\ \/ /\ sidecar' = sidecar \cup {[event |-> e, receipt |-> request[e].receipt]}
          /\ UNCHANGED faults
       \/ Fault("sidecar") /\ UNCHANGED sidecar
    /\ End(c, "returned")
    /\ UNCHANGED request /\ UNCHANGED server /\ UNCHANGED readers

\* Mutant: a server error is retried like a lost race.
RetriedAnyError(status) == status \in {"409", "500"}

Retried(status) == status = "409"

\* After n lost races the next one is the last.
IsLastTry(n) == n + 1 = MaxRaceRetries

\* A lost race: re-read /head and rebuild, unless it was the last try.
ReceiveRetried(c) ==
    LET e == event[c] IN
    /\ e # NoEvent
    /\ Retried(request[e].status)
    /\ IF IsLastTry(tries[c])
         THEN End(c, "raised") /\ UNCHANGED request
         ELSE /\ tries' = [tries EXCEPT ![c] = @ + 1]
              /\ request' = [request EXCEPT ![e] = NoRequest]
              /\ UNCHANGED <<outcome, event>>
    /\ UNCHANGED <<sidecar, faults>>
    /\ UNCHANGED server /\ UNCHANGED readers

\* Any other status raises RemoteError.
ReceiveError(c) ==
    LET e == event[c] IN
    /\ e # NoEvent
    /\ request[e].status = "500"
    /\ ~Retried("500")
    /\ End(c, "raised")
    /\ UNCHANGED <<sidecar, request, faults>>
    /\ UNCHANGED server /\ UNCHANGED readers

\* GET /head fails: nothing was sent.
HeadFails(c) ==
    /\ event[c] # NoEvent
    /\ request[event[c]].status = "none"
    /\ Fault("lost")
    /\ End(c, "raised")
    /\ UNCHANGED <<sidecar, request>>
    /\ UNCHANGED server /\ UNCHANGED readers

\* The connection breaks on the way there (no request arrives), or on the
\* way back.  The writer learns neither.
LoseRequest(e) ==
    /\ request[e].status = "sent"
    /\ Fault("lost")
    /\ request' = [request EXCEPT ![e].status = "lost"]
    /\ UNCHANGED client /\ UNCHANGED server /\ UNCHANGED readers

\* Mutant: a transport without a timeout.
TimesOutNever(c) == FALSE

TimesOut(c) == event[c] # NoEvent /\ request[event[c]].status \in {"lost", "sent", "opened", "stored"}

\* No answer in time: the transport's exception leaves append, and the
\* request goes on without its writer.
GiveUp(c) ==
    /\ TimesOut(c)
    /\ IF request[event[c]].status = "lost" THEN UNCHANGED faults ELSE Fault("lost")
    /\ End(c, "raised")
    /\ UNCHANGED <<sidecar, request>>
    /\ UNCHANGED server /\ UNCHANGED readers

-----------------------------------------------------------------------------
(* ChainStore.append.                                                      *)

\* open_segmented: a full active segment is sealed and its successor bound.
HandleOpen(e) ==
    /\ request[e].status = "sent"
    /\ segs' = IF Len(segs[Active]) < MaxSegment THEN segs
               ELSE Append(segs, <<Binding(Active + 1)>>)
    /\ request' = [request EXCEPT ![e].status = "opened"]
    /\ UNCHANGED <<receipts, torn, faults>>
    /\ UNCHANGED client /\ UNCHANGED readers

\* Mutant: only seq is compared.
PreconditionSeqOnly(entry) == seq(entry) = Len(segs[Active])

\* The entry goes on from the tip of whatever segment is active by now.
Precondition(entry) ==
    /\ seq(entry) = Len(segs[Active])
    /\ prev_hash(entry) = Tip

\* Under segments.lock and the file lock: the compare-and-set.
HandleAppend(e) ==
    /\ request[e].status = "opened"
    /\ IF Precondition(request[e].entry)
         THEN /\ segs' = [segs EXCEPT ![Active] = Append(@, request[e].entry)]
              /\ request' = [request EXCEPT ![e].status = "stored"]
         ELSE /\ request' = [request EXCEPT ![e].status = "409"]
              /\ UNCHANGED segs
    /\ UNCHANGED <<receipts, torn, faults>>
    /\ UNCHANGED client /\ UNCHANGED readers

\* Mutant: the entry's own seq is taken for the receipt's.
NextReceiptSeqOfEntry(entry) == seq(entry)

NextReceiptSeq(entry) == Len(receipts)

\* acknowledge, under the receipt log's lock, and the 201.
HandleAck(e) ==
    LET entry == request[e].entry IN
    /\ request[e].status = "stored"
    /\ ~torn
    /\ receipts' = Append(receipts,
           [receipt_seq |-> NextReceiptSeq(entry), entry |-> entry, seq |-> seq(entry),
            receipt_head |-> Append(Acknowledged(Len(receipts)), entry)])
    /\ request' = [request EXCEPT ![e].status = "201", ![e].receipt = Len(receipts) + 1]
    /\ UNCHANGED <<segs, torn, faults>>
    /\ UNCHANGED client /\ UNCHANGED readers

\* Mutant: the answer does not wait for the receipt.
AckFailureIgnored == "201"

AckFailure == "500"

\* acknowledge raises: the log cannot be written, a write of it is cut
\* short, or an earlier one was.
HandleAckRaises(e) ==
    /\ request[e].status = "stored"
    /\ IF torn THEN UNCHANGED <<torn, faults>>
       ELSE \/ Fault("ack") /\ UNCHANGED torn
            \/ Fault("torn") /\ torn' = TRUE
    /\ request' = [request EXCEPT ![e].status = AckFailure]
    /\ UNCHANGED <<segs, receipts>>
    /\ UNCHANGED client /\ UNCHANGED readers

-----------------------------------------------------------------------------
(* Reads that go on while the chain grows.                                 *)

\* receipt_beyond_head and receipt_mismatch both.
cross_check_receipts(records, stored) ==
    IF \A i \in DOMAIN records :
         \E h \in stored : seq(h) = records[i].seq /\ h = records[i].entry
      THEN "ok" ELSE "broken"

\* Mutant: the trail is read before the records.
CheckReadsTrailFirst == "stored"

\* What ChainStore.cross_check_receipts reads first.
CheckReads == "records"

CrossCheckFirst ==
    /\ check.stage # "first" /\ reads < MaxReads
    /\ check' = [stage |-> IF torn /\ CheckReads = "records" THEN "broken" ELSE "first",
                 records |-> IF CheckReads = "records" THEN receipts ELSE << >>,
                 stored |-> IF CheckReads = "stored" THEN Stored ELSE {}]
    /\ reads' = reads + 1
    /\ UNCHANGED <<request, pager, faults>>
    /\ UNCHANGED client /\ UNCHANGED server

CrossCheckSecond ==
    /\ check.stage = "first"
    /\ LET records == IF CheckReads = "records" THEN check.records ELSE receipts
           stored == IF CheckReads = "stored" THEN check.stored ELSE Stored
       IN  check' = [stage |-> cross_check_receipts(records, stored),
                     records |-> << >>, stored |-> {}]
    /\ UNCHANGED <<request, pager, reads, faults>>
    /\ UNCHANGED client /\ UNCHANGED server

\* Mutant: a cursor that is an offset and nothing else.
CursorSegmentActive(s) == Active

\* A cursor names the segment it was issued against.
CursorSegment(s) == s

\* A page of segment s after the entries the reader has, and the cursor for
\* the next one if there was more to read.
Page(s, have) ==
    LET more == Len(have) + PageSize < Len(segs[s])
        last == IF more THEN Len(have) + PageSize ELSE Len(segs[s])
    IN  [cursor  |-> IF more THEN s ELSE 0,
         entries |-> have \o SubSeq(segs[s], Len(have) + 1, last)]

\* The first GET /entries, about the active segment.
FirstPage ==
    /\ pager.cursor = 0 /\ reads < MaxReads
    /\ pager' = Page(Active, << >>)
    /\ reads' = reads + 1
    /\ UNCHANGED <<request, check, faults>>
    /\ UNCHANGED client /\ UNCHANGED server

\* The next GET, with the cursor the last page came with.
NextPage ==
    /\ pager.cursor # 0
    /\ pager' = Page(CursorSegment(pager.cursor), pager.entries)
    /\ UNCHANGED <<request, check, reads, faults>>
    /\ UNCHANGED client /\ UNCHANGED server

-----------------------------------------------------------------------------

ClientStep(c) ==
    Send(c) \/ Receive201(c) \/ ReceiveRetried(c) \/ ReceiveError(c)

ServerStep(e) ==
    HandleOpen(e) \/ HandleAppend(e) \/ HandleAck(e) \/ HandleAckRaises(e)

\* Every call has ended and nothing is under way.
Done ==
    /\ \A e \in Event : outcome[e] # "none" /\ request[e].status \notin {"sent", "opened", "stored"}
    /\ check.stage # "first" /\ pager.cursor = 0
    /\ UNCHANGED vars

Next ==
    \/ \E c \in Client : (\E e \in Event : Begin(c, e)) \/ ClientStep(c)
                       \/ HeadFails(c) \/ GiveUp(c)
    \/ \E e \in Event : LoseRequest(e) \/ ServerStep(e)
    \/ CrossCheckFirst \/ CrossCheckSecond \/ FirstPage \/ NextPage
    \/ Done

\* A client acts on what arrives and gives up on what cannot arrive any more;
\* the server handles what has arrived.
Fairness ==
    /\ \A c \in Client : WF_vars(ClientStep(c) \/ GiveUp(c))
    /\ \A e \in Event : WF_vars(ServerStep(e))

Spec == Init /\ [][Next]_vars /\ Fairness

-----------------------------------------------------------------------------
(* Correctness.                                                            *)

\* However requests are delayed and segments sealed between a writer's GET
\* /head and its POST, every segment stays one chain that starts at genesis.
ChainNeverForks ==
    \A s \in DOMAIN segs : \A i \in DOMAIN segs[s] :
        prev_hash(segs[s][i]) = IF i = 1 THEN GENESIS_PREV_HASH ELSE segs[s][i - 1]

\* An append call puts at most one row on the chain, whatever it was told.
AtMostOnce ==
    \A e \in Event : Cardinality({h \in Stored : h[Len(h)] = e}) <= 1

\* An append that returned is on the chain as it was built, and what its
\* writer filed is what the server's receipt log holds at that receipt_seq.
ReturnedIsAcknowledged ==
    \A e \in Event : outcome[e] = "returned" =>
        /\ request[e].entry \in Stored
        /\ request[e].receipt \in DOMAIN receipts
        /\ \A r \in sidecar : r.event = e => receipts[r.receipt].entry = request[e].entry

\* verify_receipt_log: concurrent acknowledgments, in whatever order, leave
\* receipt_seq dense and every head the hash of the one before it.
ReceiptLogVerifies ==
    \A i \in DOMAIN receipts :
        /\ receipts[i].receipt_seq = i - 1
        /\ receipts[i].receipt_head = Acknowledged(i)

\* A cross-check beside running appends and rotations reports no break but
\* that of a receipt log which does not parse.
CrossCheckNeverAlarms == check.stage = "broken" => torn

\* A paged read, however the chain rotates between its pages, yields the
\* beginning of one segment.
PagedReadIsOneChain ==
    \E s \in DOMAIN segs :
        /\ Len(pager.entries) <= Len(segs[s])
        /\ pager.entries = SubSeq(segs[s], 1, Len(pager.entries))

\* Every append call ends: with an answer, with the last of its retries, or
\* with the transport's timeout.
EveryCallEnds == \A c \in Client : event[c] # NoEvent ~> event[c] = NoEvent

\* What a client is told holds: one row at most per append, an answer only for
\* a stored and acknowledged row, pages of one chain, and no alarm from a
\* cross-check that ran beside others' appends.
AnswersHold ==
    AtMostOnce /\ ReturnedIsAcknowledged /\ CrossCheckNeverAlarms /\ PagedReadIsOneChain

==============================================================================
