------------------------- MODULE RemoteChainProofs -------------------------
(***************************************************************************)
(* Proofs about RemoteChain, for any number of writers and calls, any      *)
(* segment size and any faults: no segment ever forks, the server's        *)
(* receipt log always verifies, and what a client is told holds.           *)
(***************************************************************************)
EXTENDS RemoteChain, SequenceTheorems, FiniteSetTheorems, TLAPS

\* What an entry's history is made of, and the hashes that stand for it.
Item == Event \cup ({"rotation"} \X Nat)

Hash == Seq(Item)

Record == [receipt_seq : Nat, entry : Hash, seq : Int, receipt_head : Seq(Hash)]

Request == [status : Status, entry : Hash, receipt : Nat]

\* The parts of the state the two properties depend on have their types, and
\* there is always an active segment.
Shape ==
    /\ segs \in Seq(Seq(Hash))
    /\ Len(segs) > 0
    /\ receipts \in Seq(Record)
    /\ request \in [Event -> Request]

IInv == Shape /\ ChainNeverForks /\ ReceiptLogVerifies

\* The tip of the active segment is a hash.
LEMMA TipIsHash == Shape => Tip \in Hash
<1> SUFFICES ASSUME Shape PROVE Tip \in Hash
  OBVIOUS
<1>1. segs[Active] \in Seq(Hash)
  BY DEF Shape, Active
<1>2. << >> \in Hash
  BY DEF Hash
<1>3. CASE segs[Active] = << >>
  BY <1>3, <1>2 DEF Tip, GENESIS_PREV_HASH
<1>4. CASE segs[Active] # << >>
  <2>1. Len(segs[Active]) \in DOMAIN segs[Active]
    BY <1>1, <1>4
  <2> QED
    BY <2>1, <1>1, <1>4 DEF Tip
<1> QED
  BY <1>3, <1>4

\* A binding is a hash whose prev_hash is genesis.
LEMMA BindingIsGenesis ==
  ASSUME NEW s \in Nat
  PROVE  /\ Binding(s) \in Hash
         /\ prev_hash(Binding(s)) = GENESIS_PREV_HASH
<1> DEFINE x == <<"rotation", s>>
<1>1. x \in Item
  BY DEF Item
<1> HIDE DEF x
<1>2. Binding(s) = <<x>>
  BY DEF Binding, BuildEntry, GENESIS_PREV_HASH, x
<1>3. <<x>> \in Seq(Item) /\ Len(<<x>>) = 1
  BY <1>1
<1>4. SubSeq(<<x>>, 1, 0) = << >>
  OBVIOUS
<1> QED
  BY <1>2, <1>3, <1>4 DEF Hash, prev_hash, GENESIS_PREV_HASH

LEMMA InitShape == Init => IInv
<1> SUFFICES ASSUME Init PROVE IInv
  OBVIOUS
<1>1. << >> \in Seq(Hash) /\ << >> \in Seq(Record) /\ << >> \in Hash
  BY DEF Hash
<1>2. segs = << << >> >> /\ receipts = << >>
  BY DEF Init
<1>3. Len(segs) = 1 /\ segs \in Seq(Seq(Hash))
  BY <1>1, <1>2
<1>4. NoRequest \in Request
  BY <1>1 DEF NoRequest, Request, GENESIS_PREV_HASH, Status
<1>5. request \in [Event -> Request]
  BY <1>4 DEF Init
<1>6. Shape
  BY <1>1, <1>2, <1>3, <1>5 DEF Shape
<1>7. ChainNeverForks
  BY <1>2 DEF ChainNeverForks
<1>8. ReceiptLogVerifies
  BY <1>2 DEF ReceiptLogVerifies
<1> QED
  BY <1>6, <1>7, <1>8 DEF IInv

\* A step that leaves segments, receipts and requests alone keeps IInv.
LEMMA Untouched ==
  ASSUME IInv, UNCHANGED <<segs, receipts>>, request' \in [Event -> Request]
  PROVE  IInv'
BY DEF IInv, Shape, ChainNeverForks, ReceiptLogVerifies, Acknowledged

\* A row that goes on from the tip keeps every segment one chain.
LEMMA AppendKeepsChain ==
  ASSUME Shape, ChainNeverForks, NEW entry \in Hash, prev_hash(entry) = Tip,
         segs' = [segs EXCEPT ![Active] = Append(@, entry)]
  PROVE  ChainNeverForks' /\ segs' \in Seq(Seq(Hash)) /\ Len(segs') > 0
<1> DEFINE a == Active
           old == segs[a]
           n == Len(old)
<1>1. a \in DOMAIN segs /\ a = Len(segs) /\ a \in Nat /\ old \in Seq(Hash) /\ n \in Nat
  BY DEF Shape, Active
<1>2. segs' = [segs EXCEPT ![a] = Append(old, entry)]
  OBVIOUS
<1>3. prev_hash(entry) = IF n = 0 THEN GENESIS_PREV_HASH ELSE old[n]
  <2>1. old = << >> <=> n = 0
    BY <1>1
  <2> QED
    BY <2>1 DEF Tip
<1>4. ASSUME NEW i \in 1 .. n
      PROVE  prev_hash(old[i]) = IF i = 1 THEN GENESIS_PREV_HASH ELSE old[i - 1]
  BY <1>1 DEF ChainNeverForks
<1> HIDE DEF a, old, n
<1> DEFINE new == Append(old, entry)
<1>5. /\ new \in Seq(Hash) /\ Len(new) = Len(old) + 1
      /\ \A i \in 1 .. Len(old) : new[i] = old[i]
      /\ new[Len(old) + 1] = entry
  BY <1>1
<1> HIDE DEF new
<1>6. n = Len(old)
  BY DEF n
<1>7. ASSUME NEW i \in DOMAIN new
      PROVE  prev_hash(new[i]) = IF i = 1 THEN GENESIS_PREV_HASH ELSE new[i - 1]
  <2>1. i \in 1 .. n + 1
    BY <1>5, <1>6
  <2>2. CASE i \in 1 .. n
    <3>1. new[i] = old[i] /\ (i # 1 => new[i - 1] = old[i - 1])
      BY <1>1, <1>5, <1>6, <2>2
    <3> QED
      BY <3>1, <1>4, <2>2
  <2>3. CASE i = n + 1
    <3>1. new[i] = entry /\ (i # 1 => new[i - 1] = old[n])
      BY <1>1, <1>5, <1>6, <2>3
    <3>2. i = 1 <=> n = 0
      BY <1>1, <2>3
    <3> QED
      BY <3>1, <3>2, <1>3
  <2> QED
    BY <2>1, <2>2, <2>3, <1>1
<1>8. segs' \in Seq(Seq(Hash)) /\ Len(segs') = Len(segs)
  <2> DEFINE S == Seq(Hash)
  <2>1. segs \in Seq(S) /\ new \in S
    BY <1>5 DEF Shape
  <2>2. segs' = [segs EXCEPT ![a] = new]
    BY <1>2 DEF new
  <2> HIDE DEF S
  <2>3. a \in 1 .. Len(segs)
    BY <1>1 DEF Shape
  <2>4. [segs EXCEPT ![a] = new] \in Seq(S) /\ Len([segs EXCEPT ![a] = new]) = Len(segs)
    BY <2>1, <2>3, ExceptSeq
  <2> QED
    BY <2>2, <2>4 DEF S
<1>9. ASSUME NEW s \in DOMAIN segs'
      PROVE  /\ s \in DOMAIN segs
             /\ segs'[s] = IF s = a THEN new ELSE segs[s]
  BY <1>1, <1>2, <1>8 DEF Shape, new
<1>10. ChainNeverForks'
  <2> SUFFICES ASSUME NEW s \in DOMAIN segs', NEW i \in DOMAIN segs'[s]
               PROVE  prev_hash(segs'[s][i]) =
                        IF i = 1 THEN GENESIS_PREV_HASH ELSE segs'[s][i - 1]
    BY DEF ChainNeverForks, prev_hash, GENESIS_PREV_HASH
  <2>1. CASE s = a
    BY <2>1, <1>9, <1>7
  <2>2. CASE s # a
    BY <2>2, <1>9 DEF ChainNeverForks
  <2> QED
    BY <2>1, <2>2
<1> QED
  BY <1>8, <1>10 DEF Shape

\* A new segment that holds its binding keeps every segment one chain.
LEMMA RotationKeepsChain ==
  ASSUME Shape, ChainNeverForks, segs' = Append(segs, <<Binding(Active + 1)>>)
  PROVE  ChainNeverForks' /\ segs' \in Seq(Seq(Hash)) /\ Len(segs') > 0
<1> DEFINE b == Binding(Active + 1)
<1>1. Active + 1 \in Nat /\ Active = Len(segs)
  BY DEF Shape, Active
<1>2. b \in Hash /\ prev_hash(b) = GENESIS_PREV_HASH
  BY <1>1, BindingIsGenesis
<1> HIDE DEF b
<1>3. segs' = Append(segs, <<b>>)
  BY DEF b
<1>4. <<b>> \in Seq(Hash) /\ Len(<<b>>) = 1 /\ <<b>>[1] = b
  BY <1>2
<1>5. segs' \in Seq(Seq(Hash)) /\ Len(segs') = Len(segs) + 1
  BY <1>3, <1>4 DEF Shape
<1>6. ASSUME NEW s \in DOMAIN segs'
      PROVE  \/ s \in DOMAIN segs /\ segs'[s] = segs[s]
             \/ segs'[s] = <<b>>
  BY <1>3, <1>4, <1>5 DEF Shape
<1>7. ChainNeverForks'
  <2> SUFFICES ASSUME NEW s \in DOMAIN segs', NEW i \in DOMAIN segs'[s]
               PROVE  prev_hash(segs'[s][i]) =
                        IF i = 1 THEN GENESIS_PREV_HASH ELSE segs'[s][i - 1]
    BY DEF ChainNeverForks, prev_hash, GENESIS_PREV_HASH
  <2>1. CASE s \in DOMAIN segs /\ segs'[s] = segs[s]
    BY <2>1 DEF ChainNeverForks
  <2>2. CASE segs'[s] = <<b>>
    <3>1. i = 1 /\ segs'[s][i] = b
      BY <2>2, <1>4
    <3> QED
      BY <3>1, <1>2
  <2> QED
    BY <2>1, <2>2, <1>6
<1> QED
  BY <1>5, <1>7 DEF Shape

\* The next receipt, under the receipt log's lock, extends the log by one.
LEMMA AckKeepsLog ==
  ASSUME Shape, ReceiptLogVerifies, NEW entry \in Hash,
         receipts' = Append(receipts,
             [receipt_seq |-> NextReceiptSeq(entry), entry |-> entry, seq |-> seq(entry),
              receipt_head |-> Append(Acknowledged(Len(receipts)), entry)])
  PROVE  ReceiptLogVerifies' /\ receipts' \in Seq(Record)
<1> DEFINE n == Len(receipts)
           acked == [i \in 1 .. n |-> receipts[i].entry]
           head == Append(acked, entry)
           r == [receipt_seq |-> n, entry |-> entry, seq |-> seq(entry), receipt_head |-> head]
<1>1. receipts \in Seq(Record) /\ n \in Nat
  BY DEF Shape
<1>2. receipts' = Append(receipts, r)
  BY DEF NextReceiptSeq, Acknowledged
<1>3. acked \in Seq(Hash) /\ Len(acked) = n
  <2>1. \A i \in 1 .. n : receipts[i] \in Record
    BY <1>1
  <2>2. \A x \in Record : x.entry \in Hash
    BY DEF Record
  <2> QED
    BY <1>1, <2>1, <2>2
<1>4. head \in Seq(Hash) /\ head = [i \in 1 .. n + 1 |-> IF i = n + 1 THEN entry ELSE receipts[i].entry]
  BY <1>1, <1>3
<1>5. seq(entry) \in Int
  BY DEF seq, Hash
<1> HIDE DEF head, acked
<1>6. r \in Record
  BY <1>1, <1>4, <1>5 DEF Record
<1>7. r.receipt_seq = n /\ r.entry = entry /\ r.receipt_head = head
  OBVIOUS
<1> HIDE DEF r, n
<1>8. /\ receipts' \in Seq(Record)
      /\ DOMAIN receipts' = 1 .. n + 1
      /\ \A i \in 1 .. n : receipts'[i] = receipts[i]
      /\ receipts'[n + 1] = r
  BY <1>1, <1>2, <1>6 DEF n
<1>9. ASSUME NEW i \in 1 .. n + 1
      PROVE  /\ receipts'[i].receipt_seq = i - 1
             /\ receipts'[i].receipt_head = [j \in 1 .. i |-> receipts'[j].entry]
  <2>1. CASE i = n + 1
    <3>1. head = [j \in 1 .. n + 1 |-> receipts'[j].entry]
      BY <1>1, <1>4, <1>7, <1>8
    <3>2. receipts'[i].receipt_head = head /\ receipts'[i].receipt_seq = n /\ n = i - 1
      BY <2>1, <1>1, <1>7, <1>8
    <3>3. 1 .. i = 1 .. n + 1
      BY <2>1
    <3> QED
      BY <3>1, <3>2, <3>3, Zenon
  <2>2. CASE i \in 1 .. n
    <3>1. /\ receipts[i].receipt_seq = i - 1
          /\ receipts[i].receipt_head = [j \in 1 .. i |-> receipts[j].entry]
      BY <2>2, <1>1 DEF ReceiptLogVerifies, Acknowledged, n
    <3>2. [j \in 1 .. i |-> receipts[j].entry] = [j \in 1 .. i |-> receipts'[j].entry]
      BY <2>2, <1>1, <1>8
    <3> QED
      BY <2>2, <3>1, <3>2, <1>8
  <2>3. i = n + 1 \/ i \in 1 .. n
    BY <1>1
  <2> QED
    BY <2>1, <2>2, <2>3, Zenon
<1>10. ReceiptLogVerifies'
  BY <1>8, <1>9 DEF ReceiptLogVerifies, Acknowledged
<1> QED
  BY <1>8, <1>10

\* One step per action: those of the server extend a segment or the receipt
\* log, the others touch neither.
LEMMA NextKeeps == IInv /\ [Next]_vars => IInv'
<1> SUFFICES ASSUME IInv, [Next]_vars PROVE IInv'
  OBVIOUS
<1> USE DEF IInv
<1>0. request \in [Event -> Request]
  BY DEF Shape
<1>1. ASSUME NEW c \in Client, NEW e \in Event, Begin(c, e) PROVE IInv'
  BY <1>0, <1>1, Untouched DEF Begin, server
<1>2. ASSUME NEW c \in Client, Send(c) PROVE IInv'
  <2> DEFINE r == [status |-> "sent", entry |-> BuildEntry(Tip, event[c]), receipt |-> 0]
  <2>1. request' = [request EXCEPT ![event[c]] = r] /\ UNCHANGED <<segs, receipts>>
    BY <1>2 DEF Send, server
  <2>2. CASE event[c] \in Event
    <3>1. event[c] \in Item
      BY <2>2 DEF Item
    <3>2. BuildEntry(Tip, event[c]) \in Hash
      BY <3>1, TipIsHash DEF BuildEntry, Hash
    <3>3. r \in Request
      BY <3>2 DEF Request, Status
    <3> HIDE DEF r
    <3> QED
      BY <1>0, <2>1, <3>3, Untouched
  <2>3. CASE event[c] \notin Event
    <3> HIDE DEF r
    <3>1. request' = request
      BY <1>0, <2>1, <2>3
    <3> QED
      BY <1>0, <2>1, <3>1, Untouched
  <2> QED
    BY <2>2, <2>3
<1>3. ASSUME NEW c \in Client, Receive201(c) \/ ReceiveError(c) \/ HeadFails(c) \/ GiveUp(c)
      PROVE  IInv'
  BY <1>0, <1>3, Untouched DEF Receive201, ReceiveError, HeadFails, GiveUp, server
<1>4. ASSUME NEW c \in Client, ReceiveRetried(c) PROVE IInv'
  <2>1. NoRequest \in Request
    BY DEF NoRequest, Request, Status, GENESIS_PREV_HASH, Hash
  <2>2. request' \in [Event -> Request] /\ UNCHANGED <<segs, receipts>>
    BY <1>0, <1>4, <2>1 DEF ReceiveRetried, server
  <2> QED
    BY <2>2, Untouched
<1>5. ASSUME NEW e \in Event, NEW st \in Status,
             request' = [request EXCEPT ![e].status = st]
      PROVE  request' \in [Event -> Request]
  BY <1>0, <1>5 DEF Request
<1>6. ASSUME NEW e \in Event, LoseRequest(e) PROVE IInv'
  <2>1. request' \in [Event -> Request] /\ UNCHANGED <<segs, receipts>>
    BY <1>5, <1>6 DEF LoseRequest, Status, server
  <2> QED
    BY <2>1, Untouched
<1>7. ASSUME NEW e \in Event, HandleOpen(e) PROVE IInv'
  <2>1. request' \in [Event -> Request] /\ UNCHANGED receipts
    BY <1>5, <1>7 DEF HandleOpen, Status
  <2>2. CASE segs' = segs
    BY <2>1, <2>2, Untouched
  <2>3. CASE segs' = Append(segs, <<Binding(Active + 1)>>)
    <3>1. ChainNeverForks' /\ segs' \in Seq(Seq(Hash)) /\ Len(segs') > 0
      BY <2>3, RotationKeepsChain
    <3> QED
      BY <2>1, <3>1 DEF Shape, ReceiptLogVerifies, Acknowledged
  <2> QED
    BY <1>7, <2>2, <2>3 DEF HandleOpen
<1>8. ASSUME NEW e \in Event, HandleAppend(e) PROVE IInv'
  <2>1. request' \in [Event -> Request] /\ UNCHANGED receipts
    BY <1>5, <1>8 DEF HandleAppend, Status
  <2>2. CASE Precondition(request[e].entry)
    <3>1. request[e].entry \in Hash /\ prev_hash(request[e].entry) = Tip
      BY <1>0, <2>2 DEF Request, Precondition
    <3>2. segs' = [segs EXCEPT ![Active] = Append(@, request[e].entry)]
      BY <1>8, <2>2 DEF HandleAppend
    <3>3. ChainNeverForks' /\ segs' \in Seq(Seq(Hash)) /\ Len(segs') > 0
      BY <3>1, <3>2, AppendKeepsChain
    <3> QED
      BY <2>1, <3>3 DEF Shape, ReceiptLogVerifies, Acknowledged
  <2>3. CASE ~Precondition(request[e].entry)
    BY <1>8, <2>1, <2>3, Untouched DEF HandleAppend
  <2> QED
    BY <2>2, <2>3
<1>9. ASSUME NEW e \in Event, HandleAck(e) PROVE IInv'
  <2>1. request[e].entry \in Hash
    BY <1>0 DEF Request
  <2>2. ReceiptLogVerifies' /\ receipts' \in Seq(Record)
    BY <1>9, <2>1, AckKeepsLog DEF HandleAck
  <2>3. request' \in [Event -> Request]
    <3>1. Len(receipts) + 1 \in Nat
      BY DEF Shape
    <3> QED
      BY <1>0, <1>9, <3>1 DEF HandleAck, Request, Status
  <2>4. UNCHANGED segs
    BY <1>9 DEF HandleAck
  <2> QED
    BY <2>2, <2>3, <2>4 DEF Shape, ChainNeverForks
<1>10. ASSUME NEW e \in Event, HandleAckRaises(e) PROVE IInv'
  <2>1. request' \in [Event -> Request] /\ UNCHANGED <<segs, receipts>>
    BY <1>5, <1>10 DEF HandleAckRaises, AckFailure, Status
  <2> QED
    BY <2>1, Untouched
<1>11. ASSUME CrossCheckFirst \/ CrossCheckSecond \/ FirstPage \/ NextPage \/ Done PROVE IInv'
  BY <1>0, <1>11, Untouched
     DEF CrossCheckFirst, CrossCheckSecond, FirstPage, NextPage, Done, server, vars
<1>12. CASE UNCHANGED vars
  BY <1>0, <1>12, Untouched DEF vars
<1> QED
  BY <1>1, <1>2, <1>3, <1>4, <1>6, <1>7, <1>8, <1>9, <1>10, <1>11, <1>12
     DEF Next, ClientStep, ServerStep

LEMMA Invariance == Spec => []IInv
BY InitShape, NextKeeps, PTL DEF Spec

\* The compare-and-set of ChainStore.append keeps every segment one chain:
\* in every behaviour, whatever requests are delayed, orphaned or lost and
\* however many rotations happen between a writer's read and its POST.
THEOREM RemoteChainNeverForks == Spec => []ChainNeverForks
<1>1. IInv => ChainNeverForks
  BY DEF IInv
<1> QED
  BY <1>1, Invariance, PTL

\* acknowledge, called by any number of handlers in any order, keeps a receipt
\* log that verify_receipt_log accepts.
THEOREM ReceiptLogAlwaysVerifies == Spec => []ReceiptLogVerifies
<1>1. IInv => ReceiptLogVerifies
  BY DEF IInv
<1> QED
  BY <1>1, Invariance, PTL

-----------------------------------------------------------------------------
(* What a client is told.                                                  *)

\* The statuses of a request whose entry is on the chain.
Kept == {"stored", "201", "500"}

\* The parts of the state the answers depend on have their types.
ClientShape ==
    /\ event \in [Client -> Event \cup {NoEvent}]
    /\ outcome \in [Event -> {"none", "returned", "raised"}]
    /\ sidecar \subseteq [event : Event, receipt : Nat]
    /\ torn \in BOOLEAN
    /\ check \in [stage : {"idle", "first", "ok", "broken"}, records : Seq(Record),
                  stored : SUBSET Hash]
    /\ pager \in [cursor : Nat, entries : Seq(Hash)]

\* A request carries the event of its own call.
RequestsAreOwn ==
    \A e \in Event : request[e].status # "none" =>
        request[e].entry # << >> /\ request[e].entry[Len(request[e].entry)] = e

\* A row of a call is the one its request carries, which has been stored.
RowsAreRequests ==
    \A h \in Stored :
        /\ h # << >>
        /\ \A e \in Event : h[Len(h)] = e =>
               h = request[e].entry /\ request[e].status \in Kept

\* What was stored stays, a 201 names its receipt, a return had a 201.
AnswersAreRows ==
    \A e \in Event :
        /\ request[e].status \in Kept => request[e].entry \in Stored
        /\ request[e].status = "201" =>
               /\ request[e].receipt \in DOMAIN receipts
               /\ receipts[request[e].receipt].entry = request[e].entry
        /\ outcome[e] = "returned" => request[e].status = "201"

\* What is filed is what the 201 said.
FiledIsAnswered ==
    \A r \in sidecar :
        request[r.event].status = "201" /\ r.receipt = request[r.event].receipt

\* These records are of rows.
OfRows(records) ==
    \A i \in DOMAIN records :
        records[i].entry \in Stored /\ records[i].seq = seq(records[i].entry)

\* A receipt is of a row, as is every record a cross-check has read, and
\* only a log that does not parse has made one report a break.
ReceiptsAreOfRows ==
    /\ OfRows(receipts)
    /\ check.stage = "first" => OfRows(check.records)
    /\ check.stage = "broken" => torn

\* These entries are the beginning of segment s.
Begins(entries, s) ==
    /\ s \in DOMAIN segs
    /\ Len(entries) <= Len(segs[s])
    /\ \A i \in 1 .. Len(entries) : entries[i] = segs[s][i]

\* The pages read so far begin a segment: the cursor's, if there is one.
PagesBeginASegment ==
    /\ \E s \in DOMAIN segs : Begins(pager.entries, s)
    /\ pager.cursor # 0 => Begins(pager.entries, pager.cursor)

AnswersInv ==
    /\ ClientShape
    /\ RequestsAreOwn
    /\ RowsAreRequests
    /\ AnswersAreRows
    /\ FiledIsAnswered
    /\ ReceiptsAreOfRows
    /\ PagesBeginASegment

\* Segments only grow.
Grown ==
    \A s \in DOMAIN segs :
        /\ s \in DOMAIN segs' /\ Len(segs[s]) <= Len(segs'[s])
        /\ \A i \in 1 .. Len(segs[s]) : segs'[s][i] = segs[s][i]

LEMMA GrownStays ==
    ASSUME Shape, UNCHANGED segs
    PROVE  Grown /\ Stored' = Stored
<1>1. \A s \in DOMAIN segs : Len(segs[s]) \in Nat
  BY DEF Shape
<1> QED
  BY <1>1 DEF Grown, Stored

LEMMA AppendGrows ==
    ASSUME Shape, NEW entry \in Hash, segs' = [segs EXCEPT ![Active] = Append(@, entry)]
    PROVE  Grown /\ Stored' = Stored \cup {entry}
<1>1. PICK a \in Nat : a = Active
  BY DEF Shape, Active
<1>2. PICK old \in Seq(Hash) : old = segs[a]
  BY <1>1 DEF Shape, Active
<1>3. PICK new \in Seq(Hash) : new = Append(old, entry)
  <2>1. Append(old, entry) \in Seq(Hash)
    BY AppendProperties
  <2> QED
    BY <2>1
<1>4. a \in DOMAIN segs /\ segs' = [segs EXCEPT ![a] = new]
  BY <1>1, <1>2, <1>3 DEF Shape, Active
<1>5. /\ Len(new) = Len(old) + 1 /\ new[Len(old) + 1] = entry
      /\ \A i \in 1 .. Len(old) : new[i] = old[i]
      /\ Len(old) \in Nat /\ DOMAIN new = 1 .. Len(old) + 1 /\ DOMAIN old = 1 .. Len(old)
  BY <1>3
<1>6. DOMAIN segs' = DOMAIN segs /\ segs'[a] = new /\ \A s \in DOMAIN segs \ {a} : segs'[s] = segs[s]
  BY <1>4
<1>7. \A s \in DOMAIN segs : Len(segs[s]) \in Nat
  BY DEF Shape
<1>8. Grown
  BY <1>2, <1>5, <1>6, <1>7 DEF Grown
<1>9. ASSUME NEW h
      PROVE  h \in Stored' <=> h \in Stored \/ h = entry
  <2>1. h \in Stored <=> \E s \in DOMAIN segs : \E i \in DOMAIN segs[s] : h = segs[s][i]
    BY DEF Stored
  <2>2. h \in Stored' <=> \E s \in DOMAIN segs' : \E i \in DOMAIN segs'[s] : h = segs'[s][i]
    BY DEF Stored
  <2>3. (\E i \in DOMAIN new : h = new[i]) <=> (\E i \in DOMAIN old : h = old[i]) \/ h = entry
    BY <1>5
  <2> DEFINE Elsewhere == \E s \in DOMAIN segs \ {a} : \E i \in DOMAIN segs[s] : h = segs[s][i]
  <2>4. h \in Stored <=> Elsewhere \/ \E i \in DOMAIN old : h = old[i]
    BY <1>2, <1>4, <2>1
  <2>5. h \in Stored' <=> Elsewhere \/ \E i \in DOMAIN new : h = new[i]
    <3>1. (\E s \in DOMAIN segs \ {a} : \E i \in DOMAIN segs'[s] : h = segs'[s][i]) <=> Elsewhere
      BY <1>6
    <3>2. DOMAIN segs' = (DOMAIN segs \ {a}) \cup {a}
      BY <1>4, <1>6
    <3> HIDE DEF Elsewhere
    <3> QED
      BY <1>6, <2>2, <3>1, <3>2
  <2> QED
    BY <2>3, <2>4, <2>5
<1> QED
  BY <1>8, <1>9

LEMMA RotationGrows ==
    ASSUME Shape, segs' = Append(segs, <<Binding(Active + 1)>>)
    PROVE  /\ Grown
           /\ \A h \in Stored' : h \in Stored \/ (h # << >> /\ h[Len(h)] \notin Event)
           /\ Stored \subseteq Stored'
<1>1. PICK n \in Nat : n = Active + 1
  BY DEF Shape, Active
<1>2. PICK b \in Hash : b = Binding(n)
  BY BindingIsGenesis
<1>3. b # << >> /\ b[Len(b)] = <<"rotation", n>>
  <2>1. b = <<<<"rotation", n>>>>
    BY <1>2 DEF Binding, BuildEntry, GENESIS_PREV_HASH
  <2> QED
    BY <2>1
<1>4. b[Len(b)] \notin Event
  BY <1>3, RemoteAssumption
<1>5. <<b>> \in Seq(Hash) /\ Len(<<b>>) = 1 /\ <<b>>[1] = b /\ DOMAIN <<b>> = {1}
  BY <1>2
<1>6. /\ DOMAIN segs' = DOMAIN segs \cup {n} /\ n \notin DOMAIN segs
      /\ segs'[n] = <<b>> /\ \A s \in DOMAIN segs : segs'[s] = segs[s]
  BY <1>1, <1>2, <1>5 DEF Shape, Active
<1>7. \A s \in DOMAIN segs : Len(segs[s]) \in Nat
  BY DEF Shape
<1>8. Grown
  BY <1>6, <1>7 DEF Grown
<1>9. ASSUME NEW h
      PROVE  h \in Stored' <=> h \in Stored \/ h = b
  <2>1. h \in Stored <=> \E s \in DOMAIN segs : \E i \in DOMAIN segs[s] : h = segs[s][i]
    BY DEF Stored
  <2>2. h \in Stored' <=> \E s \in DOMAIN segs' : \E i \in DOMAIN segs'[s] : h = segs'[s][i]
    BY DEF Stored
  <2>3. (\E i \in DOMAIN segs'[n] : h = segs'[n][i]) <=> h = b
    BY <1>5, <1>6
  <2> QED
    BY <1>6, <2>1, <2>2, <2>3
<1> QED
  BY <1>3, <1>4, <1>8, <1>9

\* Growing segments disturb no reader.
LEMMA ReadersKeep ==
    ASSUME IInv, AnswersInv, Grown, Stored \subseteq Stored', UNCHANGED <<check, pager>>,
           torn => torn', Shape', UNCHANGED receipts
    PROVE  ReceiptsAreOfRows' /\ PagesBeginASegment'
<1>1. ReceiptsAreOfRows'
  BY DEF ReceiptsAreOfRows, AnswersInv, OfRows, seq
<1>2. ASSUME NEW s, Begins(pager.entries, s)
      PROVE  Begins(pager.entries, s)'
  <2>1. /\ s \in DOMAIN segs /\ Len(pager.entries) <= Len(segs[s])
        /\ \A i \in 1 .. Len(pager.entries) : pager.entries[i] = segs[s][i]
    BY <1>2 DEF Begins
  <2>2. /\ s \in DOMAIN segs' /\ Len(segs[s]) <= Len(segs'[s])
        /\ \A i \in 1 .. Len(segs[s]) : segs'[s][i] = segs[s][i]
    BY <2>1 DEF Grown
  <2>3. Len(pager.entries) \in Nat /\ Len(segs[s]) \in Nat /\ Len(segs'[s]) \in Nat
    BY <2>1, <2>2 DEF IInv, Shape, AnswersInv, ClientShape
  <2>4. /\ Len(pager.entries) <= Len(segs'[s])
        /\ \A i \in 1 .. Len(pager.entries) : pager.entries[i] = segs'[s][i]
    BY <2>1, <2>2, <2>3
  <2>5. pager' = pager
    OBVIOUS
  <2> QED
    BY <2>2, <2>4, <2>5 DEF Begins
<1>3. PICK s \in DOMAIN segs : Begins(pager.entries, s)
  BY DEF AnswersInv, PagesBeginASegment
<1>4. Begins(pager.entries, s)' /\ s \in DOMAIN segs'
  BY <1>2, <1>3 DEF Begins
<1>5. pager.cursor # 0 => Begins(pager.entries, pager.cursor)'
  BY <1>2 DEF AnswersInv, PagesBeginASegment
<1>6. PagesBeginASegment'
  BY <1>4, <1>5 DEF PagesBeginASegment, Begins
<1> QED
  BY <1>1, <1>6

\* A request whose entry is not on the chain, before and after, starts anew.
LEMMA RestartKeeps ==
    ASSUME IInv, AnswersInv, NEW e \in Event, NEW r \in Request,
           request' = [request EXCEPT ![e] = r],
           request[e].status \notin Kept, r.status \notin Kept,
           r.status # "none" => r.entry # << >> /\ r.entry[Len(r.entry)] = e,
           UNCHANGED <<segs, receipts, outcome, sidecar>>
    PROVE  RequestsAreOwn' /\ RowsAreRequests' /\ AnswersAreRows' /\ FiledIsAnswered'
<1>1. Stored' = Stored
  BY GrownStays DEF IInv
<1>2. /\ request'[e] = r
      /\ \A d \in Event : d # e => request'[d] = request[d]
  BY DEF IInv, Shape
<1>3. RequestsAreOwn'
  BY <1>2 DEF AnswersInv, RequestsAreOwn
<1>4. RowsAreRequests'
  <2>1. \A h \in Stored : h[Len(h)] # e
    BY DEF AnswersInv, RowsAreRequests
  <2> QED
    BY <1>1, <1>2, <2>1 DEF AnswersInv, RowsAreRequests
<1>5. AnswersAreRows'
  <2>1. request[e].status # "201" /\ r.status # "201"
    BY DEF Kept
  <2> QED
    BY <1>1, <1>2, <2>1 DEF AnswersInv, AnswersAreRows
<1>6. FiledIsAnswered'
  <2>1. \A f \in sidecar : f.event \in Event /\ f.event # e
    BY DEF AnswersInv, ClientShape, FiledIsAnswered, Kept
  <2> QED
    BY <1>2, <2>1 DEF AnswersInv, FiledIsAnswered
<1> QED
  BY <1>3, <1>4, <1>5, <1>6

\* A request on its way moves on, and what is on the chain by that is its
\* own entry or no call's.
LEMMA MoveKeeps ==
    ASSUME IInv, AnswersInv, NEW e \in Event, NEW st \in Status \ {"none", "201"},
           request' = [request EXCEPT ![e].status = st],
           request[e].status \notin {"none", "201"},
           request[e].status \in Kept => st \in Kept,
           st \in Kept => request[e].entry \in Stored',
           Stored \subseteq Stored',
           \A h \in Stored' : \/ h \in Stored
                              \/ h = request[e].entry /\ st \in Kept
                              \/ h # << >> /\ h[Len(h)] \notin Event,
           UNCHANGED <<receipts, outcome, sidecar>>
    PROVE  RequestsAreOwn' /\ RowsAreRequests' /\ AnswersAreRows' /\ FiledIsAnswered'
<1>1. /\ request'[e].status = st /\ request'[e].entry = request[e].entry
      /\ \A d \in Event : d # e => request'[d] = request[d]
      /\ \A d \in Event : request'[d].entry = request[d].entry
  BY DEF IInv, Shape, Request
<1>2. request[e].entry # << >> /\ request[e].entry[Len(request[e].entry)] = e
  BY DEF AnswersInv, RequestsAreOwn
<1>3. RequestsAreOwn'
  BY <1>1, <1>2 DEF AnswersInv, RequestsAreOwn
<1>4. ASSUME NEW h \in Stored'
      PROVE  /\ h # << >>
             /\ \A d \in Event : h[Len(h)] = d =>
                    h = request'[d].entry /\ request'[d].status \in Kept
  <2>1. CASE h \in Stored
    BY <1>1, <2>1 DEF AnswersInv, RowsAreRequests
  <2>2. CASE h = request[e].entry /\ st \in Kept
    BY <1>1, <1>2, <2>2
  <2>3. CASE h # << >> /\ h[Len(h)] \notin Event
    BY <2>3
  <2> QED
    BY <2>1, <2>2, <2>3
<1>5. RowsAreRequests'
  BY <1>4 DEF RowsAreRequests
<1>6. AnswersAreRows'
  BY <1>1 DEF AnswersInv, AnswersAreRows
<1>7. FiledIsAnswered'
  <2>1. \A f \in sidecar : f.event \in Event /\ f.event # e
    BY DEF AnswersInv, ClientShape, FiledIsAnswered
  <2> QED
    BY <1>1, <2>1 DEF AnswersInv, FiledIsAnswered
<1> QED
  BY <1>3, <1>5, <1>6, <1>7

\* Steps of a client that leave requests and server alone: a call begins or
\* ends, and returns only on a 201, filing what that said.
LEMMA ClientKeeps ==
    ASSUME IInv, AnswersInv, UNCHANGED <<segs, receipts, request>>,
           \A e \in Event : outcome'[e] = "returned" =>
               outcome[e] = "returned" \/ request[e].status = "201",
           \A r \in sidecar' :
               \/ r \in sidecar
               \/ request[r.event].status = "201" /\ r.receipt = request[r.event].receipt
    PROVE  RequestsAreOwn' /\ RowsAreRequests' /\ AnswersAreRows' /\ FiledIsAnswered'
<1>1. Stored' = Stored
  BY GrownStays DEF IInv
<1> QED
  BY <1>1 DEF AnswersInv, RequestsAreOwn, RowsAreRequests, AnswersAreRows, FiledIsAnswered

\* A page goes on where the pages before it ended, in the same segment.
LEMMA PageGoesOn ==
    ASSUME Shape, NEW s \in DOMAIN segs, NEW have \in Seq(Hash), Begins(have, s)
    PROVE  /\ Page(s, have) \in [cursor : Nat, entries : Seq(Hash)]
           /\ Begins(Page(s, have).entries, s)
           /\ Page(s, have).cursor \in {0, s}
<1>1. PICK seg \in Seq(Hash) : seg = segs[s]
  BY DEF Shape
<1>2. s \in Nat /\ Len(seg) \in Nat /\ Len(have) \in Nat /\ Len(have) <= Len(seg)
  BY <1>1 DEF Shape, Begins
<1>3. \A i \in 1 .. Len(have) : have[i] = seg[i]
  BY <1>1 DEF Begins
<1>4. PICK last \in Nat :
        /\ last = IF Len(have) + PageSize < Len(seg) THEN Len(have) + PageSize ELSE Len(seg)
        /\ Len(have) <= last /\ last <= Len(seg)
  BY <1>2, RemoteAssumption
<1>5. PICK cursor \in {0, s} : cursor = IF Len(have) + PageSize < Len(seg) THEN s ELSE 0
  OBVIOUS
<1>6. PICK more : more = SubSeq(seg, Len(have) + 1, last)
  OBVIOUS
<1>7. /\ more \in Seq(Hash) /\ Len(more) = last - Len(have)
      /\ \A i \in 1 .. Len(more) : more[i] = seg[Len(have) + i]
  <2>1. \A i \in Len(have) + 1 .. last : seg[i] \in Hash
    BY <1>2, <1>4
  <2>2. more = [i \in 1 .. last - Len(have) |-> seg[Len(have) + i]]
    BY <1>2, <1>4, <1>6
  <2>3. last - Len(have) \in Nat
    BY <1>2, <1>4
  <2>4. \A i \in 1 .. last - Len(have) : seg[Len(have) + i] \in Hash
    BY <1>2, <1>4, <2>1
  <2>5. more \in Seq(Hash) /\ Len(more) = last - Len(have)
    BY <2>2, <2>3, <2>4
  <2> QED
    BY <2>2, <2>5
<1>8. PICK all : all = have \o more
  OBVIOUS
<1>9. /\ all \in Seq(Hash) /\ Len(all) = last
      /\ \A i \in 1 .. last : all[i] = IF i <= Len(have) THEN have[i] ELSE more[i - Len(have)]
  <2>1. /\ have \o more \in Seq(Hash) /\ Len(have \o more) = Len(have) + Len(more)
        /\ \A i \in 1 .. Len(have) + Len(more) :
              (have \o more)[i] = IF i <= Len(have) THEN have[i] ELSE more[i - Len(have)]
    BY <1>7, ConcatProperties
  <2>2. Len(have) + Len(more) = last
    BY <1>2, <1>4, <1>7
  <2> QED
    BY <1>8, <2>1, <2>2
<1>10. ASSUME NEW i \in 1 .. last PROVE all[i] = seg[i]
  <2>1. CASE i <= Len(have)
    BY <1>2, <1>3, <1>4, <1>9, <2>1
  <2>2. CASE ~(i <= Len(have))
    <3>1. i - Len(have) \in 1 .. Len(more) /\ Len(have) + (i - Len(have)) = i
      BY <1>2, <1>4, <1>7, <2>2
    <3> QED
      BY <1>7, <1>9, <2>2, <3>1
  <2> QED
    BY <2>1, <2>2
<1>11. Page(s, have) = [cursor |-> cursor, entries |-> all]
  BY <1>1, <1>4, <1>5, <1>6, <1>8 DEF Page
<1>12. Begins(all, s)
  BY <1>1, <1>4, <1>9, <1>10 DEF Begins
<1> QED
  BY <1>2, <1>5, <1>9, <1>11, <1>12

\* A page read keeps the pages of one segment.
LEMMA PageKeeps ==
    ASSUME IInv, NEW s \in DOMAIN segs, NEW have \in Seq(Hash), Begins(have, s),
           pager' = Page(s, have), UNCHANGED segs
    PROVE  pager' \in [cursor : Nat, entries : Seq(Hash)] /\ PagesBeginASegment'
<1>1. PICK p \in [cursor : Nat, entries : Seq(Hash)] : p = Page(s, have)
  BY PageGoesOn DEF IInv
<1>2. Begins(p.entries, s) /\ p.cursor \in {0, s}
  BY <1>1, PageGoesOn DEF IInv
<1>3. pager' = p
  BY <1>1
<1>4. Begins(pager.entries, s)'
  BY <1>2, <1>3 DEF Begins
<1>5. PagesBeginASegment'
  BY <1>2, <1>3, <1>4 DEF PagesBeginASegment
<1> QED
  BY <1>1, <1>3, <1>5

\* The 201 goes out once the row has its receipt.
LEMMA AckKeeps ==
    ASSUME IInv, IInv', AnswersInv, NEW e \in Event, HandleAck(e)
    PROVE  AnswersInv'
<1>1. PICK entry \in Hash : entry = request[e].entry
  BY DEF IInv, Shape, Request
<1>2. PICK n \in Nat : n = Len(receipts)
  BY DEF IInv, Shape
<1>3. Stored' = Stored /\ Grown
  BY GrownStays DEF HandleAck, IInv
<1>4. /\ request'[e].status = "201" /\ request'[e].receipt = n + 1
      /\ \A d \in Event : d # e => request'[d] = request[d]
      /\ \A d \in Event : request'[d].entry = request[d].entry
  BY <1>2 DEF HandleAck, IInv, Shape, Request
<1>5. request[e].status = "stored"
  BY DEF HandleAck
<1>6. UNCHANGED <<segs, torn, check, pager, outcome, sidecar, event>>
  BY DEF HandleAck, client, readers
<1>7. /\ n + 1 \in DOMAIN receipts' /\ receipts'[n + 1].entry = entry
      /\ receipts'[n + 1].seq = seq(entry)
      /\ DOMAIN receipts' = 1 .. n + 1 /\ DOMAIN receipts = 1 .. n
      /\ \A i \in DOMAIN receipts : i \in DOMAIN receipts' /\ receipts'[i] = receipts[i]
  <2>1. PICK r : r = [receipt_seq |-> NextReceiptSeq(entry), entry |-> entry, seq |-> seq(entry),
                      receipt_head |-> Append(Acknowledged(Len(receipts)), entry)]
    OBVIOUS
  <2>2. receipts' = Append(receipts, r)
    BY <1>1, <2>1 DEF HandleAck
  <2>3. r.entry = entry /\ r.seq = seq(entry)
    BY <2>1
  <2> QED
    BY <1>2, <2>2, <2>3 DEF IInv, Shape
<1>8. ClientShape'
  BY <1>6 DEF AnswersInv, ClientShape
<1>9. RequestsAreOwn'
  BY <1>4, <1>5 DEF AnswersInv, RequestsAreOwn
<1>10. RowsAreRequests'
  BY <1>3, <1>4, <1>5 DEF AnswersInv, RowsAreRequests, Kept
<1>11. entry \in Stored
  BY <1>1, <1>5 DEF AnswersInv, AnswersAreRows, Kept
<1>12. AnswersAreRows'
  <2> SUFFICES ASSUME NEW d \in Event
               PROVE  /\ request'[d].status \in Kept => request'[d].entry \in Stored'
                      /\ request'[d].status = "201" =>
                            /\ request'[d].receipt \in DOMAIN receipts'
                            /\ receipts'[request'[d].receipt].entry = request'[d].entry
                      /\ outcome'[d] = "returned" => request'[d].status = "201"
    BY DEF AnswersAreRows
  <2>1. CASE d = e
    BY <1>1, <1>3, <1>4, <1>7, <1>11, <2>1
  <2>2. CASE d # e
    <3>1. request'[d] = request[d] /\ outcome'[d] = outcome[d]
      BY <1>4, <1>6, <2>2
    <3> QED
      BY <1>3, <1>7, <3>1 DEF AnswersInv, AnswersAreRows
  <2> QED
    BY <2>1, <2>2
<1>13. FiledIsAnswered'
  <2>1. \A f \in sidecar : f.event \in Event /\ f.event # e
    BY <1>5 DEF AnswersInv, ClientShape, FiledIsAnswered
  <2> QED
    BY <1>4, <1>6, <2>1 DEF AnswersInv, FiledIsAnswered
<1>14. ReceiptsAreOfRows'
  <2>1. ASSUME NEW i \in DOMAIN receipts'
        PROVE  receipts'[i].entry \in Stored /\ receipts'[i].seq = seq(receipts'[i].entry)
    <3>1. CASE i = n + 1
      BY <1>7, <1>11, <3>1
    <3>2. CASE i # n + 1
      <4>1. i \in DOMAIN receipts /\ receipts'[i] = receipts[i]
        BY <1>7, <3>2
      <4> QED
        BY <4>1 DEF AnswersInv, ReceiptsAreOfRows, OfRows
    <3> QED
      BY <3>1, <3>2
  <2> QED
    BY <1>3, <1>6, <2>1 DEF AnswersInv, ReceiptsAreOfRows, OfRows, seq
<1>15. PagesBeginASegment'
  BY <1>6 DEF AnswersInv, PagesBeginASegment, Begins
<1> QED
  BY <1>8, <1>9, <1>10, <1>12, <1>13, <1>14, <1>15 DEF AnswersInv

\* Every step keeps what a client is told.
LEMMA NextKeepsAnswers ==
    ASSUME IInv, IInv', AnswersInv, [Next]_vars
    PROVE  AnswersInv'
<1>0. Shape /\ Shape'
  BY DEF IInv
<1>a. ASSUME UNCHANGED <<segs, receipts, check, pager>>, torn => torn'
      PROVE  ReceiptsAreOfRows' /\ PagesBeginASegment'
  BY <1>0, <1>a, GrownStays, ReadersKeep
<1>1. ASSUME NEW c \in Client, NEW e \in Event, Begin(c, e) PROVE AnswersInv'
  <2>1. UNCHANGED <<segs, receipts, torn, request, outcome, sidecar, check, pager>>
    BY <1>1 DEF Begin, server, readers
  <2>2. ClientShape'
    BY <1>1, <2>1 DEF Begin, AnswersInv, ClientShape
  <2> QED
    BY <1>a, <2>1, <2>2, ClientKeeps DEF AnswersInv
<1>2. ASSUME NEW c \in Client, Send(c) PROVE AnswersInv'
  <2>1. PICK e \in Event : e = event[c]
    BY <1>2 DEF Send, AnswersInv, ClientShape
  <2>2. PICK entry \in Hash : entry = BuildEntry(Tip, e)
    <3>1. Tip \in Seq(Item) /\ e \in Item
      BY <1>0, TipIsHash DEF Hash, Item
    <3> QED
      BY <3>1, AppendProperties DEF BuildEntry, Hash
  <2>3. entry # << >> /\ entry[Len(entry)] = e
    <3>1. Tip \in Seq(Item) /\ e \in Item
      BY <1>0, TipIsHash DEF Hash, Item
    <3> QED
      BY <2>2, <3>1 DEF BuildEntry
  <2>4. PICK r \in Request : r = [status |-> "sent", entry |-> entry, receipt |-> 0]
    BY DEF Request, Status
  <2>5. /\ request' = [request EXCEPT ![e] = r] /\ request[e].status \notin Kept
        /\ UNCHANGED <<segs, receipts, torn, event, outcome, sidecar, check, pager>>
    BY <1>2, <2>1, <2>2, <2>4 DEF Send, server, client, readers, Kept
  <2>6. r.status \notin Kept /\ r.entry # << >> /\ r.entry[Len(r.entry)] = e
    BY <2>3, <2>4 DEF Kept
  <2>7. RequestsAreOwn' /\ RowsAreRequests' /\ AnswersAreRows' /\ FiledIsAnswered'
    BY <2>5, <2>6, RestartKeeps
  <2>8. ClientShape'
    BY <2>5 DEF AnswersInv, ClientShape
  <2> QED
    BY <1>a, <2>5, <2>7, <2>8 DEF AnswersInv
<1>3. ASSUME NEW c \in Client, NEW how \in {"returned", "raised"}, End(c, how), event[c] # NoEvent
      PROVE  /\ event[c] \in Event
             /\ event' \in [Client -> Event \cup {NoEvent}]
             /\ outcome' \in [Event -> {"none", "returned", "raised"}]
             /\ \A e \in Event : outcome'[e] = "returned" =>
                    outcome[e] = "returned" \/ (e = event[c] /\ how = "returned")
  BY <1>3 DEF End, AnswersInv, ClientShape
<1>4. ASSUME NEW c \in Client, Receive201(c) PROVE AnswersInv'
  <2>1. /\ event[c] # NoEvent /\ End(c, "returned") /\ request[event[c]].status = "201"
        /\ UNCHANGED <<segs, receipts, torn, request, check, pager>>
    BY <1>4 DEF Receive201, server, readers
  <2>2. /\ event[c] \in Event
        /\ event' \in [Client -> Event \cup {NoEvent}]
        /\ outcome' \in [Event -> {"none", "returned", "raised"}]
        /\ \A e \in Event : outcome'[e] = "returned" =>
               outcome[e] = "returned" \/ (e = event[c] /\ "returned" = "returned")
    BY <1>3, <2>1
  <2>3. request[event[c]].receipt \in Nat
    BY <1>0, <2>2 DEF Shape, Request
  <2>4. \A r \in sidecar' :
            \/ r \in sidecar
            \/ r = [event |-> event[c], receipt |-> request[event[c]].receipt]
    BY <1>4 DEF Receive201
  <2>5. \A r \in sidecar' :
            \/ r \in sidecar
            \/ request[r.event].status = "201" /\ r.receipt = request[r.event].receipt
    BY <2>1, <2>4
  <2>6. ClientShape'
    <3>1. sidecar' \subseteq [event : Event, receipt : Nat]
      BY <2>2, <2>3, <2>4 DEF AnswersInv, ClientShape
    <3> QED
      BY <2>1, <2>2, <3>1 DEF AnswersInv, ClientShape
  <2>7. \A e \in Event : outcome'[e] = "returned" =>
            outcome[e] = "returned" \/ request[e].status = "201"
    BY <2>1, <2>2
  <2>8. RequestsAreOwn' /\ RowsAreRequests' /\ AnswersAreRows' /\ FiledIsAnswered'
    BY <2>1, <2>5, <2>7, ClientKeeps
  <2> QED
    BY <1>a, <2>1, <2>6, <2>8 DEF AnswersInv
<1>5. ASSUME NEW c \in Client, event[c] # NoEvent, End(c, "raised"),
             UNCHANGED <<segs, receipts, torn, request, sidecar, check, pager>>
      PROVE  AnswersInv'
  <2>1. /\ event' \in [Client -> Event \cup {NoEvent}]
        /\ outcome' \in [Event -> {"none", "returned", "raised"}]
        /\ \A e \in Event : outcome'[e] = "returned" => outcome[e] = "returned"
    BY <1>3, <1>5
  <2>2. ClientShape'
    BY <1>5, <2>1 DEF AnswersInv, ClientShape
  <2>3. RequestsAreOwn' /\ RowsAreRequests' /\ AnswersAreRows' /\ FiledIsAnswered'
    BY <1>5, <2>1, ClientKeeps
  <2> QED
    BY <1>a, <1>5, <2>2, <2>3 DEF AnswersInv
<1>6. ASSUME NEW c \in Client, ReceiveError(c) \/ HeadFails(c) \/ GiveUp(c) PROVE AnswersInv'
  BY <1>5, <1>6 DEF ReceiveError, HeadFails, GiveUp, TimesOut, server, readers
<1>7. ASSUME NEW c \in Client, ReceiveRetried(c) PROVE AnswersInv'
  <2>1. CASE IsLastTry(tries[c])
    BY <1>5, <1>7, <2>1 DEF ReceiveRetried, server, readers
  <2>2. CASE ~IsLastTry(tries[c])
    <3>1. PICK e \in Event : e = event[c]
      BY <1>7 DEF ReceiveRetried, AnswersInv, ClientShape
    <3>2. PICK r \in Request : r = NoRequest
      <4>1. NoRequest \in Request
        BY DEF NoRequest, Request, Status, GENESIS_PREV_HASH, Hash
      <4> QED
        BY <4>1
    <3>3. /\ request' = [request EXCEPT ![e] = r] /\ request[e].status \notin Kept
          /\ UNCHANGED <<segs, receipts, torn, event, outcome, sidecar, check, pager>>
      BY <1>7, <2>2, <3>1, <3>2 DEF ReceiveRetried, Retried, server, readers, Kept
    <3>4. r.status = "none" /\ r.status \notin Kept
      BY <3>2 DEF NoRequest, Kept
    <3>5. RequestsAreOwn' /\ RowsAreRequests' /\ AnswersAreRows' /\ FiledIsAnswered'
      BY <3>3, <3>4, RestartKeeps
    <3>6. ClientShape'
      BY <3>3 DEF AnswersInv, ClientShape
    <3> QED
      BY <1>a, <3>3, <3>5, <3>6 DEF AnswersInv
  <2> QED
    BY <2>1, <2>2
<1>8. ASSUME NEW e \in Event, LoseRequest(e) PROVE AnswersInv'
  <2>1. /\ request' = [request EXCEPT ![e].status = "lost"] /\ request[e].status = "sent"
        /\ UNCHANGED <<segs, receipts, torn, event, outcome, sidecar, check, pager>>
    BY <1>8 DEF LoseRequest, server, client, readers
  <2>2. Stored' = Stored /\ "lost" \in Status \ {"none", "201"} /\ "lost" \notin Kept
        /\ "sent" \notin Kept
    BY <1>0, <2>1, GrownStays DEF Status, Kept
  <2>3. RequestsAreOwn' /\ RowsAreRequests' /\ AnswersAreRows' /\ FiledIsAnswered'
    BY <2>1, <2>2, MoveKeeps
  <2>4. ClientShape'
    BY <2>1 DEF AnswersInv, ClientShape
  <2> QED
    BY <1>a, <2>1, <2>3, <2>4 DEF AnswersInv
<1>9. ASSUME NEW e \in Event, HandleOpen(e) PROVE AnswersInv'
  <2>1. /\ request' = [request EXCEPT ![e].status = "opened"] /\ request[e].status = "sent"
        /\ UNCHANGED <<receipts, torn, event, outcome, sidecar, check, pager>>
    BY <1>9 DEF HandleOpen, client, readers
  <2>2. /\ "opened" \in Status \ {"none", "201"} /\ "opened" \notin Kept /\ "sent" \notin Kept
    BY DEF Status, Kept
  <2>3. /\ Grown /\ Stored \subseteq Stored'
        /\ \A h \in Stored' : h \in Stored \/ (h # << >> /\ h[Len(h)] \notin Event)
    <3>1. CASE UNCHANGED segs
      BY <1>0, <3>1, GrownStays
    <3>2. CASE segs' = Append(segs, <<Binding(Active + 1)>>)
      BY <1>0, <3>2, RotationGrows
    <3> QED
      BY <1>9, <3>1, <3>2 DEF HandleOpen
  <2>4. RequestsAreOwn' /\ RowsAreRequests' /\ AnswersAreRows' /\ FiledIsAnswered'
    BY <2>1, <2>2, <2>3, MoveKeeps
  <2>5. ReceiptsAreOfRows' /\ PagesBeginASegment'
    BY <1>0, <2>1, <2>3, ReadersKeep
  <2>6. ClientShape'
    BY <2>1 DEF AnswersInv, ClientShape
  <2> QED
    BY <2>4, <2>5, <2>6 DEF AnswersInv
<1>10. ASSUME NEW e \in Event, HandleAppend(e) PROVE AnswersInv'
  <2>1. /\ request[e].status = "opened"
        /\ UNCHANGED <<receipts, torn, event, outcome, sidecar, check, pager>>
    BY <1>10 DEF HandleAppend, client, readers
  <2>2. /\ {"stored", "409"} \subseteq Status \ {"none", "201"} /\ "stored" \in Kept
        /\ "409" \notin Kept /\ "opened" \notin Kept
    BY DEF Status, Kept
  <2>3. PICK entry \in Hash : entry = request[e].entry
    BY <1>0 DEF Shape, Request
  <2>4. ClientShape'
    BY <2>1 DEF AnswersInv, ClientShape
  <2>5. CASE Precondition(request[e].entry)
    <3>1. /\ request' = [request EXCEPT ![e].status = "stored"]
          /\ segs' = [segs EXCEPT ![Active] = Append(@, entry)]
      BY <1>10, <2>3, <2>5 DEF HandleAppend
    <3>2. Grown /\ Stored' = Stored \cup {entry}
      BY <1>0, <3>1, AppendGrows
    <3>3. RequestsAreOwn' /\ RowsAreRequests' /\ AnswersAreRows' /\ FiledIsAnswered'
      BY <2>1, <2>2, <2>3, <3>1, <3>2, MoveKeeps
    <3>4. ReceiptsAreOfRows' /\ PagesBeginASegment'
      BY <1>0, <2>1, <3>2, ReadersKeep
    <3> QED
      BY <2>4, <3>3, <3>4 DEF AnswersInv
  <2>6. CASE ~Precondition(request[e].entry)
    <3>1. request' = [request EXCEPT ![e].status = "409"] /\ UNCHANGED segs
      BY <1>10, <2>6 DEF HandleAppend
    <3>2. Stored' = Stored
      BY <1>0, <3>1, GrownStays
    <3>3. RequestsAreOwn' /\ RowsAreRequests' /\ AnswersAreRows' /\ FiledIsAnswered'
      BY <2>1, <2>2, <3>1, <3>2, MoveKeeps
    <3> QED
      BY <1>a, <2>1, <2>4, <3>1, <3>3 DEF AnswersInv
  <2> QED
    BY <2>5, <2>6
<1>11. ASSUME NEW e \in Event, HandleAck(e) PROVE AnswersInv'
  BY <1>11, AckKeeps
<1>12. ASSUME NEW e \in Event, HandleAckRaises(e) PROVE AnswersInv'
  <2>1. /\ request' = [request EXCEPT ![e].status = "500"] /\ request[e].status = "stored"
        /\ UNCHANGED <<segs, receipts, event, outcome, sidecar, check, pager>>
        /\ torn' \in {torn, TRUE}
    BY <1>12 DEF HandleAckRaises, AckFailure, client, readers
  <2>2. /\ Stored' = Stored /\ "500" \in Status \ {"none", "201"} /\ "500" \in Kept
        /\ "stored" \in Kept
    BY <1>0, <2>1, GrownStays DEF Status, Kept
  <2>3. request[e].entry \in Stored
    BY <2>1, <2>2 DEF AnswersInv, AnswersAreRows
  <2>4. RequestsAreOwn' /\ RowsAreRequests' /\ AnswersAreRows' /\ FiledIsAnswered'
    BY <2>1, <2>2, <2>3, MoveKeeps
  <2>5. ClientShape'
    BY <2>1 DEF AnswersInv, ClientShape
  <2> QED
    BY <1>a, <2>1, <2>4, <2>5 DEF AnswersInv
<1>13. ASSUME UNCHANGED <<segs, receipts, request, outcome, sidecar>>
       PROVE  RequestsAreOwn' /\ RowsAreRequests' /\ AnswersAreRows' /\ FiledIsAnswered'
  BY <1>13, ClientKeeps
<1>14. CASE CrossCheckFirst
  <2>1. /\ check' = [stage |-> IF torn THEN "broken" ELSE "first", records |-> receipts,
                     stored |-> {}]
        /\ UNCHANGED <<segs, receipts, torn, request, event, outcome, sidecar, pager>>
    BY <1>14 DEF CrossCheckFirst, CheckReads, server, client
  <2>2. ClientShape'
    BY <1>0, <2>1 DEF AnswersInv, ClientShape, Shape
  <2>3. Stored' = Stored
    BY <1>0, <2>1, GrownStays
  <2>4. ReceiptsAreOfRows' /\ PagesBeginASegment'
    BY <2>1, <2>3 DEF AnswersInv, ReceiptsAreOfRows, OfRows, PagesBeginASegment, Begins, seq
  <2> QED
    BY <1>13, <2>1, <2>2, <2>4 DEF AnswersInv
<1>15. CASE CrossCheckSecond
  <2>1. /\ check' = [stage |-> cross_check_receipts(check.records, Stored),
                     records |-> << >>, stored |-> {}]
        /\ check.stage = "first"
        /\ UNCHANGED <<segs, receipts, torn, request, event, outcome, sidecar, pager>>
    BY <1>15 DEF CrossCheckSecond, CheckReads, server, client
  <2>2. cross_check_receipts(check.records, Stored) = "ok"
    BY <2>1 DEF AnswersInv, ReceiptsAreOfRows, OfRows, cross_check_receipts
  <2>3. ClientShape'
    BY <2>1, <2>2 DEF AnswersInv, ClientShape
  <2>4. Stored' = Stored
    BY <1>0, <2>1, GrownStays
  <2>5. ReceiptsAreOfRows' /\ PagesBeginASegment'
    BY <2>1, <2>2, <2>4 DEF AnswersInv, ReceiptsAreOfRows, OfRows, PagesBeginASegment, Begins, seq
  <2> QED
    BY <1>13, <2>1, <2>3, <2>5 DEF AnswersInv
<1>16. ASSUME NEW s \in DOMAIN segs, NEW have \in Seq(Hash), Begins(have, s),
              pager' = Page(s, have),
              UNCHANGED <<segs, receipts, torn, request, event, outcome, sidecar, check>>
       PROVE  AnswersInv'
  <2>1. pager' \in [cursor : Nat, entries : Seq(Hash)] /\ PagesBeginASegment'
    BY <1>16, PageKeeps
  <2>2. ClientShape'
    BY <1>16, <2>1 DEF AnswersInv, ClientShape
  <2>3. Stored' = Stored
    BY <1>0, <1>16, GrownStays
  <2>4. ReceiptsAreOfRows'
    BY <1>16, <2>3 DEF AnswersInv, ReceiptsAreOfRows, OfRows, seq
  <2> QED
    BY <1>13, <1>16, <2>1, <2>2, <2>4 DEF AnswersInv
<1>17. CASE FirstPage
  <2>1. /\ pager' = Page(Active, << >>)
        /\ UNCHANGED <<segs, receipts, torn, request, event, outcome, sidecar, check>>
    BY <1>17 DEF FirstPage, server, client
  <2>2. Active \in DOMAIN segs /\ << >> \in Seq(Hash) /\ Begins(<< >>, Active)
    <3>1. Active \in DOMAIN segs /\ Len(segs[Active]) \in Nat
      BY <1>0 DEF Shape, Active
    <3> QED
      BY <3>1 DEF Begins
  <2> QED
    BY <1>16, <2>1, <2>2
<1>18. CASE NextPage
  <2>1. /\ pager.cursor # 0 /\ pager' = Page(pager.cursor, pager.entries)
        /\ UNCHANGED <<segs, receipts, torn, request, event, outcome, sidecar, check>>
    BY <1>18 DEF NextPage, CursorSegment, server, client
  <2>2. /\ pager.entries \in Seq(Hash) /\ Begins(pager.entries, pager.cursor)
        /\ pager.cursor \in DOMAIN segs
    BY <2>1 DEF AnswersInv, ClientShape, PagesBeginASegment, Begins
  <2> QED
    BY <1>16, <2>1, <2>2
<1>19. ASSUME UNCHANGED vars PROVE AnswersInv'
  <2>1. UNCHANGED <<segs, receipts, torn, request, event, outcome, sidecar, check, pager>>
    BY <1>19 DEF vars
  <2>2. ClientShape'
    BY <2>1 DEF AnswersInv, ClientShape
  <2> QED
    BY <1>a, <1>13, <2>1, <2>2 DEF AnswersInv
<1>20. CASE Done
  BY <1>19, <1>20 DEF Done
<1> QED
  BY <1>1, <1>2, <1>4, <1>6, <1>7, <1>8, <1>9, <1>10, <1>11, <1>12, <1>14, <1>15, <1>17,
     <1>18, <1>19, <1>20 DEF Next, ClientStep, ServerStep

LEMMA InitAnswers ==
    ASSUME Init
    PROVE  AnswersInv
<1>1. /\ segs = << << >> >> /\ receipts = << >> /\ pager = NoPager /\ sidecar = {}
      /\ check = [stage |-> "idle", records |-> << >>, stored |-> {}]
  BY DEF Init
<1>2. Len(segs) = 1 /\ DOMAIN segs = {1} /\ segs[1] = << >> /\ Len(<< >>) = 0
  BY <1>1
<1>3. Stored = {}
  BY <1>2 DEF Stored
<1>4. ClientShape
  <2>1. check \in [stage : {"idle", "first", "ok", "broken"}, records : Seq(Record),
                   stored : SUBSET Hash]
    BY <1>1
  <2>2. pager \in [cursor : Nat, entries : Seq(Hash)]
    BY <1>1 DEF NoPager
  <2>3. /\ event \in [Client -> Event \cup {NoEvent}]
        /\ outcome \in [Event -> {"none", "returned", "raised"}]
        /\ sidecar \subseteq [event : Event, receipt : Nat]
        /\ torn \in BOOLEAN
    BY DEF Init
  <2> QED
    BY <2>1, <2>2, <2>3 DEF ClientShape
<1>5. RequestsAreOwn /\ RowsAreRequests /\ AnswersAreRows /\ FiledIsAnswered
  BY <1>3 DEF Init, NoRequest, RequestsAreOwn, RowsAreRequests, AnswersAreRows, FiledIsAnswered, Kept
<1>6. ReceiptsAreOfRows
  BY <1>1 DEF ReceiptsAreOfRows, OfRows
<1>7. PagesBeginASegment
  BY <1>1, <1>2 DEF PagesBeginASegment, Begins, NoPager
<1> QED
  BY <1>4, <1>5, <1>6, <1>7 DEF AnswersInv

\* What a client is told holds, whatever requests and answers get lost and
\* however often the server rotates: an append puts one row at most on the
\* chain, one that returned is stored and acknowledged as filed, no
\* cross-check beside running appends raises an alarm, and the pages of a
\* read are of one segment.
THEOREM ClientsAreToldTheTruth == Spec => []AnswersHold
<1>1. ASSUME IInv, AnswersInv PROVE AnswersHold
  <2>1. AtMostOnce
    <3> SUFFICES ASSUME NEW e \in Event
                 PROVE  Cardinality({h \in Stored : h[Len(h)] = e}) <= 1
      BY DEF AtMostOnce
    <3>1. {h \in Stored : h[Len(h)] = e} \subseteq {request[e].entry}
      BY <1>1 DEF AnswersInv, RowsAreRequests
    <3>2. IsFiniteSet({request[e].entry}) /\ Cardinality({request[e].entry}) = 1
      BY FS_Singleton
    <3> QED
      BY <3>1, <3>2, FS_Subset
  <2>2. ReturnedIsAcknowledged
    BY <1>1 DEF ReturnedIsAcknowledged, AnswersInv, AnswersAreRows, FiledIsAnswered, Kept
  <2>3. CrossCheckNeverAlarms
    BY <1>1 DEF CrossCheckNeverAlarms, AnswersInv, ReceiptsAreOfRows
  <2>4. PagedReadIsOneChain
    <3>1. PICK s \in DOMAIN segs : Begins(pager.entries, s)
      BY <1>1 DEF AnswersInv, PagesBeginASegment
    <3>2. segs[s] \in Seq(Hash) /\ pager.entries \in Seq(Hash)
      BY <1>1 DEF IInv, Shape, AnswersInv, ClientShape
    <3>3. PICK es \in Seq(Hash), seg \in Seq(Hash) : es = pager.entries /\ seg = segs[s]
      BY <3>2
    <3>4. Len(es) <= Len(seg) /\ \A i \in 1 .. Len(es) : es[i] = seg[i]
      BY <3>1, <3>3 DEF Begins
    <3>5. es = SubSeq(seg, 1, Len(es))
      BY <3>3, <3>4
    <3> QED
      BY <3>3, <3>4, <3>5 DEF PagedReadIsOneChain
  <2> QED
    BY <2>1, <2>2, <2>3, <2>4 DEF AnswersHold
<1>2. Init => AnswersInv
  BY InitAnswers
<1>3. IInv /\ IInv' /\ AnswersInv /\ [Next]_vars => AnswersInv'
  BY NextKeepsAnswers
<1>4. IInv /\ AnswersInv => AnswersHold
  BY <1>1
<1> QED
  BY <1>2, <1>3, <1>4, Invariance, PTL DEF Spec
==============================================================================
