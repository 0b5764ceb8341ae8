---------------------------- MODULE StoreProofs ------------------------------
(***************************************************************************)
(* Proofs about the stores behind an AuditLog and behind the chain server. *)
(* Backends, for any writers, events, retries and faults: the rows are one *)
(* chain, and what append said of an event holds.  The outcome cache of    *)
(* ServerReads, for any number of readers, files, commands and kept        *)
(* outcomes and every time limit, and the operator store of Operators, for *)
(* any clients, users, keys, calls and shells.                             *)
(***************************************************************************)
EXTENDS Backends, ServerReads, Operators, FiniteSetTheorems, SequenceTheorems, TLAPS

History == Seq(Event)

Row == [prev : History, ev : Event]

Attempt ==
    [pc : {"idle", "hint", "probe", "put", "done", "insert"},
     ev : SUBSET Event, seq : Int, hash : History, tries : Nat]

Hint == [seq : Int, hash : History]

Shape ==
    /\ objects = [k \in DOMAIN objects |-> objects[k]]
    /\ \A k \in DOMAIN objects : objects[k] \in Row
    /\ at \in [Writer -> Attempt]
    /\ head \subseteq Hint

\* The rows are numbered 0 .. n-1.
Gapless == \E n \in Nat : DOMAIN objects = 0 .. n - 1

Linked ==
    \A k \in DOMAIN objects :
        objects[k].prev = IF k = 0 THEN << >> ELSE entry_hash(objects[k - 1])

\* s and h are the seq and the hash of a row, or of the empty log.
IsRow(s, h) ==
    \/ s = -1 /\ h = << >>
    \/ s \in DOMAIN objects /\ h = entry_hash(objects[s])

\* A writer that builds on a row, and the hint, name a row that is stored.
TailsAreRows ==
    /\ \A w \in Writer :
          at[w].pc \in {"probe", "put", "done", "insert"} => IsRow(at[w].seq, at[w].hash)
    /\ \A h \in head : IsRow(h.seq, h.hash)

\* A writer about to update the hint stored the row the hint will name.
DoneIsStored ==
    \A w \in Writer : at[w].pc = "done" =>
        /\ at[w].seq + 1 \in DOMAIN objects
        /\ objects[at[w].seq + 1] = Entry(at[w].hash, Event1(w))

\* A writer that is not idle appends exactly one event.
OneEventEach ==
    \A w \in Writer :
        IF at[w].pc = "idle" THEN at[w].ev = {} ELSE \E e \in Event : at[w].ev = {e}

ChainInv == Shape /\ Gapless /\ Linked /\ TailsAreRows /\ DoneIsStored /\ OneEventEach

-----------------------------------------------------------------------------
(* Lemmas.                                                                 *)

\* The hash of a row is a history.
LEMMA HashIsHistory ==
  ASSUME NEW r \in Row
  PROVE  entry_hash(r) \in History
BY AppendProperties DEF Row, History, entry_hash

\* The event a writer appends.
LEMMA EventOfWriter ==
  ASSUME Shape, OneEventEach, NEW w \in Writer, at[w].pc # "idle"
  PROVE  Event1(w) \in Event /\ at[w].ev = {Event1(w)}
<1>1. PICK e \in Event : at[w].ev = {e}
  BY DEF OneEventEach
<1>2. Event1(w) = e
  BY <1>1 DEF Event1
<1> QED
  BY <1>1, <1>2

\* Storing a row at the first key that is free, on top of a row that is
\* stored, extends the chain by one and changes no row.
LEMMA StoreExtends ==
  ASSUME ChainInv, NEW w \in Writer, at[w].pc \in {"put", "insert"},
         KeyFree(at[w].seq + 1), objects' = Stored(w)
  PROVE  /\ DOMAIN objects' = DOMAIN objects \cup {at[w].seq + 1}
         /\ \A k \in DOMAIN objects : objects'[k] = objects[k]
         /\ objects'[at[w].seq + 1] = Entry(at[w].hash, Event1(w))
         /\ objects' = [k \in DOMAIN objects' |-> objects'[k]]
         /\ \A k \in DOMAIN objects' : objects'[k] \in Row
         /\ Gapless' /\ Linked'
<1> DEFINE j == at[w].seq + 1
           r == Entry(at[w].hash, Event1(w))
<1>1. at[w].seq \in Int /\ at[w].hash \in History
  BY DEF ChainInv, Shape, Attempt
<1>2. r \in Row
  BY <1>1, EventOfWriter DEF ChainInv, Row, Entry
<1>3. j \in Int /\ j \notin DOMAIN objects
  BY <1>1 DEF KeyFree
<1>4. objects' = [k \in DOMAIN objects \cup {j} |-> IF k = j THEN r ELSE objects[k]]
  BY DEF Stored
<1>5. IsRow(j - 1, at[w].hash)
  BY <1>1 DEF ChainInv, TailsAreRows
<1>6. r.prev = at[w].hash
  BY DEF Entry
<1> HIDE DEF j, r
<1>7. /\ DOMAIN objects' = DOMAIN objects \cup {j}
      /\ \A k \in DOMAIN objects : objects'[k] = objects[k]
      /\ objects'[j] = r
  BY <1>3, <1>4
<1>8. objects' = [k \in DOMAIN objects' |-> objects'[k]]
  BY <1>4
<1>9. \A k \in DOMAIN objects' : objects'[k] \in Row
  BY <1>7, <1>2 DEF ChainInv, Shape
<1>10. PICK n \in Nat : DOMAIN objects = 0 .. n - 1
  BY DEF ChainInv, Gapless
<1>11. j = n
  BY <1>3, <1>5, <1>10 DEF IsRow
<1>12. DOMAIN objects' = 0 .. (n + 1) - 1
  BY <1>7, <1>10, <1>11
<1>13. Gapless'
  BY <1>12 DEF Gapless
<1>14. Linked'
  <2> SUFFICES ASSUME NEW k \in DOMAIN objects'
               PROVE  objects'[k].prev = IF k = 0 THEN << >> ELSE entry_hash(objects'[k - 1])
    BY DEF Linked, entry_hash
  <2>1. CASE k = j
    <3>1. CASE j = 0
      BY <2>1, <3>1, <1>5, <1>6, <1>7, <1>10 DEF IsRow
    <3>2. CASE j # 0
      <4>1. j - 1 \in DOMAIN objects /\ at[w].hash = entry_hash(objects[j - 1])
        BY <3>2, <1>5, <1>3 DEF IsRow
      <4>2. objects'[j - 1] = objects[j - 1]
        BY <4>1, <1>7
      <4> QED
        BY <2>1, <3>2, <4>1, <4>2, <1>6, <1>7
    <3> QED
      BY <3>1, <3>2
  <2>2. CASE k # j
    <3>1. k \in DOMAIN objects
      BY <2>2, <1>7
    <3>2. objects[k].prev = IF k = 0 THEN << >> ELSE entry_hash(objects[k - 1])
      BY <3>1 DEF ChainInv, Linked
    <3>3. k # 0 => k - 1 \in DOMAIN objects
      BY <3>1, <1>10
    <3> QED
      BY <3>1, <3>2, <3>3, <1>7
  <2> QED
    BY <2>1, <2>2
<1> QED
  BY <1>7, <1>8, <1>9, <1>13, <1>14 DEF j, r

\* A row stays a row while rows are only added.
LEMMA RowsStay ==
  ASSUME DOMAIN objects \subseteq DOMAIN objects',
         \A k \in DOMAIN objects : objects'[k] = objects[k],
         NEW s, NEW h, IsRow(s, h)
  PROVE  IsRow(s, h)'
BY DEF IsRow, entry_hash

\* Rows are only ever added, and on top of one another.
RowsGrow ==
    /\ DOMAIN objects \subseteq DOMAIN objects'
    /\ \A k \in DOMAIN objects : objects'[k] = objects[k]
    /\ objects' = [k \in DOMAIN objects' |-> objects'[k]]
    /\ \A k \in DOMAIN objects' : objects'[k] \in Row
    /\ Gapless' /\ Linked'

LEMMA StoreGrows ==
  ASSUME ChainInv, NEW w \in Writer, at[w].pc \in {"put", "insert"},
         KeyFree(at[w].seq + 1), objects' = Stored(w)
  PROVE  RowsGrow
BY StoreExtends DEF RowsGrow

LEMMA NoRowGrows == ChainInv /\ UNCHANGED objects => RowsGrow
BY DEF RowsGrow, ChainInv, Shape, Gapless, Linked, entry_hash

\* What an attempt must be for the invariant to hold of its writer.
AttemptFits(a) ==
    /\ a.pc \in {"probe", "put", "done", "insert"} => IsRow(a.seq, a.hash)
    /\ a.pc = "done" => /\ a.seq + 1 \in DOMAIN objects
                        /\ objects[a.seq + 1] = Entry(a.hash, CHOOSE e \in a.ev : TRUE)
    /\ IF a.pc = "idle" THEN a.ev = {} ELSE \E e \in Event : a.ev = {e}

LEMMA AttemptsFit ==
  ASSUME ChainInv, NEW w \in Writer
  PROVE  AttemptFits(at[w])
BY DEF ChainInv, TailsAreRows, DoneIsStored, OneEventEach, AttemptFits, Event1

LEMMA AttemptsStayFit ==
  ASSUME RowsGrow, NEW a, AttemptFits(a)
  PROVE  AttemptFits(a)'
<1>1. a.pc \in {"probe", "put", "done", "insert"} => IsRow(a.seq, a.hash)'
  BY RowsStay DEF RowsGrow, AttemptFits
<1> QED
  BY <1>1 DEF RowsGrow, AttemptFits

\* A step that moves one writer to an attempt that fits keeps the invariant.
LEMMA WriterStep ==
  ASSUME ChainInv, RowsGrow, NEW w \in Writer, NEW a \in Attempt,
         at' = [at EXCEPT ![w] = a], AttemptFits(a)',
         \A h \in head' : h \in Hint /\ (h \in head \/ IsRow(h.seq, h.hash)')
  PROVE  ChainInv'
<1>1. Shape'
  BY DEF ChainInv, Shape, RowsGrow
<1>2. Gapless' /\ Linked'
  BY DEF RowsGrow
<1>3. \A v \in Writer : at'[v] = IF v = w THEN a ELSE at[v]
  BY DEF ChainInv, Shape
<1>4. ASSUME NEW v \in Writer PROVE AttemptFits(at[v])'
  <2>1. CASE v = w
    BY <2>1, <1>3
  <2>2. CASE v # w
    BY <2>2, <1>3, AttemptsFit, AttemptsStayFit
  <2> QED
    BY <2>1, <2>2
<1>5. \A h \in head' : IsRow(h.seq, h.hash)'
  BY RowsStay DEF ChainInv, TailsAreRows, RowsGrow
<1>6. TailsAreRows'
  BY <1>4, <1>5 DEF TailsAreRows, AttemptFits
<1>7. DoneIsStored' /\ OneEventEach'
  BY <1>4 DEF DoneIsStored, OneEventEach, AttemptFits, Event1
<1> QED
  BY <1>1, <1>2, <1>6, <1>7 DEF ChainInv

\* An idle writer fits any log.
LEMMA IdleFits == Idle \in Attempt /\ AttemptFits(Idle) /\ AttemptFits(Idle)'
<1>1. << >> \in History /\ {} \in SUBSET Event
  BY DEF History
<1> QED
  BY <1>1 DEF Idle, Attempt, AttemptFits

-----------------------------------------------------------------------------
(* The rows are one chain.                                                 *)

LEMMA InitIsChain == Init => ChainInv
<1> SUFFICES ASSUME Init PROVE ChainInv
  OBVIOUS
<1>1. DOMAIN objects = {} /\ objects = [k \in DOMAIN objects |-> objects[k]]
  BY DEF Init
<1>2. DOMAIN objects = 0 .. 0 - 1
  BY <1>1
<1>3. Shape
  BY <1>1, IdleFits DEF Init, Shape
<1>4. Gapless
  BY <1>2 DEF Gapless
<1> QED
  BY <1>1, <1>3, <1>4 DEF Init, ChainInv, Linked, TailsAreRows, DoneIsStored, OneEventEach, Idle

\* Finishing an attempt, with or without a row stored, keeps the invariant.
LEMMA EndKeeps ==
  ASSUME ChainInv, RowsGrow, NEW w \in Writer, at' = [at EXCEPT ![w] = Idle],
         UNCHANGED head
  PROVE  ChainInv'
BY IdleFits, WriterStep DEF ChainInv, Shape

LEMMA LostRaceKeeps ==
  ASSUME ChainInv, RowsGrow, NEW w \in Writer, at[w].pc = "put", LostRace(w),
         UNCHANGED head
  PROVE  ChainInv'
<1>1. CASE at[w].tries + 1 < MaxRetries
  <2>a. PICK t \in Nat : t = at[w].tries + 1
    BY DEF ChainInv, Shape, Attempt
  <2>b. [at[w] EXCEPT !.pc = "hint", !.tries = t] \in Attempt
    BY DEF ChainInv, Shape, Attempt
  <2>0. [at[w] EXCEPT !.pc = "hint", !.tries = @ + 1] \in Attempt
    BY <2>a, <2>b
  <2>1. PICK a \in Attempt : a = [at[w] EXCEPT !.pc = "hint", !.tries = @ + 1]
    BY <2>0
  <2>2. a.pc = "hint" /\ a.ev = at[w].ev
    BY <2>1 DEF ChainInv, Shape, Attempt
  <2>3. AttemptFits(a)'
    BY <2>2 DEF ChainInv, OneEventEach, AttemptFits
  <2>4. at' = [at EXCEPT ![w] = a]
    BY <1>1, <2>1 DEF LostRace
  <2> QED
    BY <2>1, <2>3, <2>4, WriterStep DEF ChainInv, Shape
<1>2. CASE ~(at[w].tries + 1 < MaxRetries)
  BY <1>2, EndKeeps DEF LostRace, Raises
<1> QED
  BY <1>1, <1>2

LEMMA BeginKeeps ==
  ASSUME ChainInv, NEW w \in Writer, NEW e \in Event, Begin(w, e)
  PROVE  ChainInv'
<1> DEFINE a == [Idle EXCEPT !.pc = "hint", !.ev = {e}]
<1>1. a \in Attempt /\ AttemptFits(a)'
  BY IdleFits DEF Idle, Attempt, AttemptFits, History
<1>2. at' = [at EXCEPT ![w] = a] /\ RowsGrow /\ UNCHANGED head
  BY NoRowGrows DEF Begin
<1> HIDE DEF a
<1> QED
  BY <1>1, <1>2, WriterStep DEF ChainInv, Shape

LEMMA ReadHeadKeeps ==
  ASSUME ChainInv, NEW w \in Writer, ReadHead(w)
  PROVE  ChainInv'
<1>1. RowsGrow /\ UNCHANGED <<head, objects>> /\ at[w].pc = "hint"
  BY NoRowGrows DEF ReadHead
<1>2. PICK s \in Int, h \in History :
        IsRow(s, h) /\ at' = [at EXCEPT ![w] = [@ EXCEPT !.pc = "probe", !.seq = s, !.hash = h]]
  <2>1. CASE \E h \in head : at' = [at EXCEPT ![w] = [@ EXCEPT !.pc = "probe", !.seq = h.seq,
                                                         !.hash = h.hash]]
    BY <2>1 DEF ChainInv, Shape, Hint, TailsAreRows
  <2>2. CASE at' = [at EXCEPT ![w] = [@ EXCEPT !.pc = "probe", !.seq = -1, !.hash = << >>]]
    <3>1. -1 \in Int /\ << >> \in History /\ IsRow(-1, << >>)
      BY DEF IsRow, History
    <3> QED
      BY <2>2, <3>1
  <2> QED
    BY <2>1, <2>2 DEF ReadHead, ReadHint
<1>a. PICK a \in Attempt : a = [at[w] EXCEPT !.pc = "probe", !.seq = s, !.hash = h]
  BY DEF ChainInv, Shape, Attempt
<1>3. a.pc = "probe" /\ a.seq = s /\ a.hash = h /\ a.ev = at[w].ev
  BY <1>a DEF ChainInv, Shape, Attempt
<1>4. IsRow(s, h)'
  BY <1>1, <1>2, RowsStay DEF RowsGrow
<1>5. at' = [at EXCEPT ![w] = a]
  BY <1>2, <1>a
<1>6. \E e \in Event : at[w].ev = {e}
  BY <1>1 DEF ChainInv, OneEventEach
<1>7. AttemptFits(a)'
  BY <1>3, <1>4, <1>6 DEF AttemptFits
<1> QED
  BY <1>1, <1>3, <1>5, <1>7, WriterStep DEF ChainInv, Shape

LEMMA ProbeKeeps ==
  ASSUME ChainInv, NEW w \in Writer, Probe(w)
  PROVE  ChainInv'
<1>1. RowsGrow /\ UNCHANGED <<head, objects>> /\ at[w].pc = "probe"
  BY NoRowGrows DEF Probe
<1>2. \E e \in Event : at[w].ev = {e}
  BY <1>1 DEF ChainInv, OneEventEach
<1>3. IsRow(at[w].seq, at[w].hash)
  BY <1>1 DEF ChainInv, TailsAreRows
<1>4. CASE at[w].seq + 1 \in DOMAIN objects /\ at' = [at EXCEPT ![w] = NextProbe(w)]
  <2>a. PICK s \in Int, h \in History :
          s = at[w].seq + 1 /\ h = entry_hash(objects[at[w].seq + 1])
    BY <1>4, HashIsHistory DEF ChainInv, Shape, Attempt
  <2>b. [at[w] EXCEPT !.seq = s, !.hash = h] \in Attempt
    BY DEF ChainInv, Shape, Attempt
  <2>1. NextProbe(w) \in Attempt
    BY <2>a, <2>b DEF NextProbe
  <2>2. PICK a \in Attempt : a = NextProbe(w)
    BY <2>1
  <2>3. /\ a.pc = "probe" /\ a.seq = at[w].seq + 1 /\ a.ev = at[w].ev
        /\ a.hash = entry_hash(objects[at[w].seq + 1])
    BY <2>2, <1>1 DEF ChainInv, Shape, Attempt, NextProbe
  <2>4. IsRow(a.seq, a.hash)
    BY <2>3, <1>4 DEF IsRow
  <2>5. IsRow(a.seq, a.hash)'
    BY <2>4, <1>1, RowsStay DEF RowsGrow
  <2>6. AttemptFits(a)'
    BY <2>3, <2>5, <1>2 DEF AttemptFits
  <2> QED
    BY <1>1, <1>4, <2>2, <2>6, WriterStep DEF ChainInv, Shape
<1>5. CASE at' = [at EXCEPT ![w].pc = "put"]
  <2>1. [at[w] EXCEPT !.pc = "put"] \in Attempt
    BY DEF ChainInv, Shape, Attempt
  <2>2. PICK a \in Attempt : a = [at[w] EXCEPT !.pc = "put"]
    BY <2>1
  <2>3. a.pc = "put" /\ a.seq = at[w].seq /\ a.ev = at[w].ev /\ a.hash = at[w].hash
    BY <2>2 DEF ChainInv, Shape, Attempt
  <2>4. IsRow(a.seq, a.hash)'
    BY <2>3, <1>3, <1>1, RowsStay DEF RowsGrow
  <2>5. AttemptFits(a)'
    BY <2>3, <2>4, <1>2 DEF AttemptFits
  <2>6. at' = [at EXCEPT ![w] = a]
    BY <1>5, <2>2
  <2> QED
    BY <1>1, <2>5, <2>6, WriterStep DEF ChainInv, Shape
<1>6. CASE Raises(w)
  BY <1>1, <1>6, EndKeeps DEF Raises
<1> QED
  BY <1>4, <1>5, <1>6 DEF Probe

LEMMA PutKeeps ==
  ASSUME ChainInv, NEW w \in Writer, Put(w)
  PROVE  ChainInv'
<1>1. UNCHANGED head /\ at[w].pc = "put"
  BY DEF Put
<1>2. CASE KeyFree(at[w].seq + 1) /\ objects' = Stored(w) /\ at' = [at EXCEPT ![w].pc = "done"]
  <2>1. [at[w] EXCEPT !.pc = "done"] \in Attempt
    BY DEF ChainInv, Shape, Attempt
  <2>2. PICK a \in Attempt : a = [at[w] EXCEPT !.pc = "done"]
    BY <2>1
  <2>3. a.pc = "done" /\ a.seq = at[w].seq /\ a.ev = at[w].ev /\ a.hash = at[w].hash
    BY <2>2 DEF ChainInv, Shape, Attempt
  <2>4. RowsGrow
    BY <1>1, <1>2, StoreGrows
  <2>5. IsRow(at[w].seq, at[w].hash)
    BY <1>1 DEF ChainInv, TailsAreRows
  <2>6. IsRow(a.seq, a.hash)'
    BY <2>3, <2>4, <2>5, RowsStay DEF RowsGrow
  <2>7. /\ a.seq + 1 \in DOMAIN objects'
        /\ objects'[a.seq + 1] = Entry(a.hash, CHOOSE e \in a.ev : TRUE)
    BY <1>1, <1>2, <2>3, StoreExtends DEF Event1
  <2>8. \E e \in Event : a.ev = {e}
    BY <1>1, <2>3 DEF ChainInv, OneEventEach
  <2>9. AttemptFits(a)'
    BY <2>3, <2>6, <2>7, <2>8 DEF AttemptFits
  <2>10. at' = [at EXCEPT ![w] = a]
    BY <1>2, <2>2
  <2> QED
    BY <1>1, <2>4, <2>9, <2>10, WriterStep DEF ChainInv, Shape
<1>3. CASE KeyFree(at[w].seq + 1) /\ objects' = Stored(w) /\ (Raises(w) \/ LostRace(w))
  BY <1>1, <1>3, StoreGrows, EndKeeps, LostRaceKeeps DEF Raises
<1>4. CASE UNCHANGED objects /\ (Raises(w) \/ LostRace(w))
  BY <1>1, <1>4, NoRowGrows, EndKeeps, LostRaceKeeps DEF Raises
<1> QED
  BY <1>2, <1>3, <1>4 DEF Put

LEMMA PutHeadKeeps ==
  ASSUME ChainInv, NEW w \in Writer, PutHead(w)
  PROVE  ChainInv'
<1>1. RowsGrow /\ UNCHANGED objects /\ at[w].pc = "done" /\ at' = [at EXCEPT ![w] = Idle]
  BY NoRowGrows DEF PutHead, Returns
<1>a. at[w].seq + 1 \in Int /\ at[w].hash \in Seq(Event) /\ Event1(w) \in Event
  BY <1>1, EventOfWriter DEF ChainInv, Shape, Attempt, History
<1>b. Append(at[w].hash, Event1(w)) \in History
  BY <1>a, AppendProperties DEF History
<1>2. PICK j \in Int, h \in History : j = at[w].seq + 1 /\ h = Append(at[w].hash, Event1(w))
  BY <1>a, <1>b
<1>3. j \in DOMAIN objects /\ objects[j] = Entry(at[w].hash, Event1(w))
  BY <1>1, <1>2 DEF ChainInv, DoneIsStored
<1>4. h = entry_hash(objects[j])
  BY <1>2, <1>3 DEF entry_hash, Entry
<1>5. head' = {[seq |-> j, hash |-> h]} \/ UNCHANGED head
  BY <1>2 DEF PutHead
<1>6. ASSUME NEW g \in head' PROVE g \in Hint /\ (g \in head \/ IsRow(g.seq, g.hash)')
  <2>1. CASE UNCHANGED head
    BY <2>1 DEF ChainInv, Shape
  <2>2. CASE head' = {[seq |-> j, hash |-> h]}
    <3>1. g = [seq |-> j, hash |-> h]
      BY <2>2
    <3>2. IsRow(j, h)'
      BY <1>1, <1>3, <1>4 DEF IsRow, entry_hash
    <3> QED
      BY <3>1, <3>2, <1>2 DEF Hint
  <2> QED
    BY <2>1, <2>2, <1>5
<1> QED
  BY <1>1, <1>6, IdleFits, WriterStep

\* The tail a database writer reads is a row of the log.
LEMMA LastSeqIsRow ==
  ASSUME ChainInv
  PROVE  LET h == IF LastSeq = -1 THEN << >> ELSE entry_hash(objects[LastSeq])
         IN  LastSeq \in Int /\ h \in History /\ IsRow(LastSeq, h)
<1>1. PICK n \in Nat : DOMAIN objects = 0 .. n - 1
  BY DEF ChainInv, Gapless
<1>2. Cardinality(DOMAIN objects) = n
  BY <1>1, FS_Interval
<1>3. LastSeq = n - 1
  BY <1>2 DEF LastSeq
<1>4. CASE n = 0
  BY <1>3, <1>4 DEF IsRow, History
<1>5. CASE n # 0
  <2>1. LastSeq \in DOMAIN objects /\ LastSeq # -1
    BY <1>1, <1>3, <1>5
  <2> QED
    BY <2>1, <1>3, HashIsHistory DEF IsRow, ChainInv, Shape
<1> QED
  BY <1>4, <1>5

LEMMA LockKeeps ==
  ASSUME ChainInv, NEW w \in Writer, NEW e \in Event, Lock(w, e)
  PROVE  ChainInv'
<1> DEFINE h == IF LastSeq = -1 THEN << >> ELSE entry_hash(objects[LastSeq])
<1>1. RowsGrow /\ UNCHANGED <<head, objects>>
  BY NoRowGrows DEF Lock
<1>2. LastSeq \in Int /\ h \in History /\ IsRow(LastSeq, h)
  BY LastSeqIsRow
<1>3. CASE UNCHANGED at
  BY <1>1, <1>3 DEF ChainInv, Shape, Gapless, Linked, TailsAreRows, DoneIsStored,
                    OneEventEach, IsRow, Event1, entry_hash
<1>4. CASE at' = [at EXCEPT ![w] = [Idle EXCEPT !.pc = "insert", !.ev = {e},
                                                !.seq = LastSeq, !.hash = h]]
  <2> HIDE DEF h
  <2>1. [Idle EXCEPT !.pc = "insert", !.ev = {e}, !.seq = LastSeq, !.hash = h] \in Attempt
    BY <1>2 DEF Idle, Attempt
  <2>2. PICK a \in Attempt :
          a = [Idle EXCEPT !.pc = "insert", !.ev = {e}, !.seq = LastSeq, !.hash = h]
    BY <2>1
  <2>3. a.pc = "insert" /\ a.ev = {e} /\ a.seq = LastSeq /\ a.hash = h
    BY <2>2 DEF Idle
  <2>4. IsRow(a.seq, a.hash)'
    BY <2>3, <1>1, <1>2, RowsStay DEF RowsGrow
  <2>5. AttemptFits(a)'
    BY <2>3, <2>4 DEF AttemptFits
  <2> QED
    BY <1>1, <1>4, <2>2, <2>5, WriterStep DEF ChainInv, Shape
<1> QED
  BY <1>3, <1>4 DEF Lock

LEMMA CommitKeeps ==
  ASSUME ChainInv, NEW w \in Writer, Commit(w)
  PROVE  ChainInv'
<1>1. UNCHANGED head /\ at[w].pc = "insert" /\ at' = [at EXCEPT ![w] = Idle]
  BY DEF Commit, Returns, Raises
<1>2. (KeyFree(at[w].seq + 1) /\ objects' = Stored(w)) \/ UNCHANGED objects
  BY DEF Commit
<1>3. RowsGrow
  BY <1>1, <1>2, StoreGrows, NoRowGrows
<1> QED
  BY <1>1, <1>3, EndKeeps

LEMMA CrashKeeps ==
  ASSUME ChainInv, NEW w \in Writer, Crash(w)
  PROVE  ChainInv'
BY NoRowGrows, EndKeeps DEF Crash

LEMMA NextKeepsChain == ChainInv /\ [Next]_vars => ChainInv'
<1> SUFFICES ASSUME ChainInv, [Next]_vars PROVE ChainInv'
  OBVIOUS
<1>1. CASE UNCHANGED vars
  BY <1>1 DEF vars, ChainInv, Shape, Gapless, Linked, TailsAreRows, DoneIsStored,
              OneEventEach, IsRow, Event1, entry_hash
<1>2. CASE Next
  <2> PICK w \in Writer : \/ \E e \in Event : Begin(w, e) \/ Lock(w, e)
                          \/ ReadHead(w) \/ Probe(w) \/ Put(w) \/ PutHead(w)
                          \/ Commit(w) \/ Crash(w)
    BY <1>2 DEF Next
  <2> QED
    BY BeginKeeps, LockKeeps, ReadHeadKeeps, ProbeKeeps, PutKeeps, PutHeadKeeps,
       CommitKeeps, CrashKeeps
<1> QED
  BY <1>1, <1>2

LEMMA ChainInvariance == Spec => []ChainInv
BY InitIsChain, NextKeepsChain, PTL DEF Spec

\* Whatever the hint says, however many writers race and whatever request or
\* answer is lost, the rows are numbered without a gap and every prev_hash is
\* the hash of the row before.
THEOREM OneChain == Spec => []RowsAreOneChain
<1>1. ChainInv => RowsAreOneChain
  <2> SUFFICES ASSUME ChainInv PROVE RowsAreOneChain
    OBVIOUS
  <2>1. PICK n \in Nat : DOMAIN objects = 0 .. n - 1
    BY DEF ChainInv, Gapless
  <2>2. Cardinality(DOMAIN objects) = n
    BY <2>1, FS_Interval
  <2> QED
    BY <2>1, <2>2 DEF ChainInv, Linked, RowsAreOneChain
<1> QED
  BY <1>1, ChainInvariance, PTL

-----------------------------------------------------------------------------
(* What append said of an event holds.                                     *)

\* An event under way belongs to one writer and has no outcome yet.
OneOwner ==
    /\ \A v, w \in Writer : v # w => at[v].ev \cap at[w].ev = {}
    /\ \A w \in Writer : at[w].ev \cap (returned \cup raised) = {}

\* A stored event was begun.
StoredWasBegun ==
    \A x \in Event : Rows(x) # {} =>
        \/ x \in returned \cup raised \cup unsure
        \/ \E w \in Writer : x \in at[w].ev

\* An event under way of which no answer was lost is stored exactly when its
\* writer knows so.
UnderWayIsKnown ==
    \A w \in Writer : \A x \in at[w].ev \ unsure :
        Rows(x) = IF at[w].pc = "done" THEN {at[w].seq + 1} ELSE {}

ReturnedIsStored ==
    \A x \in returned : Rows(x) # {} /\ (x \notin unsure => \E k \in Int : Rows(x) = {k})

RaisedIsNotStored == \A x \in raised \ unsure : Rows(x) = {}

OutcomeInv ==
    OneOwner /\ StoredWasBegun /\ UnderWayIsKnown /\ ReturnedIsStored /\ RaisedIsNotStored

IInv == ChainInv /\ OutcomeInv

LEMMA BegunEvents ==
  ASSUME NEW x
  PROVE  x \in Begun <=> \/ x \in returned \cup raised \cup unsure
                         \/ \E w \in Writer : x \in at[w].ev
BY DEF Begun

\* A store adds one row, of the event its writer appends.
LEMMA RowsAfterStore ==
  ASSUME ChainInv, NEW w \in Writer, at[w].pc \in {"put", "insert"},
         KeyFree(at[w].seq + 1), objects' = Stored(w), NEW x
  PROVE  Rows(x)' = IF x \in at[w].ev THEN Rows(x) \cup {at[w].seq + 1} ELSE Rows(x)
<1>1. x \in at[w].ev <=> x = Event1(w)
  BY EventOfWriter DEF ChainInv
<1>2. /\ DOMAIN objects' = DOMAIN objects \cup {at[w].seq + 1}
      /\ \A k \in DOMAIN objects : objects'[k] = objects[k]
      /\ objects'[at[w].seq + 1] = Entry(at[w].hash, Event1(w))
  BY StoreExtends
<1>3. at[w].seq + 1 \notin DOMAIN objects
  BY DEF KeyFree
<1>4. objects'[at[w].seq + 1].ev = Event1(w)
  BY <1>2 DEF Entry
<1> QED
  BY <1>1, <1>2, <1>3, <1>4 DEF Rows

LEMMA RowsUnchanged ==
  ASSUME UNCHANGED objects, NEW x
  PROVE  Rows(x)' = Rows(x)
BY DEF Rows

\* A step that adds no row and moves one writer, which is not and does not get
\* past its store, within its own append or to a new one.
LEMMA MoveKeeps ==
  ASSUME IInv, NEW w \in Writer, NEW a, at' = [at EXCEPT ![w] = a],
         at[w].pc # "done", a.pc # "done",
         a.ev = at[w].ev \/ (at[w].ev = {} /\ a.ev \cap Begun = {}),
         a.ev \subseteq Event,
         UNCHANGED <<objects, returned, raised, unsure>>
  PROVE  OutcomeInv'
<1> USE DEF IInv, OutcomeInv
<1>1. \A v \in Writer : at'[v] = IF v = w THEN a ELSE at[v]
  BY DEF ChainInv, Shape
<1>2. \A x : Rows(x)' = Rows(x)
  BY RowsUnchanged
<1>3. \A x \in a.ev : x \in at[w].ev \/
        /\ x \notin returned \cup raised \cup unsure
        /\ \A v \in Writer : x \notin at[v].ev
  BY BegunEvents
<1>4. \A x \in at[w].ev : x \in a.ev
  OBVIOUS
<1>5. OneOwner'
  BY <1>1, <1>3 DEF OneOwner
<1>6. StoredWasBegun'
  BY <1>1, <1>2, <1>4 DEF StoredWasBegun
<1>7. UnderWayIsKnown'
  <2> SUFFICES ASSUME NEW v \in Writer, NEW x \in at'[v].ev \ unsure
               PROVE  Rows(x)' = IF at'[v].pc = "done" THEN {at'[v].seq + 1} ELSE {}
    BY DEF UnderWayIsKnown
  <2>1. CASE v # w
    BY <2>1, <1>1, <1>2 DEF UnderWayIsKnown
  <2>2. CASE v = w
    <3>1. x \in a.ev /\ x \in Event
      BY <2>2, <1>1
    <3>2. Rows(x) = {}
      BY <3>1, <1>3 DEF UnderWayIsKnown, StoredWasBegun
    <3> QED
      BY <3>2, <2>2, <1>1, <1>2
  <2> QED
    BY <2>1, <2>2
<1>8. ReturnedIsStored' /\ RaisedIsNotStored'
  BY <1>2 DEF ReturnedIsStored, RaisedIsNotStored
<1> QED
  BY <1>5, <1>6, <1>7, <1>8

\* A step that stores no row and ends an append that had not stored its own.
LEMMA FailKeeps ==
  ASSUME IInv, NEW w \in Writer, at[w].pc # "done", Raises(w),
         UNCHANGED <<objects, unsure>>
  PROVE  OutcomeInv'
<1> USE DEF IInv, OutcomeInv, Raises
<1>1. \A v \in Writer : at'[v] = IF v = w THEN Idle ELSE at[v]
  BY DEF ChainInv, Shape
<1>2. \A x : Rows(x)' = Rows(x)
  BY RowsUnchanged
<1>3. Idle.ev = {}
  BY DEF Idle
<1>4. OneOwner'
  BY <1>1, <1>3 DEF OneOwner
<1>5. StoredWasBegun'
  BY <1>1, <1>2 DEF StoredWasBegun
<1>6. UnderWayIsKnown'
  BY <1>1, <1>2, <1>3 DEF UnderWayIsKnown
<1>7. ReturnedIsStored'
  BY <1>2 DEF ReturnedIsStored
<1>8. RaisedIsNotStored'
  BY <1>2 DEF RaisedIsNotStored, UnderWayIsKnown
<1> QED
  BY <1>4, <1>5, <1>6, <1>7, <1>8

\* A PUT that went through: the row is the event's only one, unless an answer
\* about this event was lost before.
LEMMA StoreKeeps ==
  ASSUME IInv, NEW w \in Writer, at[w].pc = "put", KeyFree(at[w].seq + 1),
         objects' = Stored(w), at' = [at EXCEPT ![w].pc = "done"],
         UNCHANGED <<returned, raised, unsure>>
  PROVE  OutcomeInv'
<1> USE DEF IInv, OutcomeInv
<1>1. \A v \in Writer : /\ at'[v].ev = at[v].ev /\ at'[v].seq = at[v].seq
                        /\ at'[v].pc = IF v = w THEN "done" ELSE at[v].pc
  BY DEF ChainInv, Shape, Attempt
<1>2. \A x : Rows(x)' = IF x \in at[w].ev THEN Rows(x) \cup {at[w].seq + 1} ELSE Rows(x)
  BY RowsAfterStore
<1>3. OneOwner'
  BY <1>1 DEF OneOwner
<1>4. StoredWasBegun'
  BY <1>1, <1>2 DEF StoredWasBegun
<1>5. UnderWayIsKnown'
  BY <1>1, <1>2 DEF UnderWayIsKnown, OneOwner
<1>6. ReturnedIsStored' /\ RaisedIsNotStored'
  BY <1>2 DEF ReturnedIsStored, RaisedIsNotStored, OneOwner
<1> QED
  BY <1>3, <1>4, <1>5, <1>6

\* A PUT or a COMMIT that went through and whose answer was lost: the event
\* is unsure from here on, whether the append goes on or gives up.
LEMMA LostAnswerKeeps ==
  ASSUME IInv, NEW w \in Writer, at[w].pc \in {"put", "insert"}, KeyFree(at[w].seq + 1),
         objects' = Stored(w), unsure' = unsure \cup at[w].ev, UNCHANGED returned,
         NEW a, at' = [at EXCEPT ![w] = a],
         \/ a.ev = at[w].ev /\ UNCHANGED raised
         \/ a.ev = {} /\ raised' = raised \cup at[w].ev
  PROVE  OutcomeInv'
<1> USE DEF IInv, OutcomeInv
<1>1. \A v \in Writer : at'[v] = IF v = w THEN a ELSE at[v]
  BY DEF ChainInv, Shape
<1>2. \A x : Rows(x)' = IF x \in at[w].ev THEN Rows(x) \cup {at[w].seq + 1} ELSE Rows(x)
  BY RowsAfterStore
<1>3. OneOwner'
  BY <1>1 DEF OneOwner
<1>4. StoredWasBegun'
  BY <1>1, <1>2 DEF StoredWasBegun
<1>5. UnderWayIsKnown'
  BY <1>1, <1>2 DEF UnderWayIsKnown, OneOwner
<1>6. ReturnedIsStored' /\ RaisedIsNotStored'
  BY <1>2 DEF ReturnedIsStored, RaisedIsNotStored, OneOwner
<1> QED
  BY <1>3, <1>4, <1>5, <1>6

\* The append that stored its row returns; the hint written or not.
LEMMA ReturnKeeps ==
  ASSUME IInv, NEW w \in Writer, at[w].pc = "done", Returns(w),
         UNCHANGED <<objects, unsure>>
  PROVE  OutcomeInv'
<1> USE DEF IInv, OutcomeInv, Returns
<1>1. \A v \in Writer : at'[v] = IF v = w THEN Idle ELSE at[v]
  BY DEF ChainInv, Shape
<1>2. \A x : Rows(x)' = Rows(x)
  BY RowsUnchanged
<1>3. Idle.ev = {}
  BY DEF Idle
<1>4. OneOwner'
  BY <1>1, <1>3 DEF OneOwner
<1>5. StoredWasBegun'
  BY <1>1, <1>2 DEF StoredWasBegun
<1>6. UnderWayIsKnown'
  BY <1>1, <1>2, <1>3 DEF UnderWayIsKnown
<1>7. at[w].seq + 1 \in Int
  BY DEF ChainInv, Shape, Attempt
<1>8. \A x \in at[w].ev : at[w].seq + 1 \in Rows(x)
  <2>1. at[w].seq + 1 \in DOMAIN objects /\ objects[at[w].seq + 1] = Entry(at[w].hash, Event1(w))
    BY DEF ChainInv, DoneIsStored
  <2>2. objects[at[w].seq + 1].ev = Event1(w)
    BY <2>1 DEF Entry
  <2>3. at[w].ev = {Event1(w)}
    BY EventOfWriter DEF ChainInv
  <2> QED
    BY <2>1, <2>2, <2>3 DEF Rows
<1>9. ReturnedIsStored'
  BY <1>2, <1>7, <1>8 DEF ReturnedIsStored, UnderWayIsKnown
<1>10. RaisedIsNotStored'
  BY <1>2 DEF RaisedIsNotStored
<1> QED
  BY <1>4, <1>5, <1>6, <1>9, <1>10

\* A COMMIT that went through and was answered.
LEMMA CommitReturns ==
  ASSUME IInv, NEW w \in Writer, at[w].pc = "insert", KeyFree(at[w].seq + 1),
         objects' = Stored(w), Returns(w), UNCHANGED unsure
  PROVE  OutcomeInv'
<1> USE DEF IInv, OutcomeInv, Returns
<1>1. \A v \in Writer : at'[v] = IF v = w THEN Idle ELSE at[v]
  BY DEF ChainInv, Shape
<1>2. \A x : Rows(x)' = IF x \in at[w].ev THEN Rows(x) \cup {at[w].seq + 1} ELSE Rows(x)
  BY RowsAfterStore
<1>3. Idle.ev = {}
  BY DEF Idle
<1>4. OneOwner'
  BY <1>1, <1>3 DEF OneOwner
<1>5. StoredWasBegun'
  BY <1>1, <1>2 DEF StoredWasBegun
<1>6. UnderWayIsKnown'
  BY <1>1, <1>2, <1>3 DEF UnderWayIsKnown, OneOwner
<1>7. at[w].seq + 1 \in Int
  BY DEF ChainInv, Shape, Attempt
<1>8. ReturnedIsStored'
  BY <1>2, <1>7 DEF ReturnedIsStored, UnderWayIsKnown, OneOwner
<1>9. RaisedIsNotStored'
  BY <1>2 DEF RaisedIsNotStored, OneOwner
<1> QED
  BY <1>4, <1>5, <1>6, <1>8, <1>9

\* A writer dies: nothing is claimed of its event any more.
LEMMA CrashKeepsOutcomes ==
  ASSUME IInv, NEW w \in Writer, Crash(w)
  PROVE  OutcomeInv'
<1> USE DEF IInv, OutcomeInv, Crash
<1>1. \A v \in Writer : at'[v] = IF v = w THEN Idle ELSE at[v]
  BY DEF ChainInv, Shape
<1>2. \A x : Rows(x)' = Rows(x)
  BY RowsUnchanged
<1>3. Idle.ev = {}
  BY DEF Idle
<1>4. OneOwner' /\ StoredWasBegun'
  BY <1>1, <1>2, <1>3 DEF OneOwner, StoredWasBegun
<1>5. UnderWayIsKnown' /\ ReturnedIsStored' /\ RaisedIsNotStored'
  BY <1>1, <1>2, <1>3 DEF UnderWayIsKnown, ReturnedIsStored, RaisedIsNotStored
<1> QED
  BY <1>4, <1>5

\* "database is locked": the append raises before it began.
LEMMA RefusedKeeps ==
  ASSUME IInv, NEW e \in Event, e \notin Begun, raised' = raised \cup {e},
         UNCHANGED <<objects, at, returned, unsure>>
  PROVE  OutcomeInv'
<1> USE DEF IInv, OutcomeInv
<1>1. \A x : Rows(x)' = Rows(x)
  BY RowsUnchanged
<1>2. e \notin returned \cup raised \cup unsure /\ \A v \in Writer : e \notin at[v].ev
  BY BegunEvents
<1>3. Rows(e) = {}
  BY <1>2 DEF StoredWasBegun
<1>4. OneOwner' /\ StoredWasBegun'
  BY <1>1, <1>2 DEF OneOwner, StoredWasBegun
<1>5. UnderWayIsKnown' /\ ReturnedIsStored' /\ RaisedIsNotStored'
  BY <1>1, <1>3 DEF UnderWayIsKnown, ReturnedIsStored, RaisedIsNotStored
<1> QED
  BY <1>4, <1>5

LEMMA LostRaceKeepsOutcomes ==
  ASSUME IInv, NEW w \in Writer, at[w].pc = "put", LostRace(w), UNCHANGED <<objects, unsure>>
  PROVE  OutcomeInv'
<1>1. CASE at[w].tries + 1 < MaxRetries
  <2>1. PICK a : a = [at[w] EXCEPT !.pc = "hint", !.tries = @ + 1]
    OBVIOUS
  <2>2. a.pc = "hint" /\ a.ev = at[w].ev /\ a.ev \subseteq Event
    BY <2>1 DEF IInv, ChainInv, Shape, Attempt
  <2> QED
    BY <1>1, <2>1, <2>2, MoveKeeps DEF LostRace
<1>2. CASE ~(at[w].tries + 1 < MaxRetries)
  BY <1>2, FailKeeps DEF LostRace
<1> QED
  BY <1>1, <1>2

LEMMA PutKeepsOutcomes ==
  ASSUME IInv, NEW w \in Writer, Put(w)
  PROVE  OutcomeInv'
<1>1. at[w].pc = "put"
  BY DEF Put
<1>2. CASE /\ KeyFree(at[w].seq + 1) /\ objects' = Stored(w)
           /\ at' = [at EXCEPT ![w].pc = "done"] /\ UNCHANGED <<returned, raised, unsure>>
  BY <1>1, <1>2, StoreKeeps
<1>3. CASE /\ KeyFree(at[w].seq + 1) /\ objects' = Stored(w)
           /\ unsure' = unsure \cup at[w].ev /\ (Raises(w) \/ LostRace(w))
  <2>1. CASE Raises(w)
    BY <1>1, <1>3, <2>1, LostAnswerKeeps DEF Raises, Idle
  <2>2. CASE LostRace(w) /\ at[w].tries + 1 < MaxRetries
    <3>1. PICK a : a = [at[w] EXCEPT !.pc = "hint", !.tries = @ + 1]
      OBVIOUS
    <3>2. a.ev = at[w].ev
      BY <3>1 DEF IInv, ChainInv, Shape, Attempt
    <3>3. at' = [at EXCEPT ![w] = a] /\ UNCHANGED <<returned, raised>>
      BY <2>2, <3>1 DEF LostRace
    <3> QED
      BY <1>1, <1>3, <3>2, <3>3, LostAnswerKeeps
  <2> QED
    BY <1>3, <2>1, <2>2 DEF LostRace
<1>4. CASE UNCHANGED <<objects, unsure>> /\ (Raises(w) \/ LostRace(w))
  BY <1>1, <1>4, FailKeeps, LostRaceKeepsOutcomes
<1> QED
  BY <1>2, <1>3, <1>4 DEF Put

LEMMA CommitKeepsOutcomes ==
  ASSUME IInv, NEW w \in Writer, Commit(w)
  PROVE  OutcomeInv'
<1>1. at[w].pc = "insert" /\ Idle.ev = {}
  BY DEF Commit, Idle
<1>2. CASE KeyFree(at[w].seq + 1) /\ objects' = Stored(w) /\ Returns(w) /\ UNCHANGED unsure
  BY <1>1, <1>2, CommitReturns
<1>3. CASE /\ KeyFree(at[w].seq + 1) /\ objects' = Stored(w) /\ Raises(w)
           /\ unsure' = unsure \cup at[w].ev
  BY <1>1, <1>3, LostAnswerKeeps DEF Raises
<1>4. CASE Raises(w) /\ UNCHANGED <<objects, unsure>>
  BY <1>1, <1>4, FailKeeps
<1> QED
  BY <1>2, <1>3, <1>4 DEF Commit

\* The steps before a store: the append begins, or reads.
LEMMA ReadsKeepOutcomes ==
  ASSUME IInv, NEW w \in Writer,
         (\E e \in Event : Begin(w, e)) \/ ReadHead(w) \/ Probe(w)
  PROVE  OutcomeInv'
<1>0. at[w] \in Attempt
  BY DEF IInv, ChainInv, Shape
<1>1. CASE \E e \in Event : Begin(w, e)
  <2> PICK e \in Event : Begin(w, e)
    BY <1>1
  <2>1. PICK a : a = [Idle EXCEPT !.pc = "hint", !.ev = {e}]
    OBVIOUS
  <2>2. a.pc = "hint" /\ a.ev = {e}
    BY <2>1 DEF Idle
  <2>3. at[w].ev = {} /\ at[w].pc # "done"
    BY DEF Begin, IInv, ChainInv, OneEventEach
  <2>4. a.ev \cap Begun = {} /\ a.ev \subseteq Event
    BY <2>2 DEF Begin
  <2>5. at' = [at EXCEPT ![w] = a] /\ UNCHANGED <<objects, returned, raised, unsure>>
    BY <2>1 DEF Begin
  <2> QED
    BY <2>2, <2>3, <2>4, <2>5, MoveKeeps
<1>2. CASE ReadHead(w)
  <2>1. PICK a : a.pc = "probe" /\ a.ev = at[w].ev /\ at' = [at EXCEPT ![w] = a]
    BY <1>0, <1>2 DEF ReadHead, ReadHint, Attempt
  <2> QED
    BY <1>0, <1>2, <2>1, MoveKeeps DEF ReadHead, Attempt
<1>3. CASE Probe(w) /\ ~Raises(w)
  <2>1. PICK a : a.pc \in {"probe", "put"} /\ a.ev = at[w].ev /\ at' = [at EXCEPT ![w] = a]
    <3>1. CASE at' = [at EXCEPT ![w] = NextProbe(w)]
      BY <1>0, <1>3, <3>1 DEF Probe, NextProbe, Attempt
    <3>2. CASE at' = [at EXCEPT ![w].pc = "put"]
      <4>1. [at[w] EXCEPT !.pc = "put"].pc = "put" /\ [at[w] EXCEPT !.pc = "put"].ev = at[w].ev
        BY <1>0 DEF Attempt
      <4> QED
        BY <3>2, <4>1
    <3> QED
      BY <1>3, <3>1, <3>2 DEF Probe
  <2> QED
    BY <1>0, <1>3, <2>1, MoveKeeps DEF Probe, Attempt
<1>4. CASE Probe(w) /\ Raises(w)
  BY <1>4, FailKeeps DEF Probe
<1> QED
  BY <1>1, <1>2, <1>3, <1>4

LEMMA LockKeepsOutcomes ==
  ASSUME IInv, NEW w \in Writer, NEW e \in Event, Lock(w, e)
  PROVE  OutcomeInv'
<1>1. e \notin Begun /\ UNCHANGED <<objects, returned, unsure>>
  BY DEF Lock
<1>2. CASE raised' = raised \cup {e} /\ UNCHANGED at
  BY <1>1, <1>2, RefusedKeeps
<1>3. CASE ~(raised' = raised \cup {e} /\ UNCHANGED at)
  <2>1. PICK a : a.pc = "insert" /\ a.ev = {e} /\ at' = [at EXCEPT ![w] = a]
    BY <1>3 DEF Lock, Idle
  <2>2. at[w].ev = {} /\ at[w].pc # "done" /\ UNCHANGED raised
    BY <1>3 DEF Lock, IInv, ChainInv, OneEventEach
  <2> QED
    BY <1>1, <2>1, <2>2, MoveKeeps
<1> QED
  BY <1>2, <1>3

LEMMA NextKeeps == IInv /\ [Next]_vars => IInv'
<1> SUFFICES ASSUME IInv, [Next]_vars PROVE OutcomeInv'
  BY NextKeepsChain DEF IInv
<1>1. CASE UNCHANGED vars
  BY <1>1 DEF vars, IInv, OutcomeInv, OneOwner, StoredWasBegun, UnderWayIsKnown,
              ReturnedIsStored, RaisedIsNotStored, Rows
<1>2. CASE Next
  <2> PICK w \in Writer : \/ \E e \in Event : Begin(w, e) \/ Lock(w, e)
                          \/ ReadHead(w) \/ Probe(w) \/ Put(w) \/ PutHead(w)
                          \/ Commit(w) \/ Crash(w)
    BY <1>2 DEF Next
  <2>1. CASE PutHead(w)
    BY <2>1, ReturnKeeps DEF PutHead
  <2> QED
    BY <2>1, ReadsKeepOutcomes, LockKeepsOutcomes, PutKeepsOutcomes, CommitKeepsOutcomes,
       CrashKeepsOutcomes
<1> QED
  BY <1>1, <1>2

LEMMA Invariance == Spec => []IInv
<1>1. Init => IInv
  <2> SUFFICES ASSUME Init PROVE OutcomeInv
    BY InitIsChain DEF IInv
  <2>1. \A x : Rows(x) = {}
    BY DEF Init, Rows
  <2> QED
    BY <2>1 DEF Init, Idle, OutcomeInv, OneOwner, StoredWasBegun, UnderWayIsKnown,
                ReturnedIsStored, RaisedIsNotStored
<1> QED
  BY <1>1, NextKeeps, PTL DEF Spec

\* An append that returned is stored, once unless one of its answers was lost;
\* an append that raised is not stored, unless one of its answers was lost.
THEOREM OutcomesHold == Spec => []AppendOutcomesHold
<1>1. IInv => AppendOutcomesHold
  BY FS_Singleton DEF IInv, OutcomeInv, ReturnedIsStored, RaisedIsNotStored, AppendOutcomesHold
<1> QED
  BY <1>1, Invariance, PTL

-----------------------------------------------------------------------------
(* The chain server.                                                       *)

-----------------------------------------------------------------------------
(* The invariant.                                                          *)

Vector == [Path -> Nat]

\* An outcome that may be kept: it was read at or after the stamps it is kept
\* under, by a run that did not take longer than a run may.
Outcome ==
    {e \in [cmd : Command, st : Seq(Nat), seen : Seq(Nat), ran : Nat, at : Nat] :
        /\ Len(e.st) = Paths /\ Len(e.seen) = Paths
        /\ \A p \in Path : e.seen[p] >= e.st[p]
        /\ e.at - e.ran <= Timeout}

Request == [pc : {"idle", "stamp", "run"}, cmd : Command \cup {"none"}, st : Seq(Nat),
            seen : Seq(Nat), from : Nat, ran : Nat, since : Vector \cup {<< >>}]

\* A stamp never runs ahead of its file.
StampsFollow == \A p \in Path : stamp[p] <= content[p]

\* While it takes the stamps: each is at least what it was at the question,
\* and no more than it is now.
Stamping(j) ==
    /\ j.cmd \in Command \ Network
    /\ j.since \in Vector
    /\ j.from <= nowR
    /\ j.seen = << >>
    /\ Len(j.st) <= Paths
    /\ \A p \in 1 .. Len(j.st) : j.since[p] <= j.st[p] /\ j.st[p] <= stamp[p]
    /\ \A p \in Path : j.since[p] <= stamp[p]

\* While the command runs: what it has read is no older than the stamps, and
\* the run is no older than a run may be.
Running(j) ==
    /\ j.cmd \in Command
    /\ j.since \in Vector
    /\ j.from <= j.ran /\ j.ran <= nowR /\ nowR - j.ran <= Timeout
    /\ Len(j.seen) <= Paths
    /\ \A p \in Path : j.since[p] <= stamp[p]
    /\ \A p \in 1 .. Len(j.seen) : j.since[p] <= j.seen[p]
    /\ j.cmd \notin Network =>
         /\ Len(j.st) = Paths
         /\ \A p \in Path : j.since[p] <= j.st[p] /\ j.st[p] <= stamp[p]
         /\ \A p \in 1 .. Len(j.seen) : j.st[p] <= j.seen[p]

RequestHolds(j) ==
    /\ j.pc = "stamp" => Stamping(j)
    /\ j.pc = "run" => Running(j)

ServerShape ==
    /\ content \in Vector
    /\ stamp \in Vector
    /\ cache \in Seq(Outcome)
    /\ job \in [Reader -> Request]
    /\ nowR \in Nat

RequestsHold == \A r \in Reader : RequestHolds(job[r])

ServerInv == ServerShape /\ StampsFollow /\ RequestsHold /\ ServedIsCurrent

-----------------------------------------------------------------------------
(* The cache and the requests.                                             *)

LEMMA Constants == Paths \in Nat /\ TTL \in Nat /\ Timeout \in Nat
BY ReadsAssumption

LEMMA NoJobIsIdle == NoJob \in Request /\ RequestHolds(NoJob)
BY DEF NoJob, Request, RequestHolds

\* Dropping an outcome leaves outcomes.
LEMMA DelKeepsOutcomes ==
    ASSUME cache \in Seq(Outcome), NEW i \in 1 .. Len(cache)
    PROVE  Del(i) \in Seq(Outcome)
<1>1. SubSeq(cache, 1, i - 1) \in Seq(Outcome)
  OBVIOUS
<1>2. SubSeq(cache, i + 1, Len(cache)) \in Seq(Outcome)
  OBVIOUS
<1> QED
  BY <1>1, <1>2 DEF Del

LEMMA WithoutKeepsOutcomes ==
    ASSUME cache \in Seq(Outcome), NEW cmd, NEW st
    PROVE  Without(cmd, st) \in Seq(Outcome)
<1>1. PICK hits : hits = {i \in 1 .. Len(cache) : Under(cache[i], cmd, st)}
  OBVIOUS
<1>2. CASE hits = {}
  BY <1>1, <1>2 DEF Without
<1>3. CASE hits # {}
  <2>1. (CHOOSE i \in hits : TRUE) \in hits
    BY <1>3
  <2>2. (CHOOSE i \in hits : TRUE) \in 1 .. Len(cache)
    BY <2>1, <1>1
  <2>3. Without(cmd, st) = Del(CHOOSE i \in hits : TRUE)
    BY <1>1, <1>3 DEF Without
  <2> QED
    BY <2>2, <2>3, DelKeepsOutcomes
<1> QED
  BY <1>2, <1>3

\* What a request holds stays true while files are written and, if no run
\* gets too old, while time passes.
LEMMA RequestsOutliveWrites ==
    ASSUME stamp \in Vector, stamp' \in Vector, nowR \in Nat, nowR' = nowR,
           \A p \in Path : stamp[p] <= stamp'[p],
           NEW j \in Request, RequestHolds(j)
    PROVE  RequestHolds(j)'
<1>1. Paths \in Nat
  BY Constants
<1>2. ASSUME Stamping(j) PROVE Stamping(j)'
  <2>0. \A p \in Path : stamp[p] \in Nat /\ stamp'[p] \in Nat /\ j.since[p] \in Nat
    BY <1>2 DEF Stamping, Vector
  <2>1. \A p \in 1 .. Len(j.st) : j.st[p] <= stamp'[p]
    <3> SUFFICES ASSUME NEW p \in 1 .. Len(j.st) PROVE j.st[p] <= stamp'[p]
      OBVIOUS
    <3>1. j.st \in Seq(Nat) /\ Len(j.st) <= Paths
      BY <1>2 DEF Request, Stamping
    <3>2. j.st[p] \in Nat /\ p \in Path
      BY <1>1, <3>1 DEF Path
    <3>3. j.st[p] <= stamp[p]
      BY <1>2 DEF Stamping
    <3> QED
      BY <2>0, <3>2, <3>3
  <2>2. \A p \in Path : j.since[p] <= stamp'[p]
    <3> SUFFICES ASSUME NEW p \in Path PROVE j.since[p] <= stamp'[p]
      OBVIOUS
    <3>1. j.since[p] <= stamp[p]
      BY <1>2 DEF Stamping
    <3> QED
      BY <2>0, <3>1
  <2> QED
    BY <1>2, <2>1, <2>2 DEF Stamping
<1>3. ASSUME Running(j) PROVE Running(j)'
  <2>1. \A p \in Path : j.since[p] <= stamp'[p]
    <3> SUFFICES ASSUME NEW p \in Path PROVE j.since[p] <= stamp'[p]
      OBVIOUS
    <3>1. j.since[p] <= stamp[p] /\ j.since \in Vector
      BY <1>3 DEF Running
    <3> QED
      BY <3>1 DEF Vector
  <2>2. j.cmd \notin Network => \A p \in Path : j.st[p] <= stamp'[p]
    <3> SUFFICES ASSUME j.cmd \notin Network, NEW p \in Path
                 PROVE  j.st[p] <= stamp'[p]
      OBVIOUS
    <3>1. j.st[p] \in Nat /\ j.st[p] <= stamp[p]
      BY <1>1, <1>3 DEF Running, Path, Request
    <3> QED
      BY <3>1 DEF Vector
  <2> QED
    BY <1>3, <2>1, <2>2 DEF Running
<1> QED
  BY <1>2, <1>3 DEF RequestHolds

\* A step of one reader that leaves the files and the clock alone has only
\* that reader's request, the cache and the answer to account for.
OneReader(r) ==
    /\ content' = content /\ stamp' = stamp /\ nowR' = nowR
    /\ \A u \in Reader : u # r => job'[u] = job[u]

LEMMA OneReaderMoves ==
    ASSUME ServerInv, NEW r \in Reader, OneReader(r), cache' \in Seq(Outcome),
           job' \in [Reader -> Request], RequestHolds(job[r])', ServedIsCurrent'
    PROVE  ServerInv'
<1>1. ServerShape'
  BY DEF ServerInv, ServerShape, OneReader
<1>2. StampsFollow'
  BY DEF ServerInv, StampsFollow, OneReader
<1>3. RequestsHold'
  <2> SUFFICES ASSUME NEW u \in Reader PROVE RequestHolds(job[u])'
    BY DEF RequestsHold
  <2>1. CASE u = r
    BY <2>1
  <2>2. CASE u # r
    <3>1. job'[u] = job[u] /\ RequestHolds(job[u])
      BY <2>2 DEF ServerInv, RequestsHold, OneReader
    <3> QED
      BY <3>1 DEF RequestHolds, Stamping, Running, OneReader
  <2> QED
    BY <2>1, <2>2
<1> QED
  BY <1>1, <1>2, <1>3 DEF ServerInv

-----------------------------------------------------------------------------
(* The steps.                                                              *)

LEMMA InitEstablishesIInv == ReadInit => ServerInv
<1> SUFFICES ASSUME ReadInit PROVE ServerInv
  OBVIOUS
<1>1. ServerShape
  BY NoJobIsIdle DEF ReadInit, ServerShape, Vector
<1>2. StampsFollow
  BY DEF ReadInit, StampsFollow
<1>3. RequestsHold
  BY NoJobIsIdle DEF ReadInit, RequestsHold
<1>4. ServedIsCurrent
  BY DEF ReadInit, ServedIsCurrent
<1> QED
  BY <1>1, <1>2, <1>3, <1>4 DEF ServerInv

LEMMA WritesKeepIInv ==
    ASSUME ServerInv, NEW p \in Path, Write(p) \/ Forge(p)
    PROVE  ServerInv'
<1>1. /\ content' = [content EXCEPT ![p] = @ + 1]
      /\ stamp' = stamp \/ stamp' = [stamp EXCEPT ![p] = @ + 1]
      /\ cache' = cache /\ job' = job /\ answers' = answers /\ nowR' = nowR
  BY DEF Write, Forge
<1>2. content \in Vector /\ stamp \in Vector /\ nowR \in Nat /\ job \in [Reader -> Request]
  BY DEF ServerInv, ServerShape
<1>3. content' \in Vector /\ stamp' \in Vector
  BY <1>1, <1>2 DEF Vector
<1>4. StampsFollow'
  BY <1>1, <1>2 DEF ServerInv, StampsFollow, Vector
<1>5. \A q \in Path : stamp[q] <= stamp'[q]
  BY <1>1, <1>2 DEF Vector
<1>6. RequestsHold'
  BY <1>1, <1>2, <1>3, <1>5, RequestsOutliveWrites DEF ServerInv, RequestsHold
<1>7. ServerShape'
  BY <1>1, <1>3 DEF ServerInv, ServerShape
<1>8. ServedIsCurrent'
  BY <1>1 DEF ServerInv, ServedIsCurrent
<1> QED
  BY <1>4, <1>6, <1>7, <1>8 DEF ServerInv

LEMMA TickKeepsIInv ==
    ASSUME ServerInv, Tick
    PROVE  ServerInv'
<1>1. /\ nowR' = nowR + 1
      /\ job' = [r \in Reader |-> IF job[r].pc = "run" /\ nowR' - job[r].ran > Timeout
                                  THEN NoJob ELSE job[r]]
      /\ content' = content /\ stamp' = stamp /\ cache' = cache /\ answers' = answers
  BY DEF Tick, files
<1>2. job \in [Reader -> Request] /\ nowR \in Nat
  BY DEF ServerInv, ServerShape
<1>3. job' \in [Reader -> Request]
  BY <1>1, <1>2, NoJobIsIdle
<1>4. RequestsHold'
  <2> SUFFICES ASSUME NEW r \in Reader PROVE RequestHolds(job[r])'
    BY DEF RequestsHold
  <2>1. CASE job'[r] = NoJob
    BY <2>1 DEF NoJob, RequestHolds
  <2>2. CASE job'[r] = job[r] /\ ~(job[r].pc = "run" /\ nowR' - job[r].ran > Timeout)
    <3>1. PICK j \in Request : j = job[r]
      BY <1>2
    <3>2. RequestHolds(j) /\ (j.pc = "run" => ~(nowR' - j.ran > Timeout))
      BY <3>1, <2>2 DEF ServerInv, RequestsHold
    <3>3. j.from \in Nat /\ j.ran \in Nat
      BY DEF Request
    <3>4. Stamping(j) => Stamping(j)'
      BY <3>3, <1>1, <1>2 DEF Stamping
    <3>5. Running(j) /\ ~(nowR' - j.ran > Timeout) => Running(j)'
      BY <3>3, <1>1, <1>2, Constants DEF Running
    <3> QED
      BY <3>1, <3>2, <3>4, <3>5, <2>2 DEF RequestHolds
  <2> QED
    BY <2>1, <2>2, <1>1
<1>5. ServerShape' /\ StampsFollow' /\ ServedIsCurrent'
  BY <1>1, <1>2, <1>3 DEF ServerInv, ServerShape, StampsFollow, ServedIsCurrent
<1> QED
  BY <1>4, <1>5 DEF ServerInv

LEMMA AskKeepsIInv ==
    ASSUME ServerInv, NEW r \in Reader, NEW cmd \in Command, Ask(r, cmd)
    PROVE  ServerInv'
<1>0. /\ job \in [Reader -> Request] /\ stamp \in Vector /\ nowR \in Nat
      /\ Paths \in Nat /\ Timeout \in Nat
  BY Constants DEF ServerInv, ServerShape
<1>1. PICK j : j = [NoJob EXCEPT !.cmd = cmd, !.from = nowR, !.since = stamp]
  OBVIOUS
<1>2. /\ job' = [job EXCEPT ![r] =
              IF cmd \in Absent THEN NoJob
              ELSE IF skips_outcome_cache(cmd) THEN [j EXCEPT !.pc = "run", !.ran = nowR]
              ELSE [j EXCEPT !.pc = "stamp"]]
      /\ content' = content /\ stamp' = stamp /\ nowR' = nowR
      /\ cache' = cache /\ answers' = answers
  BY <1>1 DEF Ask, files
<1>3. j = [pc |-> "idle", cmd |-> cmd, st |-> << >>, seen |-> << >>, from |-> nowR,
           ran |-> 0, since |-> stamp]
  BY <1>1 DEF NoJob
<1>4. PICK k : /\ k = IF cmd \in Absent THEN NoJob
                      ELSE IF skips_outcome_cache(cmd) THEN [j EXCEPT !.pc = "run", !.ran = nowR]
                      ELSE [j EXCEPT !.pc = "stamp"]
  OBVIOUS
<1>5. k \in Request /\ RequestHolds(k)
  <2>1. CASE cmd \in Absent
    BY <2>1, <1>4, NoJobIsIdle
  <2>2. CASE cmd \notin Absent /\ cmd \in Network
    <3>1. k = [pc |-> "run", cmd |-> cmd, st |-> << >>, seen |-> << >>, from |-> nowR,
               ran |-> nowR, since |-> stamp]
      BY <2>2, <1>3, <1>4 DEF skips_outcome_cache
    <3>2. k \in Request
      BY <3>1, <1>0 DEF Request
    <3>3. Running(k)
      BY <3>1, <2>2, <1>0 DEF Running, Vector
    <3> QED
      BY <3>1, <3>2, <3>3 DEF RequestHolds
  <2>3. CASE cmd \notin Absent /\ cmd \notin Network
    <3>1. k = [pc |-> "stamp", cmd |-> cmd, st |-> << >>, seen |-> << >>, from |-> nowR,
               ran |-> 0, since |-> stamp]
      BY <2>3, <1>3, <1>4 DEF skips_outcome_cache
    <3>2. k \in Request
      BY <3>1, <1>0 DEF Request
    <3>3. Stamping(k)
      BY <3>1, <2>3, <1>0 DEF Stamping, Vector
    <3> QED
      BY <3>1, <3>2, <3>3 DEF RequestHolds
  <2> QED
    BY <2>1, <2>2, <2>3
<1>6. job' = [job EXCEPT ![r] = k]
  BY <1>2, <1>4
<1>7. job' \in [Reader -> Request] /\ OneReader(r) /\ job'[r] = k
  BY <1>0, <1>2, <1>5, <1>6 DEF OneReader
<1>8. RequestHolds(job[r])'
  BY <1>2, <1>5, <1>7 DEF RequestHolds, Stamping, Running
<1>9. ServedIsCurrent' /\ cache' \in Seq(Outcome)
  BY <1>2 DEF ServerInv, ServerShape, ServedIsCurrent
<1> QED
  BY <1>7, <1>8, <1>9, OneReaderMoves

LEMMA StampKeepsIInv ==
    ASSUME ServerInv, NEW r \in Reader, input_stamp(r)
    PROVE  ServerInv'
<1>0. /\ job \in [Reader -> Request] /\ stamp \in Vector /\ nowR \in Nat /\ Paths \in Nat
  BY Constants DEF ServerInv, ServerShape
<1>1. PICK j \in Request : j = job[r]
  BY <1>0
<1>2. /\ j.pc = "stamp" /\ Len(j.st) < Paths
      /\ job' = [job EXCEPT ![r] = [j EXCEPT !.st = Append(j.st, stamp[Len(j.st) + 1])]]
      /\ content' = content /\ stamp' = stamp /\ nowR' = nowR
      /\ cache' = cache /\ answers' = answers
  BY <1>1 DEF input_stamp, files
<1>3. Stamping(j)
  BY <1>1, <1>2 DEF ServerInv, RequestsHold, RequestHolds
<1>4. PICK st \in Seq(Nat) : st = Append(j.st, stamp[Len(j.st) + 1])
  <2>1. j.st \in Seq(Nat)
    BY DEF Request
  <2>2. Len(j.st) + 1 \in Path
    BY <1>2, <1>0, <2>1 DEF Path
  <2>3. stamp[Len(j.st) + 1] \in Nat
    BY <2>2, <1>0 DEF Vector
  <2>4. Append(j.st, stamp[Len(j.st) + 1]) \in Seq(Nat)
    BY <2>1, <2>3
  <2> QED
    BY <2>4
<1>5. PICK k : k = [j EXCEPT !.st = st]
  OBVIOUS
<1>6. /\ k \in Request /\ k.pc = "stamp" /\ k.st = st /\ k.cmd = j.cmd
      /\ k.since = j.since /\ k.from = j.from /\ k.seen = j.seen
  BY <1>2, <1>5 DEF Request
<1>7. \A p \in 1 .. Len(st) : j.since[p] <= st[p] /\ st[p] <= stamp[p]
  <2> SUFFICES ASSUME NEW p \in 1 .. Len(st)
               PROVE  j.since[p] <= st[p] /\ st[p] <= stamp[p]
    OBVIOUS
  <2>1. j.st \in Seq(Nat) /\ Len(j.st) + 1 \in Path /\ stamp[Len(j.st) + 1] \in Nat
    BY <1>2, <1>0 DEF Request, Path, Vector
  <2>2. /\ Len(st) = Len(j.st) + 1
        /\ st[Len(j.st) + 1] = stamp[Len(j.st) + 1]
        /\ \A q \in 1 .. Len(j.st) : st[q] = j.st[q]
    BY <2>1, <1>4
  <2>3. CASE p \in 1 .. Len(j.st)
    BY <2>2, <2>3, <1>3 DEF Stamping
  <2>4. CASE p = Len(j.st) + 1
    BY <2>1, <2>2, <2>4, <1>3 DEF Stamping
  <2> QED
    BY <2>1, <2>2, <2>3, <2>4
<1>8. Len(st) <= Paths
  BY <1>0, <1>2, <1>4 DEF Request
<1>9. RequestHolds(k)'
  BY <1>2, <1>3, <1>6, <1>7, <1>8 DEF RequestHolds, Stamping
<1>10. job' \in [Reader -> Request] /\ OneReader(r) /\ job'[r] = k
  BY <1>0, <1>2, <1>4, <1>5, <1>6 DEF OneReader
<1>11. ServedIsCurrent' /\ cache' \in Seq(Outcome)
  BY <1>2 DEF ServerInv, ServerShape, ServedIsCurrent
<1>12. RequestHolds(job[r])'
  BY <1>9, <1>10 DEF RequestHolds, Stamping, Running
<1> QED
  BY <1>10, <1>11, <1>12, OneReaderMoves

\* An answer given by a run, or off the cache, is current.
LEMMA AnswerIsCurrent ==
    ASSUME ServerInv, NEW r \in Reader, NEW o, Answer(r, o), cache' \in Seq(Outcome),
           content' = content, stamp' = stamp, nowR' = nowR,
           \A p \in Path : o.seen[p] >= job[r].since[p],
           o.ran >= job[r].from - (IF job[r].cmd \in Network THEN 0 ELSE TTL + Timeout)
    PROVE  ServerInv'
<1>1. job \in [Reader -> Request]
  BY DEF ServerInv, ServerShape
<1>2. /\ answers' = {[cmd |-> job[r].cmd, from |-> job[r].from, since |-> job[r].since,
                      seen |-> o.seen, ran |-> o.ran]}
      /\ job' = [job EXCEPT ![r] = NoJob]
  BY DEF Answer
<1>3. job' \in [Reader -> Request] /\ OneReader(r) /\ job'[r] = NoJob
  BY <1>1, <1>2, NoJobIsIdle DEF OneReader
<1>4. RequestHolds(job[r])'
  BY <1>3 DEF NoJob, RequestHolds
<1>5. ServedIsCurrent'
  BY <1>2 DEF ServedIsCurrent
<1> QED
  BY <1>3, <1>4, <1>5, OneReaderMoves

LEMMA ServeKeepsIInv ==
    ASSUME ServerInv, NEW r \in Reader, serve(r)
    PROVE  ServerInv'
<1>0. /\ job \in [Reader -> Request] /\ cache \in Seq(Outcome) /\ nowR \in Nat
      /\ Paths \in Nat /\ TTL \in Nat /\ Timeout \in Nat
  BY Constants DEF ServerInv, ServerShape
<1>1. PICK i \in 1 .. Len(cache) :
         /\ Under(cache[i], job[r].cmd, job[r].st) /\ fresh(cache[i])
         /\ Answer(r, cache[i]) /\ cache' = Append(Del(i), cache[i])
  BY DEF serve
<1>2. /\ content' = content /\ stamp' = stamp /\ nowR' = nowR
      /\ job[r].pc = "stamp" /\ Len(job[r].st) = Paths
  BY DEF serve, files, Stamped
<1>3. PICK e \in Outcome : e = cache[i]
  BY <1>0, <1>1
<1>4. PICK j \in Request : j = job[r]
  BY <1>0
<1>5. cache' \in Seq(Outcome)
  BY <1>0, <1>1, <1>3, DelKeepsOutcomes
<1>6. Stamping(j) /\ e.st = j.st /\ nowR - e.at <= TTL
  BY <1>1, <1>2, <1>3, <1>4 DEF ServerInv, RequestsHold, RequestHolds, Under, fresh
<1>7. \A p \in Path : e.seen[p] >= j.since[p]
  <2> SUFFICES ASSUME NEW p \in Path PROVE e.seen[p] >= j.since[p]
    OBVIOUS
  <2>1. p \in 1 .. Len(j.st)
    BY <1>2, <1>4 DEF Path
  <2>2. j.since[p] \in Nat /\ j.st[p] \in Nat /\ j.since[p] <= j.st[p]
    BY <2>1, <1>6 DEF Stamping, Vector, Request
  <2>3. e.seen \in Seq(Nat) /\ Len(e.seen) = Paths /\ e.seen[p] >= e.st[p]
    BY DEF Outcome
  <2>4. e.seen[p] \in Nat
    BY <1>0, <2>3 DEF Path
  <2> QED
    BY <2>2, <2>3, <2>4, <1>6
<1>8. e.ran >= j.from - (TTL + Timeout)
  <2>1. e.ran \in Nat /\ e.at \in Nat /\ e.at - e.ran <= Timeout
    BY DEF Outcome
  <2>2. j.from \in Nat /\ j.from <= nowR
    BY <1>6 DEF Stamping, Request
  <2> QED
    BY <1>0, <1>6, <2>1, <2>2
<1>9. j.cmd \notin Network
  BY <1>6 DEF Stamping
<1> QED
  BY <1>1, <1>2, <1>3, <1>4, <1>5, <1>7, <1>8, <1>9, AnswerIsCurrent

LEMMA MissKeepsIInv ==
    ASSUME ServerInv, NEW r \in Reader, miss(r)
    PROVE  ServerInv'
<1>0. /\ job \in [Reader -> Request] /\ nowR \in Nat /\ Timeout \in Nat /\ Paths \in Nat
  BY Constants DEF ServerInv, ServerShape
<1>1. PICK j \in Request : j = job[r]
  BY <1>0
<1>2. /\ j.pc = "stamp" /\ Len(j.st) = Paths
      /\ cache' = Without(j.cmd, j.st)
      /\ job' = [job EXCEPT ![r] = [j EXCEPT !.pc = "run", !.ran = nowR]]
      /\ content' = content /\ stamp' = stamp /\ nowR' = nowR /\ answers' = answers
  BY <1>1 DEF miss, Stamped, files
<1>3. Stamping(j)
  BY <1>1, <1>2 DEF ServerInv, RequestsHold, RequestHolds
<1>4. PICK k : k = [j EXCEPT !.pc = "run", !.ran = nowR]
  OBVIOUS
<1>5. /\ k \in Request /\ k.pc = "run" /\ k.st = j.st /\ k.cmd = j.cmd /\ k.ran = nowR
      /\ k.since = j.since /\ k.from = j.from /\ k.seen = j.seen
  BY <1>0, <1>4 DEF Request
<1>6. Running(k)'
  BY <1>0, <1>2, <1>3, <1>5 DEF Running, Stamping, Path
<1>7. RequestHolds(k)'
  BY <1>5, <1>6 DEF RequestHolds
<1>8. job' \in [Reader -> Request] /\ OneReader(r) /\ job'[r] = k
  BY <1>0, <1>2, <1>4, <1>5 DEF OneReader
<1>9. ServedIsCurrent' /\ cache' \in Seq(Outcome)
  BY <1>2, WithoutKeepsOutcomes DEF ServerInv, ServerShape, ServedIsCurrent
<1>10. RequestHolds(job[r])'
  BY <1>7, <1>8 DEF RequestHolds, Stamping, Running
<1> QED
  BY <1>8, <1>9, <1>10, OneReaderMoves

LEMMA RunKeepsIInv ==
    ASSUME ServerInv, NEW r \in Reader, run(r)
    PROVE  ServerInv'
<1>0. /\ job \in [Reader -> Request] /\ stamp \in Vector /\ content \in Vector
      /\ Paths \in Nat /\ StampsFollow
  BY Constants DEF ServerInv, ServerShape
<1>1. PICK j \in Request : j = job[r]
  BY <1>0
<1>2. /\ j.pc = "run" /\ Len(j.seen) < Paths
      /\ job' = [job EXCEPT ![r] = [j EXCEPT !.seen = Append(j.seen, content[Len(j.seen) + 1])]]
      /\ content' = content /\ stamp' = stamp /\ nowR' = nowR
      /\ cache' = cache /\ answers' = answers
  BY <1>1 DEF run, files
<1>3. Running(j)
  BY <1>1, <1>2 DEF ServerInv, RequestsHold, RequestHolds
<1>4. j.seen \in Seq(Nat) /\ Len(j.seen) + 1 \in Path
  BY <1>0, <1>2 DEF Request, Path
<1>5. PICK n \in Path : n = Len(j.seen) + 1
  BY <1>4
<1>6. content[n] \in Nat /\ stamp[n] \in Nat /\ stamp[n] <= content[n]
  BY <1>0 DEF Vector, StampsFollow
<1>7. PICK seen \in Seq(Nat) : seen = Append(j.seen, content[n])
  <2>1. Append(j.seen, content[n]) \in Seq(Nat)
    BY <1>4, <1>6
  <2> QED
    BY <2>1
<1>8. /\ Len(seen) = n /\ Len(seen) <= Paths
      /\ seen[n] = content[n]
      /\ \A q \in 1 .. Len(j.seen) : seen[q] = j.seen[q]
      /\ \A q \in 1 .. Len(seen) : q = n \/ q \in 1 .. Len(j.seen)
  BY <1>0, <1>2, <1>4, <1>5, <1>6, <1>7
<1>9. PICK k : k = [j EXCEPT !.seen = seen]
  OBVIOUS
<1>10. /\ k \in Request /\ k.pc = "run" /\ k.st = j.st /\ k.cmd = j.cmd /\ k.ran = j.ran
       /\ k.since = j.since /\ k.from = j.from /\ k.seen = seen
  BY <1>2, <1>9 DEF Request
<1>11. \A q \in 1 .. Len(seen) : j.since[q] <= seen[q]
  <2>1. j.since[n] \in Nat /\ j.since[n] <= stamp[n]
    BY <1>3 DEF Running, Vector
  <2>2. j.since[n] <= seen[n]
    BY <2>1, <1>6, <1>8
  <2> QED
    BY <2>2, <1>3, <1>8 DEF Running
<1>12. j.cmd \notin Network => \A q \in 1 .. Len(seen) : j.st[q] <= seen[q]
  <2> SUFFICES ASSUME j.cmd \notin Network
               PROVE  \A q \in 1 .. Len(seen) : j.st[q] <= seen[q]
    OBVIOUS
  <2>1. j.st[n] \in Nat /\ j.st[n] <= stamp[n]
    BY <1>0, <1>3 DEF Running, Request, Path
  <2>2. j.st[n] <= seen[n]
    BY <2>1, <1>6, <1>8
  <2> QED
    BY <2>2, <1>3, <1>8 DEF Running
<1>13. RequestHolds(k)'
  BY <1>2, <1>3, <1>8, <1>10, <1>11, <1>12 DEF RequestHolds, Running
<1>14. job' \in [Reader -> Request] /\ OneReader(r) /\ job'[r] = k
  BY <1>0, <1>2, <1>5, <1>7, <1>9, <1>10 DEF OneReader
<1>15. ServedIsCurrent' /\ cache' \in Seq(Outcome)
  BY <1>2 DEF ServerInv, ServerShape, ServedIsCurrent
<1>16. RequestHolds(job[r])'
  BY <1>13, <1>14 DEF RequestHolds, Stamping, Running
<1> QED
  BY <1>14, <1>15, <1>16, OneReaderMoves

LEMMA StoreKeepsIInv ==
    ASSUME ServerInv, NEW r \in Reader, store(r)
    PROVE  ServerInv'
<1>0. /\ job \in [Reader -> Request] /\ cache \in Seq(Outcome) /\ nowR \in Nat
      /\ Paths \in Nat /\ TTL \in Nat /\ Timeout \in Nat /\ CacheSize \in Nat
  BY Constants, ReadsAssumption DEF ServerInv, ServerShape
<1>1. PICK j \in Request : j = job[r]
  BY <1>0
<1>2. PICK o : o = [cmd |-> j.cmd, st |-> j.st, seen |-> j.seen, ran |-> j.ran, at |-> nowR]
  OBVIOUS
<1>3. /\ j.pc = "run" /\ Len(j.seen) = Paths
      /\ Answer(r, o)
      /\ cache' = IF skips_outcome_cache(j.cmd) THEN cache
                  ELSE IF Len(Append(Without(o.cmd, o.st), o)) > CacheSize
                       THEN Tail(Append(Without(o.cmd, o.st), o))
                       ELSE Append(Without(o.cmd, o.st), o)
      /\ content' = content /\ stamp' = stamp /\ nowR' = nowR
  BY <1>1, <1>2 DEF store, files, key
<1>4. Running(j)
  BY <1>1, <1>3 DEF ServerInv, RequestsHold, RequestHolds
<1>5. cache' \in Seq(Outcome)
  <2>1. CASE j.cmd \in Network
    BY <2>1, <1>0, <1>3 DEF skips_outcome_cache
  <2>2. CASE j.cmd \notin Network
    <3>1. o \in [cmd : Command, st : Seq(Nat), seen : Seq(Nat), ran : Nat, at : Nat]
      BY <1>0, <1>2, <1>4 DEF Request, Running
    <3>2. /\ Len(o.st) = Paths /\ Len(o.seen) = Paths
          /\ o.at - o.ran <= Timeout
      BY <1>2, <1>3, <1>4, <2>2 DEF Running
    <3>3. \A p \in Path : o.seen[p] >= o.st[p]
      <4> SUFFICES ASSUME NEW p \in Path PROVE o.seen[p] >= o.st[p]
        OBVIOUS
      <4>1. p \in 1 .. Len(j.seen) /\ p \in 1 .. Len(j.st)
        BY <1>3, <1>4, <2>2 DEF Path, Running
      <4>2. j.st[p] <= j.seen[p] /\ j.st[p] \in Nat /\ j.seen[p] \in Nat
        BY <4>1, <1>4, <2>2 DEF Running, Request
      <4> QED
        BY <4>2, <1>2
    <3>4. o \in Outcome
      BY <3>1, <3>2, <3>3 DEF Outcome
    <3>5. PICK rest \in Seq(Outcome) : rest = Without(o.cmd, o.st)
      BY <1>0, WithoutKeepsOutcomes
    <3>6. PICK with \in Seq(Outcome) : with = Append(rest, o) /\ with # << >>
      <4>1. Append(rest, o) \in Seq(Outcome) /\ Append(rest, o) # << >>
        BY <3>4, <3>5
      <4> QED
        BY <4>1
    <3>7. Tail(with) \in Seq(Outcome)
      BY <3>6
    <3> QED
      BY <3>5, <3>6, <3>7, <2>2, <1>3 DEF skips_outcome_cache
  <2> QED
    BY <2>1, <2>2
<1>6. \A p \in Path : o.seen[p] >= job[r].since[p]
  <2> SUFFICES ASSUME NEW p \in Path PROVE o.seen[p] >= job[r].since[p]
    OBVIOUS
  <2>1. p \in 1 .. Len(j.seen)
    BY <1>3 DEF Path
  <2>2. j.since[p] <= j.seen[p] /\ j.since[p] \in Nat /\ j.seen[p] \in Nat
    BY <2>1, <1>4 DEF Running, Vector, Request
  <2> QED
    BY <2>2, <1>1, <1>2
<1>7. o.ran >= job[r].from - (IF job[r].cmd \in Network THEN 0 ELSE TTL + Timeout)
  <2>1. o.ran \in Nat /\ j.from \in Nat /\ j.from <= o.ran
    BY <1>2, <1>4 DEF Running, Request
  <2> QED
    BY <2>1, <1>0, <1>1
<1> QED
  BY <1>3, <1>5, <1>6, <1>7, AnswerIsCurrent

LEMMA NextPreservesIInv == ServerInv /\ [ReadNext]_readVars => ServerInv'
<1> SUFFICES ASSUME ServerInv, [ReadNext]_readVars PROVE ServerInv'
  OBVIOUS
<1>1. CASE UNCHANGED readVars
  BY <1>1 DEF readVars, ServerInv, ServerShape, StampsFollow, RequestsHold, RequestHolds, Stamping,
              Running, ServedIsCurrent
<1>2. CASE ReadNext
  BY <1>2, WritesKeepIInv, TickKeepsIInv, AskKeepsIInv, StampKeepsIInv, ServeKeepsIInv,
     MissKeepsIInv, RunKeepsIInv, StoreKeepsIInv DEF ReadNext
<1> QED
  BY <1>1, <1>2

\* No answer is older than its question as far as the files' stamps tell, and
\* where they do not, older than a time to live and one run: for any number of
\* overlapping requests, writes between two stamps or two reads, forged times
\* and outcomes kept by a run that others overtook (WaxsealCli.run).
THEOREM AnswersAreCurrent == ReadSpec => []ServedIsCurrent
<1>1. ServerInv => ServedIsCurrent
  BY DEF ServerInv
<1> QED
  BY <1>1, InitEstablishesIInv, NextPreservesIInv, PTL DEF ReadSpec

-----------------------------------------------------------------------------
(* Operators, their keys and the settings.                                 *)

CallFields == {"pc", "tok", "op", "snap", "scopes", "by", "late"}

\* A request is a record; with Postgres, one that came with a revoked key is
\* let in by nothing but a server that has no key.
Sound(j) ==
    /\ DOMAIN j = CallFields
    /\ opStore = "postgres" =>
         /\ j.pc \notin {"operator", "revoking"}
         /\ j.late => /\ j.tok \in Key /\ Revoked(j.tok)
                      /\ j.pc # "touch"
                      /\ j.by \in {None, "open"}

\* An update that has locked its row still knows what is in it.
RowIsOwn(j) ==
    j.pc = "row" => /\ opStore = "postgres" /\ j.op.name = "update"
                    /\ j.op.user \in rowLock /\ j.op.user \in DOMAIN ops
                    /\ j.snap = ops[j.op.user]

OpShape ==
    /\ DOMAIN req = Client
    /\ DOMAIN keys \subseteq Key
    /\ opStore = "postgres" => \A k \in DOMAIN keys : /\ DOMAIN keys[k] = {"user", "revoked"}
                                                   /\ keys[k].revoked \in BOOLEAN
    /\ DOMAIN revokers = Key

CallsAreSound == \A c \in Client : Sound(req[c])

RevokedOnce ==
    opStore = "postgres" => \A k \in Key : revokers[k] = (IF Revoked(k) THEN 1 ELSE 0)

RowsAreHeld ==
    /\ \A c \in Client : RowIsOwn(req[c])
    /\ \A c, d \in Client :
          req[c].pc = "row" /\ req[d].pc = "row" /\ req[c].op.user = req[d].op.user => c = d

OpInv == OpShape /\ CallsAreSound /\ RevokedOnce /\ RowsAreHeld /\ LedgerArgsArePaired

-----------------------------------------------------------------------------
(* The steps of a call.                                                    *)

LEMMA OpInitHolds == OpInit => OpInv
<1> SUFFICES ASSUME OpInit PROVE OpInv
  OBVIOUS
<1>1. keys = << >> \/ \E k \in Key, u \in DOMAIN Seeds : keys = [x \in {k} |-> NewKey(u)]
  BY DEF OpInit
<1>2. OpShape /\ \A k \in Key : ~Revoked(k)
  <2>1. CASE keys = << >>
    BY <2>1 DEF OpInit, OpShape, Revoked
  <2>2. ASSUME NEW k \in Key, NEW u \in DOMAIN Seeds, keys = [x \in {k} |-> NewKey(u)]
        PROVE  OpShape /\ \A l \in Key : ~Revoked(l)
    BY <2>2 DEF OpInit, OpShape, Revoked, NewKey
  <2> QED
    BY <1>1, <2>1, <2>2
<1>3. \A c \in Client : req[c] = IdleCall
  BY DEF OpInit
<1>4. Sound(IdleCall)
  BY DEF Sound, IdleCall, CallFields
<1>5. IdleCall.pc # "row"
  BY DEF IdleCall
<1> QED
  BY <1>2, <1>3, <1>4, <1>5 DEF OpInv, OpInit, CallsAreSound, RevokedOnce, RowsAreHeld,
       RowIsOwn, LedgerArgsArePaired

\* The keys of Postgres: none comes back once it is revoked, and the call that
\* revokes it is counted.
LEMMA KeysKept ==
    ASSUME OpInv, OpNext
    PROVE  /\ DOMAIN keys' \subseteq Key /\ DOMAIN revokers' = Key
           /\ opStore' = opStore
           /\ opStore = "postgres" =>
                /\ \A k \in DOMAIN keys' : /\ DOMAIN keys'[k] = {"user", "revoked"}
                                           /\ keys'[k].revoked \in BOOLEAN
                /\ \A k \in Key : Revoked(k) => Revoked(k)'
           /\ RevokedOnce'
<1>0. OpShape /\ RevokedOnce
  BY DEF OpInv
<1>1. PICK c \in Client :
        \/ \E op \in Asked, tok \in Key \cup {"bootstrap", None} : Arrive(c, tok, op)
        \/ \E op \in Asked \cap AdminOp : Shell(c, op)
        \/ \E u \in DOMAIN Seeds, e \in {None, "mail"} :
              Shell(c, [name |-> "create", user |-> u, role |-> Seeds[u], email |-> e])
        \/ principal(c) \/ authenticate(c) \/ touch(c) \/ MalformedBody(c)
        \/ post_operator(c) \/ add_operator(c)
        \/ patch_operator(c) \/ update_operator(c) \/ Rollback(c)
        \/ post_key(c) \/ post_revoke(c)
        \/ put_setting(c) \/ post_reset(c) \/ get_ledger_status(c) \/ Append_(c)
  BY DEF OpNext
<1>2. opStore' = opStore
  BY <1>1 DEF Arrive, Shell, principal, authenticate, touch, MalformedBody, post_operator,
       add_operator, patch_operator, update_operator, Rollback, post_key, post_revoke,
       put_setting, post_reset, get_ledger_status, Append_, fixed
<1>3. CASE keys' = keys /\ revokers' = revokers
  BY <1>0, <1>2, <1>3 DEF OpShape, RevokedOnce, Revoked
<1>4. CASE touch(c)
  <2>1. /\ revokers' = revokers /\ DOMAIN keys' = DOMAIN keys
        /\ opStore = "postgres" => \A k \in DOMAIN keys : keys'[k] = keys[k]
    BY <1>4 DEF touch, touched
  <2> QED
    BY <1>0, <1>2, <2>1 DEF OpShape, RevokedOnce, Revoked
<1>5. CASE post_key(c)
  <2>1. revokers' = revokers
    BY <1>5 DEF post_key
  <2>2. CASE keys' = keys
    BY <1>3, <2>1, <2>2
  <2>3. ASSUME NEW u, mint_key(u) PROVE keys' = keys \/ \E k \in Key \ DOMAIN keys :
            keys' = [x \in DOMAIN keys \cup {k} |-> IF x = k THEN NewKey(u) ELSE keys[x]]
    BY <2>3 DEF mint_key
  <2>4. CASE keys' # keys
    <3>1. PICK u : mint_key(u)
      BY <1>5, <2>4 DEF post_key
    <3>2. PICK k \in Key \ DOMAIN keys :
            keys' = [x \in DOMAIN keys \cup {k} |-> IF x = k THEN NewKey(u) ELSE keys[x]]
      BY <2>3, <2>4, <3>1
    <3>3. /\ DOMAIN keys' = DOMAIN keys \cup {k} /\ keys'[k] = NewKey(u)
          /\ \A x \in DOMAIN keys : keys'[x] = keys[x]
      BY <3>2
    <3>4. DOMAIN NewKey(u) = {"user", "revoked"} /\ NewKey(u).revoked = FALSE
      BY DEF NewKey
    <3>5. \A x \in Key : Revoked(x)' <=> Revoked(x)
      BY <3>2, <3>3, <3>4 DEF Revoked
    <3> QED
      BY <1>0, <1>2, <2>1, <3>2, <3>3, <3>4, <3>5 DEF OpShape, RevokedOnce
  <2> QED
    BY <2>2, <2>4
<1>6. CASE post_revoke(c)
  <2>1. CASE UNCHANGED <<keys, revokers>>
    BY <1>3, <2>1
  <2>2. CASE ~UNCHANGED <<keys, revokers>>
    <3>1. PICK k : k = req[c].op.key
      OBVIOUS
    <3>2. /\ keys' = [keys EXCEPT ![k].revoked = TRUE]
          /\ revokers' = [revokers EXCEPT ![k] = @ + 1]
          /\ \/ req[c].pc = "act" /\ opStore = "postgres" /\ k \in DOMAIN keys /\ ~Revoked(k)
             \/ req[c].pc = "revoking"
      BY <1>6, <2>2, <3>1 DEF post_revoke, revoke_key
    <3>3. opStore = "postgres" => k \in DOMAIN keys /\ ~Revoked(k)
      BY <3>2 DEF OpInv, CallsAreSound, Sound
    <3>4. /\ DOMAIN keys' = DOMAIN keys /\ DOMAIN revokers' = DOMAIN revokers
          /\ \A x \in DOMAIN keys : x # k => keys'[x] = keys[x]
          /\ \A x \in DOMAIN revokers : x # k => revokers'[x] = revokers[x]
      BY <3>2
    <3>5. CASE opStore = "postgres"
      <4>1. /\ k \in Key /\ k \in DOMAIN keys /\ DOMAIN keys[k] = {"user", "revoked"}
            /\ revokers[k] = 0
        BY <1>0, <3>3, <3>5 DEF OpShape, RevokedOnce
      <4>2. /\ DOMAIN keys'[k] = {"user", "revoked"} /\ keys'[k].revoked = TRUE
            /\ revokers'[k] = 1
        BY <1>0, <3>2, <4>1 DEF OpShape
      <4>3. \A x \in Key : Revoked(x)' <=> (Revoked(x) \/ x = k)
        BY <3>4, <4>1, <4>2 DEF Revoked
      <4>4. RevokedOnce'
        BY <1>0, <1>2, <3>3, <3>4, <3>5, <4>1, <4>2, <4>3 DEF RevokedOnce, OpShape
      <4>5. ASSUME NEW x \in DOMAIN keys'
            PROVE  DOMAIN keys'[x] = {"user", "revoked"} /\ keys'[x].revoked \in BOOLEAN
        <5>1. CASE x # k
          BY <1>0, <3>4, <3>5, <4>5, <5>1 DEF OpShape
        <5> QED
          BY <4>2, <5>1
      <4>6. DOMAIN keys' \subseteq Key /\ DOMAIN revokers' = Key
        BY <1>0, <3>4 DEF OpShape
      <4> QED
        BY <1>2, <4>3, <4>4, <4>5, <4>6
    <3>6. CASE opStore # "postgres"
      BY <1>0, <1>2, <3>4, <3>6 DEF OpShape, RevokedOnce
    <3> QED
      BY <3>5, <3>6
  <2> QED
    BY <2>1, <2>2
<1>7. CASE ~(touch(c) \/ post_key(c) \/ post_revoke(c))
  <2>1. keys' = keys /\ revokers' = revokers
    BY <1>1, <1>7 DEF Arrive, Shell, principal, authenticate, MalformedBody, post_operator,
         add_operator, patch_operator, update_operator, Rollback,
         put_setting, post_reset, get_ledger_status, Append_, tables
  <2> QED
    BY <1>3, <2>1
<1> QED
  BY <1>4, <1>5, <1>6, <1>7

\* A call that moves stays sound, and so do the others, which stay.
LEMMA CallsKept ==
    ASSUME OpInv, OpNext
    PROVE  DOMAIN req' = Client /\ CallsAreSound'
<1>0. /\ DOMAIN req = Client /\ opStore' = opStore /\ DOMAIN keys \subseteq Key
      /\ opStore = "postgres" => \A k \in Key : Revoked(k) => Revoked(k)'
  BY KeysKept DEF OpInv, OpShape
<1>1. ASSUME NEW c \in Client, NEW j, req' = [req EXCEPT ![c] = j], Sound(j)'
      PROVE  DOMAIN req' = Client /\ CallsAreSound'
  <2>1. DOMAIN req' = Client /\ req'[c] = j /\ \A d \in Client \ {c} : req'[d] = req[d]
    BY <1>0, <1>1
  <2>2. ASSUME NEW d \in Client PROVE Sound(req[d])'
    <3>1. CASE d = c
      BY <1>1, <2>1, <3>1 DEF Sound
    <3>2. CASE d # c
      <4>1. Sound(req[d])
        BY DEF OpInv, CallsAreSound
      <4> QED
        BY <1>0, <2>1, <3>2, <4>1 DEF Sound
    <3> QED
      BY <3>1, <3>2
  <2> QED
    BY <2>1, <2>2 DEF CallsAreSound
<1>2. Sound(IdleCall)'
  BY DEF Sound, IdleCall, CallFields
<1>3. ASSUME NEW c \in Client, Done(c) PROVE DOMAIN req' = Client /\ CallsAreSound'
  BY <1>1, <1>2, <1>3 DEF Done, Goto
<1>4. ASSUME NEW c \in Client, NEW p, p \notin {"operator", "revoking", "touch"},
             NEW j, j = [req[c] EXCEPT !.pc = p]
      PROVE  Sound(j)'
  <2>1. Sound(req[c])
    BY DEF OpInv, CallsAreSound
  <2> QED
    BY <1>0, <1>4, <2>1 DEF Sound, CallFields
<1>5. ASSUME NEW c \in Client, NEW by, NEW scopes, Admit(c, by, scopes),
             ~(opStore = "postgres" /\ req[c].late) \/ by = "open"
      PROVE  DOMAIN req' = Client /\ CallsAreSound'
  <2>1. CASE Done(c)
    BY <1>3, <2>1
  <2>2. CASE ~Done(c)
    <3>1. PICK j : req' = [req EXCEPT ![c] = j] /\ j = [req[c] EXCEPT !.pc = "act", !.by = by]
      BY <1>5, <2>2 DEF Admit, Goto
    <3>2. Sound(req[c])
      BY DEF OpInv, CallsAreSound
    <3>3. Sound(j)'
      BY <1>0, <1>5, <3>1, <3>2 DEF Sound, CallFields
    <3> QED
      BY <1>1, <3>1, <3>3
  <2> QED
    BY <2>1, <2>2
<1>6. ASSUME NEW c \in Client, NEW op, NEW tok, Arrive(c, tok, op)
      PROVE  DOMAIN req' = Client /\ CallsAreSound'
  <2>1. PICK j : /\ req' = [req EXCEPT ![c] = j]
                 /\ j = [IdleCall EXCEPT !.pc = "arrived", !.tok = tok, !.op = op,
                                         !.late = Revoked(tok)]
    BY <1>6 DEF Arrive, Goto
  <2>2. /\ DOMAIN j = CallFields /\ j.pc = "arrived" /\ j.tok = tok /\ j.by = None
        /\ j.late = Revoked(tok)
    BY <2>1 DEF IdleCall, CallFields
  <2>3. j.late => tok \in Key /\ Revoked(tok)
    BY <1>0, <2>2 DEF Revoked
  <2>4. Sound(j)'
    BY <1>0, <2>2, <2>3 DEF Sound
  <2> QED
    BY <1>1, <2>1, <2>4
<1>7. ASSUME NEW c \in Client, NEW op, Shell(c, op)
      PROVE  DOMAIN req' = Client /\ CallsAreSound'
  <2>1. PICK j : /\ req' = [req EXCEPT ![c] = j]
                 /\ j = [IdleCall EXCEPT !.pc = "act", !.op = op, !.by = "shell"]
    BY <1>7 DEF Shell, Goto
  <2>2. Sound(j)'
    BY <2>1 DEF Sound, IdleCall, CallFields
  <2> QED
    BY <1>1, <2>1, <2>2
<1>8. ASSUME NEW c \in Client, principal(c)
      PROVE  DOMAIN req' = Client /\ CallsAreSound'
  <2>1. CASE Admit(c, "open", Scopes)
    BY <1>5, <2>1
  <2>2. CASE req[c].tok = "bootstrap" /\ Admit(c, "bootstrap", Scopes)
    <3>1. Sound(req[c]) /\ "bootstrap" \notin Key
      BY OperatorsAssumption DEF OpInv, CallsAreSound
    <3> QED
      BY <1>5, <2>2, <3>1 DEF Sound
  <2>3. CASE Goto(c, [req[c] EXCEPT !.pc = "authenticate"])
    BY <1>1, <1>4, <2>3 DEF Goto
  <2> QED
    BY <1>3, <1>8, <2>1, <2>2, <2>3 DEF principal
<1>9. ASSUME NEW c \in Client, authenticate(c)
      PROVE  DOMAIN req' = Client /\ CallsAreSound'
  <2>1. CASE Done(c)
    BY <1>3, <2>1
  <2>2. CASE ~Done(c)
    <3>1. PICK j : req' = [req EXCEPT ![c] = j]
                   /\ \/ /\ req[c].pc = "authenticate" /\ opStore = "memory"
                         /\ j = [req[c] EXCEPT !.pc = "operator", !.snap = keys[req[c].tok]]
                      \/ /\ req[c].pc = "authenticate"
                         /\ req[c].tok \in DOMAIN keys /\ ~keys[req[c].tok].revoked
                         /\ j = [req[c] EXCEPT !.pc = "touch", !.snap = keys[req[c].tok],
                                   !.scopes = scopes_for_role(ops[keys[req[c].tok].user].role)]
                      \/ /\ req[c].pc = "operator"
                         /\ j = [req[c] EXCEPT !.pc = "touch",
                                   !.scopes = scopes_for_role(ops[req[c].snap.user].role)]
      BY <1>9, <2>2 DEF authenticate, Goto
    <3>2. Sound(req[c])
      BY DEF OpInv, CallsAreSound
    <3>3. Sound(j)'
      BY <1>0, <3>1, <3>2 DEF Sound, CallFields, Revoked
    <3> QED
      BY <1>1, <3>1, <3>3
  <2> QED
    BY <2>1, <2>2
<1>10. ASSUME NEW c \in Client, touch(c)
       PROVE  DOMAIN req' = Client /\ CallsAreSound'
  <2>1. Sound(req[c]) /\ req[c].pc = "touch" /\ Admit(c, "key", req[c].scopes)
    BY <1>10 DEF OpInv, CallsAreSound, touch
  <2> QED
    BY <1>5, <2>1 DEF Sound
<1>11. ASSUME NEW c \in Client, post_operator(c)
       PROVE  DOMAIN req' = Client /\ CallsAreSound'
  BY <1>1, <1>3, <1>4, <1>11 DEF post_operator, Goto
<1>12. ASSUME NEW c \in Client, add_operator(c)
       PROVE  DOMAIN req' = Client /\ CallsAreSound'
  <2>1. CASE Done(c)
    BY <1>3, <2>1
  <2>2. CASE ~Done(c)
    <3>1. PICK op, j : req' = [req EXCEPT ![c] = j] /\ j = [req[c] EXCEPT !.pc = "act", !.op = op]
      BY <1>12, <2>2 DEF add_operator, Goto
    <3>2. Sound(req[c])
      BY DEF OpInv, CallsAreSound
    <3>3. Sound(j)'
      BY <1>0, <3>1, <3>2 DEF Sound, CallFields
    <3> QED
      BY <1>1, <3>1, <3>3
  <2> QED
    BY <2>1, <2>2
<1>13. ASSUME NEW c \in Client, patch_operator(c)
       PROVE  DOMAIN req' = Client /\ CallsAreSound'
  <2>1. CASE Done(c)
    BY <1>3, <2>1
  <2>2. CASE ~Done(c)
    <3>1. PICK r, j : req' = [req EXCEPT ![c] = j] /\ j = [req[c] EXCEPT !.pc = "row", !.snap = r]
      BY <1>13, <2>2 DEF patch_operator, Goto
    <3>2. Sound(req[c])
      BY DEF OpInv, CallsAreSound
    <3>3. Sound(j)'
      BY <1>0, <3>1, <3>2 DEF Sound, CallFields
    <3> QED
      BY <1>1, <3>1, <3>3
  <2> QED
    BY <2>1, <2>2
<1>14. ASSUME NEW c \in Client, post_revoke(c)
       PROVE  DOMAIN req' = Client /\ CallsAreSound'
  <2>1. CASE Done(c)
    BY <1>3, <2>1
  <2>2. CASE ~Done(c)
    <3>1. PICK j : req' = [req EXCEPT ![c] = j] /\ j = [req[c] EXCEPT !.pc = "revoking"]
                   /\ opStore = "memory"
      BY <1>14, <2>2 DEF post_revoke, Goto
    <3>2. Sound(req[c])
      BY DEF OpInv, CallsAreSound
    <3>3. Sound(j)'
      BY <1>0, <3>1, <3>2 DEF Sound, CallFields
    <3> QED
      BY <1>1, <3>1, <3>3
  <2> QED
    BY <2>1, <2>2
<1>15. ASSUME NEW c \in Client,
              \/ MalformedBody(c) \/ update_operator(c) \/ Rollback(c) \/ post_key(c)
              \/ put_setting(c) \/ post_reset(c) \/ get_ledger_status(c) \/ Append_(c)
       PROVE  DOMAIN req' = Client /\ CallsAreSound'
  <2>1. Done(c)
    BY <1>15 DEF MalformedBody, update_operator, Rollback, post_key, put_setting, post_reset,
         get_ledger_status, Append_
  <2> QED
    BY <1>3, <2>1
<1> QED
  BY <1>6, <1>7, <1>8, <1>9, <1>10, <1>11, <1>12, <1>13, <1>14, <1>15 DEF OpNext

\* While a row is locked nobody else changes it.
LEMMA RowsKept ==
    ASSUME OpInv, OpNext
    PROVE  RowsAreHeld'
<1>0. DOMAIN req = Client /\ opStore' = opStore /\ RowsAreHeld
  BY KeysKept DEF OpInv, OpShape
<1>1. ASSUME NEW c \in Client, NEW j, req' = [req EXCEPT ![c] = j],
             j.pc = "row" => /\ opStore = "postgres" /\ j.op.name = "update"
                             /\ j.op.user \in rowLock' /\ j.op.user \in DOMAIN ops'
                             /\ j.snap = ops'[j.op.user]
                             /\ \A d \in Client \ {c} :
                                   req[d].pc = "row" => req[d].op.user # j.op.user,
             \A d \in Client \ {c} : req[d].pc = "row" =>
                 /\ req[d].op.user \in rowLock' /\ req[d].op.user \in DOMAIN ops'
                 /\ ops'[req[d].op.user] = ops[req[d].op.user]
      PROVE  RowsAreHeld'
  <2>1. req'[c] = j /\ \A d \in Client \ {c} : req'[d] = req[d]
    BY <1>0, <1>1
  <2>2. ASSUME NEW d \in Client PROVE RowIsOwn(req[d])'
    <3>1. CASE d = c
      BY <1>0, <1>1, <2>1, <3>1 DEF RowIsOwn
    <3>2. CASE d # c
      <4>1. RowIsOwn(req[d])
        BY <1>0 DEF RowsAreHeld
      <4> QED
        BY <1>0, <1>1, <2>1, <3>2, <4>1 DEF RowIsOwn
    <3> QED
      BY <3>1, <3>2
  <2>3. ASSUME NEW d \in Client, NEW e \in Client, req'[d].pc = "row", req'[e].pc = "row",
               req'[d].op.user = req'[e].op.user
        PROVE  d = e
    <3>1. CASE d # c /\ e # c
      BY <1>0, <2>1, <2>3, <3>1 DEF RowsAreHeld
    <3>2. CASE d = c /\ e # c
      BY <1>1, <2>1, <2>3, <3>2
    <3>3. CASE d # c /\ e = c
      BY <1>1, <2>1, <2>3, <3>3
    <3> QED
      BY <3>1, <3>2, <3>3
  <2> QED
    BY <2>2, <2>3 DEF RowsAreHeld
<1>2. \A d \in Client : req[d].pc = "row" =>
          /\ req[d].op.user \in rowLock /\ req[d].op.user \in DOMAIN ops
          /\ opStore = "postgres"
  BY <1>0 DEF RowsAreHeld, RowIsOwn
<1>3. ASSUME NEW c \in Client, Done(c),
             \A d \in Client \ {c} : req[d].pc = "row" =>
                 /\ req[d].op.user \in rowLock' /\ req[d].op.user \in DOMAIN ops'
                 /\ ops'[req[d].op.user] = ops[req[d].op.user]
      PROVE  RowsAreHeld'
  <2>1. IdleCall.pc # "row"
    BY DEF IdleCall
  <2> QED
    BY <1>1, <1>3, <2>1 DEF Done, Goto
<1>4. ASSUME NEW c \in Client, UNCHANGED <<ops, rowLock>>, NEW j,
             req' = [req EXCEPT ![c] = j], j.pc # "row"
      PROVE  RowsAreHeld'
  BY <1>1, <1>2, <1>4
<1>5. ASSUME NEW c \in Client, UNCHANGED <<ops, rowLock>>, Done(c) PROVE RowsAreHeld'
  BY <1>2, <1>3, <1>5
<1>6. ASSUME NEW c \in Client PROVE DOMAIN req[c] = CallFields
  BY DEF OpInv, CallsAreSound, Sound
<1>7. ASSUME NEW c \in Client, UNCHANGED <<ops, rowLock>>, NEW by, NEW scopes,
             Admit(c, by, scopes)
      PROVE  RowsAreHeld'
  <2>1. [req[c] EXCEPT !.pc = "act", !.by = by].pc = "act"
    BY <1>6 DEF CallFields
  <2> QED
    BY <1>4, <1>5, <1>7, <2>1 DEF Admit, Goto
<1>8. ASSUME NEW c \in Client, NEW op, NEW tok, Arrive(c, tok, op) \/ Shell(c, op)
      PROVE  RowsAreHeld'
  <2>1. UNCHANGED <<ops, rowLock>>
    BY <1>8 DEF Arrive, Shell, tables
  <2>2. PICK j : /\ req' = [req EXCEPT ![c] = j]
                 /\ \/ j = [IdleCall EXCEPT !.pc = "arrived", !.tok = tok, !.op = op,
                                            !.late = Revoked(tok)]
                    \/ j = [IdleCall EXCEPT !.pc = "act", !.op = op, !.by = "shell"]
    BY <1>8 DEF Arrive, Shell, Goto
  <2>3. j.pc # "row"
    BY <2>2 DEF IdleCall
  <2> QED
    BY <1>4, <2>1, <2>2, <2>3
<1>9. ASSUME NEW c \in Client, principal(c) PROVE RowsAreHeld'
  <2>1. UNCHANGED <<ops, rowLock>>
    BY <1>9 DEF principal, tables
  <2>2. [req[c] EXCEPT !.pc = "authenticate"].pc = "authenticate"
    BY <1>6 DEF CallFields
  <2> QED
    BY <1>4, <1>5, <1>7, <1>9, <2>1, <2>2 DEF principal, Goto
<1>10. ASSUME NEW c \in Client, authenticate(c) PROVE RowsAreHeld'
  <2>1. UNCHANGED <<ops, rowLock>>
    BY <1>10 DEF authenticate, tables
  <2>2. CASE ~Done(c)
    <3>1. PICK j : /\ req' = [req EXCEPT ![c] = j]
                   /\ \/ j = [req[c] EXCEPT !.pc = "operator", !.snap = keys[req[c].tok]]
                      \/ j = [req[c] EXCEPT !.pc = "touch", !.snap = keys[req[c].tok],
                                !.scopes = scopes_for_role(ops[keys[req[c].tok].user].role)]
                      \/ j = [req[c] EXCEPT !.pc = "touch",
                                !.scopes = scopes_for_role(ops[req[c].snap.user].role)]
      BY <1>10, <2>2 DEF authenticate, Goto
    <3>2. j.pc # "row"
      BY <1>6, <3>1 DEF CallFields
    <3> QED
      BY <1>4, <2>1, <3>1, <3>2
  <2> QED
    BY <1>5, <2>1, <2>2
<1>11. ASSUME NEW c \in Client, touch(c) PROVE RowsAreHeld'
  BY <1>7, <1>11 DEF touch
<1>12. ASSUME NEW c \in Client, post_operator(c) PROVE RowsAreHeld'
  <2>1. /\ rowLock' = rowLock
        /\ \A u \in DOMAIN ops : u \in DOMAIN ops' /\ ops'[u] = ops[u]
    BY <1>12 DEF post_operator, create_operator
  <2>2. CASE ~Done(c)
    <3>1. PICK j : req' = [req EXCEPT ![c] = j] /\ j = [req[c] EXCEPT !.pc = "exists"]
      BY <1>12, <2>2 DEF post_operator, Goto
    <3>2. j.pc # "row"
      BY <1>6, <3>1 DEF CallFields
    <3> QED
      BY <1>1, <1>2, <2>1, <3>1, <3>2
  <2> QED
    BY <1>2, <1>3, <2>1, <2>2
<1>13. ASSUME NEW c \in Client, add_operator(c) PROVE RowsAreHeld'
  <2>1. UNCHANGED <<ops, rowLock>>
    BY <1>13 DEF add_operator, tables
  <2>2. CASE ~Done(c)
    <3>1. PICK op : req' = [req EXCEPT ![c] = [req[c] EXCEPT !.pc = "act", !.op = op]]
      BY <1>13, <2>2 DEF add_operator, Goto
    <3>2. [req[c] EXCEPT !.pc = "act", !.op = op].pc = "act"
      BY <1>6 DEF CallFields
    <3> QED
      BY <1>4, <2>1, <3>1, <3>2
  <2> QED
    BY <1>5, <2>1, <2>2
<1>14. ASSUME NEW c \in Client, patch_operator(c) PROVE RowsAreHeld'
  <2>0. PICK u : u = req[c].op.user
    OBVIOUS
  <2>1. CASE u \notin DOMAIN ops
    BY <1>5, <1>14, <2>0, <2>1 DEF patch_operator
  <2>2. CASE u \in DOMAIN ops /\ opStore = "memory"
    <3>1. Done(c)
      BY <1>14, <2>0, <2>2 DEF patch_operator
    <3> QED
      BY <1>2, <1>3, <2>2, <3>1
  <2>3. CASE u \in DOMAIN ops /\ opStore # "memory"
    <3>1. /\ opStore = "postgres" /\ u \notin rowLock /\ rowLock' = rowLock \cup {u}
          /\ ops' = ops /\ req[c].op.name = "update"
      BY <1>14, <2>0, <2>3 DEF patch_operator, RowFree
    <3>2. PICK j : /\ req' = [req EXCEPT ![c] = j]
                   /\ j = [req[c] EXCEPT !.pc = "row", !.snap = ops[u]]
      BY <1>14, <2>0, <2>3 DEF patch_operator, Goto
    <3>3. j.op = req[c].op /\ j.snap = ops[u]
      BY <1>6, <3>2 DEF CallFields
    <3>4. \A d \in Client \ {c} : req[d].pc = "row" => req[d].op.user # u
      BY <1>2, <3>1
    <3>5. /\ j.op.name = "update" /\ j.op.user = u
          /\ u \in rowLock' /\ u \in DOMAIN ops' /\ j.snap = ops'[u]
      BY <2>0, <2>3, <3>1, <3>3
    <3>6. \A d \in Client \ {c} : req[d].pc = "row" =>
              /\ req[d].op.user \in rowLock' /\ req[d].op.user \in DOMAIN ops'
              /\ ops'[req[d].op.user] = ops[req[d].op.user]
      BY <1>2, <3>1
    <3>7. j.pc = "row" => /\ opStore = "postgres" /\ j.op.name = "update"
                          /\ j.op.user \in rowLock' /\ j.op.user \in DOMAIN ops'
                          /\ j.snap = ops'[j.op.user]
                          /\ \A d \in Client \ {c} :
                                req[d].pc = "row" => req[d].op.user # j.op.user
      BY <3>1, <3>4, <3>5
    <3>8. req' = [req EXCEPT ![c] = j]
      BY <3>2
    <3> QED
      BY <1>1, <3>6, <3>7, <3>8
  <2> QED
    BY <2>1, <2>2, <2>3
<1>15. ASSUME NEW c \in Client, update_operator(c) \/ Rollback(c) PROVE RowsAreHeld'
  <2>0. PICK u : u = req[c].op.user
    OBVIOUS
  <2>1. /\ req[c].pc = "row" /\ Done(c) /\ rowLock' = rowLock \ {u}
        /\ DOMAIN ops' = DOMAIN ops /\ \A v \in DOMAIN ops \ {u} : ops'[v] = ops[v]
    BY <1>15, <2>0 DEF update_operator, Rollback
  <2>2. \A d \in Client \ {c} : req[d].pc = "row" => req[d].op.user # u
    BY <1>0, <2>0, <2>1 DEF RowsAreHeld
  <2> QED
    BY <1>2, <1>3, <2>1, <2>2
<1>16. ASSUME NEW c \in Client, post_revoke(c) PROVE RowsAreHeld'
  <2>1. UNCHANGED <<ops, rowLock>>
    BY <1>16 DEF post_revoke
  <2>2. [req[c] EXCEPT !.pc = "revoking"].pc = "revoking"
    BY <1>6 DEF CallFields
  <2> QED
    BY <1>4, <1>5, <1>16, <2>1, <2>2 DEF post_revoke, Goto
<1>17. ASSUME NEW c \in Client,
              \/ MalformedBody(c) \/ post_key(c)
              \/ put_setting(c) \/ post_reset(c) \/ get_ledger_status(c) \/ Append_(c)
       PROVE  RowsAreHeld'
  <2>1. Done(c) /\ UNCHANGED <<ops, rowLock>>
    BY <1>17 DEF MalformedBody, post_key, put_setting, post_reset, get_ledger_status, Append_,
         tables
  <2> QED
    BY <1>5, <2>1
<1> QED
  BY <1>8, <1>9, <1>10, <1>11, <1>12, <1>13, <1>14, <1>15, <1>16, <1>17 DEF OpNext

LEMMA ArgsKept ==
    ASSUME OpInv, OpNext
    PROVE  LedgerArgsArePaired'
<1>1. CASE argvs' = argvs
  BY <1>1 DEF OpInv, LedgerArgsArePaired
<1>2. ASSUME NEW c \in Client, get_ledger_status(c) PROVE LedgerArgsArePaired'
  BY <1>2 DEF get_ledger_status, ledger_status_argv, LedgerArgsArePaired
<1>3. CASE \A c \in Client : ~get_ledger_status(c)
  <2>1. argvs' = argvs
    BY <1>3 DEF OpNext, Arrive, Shell, principal, authenticate, touch, MalformedBody,
       post_operator, add_operator, patch_operator, update_operator, Rollback, post_key,
       post_revoke, put_setting, post_reset, Append_, tables
  <2> QED
    BY <1>1, <2>1
<1> QED
  BY <1>2, <1>3

-----------------------------------------------------------------------------
(* Results.                                                                *)

LEMMA OpNextKeeps == OpInv /\ [OpNext]_opVars => OpInv'
<1> SUFFICES ASSUME OpInv, [OpNext]_opVars PROVE OpInv'
  OBVIOUS
<1>1. CASE OpNext
  <2>1. OpShape'
    BY <1>1, KeysKept, CallsKept DEF OpShape
  <2> QED
    BY <1>1, <2>1, KeysKept, CallsKept, RowsKept, ArgsKept DEF OpInv
<1>2. CASE UNCHANGED opVars
  BY <1>2 DEF opVars, OpInv, OpShape, CallsAreSound, Sound, RevokedOnce, Revoked, RowsAreHeld,
              RowIsOwn, LedgerArgsArePaired
<1> QED
  BY <1>1, <1>2

LEMMA OpInvariance == OpSpec => []OpInv
BY OpInitHolds, OpNextKeeps, PTL DEF OpSpec

\* With Postgres one call at most says that it revoked a key, and no request
\* that comes with a revoked key is admitted by it, whatever requests and
\* shells are under way between its check and its act; and no ledger-status
\* line holds one half of a pair of settings.
THEOREM StoreIsOne == OpSpec => []RequestsSeeOneStore
<1>1. OpInv => RequestsSeeOneStore
  BY DEF OpInv, RevokedOnce, CallsAreSound, Sound, RequestsSeeOneStore, RevocationHolds,
         RevocationStands
<1> QED
  BY <1>1, OpInvariance, PTL

\* An operator's field changes only in a step of a call that supplied it,
\* although an update writes the whole row it has read: no lost update.
THEOREM NoLostUpdate == OpSpec => OnlySuppliedFieldsChange
<1> DEFINE Supplied ==
      \A u \in DOMAIN ops, f \in {"role", "email", "active"} :
          ops'[u][f] # ops[u][f] =>
              \E c \in Client : /\ req'[c] # req[c] /\ req[c].op.name = "update"
                                /\ req[c].op.user = u /\ req[c].op[f] # None
<1>1. ASSUME OpInv, OpNext PROVE Supplied
  <2>0. RowsAreHeld /\ DOMAIN req = Client
    BY <1>1 DEF OpInv, OpShape
  <2>1. ASSUME NEW c \in Client, NEW u \in DOMAIN ops, NEW o, NEW op, NEW p,
               op = req[c].op, op.name = "update", op.user = u, req[c].pc = p, p # "idle",
               o = ops[u], ops' = [ops EXCEPT ![u] = Updated(o, op)], Done(c)
        PROVE  Supplied
    <3>1. req'[c] # req[c]
      BY <2>0, <2>1 DEF Done, Goto, IdleCall
    <3>2. /\ op.role = None => Updated(o, op)["role"] = o["role"]
          /\ op.email = None => Updated(o, op)["email"] = o["email"]
          /\ op.active = None => Updated(o, op)["active"] = o["active"]
      BY DEF Updated, None
    <3>3. /\ ops'[u] = Updated(o, op)
          /\ \A v \in DOMAIN ops \ {u} : ops'[v] = ops[v]
      BY <2>1
    <3>4. ASSUME NEW v \in DOMAIN ops, NEW f \in {"role", "email", "active"},
                 ops'[v][f] # ops[v][f]
          PROVE  v = u /\ op[f] # None
      <4>1. v = u
        BY <3>3, <3>4
      <4> QED
        BY <2>1, <3>2, <3>3, <3>4, <4>1
    <3> QED
      BY <2>1, <3>1, <3>4
  <2>2. ASSUME NEW c \in Client, patch_operator(c) PROVE Supplied
    <3>1. CASE ops' = ops
      BY <3>1
    <3>2. CASE ops' # ops
      <4>1. PICK u, op, o, p : /\ op = req[c].op /\ u = op.user /\ o = ops[u] /\ p = req[c].pc
        OBVIOUS
      <4>2. /\ op.name = "update" /\ u \in DOMAIN ops /\ p = "act" /\ Done(c)
            /\ ops' = [ops EXCEPT ![u] = Updated(o, op)]
        BY <2>2, <3>2, <4>1 DEF patch_operator
      <4> QED
        BY <2>1, <4>1, <4>2
    <3> QED
      BY <3>1, <3>2
  <2>3. ASSUME NEW c \in Client, update_operator(c) PROVE Supplied
    <3>1. PICK u, op, o, p : /\ op = req[c].op /\ u = op.user /\ o = ops[u] /\ p = req[c].pc
      OBVIOUS
    <3>2. /\ p = "row" /\ Done(c) /\ ops' = [ops EXCEPT ![u] = Updated(req[c].snap, op)]
      BY <2>3, <3>1 DEF update_operator
    <3>3. op.name = "update" /\ u \in DOMAIN ops /\ req[c].snap = o
      BY <2>0, <3>1, <3>2 DEF RowsAreHeld, RowIsOwn
    <3> QED
      BY <2>1, <3>1, <3>2, <3>3
  <2>4. CASE \A c \in Client : ~patch_operator(c) /\ ~update_operator(c)
    <3>1. \A u \in DOMAIN ops : ops'[u] = ops[u]
      BY <1>1, <2>4 DEF OpNext, Arrive, Shell, principal, authenticate, touch, MalformedBody,
         post_operator, create_operator, add_operator, Rollback, post_key, post_revoke,
         put_setting, post_reset, get_ledger_status, Append_, tables
    <3> QED
      BY <3>1
  <2> QED
    BY <2>2, <2>3, <2>4
<1>2. OpInv /\ [OpNext]_opVars => [Supplied]_opVars
  BY <1>1
<1> QED
  BY <1>2, OpInvariance, PTL DEF OpSpec, OnlySuppliedFieldsChange

==============================================================================
