------------------------- MODULE JsonlBackendProofs -------------------------
(***************************************************************************)
(* Proofs about JsonlBackend, for any number of writers, payloads, crashes *)
(* and damaged lines, and for every kind of short write.                   *)
(***************************************************************************)
EXTENDS JsonlAsLog, WellFoundedInduction, TLAPS

-----------------------------------------------------------------------------
(* The chain's own operators.                                              *)

\* What AuditLog's build closure makes of a tail is a well-formed entry: its
\* digest is the history of its prev_hash with one row added.
LEMMA BuildEntryFacts ==
    ASSUME NEW seq \in Nat, NEW prev \in Digest, NEW p \in Payload
    PROVE  LET e == BuildEntry(seq, prev, p, Fingerprint)
           IN  /\ e \in Entry
               /\ e.header.seq = seq
               /\ Len(e.entry_hash) = Len(prev) + 1
               /\ \A k \in 1 .. Len(prev) : e.entry_hash[k] = prev[k]
<1> DEFINE h == [seq |-> seq, payload_hash |-> compute_payload_hash(p),
                 hash_version |-> Fingerprint, prev_hash |-> prev]
           c == [seq |-> seq, payload_hash |-> compute_payload_hash(p),
                 hash_version |-> Fingerprint]
<1>1. c \in Content /\ h \in Header
  BY JsonlAssumption DEF Content, Header, PayloadHash
<1>2. compute_entry_hash(h) = Append(prev, c)
  BY DEF compute_entry_hash
<1>3. /\ Append(prev, c) \in Digest
      /\ Len(Append(prev, c)) = Len(prev) + 1
      /\ \A k \in 1 .. Len(prev) : Append(prev, c)[k] = prev[k]
  BY <1>1 DEF Digest
<1>4. h.seq = seq
  OBVIOUS
<1> HIDE DEF h, c
<1> DEFINE e == BuildEntry(seq, prev, p, Fingerprint)
<1>5. e = [header |-> h, entry_hash |-> compute_entry_hash(h), payload |-> p]
  BY DEF BuildEntry, h
<1>6. /\ e \in Entry
      /\ e.header = h
      /\ e.entry_hash = Append(prev, c)
  BY <1>1, <1>2, <1>3, <1>5 DEF Entry
<1> HIDE DEF e
<1>7. /\ e \in Entry
      /\ e.header.seq = seq
      /\ Len(e.entry_hash) = Len(prev) + 1
      /\ \A k \in 1 .. Len(prev) : e.entry_hash[k] = prev[k]
  BY <1>3, <1>4, <1>6
<1> QED
  BY <1>7 DEF e

-----------------------------------------------------------------------------
(* The file.                                                               *)

FileInv == SeqIsPosition /\ NoFork

\* A line that stops parsing, whichever one, keeps the file well formed.
LEMMA LoseLine ==
    ASSUME rows \in Seq(Entry \cup {Unparseable}), FileInv,
           NEW i \in 1 .. Len(rows),
           rows' = [rows EXCEPT ![i] = Unparseable]
    PROVE  rows' \in Seq(Entry \cup {Unparseable}) /\ FileInv'
<1>1. /\ rows' \in Seq(Entry \cup {Unparseable})
      /\ Len(rows') = Len(rows)
  OBVIOUS
<1>2. \A j \in 1 .. Len(rows') : rows'[j] = rows[j] \/ rows'[j] = Unparseable
  BY <1>1
<1>3. \A j \in 1 .. Len(rows') : Readable(j)' => Readable(j) /\ rows'[j] = rows[j]
  BY <1>1, <1>2 DEF Readable
<1>4. SeqIsPosition'
  BY <1>1, <1>3 DEF SeqIsPosition, FileInv
<1>5. NoFork'
  BY <1>1, <1>3 DEF NoFork, FileInv
<1> QED
  BY <1>1, <1>4, <1>5 DEF FileInv

\* A new line keeps the file well formed if it does not parse, or if its
\* entry was built on the tail of this very file.
LEMMA AddLine ==
    ASSUME rows \in Seq(Entry \cup {Unparseable}), FileInv,
           NEW line \in Entry \cup {Unparseable},
           rows' = Append(rows, line),
           line # Unparseable =>
               /\ line.header.seq = Len(rows)
               /\ Len(line.entry_hash) = Len(rows) + 1
               /\ rows # << >> =>
                    /\ Readable(Len(rows))
                    /\ \A k \in 1 .. Len(rows) :
                          line.entry_hash[k] = rows[Len(rows)].entry_hash[k]
    PROVE  rows' \in Seq(Entry \cup {Unparseable}) /\ FileInv'
<1>1. /\ rows' \in Seq(Entry \cup {Unparseable})
      /\ Len(rows') = Len(rows) + 1
      /\ \A j \in 1 .. Len(rows) : rows'[j] = rows[j]
      /\ rows'[Len(rows) + 1] = line
      /\ Len(rows) \in Nat
  OBVIOUS
<1>2. \A j \in 1 .. Len(rows) : Readable(j)' => Readable(j)
  BY <1>1 DEF Readable
<1>3. SeqIsPosition'
  BY <1>1, <1>2 DEF SeqIsPosition, Readable, FileInv
<1>4. NoFork'
  <2> SUFFICES ASSUME NEW i \in 1 .. Len(rows'), NEW j \in 1 .. Len(rows'),
                      Readable(i)', Readable(j)', i <= j
               PROVE  /\ Len(rows'[i].entry_hash) = i
                      /\ \A k \in 1 .. i :
                            rows'[i].entry_hash[k] = rows'[j].entry_hash[k]
    BY DEF NoFork
  <2>1. CASE j \in 1 .. Len(rows)
    BY <2>1, <1>1, <1>2 DEF NoFork, FileInv
  <2>2. CASE i = Len(rows) + 1
    BY <2>2, <1>1 DEF Readable
  <2>3. CASE i \in 1 .. Len(rows) /\ j = Len(rows) + 1
    <3>1. rows'[j] = line /\ line # Unparseable
      BY <2>3, <1>1 DEF Readable
    <3>2. Readable(i) /\ Readable(Len(rows)) /\ Len(rows) \in 1 .. Len(rows)
      BY <3>1, <2>3, <1>1, <1>2
    <3>3. /\ Len(rows[i].entry_hash) = i
          /\ \A k \in 1 .. i :
                rows[i].entry_hash[k] = rows[Len(rows)].entry_hash[k]
      BY <3>2, <2>3 DEF NoFork, FileInv
    <3>4. \A k \in 1 .. i :
             line.entry_hash[k] = rows[Len(rows)].entry_hash[k]
      BY <3>1, <3>2, <2>3, <1>1
    <3> QED
      BY <3>1, <3>3, <3>4, <2>3, <1>1
  <2> QED
    BY <2>1, <2>2, <2>3, <1>1
<1> QED
  BY <1>1, <1>3, <1>4 DEF FileInv

\* WriteBytes in any of its kinds, under the lock, keeps the file well
\* formed: this is where the tail read earlier must still be the tail.
LEMMA WriteBytesKeepsFile ==
    ASSUME NoForkInv, NEW w \in Writer, pc[w] = "write",
           NEW kind \in ShortWriteKind \cup {"all"}, WriteBytes(w, kind)
    PROVE  /\ rows' \in Seq(Entry \cup {Unparseable})
           /\ unterminated' \in BOOLEAN
           /\ FileInv'
<1>1. /\ rows \in Seq(Entry \cup {Unparseable})
      /\ unterminated \in BOOLEAN
      /\ FileInv
      /\ tail[w] \in TailFields
      /\ call[w] \in Payload
  BY DEF NoForkInv, TypeOK, FileInv, CallPending
<1>2. CASE kind = "nothing"
  <2>1. rows' = rows /\ unterminated' = unterminated
    BY <1>2 DEF WriteBytes, file
  <2> QED
    BY <2>1, <1>1 DEF FileInv, SeqIsPosition, NoFork, Readable
<1>3. CASE kind # "nothing"
  <2>1. /\ unterminated' = (kind # "all")
        /\ rows' = IF unterminated
                     THEN [rows EXCEPT ![Len(rows)] = Unparseable]
                     ELSE Append(rows, IF kind = "torn" THEN Unparseable
                                                        ELSE Built(w))
    BY <1>3 DEF WriteBytes
  <2>2. CASE unterminated /\ rows = << >>
    <3>1. rows' = rows
      BY <2>1, <2>2
    <3> QED
      BY <3>1, <2>1, <1>1 DEF FileInv, SeqIsPosition, NoFork, Readable
  <2>3. CASE unterminated /\ rows # << >>
    <3>1. Len(rows) \in 1 .. Len(rows)
      BY <2>3, <1>1
    <3>2. rows' = [rows EXCEPT ![Len(rows)] = Unparseable]
      BY <2>1, <2>3
    <3> QED
      BY <3>1, <3>2, <2>1, <1>1, LoseLine
  <2>4. CASE ~unterminated
    <3> DEFINE line == IF kind = "torn" THEN Unparseable ELSE Built(w)
    <3>1. tail[w].seq \in Nat /\ tail[w].prev \in Digest
      BY <1>1 DEF TailFields
    <3>2. /\ Built(w) \in Entry
          /\ Built(w).header.seq = tail[w].seq
          /\ Len(Built(w).entry_hash) = Len(tail[w].prev) + 1
          /\ \A k \in 1 .. Len(tail[w].prev) :
                Built(w).entry_hash[k] = tail[w].prev[k]
      BY <3>1, <1>1, BuildEntryFacts DEF Built
    <3>3. /\ tail[w].seq = Len(rows)
          /\ rows = << >> => tail[w].prev = << >>
          /\ rows # << >> => /\ Readable(Len(rows))
                            /\ tail[w].prev = rows[Len(rows)].entry_hash
      BY DEF NoForkInv, TailIsFresh, GENESIS_PREV_HASH
    <3>4. Len(tail[w].prev) = Len(rows)
      <4>1. CASE rows = << >>
        BY <4>1, <3>3
      <4>2. CASE rows # << >>
        BY <4>2, <3>3, <1>1 DEF FileInv, NoFork
      <4> QED
        BY <4>1, <4>2
    <3>5. line # Unparseable =>
            /\ line.header.seq = Len(rows)
            /\ Len(line.entry_hash) = Len(rows) + 1
            /\ rows # << >> =>
                 /\ Readable(Len(rows))
                 /\ \A k \in 1 .. Len(rows) :
                       line.entry_hash[k] = rows[Len(rows)].entry_hash[k]
      BY <3>2, <3>3, <3>4
    <3>6. line \in Entry \cup {Unparseable} /\ rows' = Append(rows, line)
      BY <3>2, <2>1, <2>4
    <3> HIDE DEF line
    <3> QED
      BY <3>5, <3>6, <2>1, <1>1, AddLine
  <2> QED
    BY <2>2, <2>3, <2>4
<1> QED
  BY <1>2, <1>3

-----------------------------------------------------------------------------
(* The invariant.                                                          *)

LEMMA InitEstablishesNoForkInv == Init => NoForkInv
<1> SUFFICES ASSUME Init PROVE NoForkInv
  OBVIOUS
<1>0. EmptyTail \in TailFields
  BY DEF EmptyTail, TailFields, GENESIS_PREV_HASH, Digest
<1>r. rows \in Seq(Entry \cup {Unparseable})
  BY DEF Init
<1>w. /\ pc \in [Writer -> {"idle", "waiting", "locked", "scan", "write"}]
      /\ call \in [Writer -> Payload \cup {NoCall}]
      /\ tail \in [Writer -> TailFields]
      /\ cleared \in [Writer -> SUBSET Nat]
  BY <1>0 DEF Init
<1>b. /\ unterminated \in BOOLEAN
      /\ lock \in Writer \cup {NoWriter}
      /\ returned \in SUBSET Payload
      /\ raised \in SUBSET Payload
      /\ damaged \in SUBSET Nat
  BY Zenon DEF Init
<1>c. crashes \in 0 .. MaxCrashes
  BY JsonlAssumption DEF Init
<1>1. TypeOK
  BY <1>r, <1>w, <1>b, <1>c DEF TypeOK
<1>2. rows = << >> /\ \A w \in Writer : pc[w] = "idle"
  BY DEF Init
<1>3. LockHeld /\ CallPending /\ TailIsFresh
  BY <1>2 DEF LockHeld, CallPending, TailIsFresh
<1>4. SeqIsPosition /\ NoFork
  BY <1>2 DEF SeqIsPosition, NoFork
<1> QED
  BY <1>1, <1>3, <1>4 DEF NoForkInv

\* A step that leaves the file alone: what is left is about each writer.
LEMMA FileUnchanged ==
    ASSUME NoForkInv, UNCHANGED file
    PROVE  /\ rows' \in Seq(Entry \cup {Unparseable})
           /\ unterminated' \in BOOLEAN
           /\ FileInv'
BY DEF NoForkInv, TypeOK, file, FileInv, SeqIsPosition, NoFork, Readable

\* Ending a call, with the lock passed on, leaves no obligation for w.
LEMMA CallEnded ==
    ASSUME NoForkInv, NEW w \in Writer, EndCall(w),
           lock' \in {NoWriter, lock}, lock' = NoWriter => lock \in {w, NoWriter},
           lock' # lock \/ UNCHANGED file \/ lock # w,
           lock = w \/ UNCHANGED file,
           rows' \in Seq(Entry \cup {Unparseable}), unterminated' \in BOOLEAN,
           FileInv', cleared' \in [Writer -> SUBSET Nat], returned' \in SUBSET Payload,
           raised' \in SUBSET Payload, crashes' \in 0 .. MaxCrashes,
           damaged' \in SUBSET Nat
    PROVE  NoForkInv'
<1>1. /\ pc' = [pc EXCEPT ![w] = "idle"]
      /\ call' = [call EXCEPT ![w] = NoCall]
      /\ tail' = [tail EXCEPT ![w] = EmptyTail]
  BY DEF EndCall
<1>2. /\ pc \in [Writer -> {"idle", "waiting", "locked", "scan", "write"}]
      /\ call \in [Writer -> Payload \cup {NoCall}]
      /\ tail \in [Writer -> TailFields]
      /\ lock \in Writer \cup {NoWriter}
      /\ EmptyTail \in TailFields
  BY DEF NoForkInv, TypeOK, EmptyTail, TailFields, GENESIS_PREV_HASH, Digest
<1>3. TypeOK'
  BY <1>1, <1>2 DEF TypeOK
<1>4. \A u \in Writer : u # w => /\ pc'[u] = pc[u]
                                /\ call'[u] = call[u]
                                /\ tail'[u] = tail[u]
  BY <1>1, <1>2
<1>5. pc'[w] = "idle"
  BY <1>1, <1>2
<1>6. LockHeld'
  BY <1>4, <1>5, JsonlAssumption DEF LockHeld, NoForkInv
<1>7. CallPending'
  BY <1>4, <1>5 DEF CallPending, NoForkInv
<1>8. TailIsFresh'
  <2>1. SUFFICES ASSUME NEW u \in Writer, pc'[u] \in {"scan", "write"}
        PROVE UNCHANGED file
    BY <1>4, <1>5 DEF TailIsFresh, NoForkInv, file, Readable
  <2>2. u # w /\ lock = u
    BY <2>1, <1>4, <1>5 DEF LockHeld, NoForkInv
  <2> QED
    BY <2>2
<1> QED
  BY <1>3, <1>6, <1>7, <1>8 DEF NoForkInv, FileInv

LEMMA NextPreservesNoForkInv == NoForkInv /\ [Next]_vars => NoForkInv'
<1> SUFFICES ASSUME NoForkInv, [Next]_vars PROVE NoForkInv'
  OBVIOUS
<1> USE JsonlAssumption
<1>t. TypeOK /\ FileInv
  BY DEF NoForkInv, FileInv
<1>1. CASE UNCHANGED vars
  BY <1>1 DEF vars, NoForkInv, TypeOK, LockHeld, CallPending, SeqIsPosition,
              TailIsFresh, NoFork, Readable
<1>2. ASSUME NEW w \in Writer, NEW p \in Payload, Call(w, p)
      PROVE  NoForkInv'
  <2>1. UNCHANGED file /\ FileInv'
    BY <1>2, FileUnchanged DEF Call
  <2>2. TypeOK'
    BY <1>2, <1>t DEF Call, TypeOK, file
  <2>3. LockHeld' /\ CallPending' /\ TailIsFresh'
    BY <1>2, <1>t, <2>1 DEF Call, TypeOK, NoForkInv, LockHeld, CallPending,
                            TailIsFresh, Readable, file
  <2> QED
    BY <2>1, <2>2, <2>3 DEF NoForkInv, FileInv
<1>3. ASSUME NEW w \in Writer, AcquireFileLock(w)
      PROVE  NoForkInv'
  <2>1. UNCHANGED file /\ FileInv'
    BY <1>3, FileUnchanged DEF AcquireFileLock
  <2>2. TypeOK'
    BY <1>3, <1>t DEF AcquireFileLock, LockFree, TypeOK, file
  <2>3. LockHeld' /\ CallPending' /\ TailIsFresh'
    BY <1>3, <1>t, <2>1 DEF AcquireFileLock, LockFree, TypeOK, NoForkInv, LockHeld,
                            CallPending, TailIsFresh, Readable, file
  <2> QED
    BY <2>1, <2>2, <2>3 DEF NoForkInv, FileInv
<1>4. ASSUME NEW w \in Writer, ReadTail(w)
      PROVE  NoForkInv'
  <2>1. UNCHANGED file /\ FileInv'
    BY <1>4, FileUnchanged DEF ReadTail
  <2> DEFINE t == IF rows = << >> THEN EmptyTail ELSE tail_fields(rows[Len(rows)])
  <2>2. /\ t \in TailFields
        /\ t.seq = Len(rows)
        /\ rows = << >> => t.prev = GENESIS_PREV_HASH
        /\ rows # << >> => /\ Readable(Len(rows))
                          /\ t.prev = rows[Len(rows)].entry_hash
    <3>1. CASE rows = << >>
      BY <3>1 DEF EmptyTail, TailFields, GENESIS_PREV_HASH, Digest
    <3>2. CASE rows # << >>
      <4>1. Readable(Len(rows)) /\ Len(rows) \in 1 .. Len(rows)
        BY <3>2, <1>4, <1>t DEF ReadTail, TypeOK
      <4>2. rows[Len(rows)] \in Entry
        BY <4>1, <1>t DEF TypeOK, Readable
      <4>3. /\ rows[Len(rows)].header.seq = Len(rows) - 1
            /\ rows[Len(rows)].entry_hash \in Digest
        BY <4>1, <4>2, <1>t DEF FileInv, SeqIsPosition, Entry
      <4> QED
        BY <3>2, <4>1, <4>3 DEF TailFields, tail_fields
    <3> QED
      BY <3>1, <3>2
  <2>3. /\ tail' = [tail EXCEPT ![w] = t]
        /\ \E q \in {"scan", "write"} : pc' = [pc EXCEPT ![w] = q]
        /\ pc[w] = "locked"
        /\ UNCHANGED <<file, lock, call, cleared, returned, raised, crashes,
                       damaged>>
    BY <1>4 DEF ReadTail
  <2> HIDE DEF t
  <2>4. TypeOK'
    BY <2>2, <2>3, <1>t DEF TypeOK, file
  <2>5. LockHeld' /\ CallPending'
    BY <2>3, <1>t DEF TypeOK, NoForkInv, LockHeld, CallPending
  <2>6. TailIsFresh'
    BY <2>1, <2>2, <2>3, <1>t DEF TypeOK, NoForkInv, TailIsFresh, Readable, file
  <2> QED
    BY <2>1, <2>4, <2>5, <2>6 DEF NoForkInv, FileInv
<1>5. ASSUME NEW w \in Writer, ReadTailRaises(w)
      PROVE  NoForkInv'
  <2>1. /\ UNCHANGED file /\ rows' \in Seq(Entry \cup {Unparseable})
        /\ unterminated' \in BOOLEAN /\ FileInv'
    BY <1>5, FileUnchanged DEF ReadTailRaises
  <2>2. lock = w /\ lock' = NoWriter /\ call[w] \in Payload
    BY <1>5 DEF ReadTailRaises, ReleaseFileLock, NoForkInv, LockHeld, CallPending
  <2> QED
    BY <1>5, <1>t, <2>1, <2>2, CallEnded DEF ReadTailRaises, TypeOK
<1>6. ASSUME NEW w \in Writer, IntegrityScan(w)
      PROVE  NoForkInv'
  <2>1. UNCHANGED file /\ FileInv'
    BY <1>6, FileUnchanged DEF IntegrityScan
  <2>2. cleared' \in [Writer -> SUBSET Nat]
    BY <1>6, <1>t DEF IntegrityScan, TypeOK, ScanFrom
  <2>3. TypeOK'
    BY <1>6, <1>t, <2>2 DEF IntegrityScan, TypeOK, file
  <2>4. LockHeld' /\ CallPending' /\ TailIsFresh'
    BY <1>6, <1>t, <2>1 DEF IntegrityScan, TypeOK, NoForkInv, LockHeld,
                            CallPending, TailIsFresh, Readable, file
  <2> QED
    BY <2>1, <2>3, <2>4 DEF NoForkInv, FileInv
<1>7. ASSUME NEW w \in Writer, ScanRaises(w)
      PROVE  NoForkInv'
  <2>1. /\ UNCHANGED file /\ rows' \in Seq(Entry \cup {Unparseable})
        /\ unterminated' \in BOOLEAN /\ FileInv'
    BY <1>7, FileUnchanged DEF ScanRaises
  <2>2. lock = w /\ lock' = NoWriter /\ call[w] \in Payload
    BY <1>7 DEF ScanRaises, ReleaseFileLock, NoForkInv, LockHeld, CallPending
  <2> QED
    BY <1>7, <1>t, <2>1, <2>2, CallEnded DEF ScanRaises, TypeOK
<1>8. ASSUME NEW w \in Writer, WriteLine(w)
      PROVE  NoForkInv'
  <2>1. /\ rows' \in Seq(Entry \cup {Unparseable})
        /\ unterminated' \in BOOLEAN /\ FileInv'
    BY <1>8, WriteBytesKeepsFile DEF WriteLine
  <2>2. lock = w /\ lock' = NoWriter /\ call[w] \in Payload
    BY <1>8 DEF WriteLine, ReleaseFileLock, NoForkInv, LockHeld, CallPending
  <2> QED
    BY <1>8, <1>t, <2>1, <2>2, CallEnded DEF WriteLine, TypeOK
<1>9. ASSUME NEW w \in Writer, WriteRaises(w)
      PROVE  NoForkInv'
  <2>1. PICK kind \in ShortWrites : WriteBytes(w, kind)
    BY <1>9 DEF WriteRaises
  <2>2. /\ rows' \in Seq(Entry \cup {Unparseable})
        /\ unterminated' \in BOOLEAN /\ FileInv'
    BY <1>9, <2>1, WriteBytesKeepsFile DEF WriteRaises
  <2>3. lock = w /\ lock' = NoWriter /\ call[w] \in Payload
    BY <1>9 DEF WriteRaises, ReleaseFileLock, NoForkInv, LockHeld, CallPending
  <2> QED
    BY <1>9, <1>t, <2>2, <2>3, CallEnded DEF WriteRaises, TypeOK
<1>10. ASSUME NEW w \in Writer, Crash(w)
       PROVE  NoForkInv'
  <2>1. /\ rows' \in Seq(Entry \cup {Unparseable})
        /\ unterminated' \in BOOLEAN /\ FileInv'
    <3>1. CASE pc[w] = "write"
      <4>1. PICK kind \in ShortWrites \cup {"nothing", "all"} : WriteBytes(w, kind)
        BY <1>10, <3>1 DEF Crash
      <4>2. kind \in ShortWriteKind \cup {"all"}
        BY DEF ShortWriteKind
      <4> QED
        BY <3>1, <4>1, <4>2, WriteBytesKeepsFile
    <3>2. CASE pc[w] # "write"
      BY <1>10, <3>2, FileUnchanged DEF Crash
    <3> QED
      BY <3>1, <3>2
  <2>2. lock = w \/ UNCHANGED file
    BY <1>10 DEF Crash, NoForkInv, LockHeld
  <2>3. /\ lock' \in {NoWriter, lock}
        /\ lock' = NoWriter => lock \in {w, NoWriter}
        /\ lock' # lock \/ UNCHANGED file \/ lock # w
    BY <1>10, <2>2 DEF Crash
  <2>4. crashes' \in 0 .. MaxCrashes /\ cleared' \in [Writer -> SUBSET Nat]
    BY <1>10, <1>t DEF Crash, TypeOK
  <2> QED
    BY <1>10, <1>t, <2>1, <2>2, <2>3, <2>4, CallEnded DEF Crash, TypeOK
<1>11. ASSUME NEW i \in 1 .. Len(rows), Damage(i)
       PROVE  NoForkInv'
  <2>1. rows' \in Seq(Entry \cup {Unparseable}) /\ FileInv'
    BY <1>11, <1>t, LoseLine DEF Damage, TypeOK
  <2>2. TypeOK'
    BY <1>11, <1>t, <2>1 DEF Damage, TypeOK
  <2>3. LockHeld' /\ CallPending'
    BY <1>11 DEF Damage, NoForkInv, LockHeld, CallPending
  <2>4. /\ Len(rows') = Len(rows)
        /\ rows # << >> /\ rows' # << >>
        /\ rows'[Len(rows)] = rows[Len(rows)]
    <3>1. i # Len(rows) /\ Len(rows) \in 1 .. Len(rows)
      BY <1>11, <1>t DEF Damage, TypeOK
    <3>2. rows' = [rows EXCEPT ![i] = Unparseable]
      BY <1>11 DEF Damage
    <3> QED
      BY <3>1, <3>2, <1>t DEF TypeOK
  <2>5. TailIsFresh'
    <3> SUFFICES ASSUME NEW w \in Writer, pc'[w] \in {"scan", "write"}
                 PROVE  /\ tail'[w].seq = Len(rows')
                        /\ Readable(Len(rows))'
                        /\ tail'[w].prev = rows'[Len(rows')].entry_hash
      BY <2>4 DEF TailIsFresh
    <3> QED
      BY <1>11, <2>4 DEF Damage, NoForkInv, TailIsFresh, Readable
  <2> QED
    BY <2>1, <2>2, <2>3, <2>5 DEF NoForkInv, FileInv
<1> QED
  BY <1>1, <1>2, <1>3, <1>4, <1>5, <1>6, <1>7, <1>8, <1>9, <1>10, <1>11
     DEF Next, Append_

\* Type correctness of the JSONL backend's state.
THEOREM TypeCorrect == Spec => []TypeOK
<1>1. NoForkInv => TypeOK
  BY DEF NoForkInv
<1> QED
  BY <1>1, InitEstablishesNoForkInv, NextPreservesNoForkInv, PTL DEF Spec

\* Concurrent appends never fork the chain, whatever the number of writers
\* and however often they crash, run out of disk or find lines damaged.
THEOREM ChainNeverForks == Spec => []NoFork
<1>1. NoForkInv => NoFork
  BY DEF NoForkInv
<1> QED
  BY <1>1, InitEstablishesNoForkInv, NextPreservesNoForkInv, PTL DEF Spec

-----------------------------------------------------------------------------
(* What writers leave on the file.                                         *)

\* A line the scan may clear: nobody can extend it any more.
Settled(i) ==
    /\ i \in 1 .. Len(rows)
    /\ \/ i \in damaged
       \/ Readable(i) /\ ~(i = Len(rows) /\ unterminated)

ClearedIsSettled == \A w \in Writer : \A i \in cleared[w] : Settled(i)

\* A readable line is what the build closure made of the line before it, if
\* that one can still be read, or of the empty file.
RowsAreBuilt ==
    \A i \in 1 .. Len(rows) : Readable(i) =>
        /\ rows[i] = BuildEntry(i - 1, rows[i].header.prev_hash, rows[i].payload,
                                Fingerprint)
        /\ i = 1 => rows[i].header.prev_hash = GENESIS_PREV_HASH
        /\ i > 1 /\ Readable(i - 1) =>
              rows[i].header.prev_hash = rows[i - 1].entry_hash

FileKeptInv == RowsAreBuilt /\ ClearedIsSettled

\* Losing a line leaves every other line built as it was.
LEMMA LoseLineKeepsRows ==
    ASSUME rows \in Seq(Entry \cup {Unparseable}), RowsAreBuilt,
           NEW i \in 1 .. Len(rows),
           rows' = [rows EXCEPT ![i] = Unparseable]
    PROVE  RowsAreBuilt'
<1>1. /\ Len(rows') = Len(rows)
      /\ \A j \in 1 .. Len(rows) : rows'[j] = rows[j] \/ rows'[j] = Unparseable
  OBVIOUS
<1>2. \A j \in Int : Readable(j)' => Readable(j) /\ rows'[j] = rows[j]
  BY <1>1 DEF Readable
<1> SUFFICES ASSUME NEW j \in 1 .. Len(rows'), Readable(j)'
             PROVE  /\ rows'[j] = BuildEntry(j - 1, rows'[j].header.prev_hash,
                                             rows'[j].payload, Fingerprint)
                    /\ j = 1 => rows'[j].header.prev_hash = GENESIS_PREV_HASH
                    /\ j > 1 /\ Readable(j - 1)' =>
                          rows'[j].header.prev_hash = rows'[j - 1].entry_hash
  BY DEF RowsAreBuilt
<1>3. Readable(j) /\ rows'[j] = rows[j] /\ j \in 1 .. Len(rows)
  BY <1>1, <1>2
<1>4. Readable(j - 1)' => Readable(j - 1) /\ rows'[j - 1] = rows[j - 1]
  BY <1>1, <1>2
<1> QED
  BY <1>3, <1>4 DEF RowsAreBuilt

\* A line built on the tail is built on the line before it.
LEMMA AddLineKeepsRows ==
    ASSUME rows \in Seq(Entry \cup {Unparseable}), RowsAreBuilt,
           NEW line \in Entry \cup {Unparseable},
           rows' = Append(rows, line),
           line # Unparseable =>
               /\ line = BuildEntry(Len(rows), line.header.prev_hash, line.payload,
                                    Fingerprint)
               /\ rows = << >> => line.header.prev_hash = GENESIS_PREV_HASH
               /\ rows # << >> => line.header.prev_hash = rows[Len(rows)].entry_hash
    PROVE  RowsAreBuilt'
<1>1. /\ Len(rows') = Len(rows) + 1
      /\ \A j \in 1 .. Len(rows) : rows'[j] = rows[j]
      /\ rows'[Len(rows) + 1] = line
      /\ Len(rows) \in Nat
      /\ Len(rows) = 0 <=> rows = << >>
  OBVIOUS
<1> SUFFICES ASSUME NEW j \in 1 .. Len(rows'), Readable(j)'
             PROVE  /\ rows'[j] = BuildEntry(j - 1, rows'[j].header.prev_hash,
                                             rows'[j].payload, Fingerprint)
                    /\ j = 1 => rows'[j].header.prev_hash = GENESIS_PREV_HASH
                    /\ j > 1 /\ Readable(j - 1)' =>
                          rows'[j].header.prev_hash = rows'[j - 1].entry_hash
  BY DEF RowsAreBuilt
<1>2. CASE j \in 1 .. Len(rows)
  <2>1. Readable(j) /\ rows'[j] = rows[j]
    BY <1>1, <1>2 DEF Readable
  <2>2. Readable(j - 1)' => Readable(j - 1) /\ rows'[j - 1] = rows[j - 1]
    BY <1>1, <1>2 DEF Readable
  <2> QED
    BY <1>2, <2>1, <2>2 DEF RowsAreBuilt
<1>3. CASE j = Len(rows) + 1
  <2>1. rows'[j] = line /\ line # Unparseable /\ j - 1 = Len(rows)
    BY <1>1, <1>3 DEF Readable
  <2>2. j > 1 => rows # << >> /\ rows'[j - 1] = rows[Len(rows)]
    BY <1>1, <1>3
  <2>3. j = 1 => rows = << >>
    BY <1>1, <1>3
  <2> QED
    BY <2>1, <2>2, <2>3
<1> QED
  BY <1>1, <1>2, <1>3

\* The entry an append builds, field by field.
LEMMA BuiltFields ==
    ASSUME NoForkInv, NEW w \in Writer, pc[w] = "write"
    PROVE  /\ Built(w) \in Entry
           /\ Built(w) = BuildEntry(Len(rows), Built(w).header.prev_hash,
                                    Built(w).payload, Fingerprint)
           /\ rows = << >> => Built(w).header.prev_hash = GENESIS_PREV_HASH
           /\ rows # << >> => Built(w).header.prev_hash = rows[Len(rows)].entry_hash
<1>1. /\ tail[w] \in TailFields
      /\ call[w] \in Payload
      /\ tail[w].seq = Len(rows)
      /\ rows = << >> => tail[w].prev = GENESIS_PREV_HASH
      /\ rows # << >> => tail[w].prev = rows[Len(rows)].entry_hash
  BY DEF NoForkInv, TypeOK, CallPending, TailIsFresh
<1>2. tail[w].seq \in Nat /\ tail[w].prev \in Digest
  BY <1>1 DEF TailFields
<1>3. Built(w) \in Entry
  BY <1>1, <1>2, BuildEntryFacts DEF Built
<1>4. Built(w).header.prev_hash = tail[w].prev /\ Built(w).payload = call[w]
  BY DEF Built, BuildEntry
<1>5. Built(w) = BuildEntry(Len(rows), Built(w).header.prev_hash,
                            Built(w).payload, Fingerprint)
  BY <1>1, <1>4 DEF Built
<1> QED
  BY <1>1, <1>3, <1>4, <1>5

\* WriteBytes in any of its kinds leaves built rows and takes no settled line
\* back: bytes go behind the last newline, or onto a line without one.
LEMMA WriteBytesKeepsRows ==
    ASSUME NoForkInv, RowsAreBuilt, NEW w \in Writer, pc[w] = "write",
           NEW kind, WriteBytes(w, kind), damaged' = damaged
    PROVE  RowsAreBuilt' /\ \A i \in Nat : Settled(i) => Settled(i)'
<1>1. rows \in Seq(Entry \cup {Unparseable}) /\ unterminated \in BOOLEAN
  BY DEF NoForkInv, TypeOK
<1>2. CASE kind = "nothing"
  <2>1. rows' = rows /\ unterminated' = unterminated
    BY <1>2 DEF WriteBytes, file
  <2> QED
    BY <2>1 DEF RowsAreBuilt, Readable, Settled
<1>3. CASE kind # "nothing"
  <2>1. rows' = IF unterminated
                  THEN [rows EXCEPT ![Len(rows)] = Unparseable]
                  ELSE Append(rows, IF kind = "torn" THEN Unparseable
                                                     ELSE Built(w))
    BY <1>3 DEF WriteBytes
  <2>2. CASE unterminated /\ rows = << >>
    <3>1. rows' = rows
      BY <2>1, <2>2
    <3>2. Len(rows) = 0
      BY <2>2
    <3> QED
      BY <3>1, <3>2 DEF RowsAreBuilt, Readable, Settled
  <2>3. CASE unterminated /\ rows # << >>
    <3>1. Len(rows) \in 1 .. Len(rows)
      BY <2>3, <1>1
    <3>2. rows' = [rows EXCEPT ![Len(rows)] = Unparseable]
      BY <2>1, <2>3
    <3>3. RowsAreBuilt'
      BY <3>1, <3>2, <1>1, LoseLineKeepsRows
    <3>4. /\ Len(rows') = Len(rows)
          /\ \A j \in 1 .. Len(rows) : j # Len(rows) => rows'[j] = rows[j]
      BY <3>1, <3>2, <1>1
    <3>5. \A i \in Nat : Settled(i) => Settled(i)'
      BY <3>4, <2>3 DEF Settled, Readable
    <3> QED
      BY <3>3, <3>5
  <2>4. CASE ~unterminated
    <3> DEFINE line == IF kind = "torn" THEN Unparseable ELSE Built(w)
    <3>1. line # Unparseable =>
             /\ line = BuildEntry(Len(rows), line.header.prev_hash, line.payload,
                                  Fingerprint)
             /\ rows = << >> => line.header.prev_hash = GENESIS_PREV_HASH
             /\ rows # << >> => line.header.prev_hash = rows[Len(rows)].entry_hash
      BY BuiltFields
    <3>2. line \in Entry \cup {Unparseable} /\ rows' = Append(rows, line)
      BY <2>1, <2>4, BuiltFields
    <3> HIDE DEF line
    <3>3. RowsAreBuilt'
      BY <3>1, <3>2, <1>1, AddLineKeepsRows
    <3>4. /\ Len(rows') = Len(rows) + 1
          /\ \A j \in 1 .. Len(rows) : rows'[j] = rows[j]
          /\ Len(rows) \in Nat
      BY <3>2, <1>1
    <3>5. \A i \in Nat : Settled(i) => Settled(i)'
      BY <3>4 DEF Settled, Readable
    <3> QED
      BY <3>3, <3>5
  <2> QED
    BY <2>2, <2>3, <2>4, <1>1
<1> QED
  BY <1>2, <1>3

\* Every step keeps the rows built and the settled lines settled.
LEMMA StepsKeepRows ==
    ASSUME NoForkInv, RowsAreBuilt, [Next]_vars
    PROVE  RowsAreBuilt' /\ \A i \in Nat : Settled(i) => Settled(i)'
<1>1. ASSUME rows' = rows, unterminated' = unterminated, damaged' = damaged
      PROVE  RowsAreBuilt' /\ \A i \in Nat : Settled(i) => Settled(i)'
  BY <1>1 DEF RowsAreBuilt, Readable, Settled
<1>2. CASE UNCHANGED vars
  BY <1>1, <1>2 DEF vars
<1>3. ASSUME NEW w \in Writer,
             (\E p \in Payload : Call(w, p)) \/ AcquireFileLock(w) \/ ReadTail(w)
                \/ ReadTailRaises(w) \/ IntegrityScan(w) \/ ScanRaises(w)
      PROVE  rows' = rows /\ unterminated' = unterminated /\ damaged' = damaged
  BY <1>3 DEF Call, AcquireFileLock, ReadTail, ReadTailRaises, IntegrityScan,
              ScanRaises, file
<1>4. ASSUME NEW w \in Writer, WriteLine(w)
      PROVE  RowsAreBuilt' /\ \A i \in Nat : Settled(i) => Settled(i)'
  BY <1>4, WriteBytesKeepsRows DEF WriteLine
<1>5. ASSUME NEW w \in Writer, WriteRaises(w)
      PROVE  RowsAreBuilt' /\ \A i \in Nat : Settled(i) => Settled(i)'
  BY <1>5, WriteBytesKeepsRows DEF WriteRaises
<1>6. ASSUME NEW w \in Writer, Crash(w)
      PROVE  RowsAreBuilt' /\ \A i \in Nat : Settled(i) => Settled(i)'
  <2>1. CASE pc[w] = "write"
    BY <1>6, <2>1, WriteBytesKeepsRows DEF Crash
  <2>2. CASE pc[w] # "write"
    BY <1>6, <2>2, <1>1 DEF Crash, file
  <2> QED
    BY <2>1, <2>2
<1>7. ASSUME NEW i \in 1 .. Len(rows), Damage(i)
      PROVE  RowsAreBuilt' /\ \A j \in Nat : Settled(j) => Settled(j)'
  <2>1. /\ rows \in Seq(Entry \cup {Unparseable})
        /\ rows' = [rows EXCEPT ![i] = Unparseable]
        /\ damaged' = damaged \cup {i}
        /\ unterminated' = unterminated
    BY <1>7 DEF Damage, NoForkInv, TypeOK
  <2>2. RowsAreBuilt'
    BY <2>1, LoseLineKeepsRows
  <2>3. /\ Len(rows') = Len(rows)
        /\ \A j \in 1 .. Len(rows) : j # i => rows'[j] = rows[j]
    BY <2>1
  <2>4. \A j \in Nat : Settled(j) => Settled(j)'
    BY <2>1, <2>3 DEF Settled, Readable
  <2> QED
    BY <2>2, <2>4
<1> QED
  BY <1>1, <1>2, <1>3, <1>4, <1>5, <1>6, <1>7 DEF Next, Append_

\* Every step adds to what a backend object cleared only settled lines.
LEMMA StepsClearSettled ==
    ASSUME NoForkInv, [Next]_vars, NEW u \in Writer, NEW i \in cleared'[u]
    PROVE  i \in cleared[u] \/ Settled(i)
<1>0. cleared \in [Writer -> SUBSET Nat]
  BY DEF NoForkInv, TypeOK
<1>1. CASE cleared' = cleared
  BY <1>1
<1>2. ASSUME NEW w \in Writer, IntegrityScan(w)
      PROVE  i \in cleared[u] \/ Settled(i)
  <2> DEFINE done == IF cleared[w] \subseteq 1 .. Len(rows) THEN cleared[w] ELSE {}
  <2>1. cleared' = [cleared EXCEPT ![w] = ScanFrom(done)]
    BY <1>2 DEF IntegrityScan
  <2>2. CASE u # w
    BY <2>1, <2>2, <1>0
  <2>3. CASE u = w
    <3>1. i \in ScanFrom(done) /\ done \subseteq cleared[u]
      BY <2>1, <2>3, <1>0
    <3> HIDE DEF done
    <3>2. i \in 1 .. Len(rows)
      BY <3>1 DEF ScanFrom
    <3>3. i \in done \/ (Readable(i) /\ ~(i = Len(rows) /\ unterminated))
      BY <3>1, <3>2 DEF ScanFrom
    <3> QED
      BY <3>1, <3>2, <3>3 DEF Settled
  <2> QED
    BY <2>2, <2>3
<1>3. ASSUME NEW w \in Writer, Crash(w)
      PROVE  i \in cleared[u]
  BY <1>3, <1>0 DEF Crash
<1>4. \/ cleared' = cleared
      \/ \E w \in Writer : IntegrityScan(w) \/ Crash(w)
  BY DEF Next, Append_, vars, Call, AcquireFileLock, ReadTail, ReadTailRaises,
         ScanRaises, WriteLine, WriteRaises, Damage
<1> QED
  BY <1>1, <1>2, <1>3, <1>4

LEMMA InitEstablishesFileKeptInv == Init => FileKeptInv
BY DEF Init, FileKeptInv, RowsAreBuilt, ClearedIsSettled

LEMMA NextPreservesFileKeptInv ==
    NoForkInv /\ NoForkInv' /\ FileKeptInv /\ [Next]_vars => FileKeptInv'
<1> SUFFICES ASSUME NoForkInv, NoForkInv', FileKeptInv, [Next]_vars
             PROVE  FileKeptInv'
  OBVIOUS
<1>1. RowsAreBuilt' /\ \A i \in Nat : Settled(i) => Settled(i)'
  BY StepsKeepRows DEF FileKeptInv
<1>2. ClearedIsSettled'
  <2> SUFFICES ASSUME NEW u \in Writer, NEW i \in cleared'[u]
               PROVE  Settled(i)'
    BY DEF ClearedIsSettled
  <2>1. i \in Nat
    BY DEF NoForkInv, TypeOK
  <2>2. Settled(i)
    BY StepsClearSettled DEF FileKeptInv, ClearedIsSettled
  <2> QED
    BY <1>1, <2>1, <2>2
<1> QED
  BY <1>1, <1>2 DEF FileKeptInv

\* verify_chain walks a file of built rows without a finding.
LEMMA BuiltRowsVerify ==
    ASSUME NoForkInv, RowsAreBuilt, \A i \in 1 .. Len(rows) : Readable(i)
    PROVE  ChainVerdict(verify_chain(rows, {Fingerprint})) = "ok"
<1>1. ASSUME NEW i \in 1 .. Len(rows)
      PROVE  /\ rows[i].header.hash_version = Fingerprint
             /\ RowFinding(rows, i, {Fingerprint}) = "none"
  <2>0. Len(rows) \in Nat
    BY DEF NoForkInv, TypeOK
  <2>1. /\ rows[i] = BuildEntry(i - 1, rows[i].header.prev_hash, rows[i].payload,
                                Fingerprint)
        /\ i = 1 => rows[i].header.prev_hash = GENESIS_PREV_HASH
        /\ i > 1 => rows[i].header.prev_hash = rows[i - 1].entry_hash
    BY <1>1, <2>0 DEF RowsAreBuilt
  <2>2. PICK e, h : /\ e = rows[i]
                    /\ h = [seq |-> i - 1,
                            payload_hash |-> compute_payload_hash(e.payload),
                            hash_version |-> Fingerprint,
                            prev_hash |-> e.header.prev_hash]
    OBVIOUS
  <2>3. e = [header |-> h, entry_hash |-> compute_entry_hash(h),
             payload |-> e.payload]
    BY <2>1, <2>2 DEF BuildEntry
  <2>4. e.header = h /\ e.entry_hash = compute_entry_hash(h)
    BY <2>3
  <2>5. /\ h.seq = i - 1
        /\ h.hash_version = Fingerprint
        /\ h.payload_hash = compute_payload_hash(e.payload)
    BY <2>2
  <2>6. e.header.prev_hash = ExpectedPrev(rows, i)
    BY <2>0, <2>1, <2>2, <1>1 DEF ExpectedPrev
  <2> QED
    BY <2>2, <2>4, <2>5, <2>6 DEF RowFinding
<1>2. {i \in 1 .. Len(rows) : RowFinding(rows, i, {Fingerprint}) # "none"} = {}
  BY <1>1
<1>3. \A S \in SUBSET (1 .. Len(rows)) :
         {i \in S : rows[i].header.hash_version \notin {Fingerprint}} = {}
  BY <1>1
<1>4. verify_chain(rows, {Fingerprint}).ok
  BY <1>2 DEF verify_chain
<1>5. verify_chain(rows, {Fingerprint}).unverifiable = {}
  BY <1>2, <1>3 DEF verify_chain
<1> QED
  BY <1>4, <1>5 DEF ChainVerdict

\* Writers keep the file, whatever their number and whatever stopped short,
\* died or was damaged: while every line parses verify_chain finds nothing,
\* and a line the integrity scan once cleared parses for good unless it was
\* edited out of band.
THEOREM FileIsKept == Spec => []WritersKeepTheFile
<1>1. NoForkInv /\ FileKeptInv => WritersKeepTheFile
  BY BuiltRowsVerify DEF FileKeptInv, WritersKeepTheFile, WritersNeverBreakTheChain,
                         ClearedIsSettled, ClearedLinesParse, Settled
<1> QED
  BY <1>1, InitEstablishesNoForkInv, NextPreservesNoForkInv,
     InitEstablishesFileKeptInv, NextPreservesFileKeptInv, PTL DEF Spec

-----------------------------------------------------------------------------
(* The head of the file.                                                   *)

\* Readable and HeadHistory, of any file r.
ReadableIn(r, i) == i \in 1 .. Len(r) /\ r[i] # Unparseable

HeadOf(r) ==
    LET readable == {i \in 1 .. Len(r) : ReadableIn(r, i)}
    IN  IF readable = {} THEN GENESIS_PREV_HASH
        ELSE r[CHOOSE i \in readable : \A j \in readable : j <= i].entry_hash

\* Line i is the last one of r that parses.
IsLast(r, i) ==
    /\ i \in 1 .. Len(r)
    /\ r[i] # Unparseable
    /\ \A j \in i + 1 .. Len(r) : r[j] = Unparseable

\* A bounded set of positions has a largest one: the order on Nat is well
\* founded, so the distances to the bound have a smallest.
LEMMA LargestPosition ==
    ASSUME NEW n \in Nat, NEW S \in SUBSET (1 .. n), S # {}
    PROVE  \E m \in S : \A k \in S : k <= m
<1>1. PICK R : R = OpToRel(<, Nat)
  OBVIOUS
<1>2. IsWellFoundedOn(R, Nat)
  BY <1>1, NatLessThanWellFounded
<1>3. PICK T : T = {d \in Nat : n - d \in S}
  OBVIOUS
<1>4. \A k \in S : n - k \in T /\ k \in 1 .. n
  BY <1>3
<1>5. T \subseteq Nat /\ T # {}
  BY <1>3, <1>4
<1>6. PICK x \in T : \A y \in T : ~(<<y, x>> \in R)
  BY <1>2, <1>5, WFMin
<1>7. \A y \in T : ~(y < x)
  BY <1>1, <1>5, <1>6 DEF OpToRel
<1>8. n - x \in S /\ x \in Nat
  BY <1>3
<1>9. \A k \in S : k <= n - x
  BY <1>4, <1>5, <1>7
<1> QED
  BY <1>8, <1>9

LEMMA HeadOfLast ==
    ASSUME NEW r \in Seq(Entry \cup {Unparseable}), NEW i, IsLast(r, i)
    PROVE  HeadOf(r) = r[i].entry_hash
<1>1. PICK readable : readable = {k \in 1 .. Len(r) : ReadableIn(r, k)}
  OBVIOUS
<1>2. i \in readable /\ readable \subseteq Int
  BY <1>1 DEF IsLast, ReadableIn
<1>3. \A j \in readable : j <= i
  BY <1>1 DEF IsLast, ReadableIn
<1>4. \A k \in readable : (\A j \in readable : j <= k) => k = i
  BY <1>2, <1>3
<1>5. (CHOOSE k \in readable : \A j \in readable : j <= k) = i
  BY <1>2, <1>3, <1>4
<1> QED
  BY <1>1, <1>2, <1>5 DEF HeadOf

LEMMA HeadOfNone ==
    ASSUME NEW r, \A j \in 1 .. Len(r) : r[j] = Unparseable
    PROVE  HeadOf(r) = GENESIS_PREV_HASH
BY DEF HeadOf, ReadableIn

LEMMA LastExists ==
    ASSUME NEW r \in Seq(Entry \cup {Unparseable})
    PROVE  \/ \A j \in 1 .. Len(r) : r[j] = Unparseable
           \/ \E i \in 1 .. Len(r) : IsLast(r, i)
<1>1. PICK readable : readable = {k \in 1 .. Len(r) : r[k] # Unparseable}
  OBVIOUS
<1>2. CASE readable = {}
  BY <1>1, <1>2
<1>3. CASE readable # {}
  <2>1. Len(r) \in Nat /\ readable \in SUBSET (1 .. Len(r))
    BY <1>1
  <2>2. PICK m \in readable : \A k \in readable : k <= m
    BY <1>3, <2>1, LargestPosition
  <2>3. IsLast(r, m)
    BY <1>1, <2>1, <2>2 DEF IsLast
  <2> QED
    BY <2>1, <2>2, <2>3
<1> QED
  BY <1>2, <1>3

\* A line that does not parse, added at the end or lost in front of one that
\* does, leaves the head where it was.
LEMMA HeadSurvives ==
    ASSUME NEW r \in Seq(Entry \cup {Unparseable}),
           NEW s \in Seq(Entry \cup {Unparseable}),
           \/ s = Append(r, Unparseable)
           \/ \E i \in 1 .. Len(r) :
                 /\ s = [r EXCEPT ![i] = Unparseable]
                 /\ \E j \in i + 1 .. Len(r) : r[j] # Unparseable
    PROVE  HeadOf(s) = HeadOf(r)
<1>1. CASE s = Append(r, Unparseable)
  <2>1. /\ Len(s) = Len(r) + 1
        /\ Len(r) \in Nat
        /\ \A j \in 1 .. Len(r) : s[j] = r[j]
        /\ s[Len(r) + 1] = Unparseable
    BY <1>1
  <2>2. CASE \A j \in 1 .. Len(r) : r[j] = Unparseable
    <3>1. \A j \in 1 .. Len(s) : s[j] = Unparseable
      BY <2>1, <2>2
    <3> QED
      BY <3>1, <2>2, HeadOfNone
  <2>3. ASSUME NEW i \in 1 .. Len(r), IsLast(r, i)
        PROVE  HeadOf(s) = HeadOf(r)
    <3>1. IsLast(s, i) /\ s[i] = r[i]
      BY <2>1, <2>3 DEF IsLast
    <3> QED
      BY <3>1, <2>3, HeadOfLast
  <2> QED
    BY <2>2, <2>3, LastExists
<1>2. ASSUME NEW i \in 1 .. Len(r), NEW j \in i + 1 .. Len(r),
             s = [r EXCEPT ![i] = Unparseable], r[j] # Unparseable
      PROVE  HeadOf(s) = HeadOf(r)
  <2>1. /\ Len(s) = Len(r)
        /\ Len(r) \in Nat
        /\ \A k \in 1 .. Len(r) : k # i => s[k] = r[k]
        /\ s[i] = Unparseable
    BY <1>2
  <2>2. PICK m \in 1 .. Len(r) : IsLast(r, m)
    BY <1>2, LastExists
  <2>3. m > i
    <3>1. j \in Int /\ j > i /\ m \in Int /\ j <= Len(r)
      BY <2>1
    <3>2. \A k \in m + 1 .. Len(r) : r[k] = Unparseable
      BY <2>2 DEF IsLast
    <3>3. r[j] # Unparseable
      BY <1>2
    <3>4. j \notin m + 1 .. Len(r)
      BY <3>2, <3>3
    <3> QED
      BY <3>1, <3>4, <2>1
  <2>4. IsLast(s, m) /\ s[m] = r[m]
    BY <2>1, <2>2, <2>3 DEF IsLast
  <2> QED
    BY <2>2, <2>4, HeadOfLast
<1> QED
  BY <1>1, <1>2

LEMMA HeadHistoryIsHeadOf ==
    HeadHistory = HeadOf(rows) /\ HeadHistory' = HeadOf(rows')
BY DEF HeadHistory, HeadOf, Readable, ReadableIn

\* What the head commits to is committed to by a readable line.
LEMMA HeadIsCommitted ==
    ASSUME NoForkInv, NEW p \in Payload, NEW k \in 1 .. Len(HeadHistory),
           HeadHistory[k].payload_hash = compute_payload_hash(p)
    PROVE  p \in Committed
<1>1. rows \in Seq(Entry \cup {Unparseable})
  BY DEF NoForkInv, TypeOK
<1>2. CASE \A j \in 1 .. Len(rows) : rows[j] = Unparseable
  <2>1. HeadHistory = << >>
    BY <1>2, HeadOfNone, HeadHistoryIsHeadOf DEF GENESIS_PREV_HASH
  <2> QED
    BY <2>1
<1>3. ASSUME NEW i \in 1 .. Len(rows), IsLast(rows, i)
      PROVE  p \in Committed
  <2>1. HeadHistory = rows[i].entry_hash
    BY <1>1, <1>3, HeadOfLast, HeadHistoryIsHeadOf
  <2>2. rows[i] \in Entry /\ Readable(i)
    BY <1>1, <1>3 DEF IsLast, Readable
  <2>3. rows[i].entry_hash \in Seq(Content)
    BY <2>2 DEF Entry, Digest
  <2>4. k \in DOMAIN rows[i].entry_hash
    BY <2>1, <2>3
  <2> QED
    BY <2>1, <2>2, <2>4 DEF Committed
<1> QED
  BY <1>1, <1>2, <1>3, LastExists

-----------------------------------------------------------------------------
(* The file implements the contract of a WriterBackend.                    *)

\* An event under way is new: no append of it has ended and no line commits
\* to it; and no two appends under way are of the same event.
CallsAreNew ==
    \A w \in Writer : pc[w] # "idle" => call[w] \notin returned \cup raised \cup Committed

CallsDiffer ==
    \A u, w \in Writer :
        u # w /\ pc[u] # "idle" /\ pc[w] # "idle" => call[u] # call[w]

\* A file without a final newline ends in a line; where no write loses just
\* the newline, that line is torn.
LinesAreWhole ==
    unterminated => /\ rows # << >>
                    /\ whole => rows[Len(rows)] = Unparseable

LogInv == CallsAreNew /\ CallsDiffer /\ LinesAreWhole

\* The digest of the entry an append builds.
LEMMA BuiltDigest ==
    ASSUME NEW w \in Writer
    PROVE  Built(w).entry_hash =
             Append(tail[w].prev, [seq |-> tail[w].seq,
                                   payload_hash |-> compute_payload_hash(call[w]),
                                   hash_version |-> Fingerprint])
BY DEF Built, BuildEntry, compute_entry_hash

\* A lost line commits to nothing more.
LEMMA LoseLineCommits ==
    ASSUME rows \in Seq(Entry \cup {Unparseable}), NEW i \in 1 .. Len(rows),
           rows' = [rows EXCEPT ![i] = Unparseable]
    PROVE  Committed' \subseteq Committed
<1>1. /\ Len(rows') = Len(rows)
      /\ \A j \in 1 .. Len(rows) : rows'[j] = rows[j] \/ rows'[j] = Unparseable
  OBVIOUS
<1>2. \A j \in 1 .. Len(rows') : Readable(j)' => Readable(j) /\ rows'[j] = rows[j]
  BY <1>1 DEF Readable
<1> QED
  BY <1>1, <1>2 DEF Committed

\* WriteBytes adds to what the lines commit to at most the event written.
LEMMA WriteBytesCommits ==
    ASSUME NoForkInv, NEW w \in Writer, pc[w] = "write",
           NEW kind, WriteBytes(w, kind)
    PROVE  Committed' \subseteq Committed \cup {call[w]}
<1>1. /\ rows \in Seq(Entry \cup {Unparseable})
      /\ unterminated \in BOOLEAN
      /\ Len(rows) \in Nat
  BY DEF NoForkInv, TypeOK
<1>2. CASE rows' = rows
  BY <1>2 DEF Committed, Readable
<1>3. CASE rows' = [rows EXCEPT ![Len(rows)] = Unparseable]
  <2>1. CASE rows = << >>
    <3>1. rows' = rows
      BY <2>1, <1>3
    <3> QED
      BY <3>1, <1>2
  <2>2. CASE rows # << >>
    <3>1. Len(rows) \in 1 .. Len(rows)
      BY <2>2, <1>1
    <3> QED
      BY <3>1, <1>1, <1>3, LoseLineCommits
  <2> QED
    BY <2>1, <2>2
<1>4. ASSUME NEW line \in {Unparseable, Built(w)}, rows' = Append(rows, line)
      PROVE  Committed' \subseteq Committed \cup {call[w]}
  <2>1. Built(w) \in Entry
    BY BuiltFields
  <2>2. /\ Len(rows') = Len(rows) + 1
        /\ \A j \in 1 .. Len(rows) : rows'[j] = rows[j]
        /\ rows'[Len(rows) + 1] = line
    BY <1>1, <1>4, <2>1
  <2> SUFFICES ASSUME NEW p \in Payload, NEW i \in 1 .. Len(rows'), Readable(i)',
                      NEW k \in DOMAIN rows'[i].entry_hash,
                      rows'[i].entry_hash[k].payload_hash = compute_payload_hash(p)
               PROVE  p \in Committed \cup {call[w]}
    BY DEF Committed
  <2>3. CASE i \in 1 .. Len(rows)
    <3>1. Readable(i) /\ rows'[i] = rows[i]
      BY <2>2, <2>3 DEF Readable
    <3> QED
      BY <2>3, <3>1 DEF Committed
  <2>4. CASE i = Len(rows) + 1
    <3>1. rows'[i] = Built(w)
      BY <2>2, <2>4, <1>4 DEF Readable
    <3>2. /\ tail[w] \in TailFields
          /\ rows = << >> => tail[w].prev = << >>
          /\ rows # << >> => /\ Readable(Len(rows))
                            /\ tail[w].prev = rows[Len(rows)].entry_hash
      BY DEF NoForkInv, TypeOK, TailIsFresh, GENESIS_PREV_HASH
    <3>3. tail[w].prev \in Seq(Content)
      BY <3>2 DEF TailFields, Digest
    <3>4. PICK c : c = [seq |-> tail[w].seq,
                        payload_hash |-> compute_payload_hash(call[w]),
                        hash_version |-> Fingerprint]
      OBVIOUS
    <3>5. c.payload_hash = compute_payload_hash(call[w])
      BY <3>4
    <3>6. rows'[i].entry_hash = Append(tail[w].prev, c)
      BY <3>1, <3>4, BuiltDigest
    <3>7. k \in 1 .. Len(tail[w].prev) + 1
      BY <3>3, <3>6
    <3>8. CASE k = Len(tail[w].prev) + 1
      <4>1. rows'[i].entry_hash[k] = c
        BY <3>3, <3>6, <3>8
      <4>2. <<p>> = <<call[w]>>
        BY <4>1, <3>5 DEF compute_payload_hash
      <4>3. p = call[w]
        BY <4>2
      <4> QED
        BY <4>3
    <3>9. CASE k \in 1 .. Len(tail[w].prev)
      <4>1. rows'[i].entry_hash[k] = tail[w].prev[k]
        BY <3>3, <3>6, <3>9
      <4>2. rows # << >>
        BY <3>2, <3>9
      <4>3. /\ Readable(Len(rows)) /\ Len(rows) \in 1 .. Len(rows)
            /\ k \in DOMAIN rows[Len(rows)].entry_hash
            /\ rows[Len(rows)].entry_hash[k].payload_hash = compute_payload_hash(p)
        BY <4>1, <4>2, <3>2, <3>3, <3>9, <1>1
      <4> QED
        BY <4>3 DEF Committed
    <3> QED
      BY <3>3, <3>7, <3>8, <3>9
  <2> QED
    BY <2>2, <2>3, <2>4, <1>1
<1>5. \/ rows' = rows
      \/ rows' = [rows EXCEPT ![Len(rows)] = Unparseable]
      \/ \E line \in {Unparseable, Built(w)} : rows' = Append(rows, line)
  BY DEF WriteBytes, file
<1> QED
  BY <1>2, <1>3, <1>4, <1>5

\* Writer w writes in any of the ways it may, on the way out of append.
WritesOut(w) ==
    /\ pc[w] = "write"
    /\ \E kind \in ShortWriteKind \cup {"all"} : WriteBytes(w, kind)

LEMMA EndsOfCalls ==
    ASSUME NEW w \in Writer,
           \/ ReadTailRaises(w) \/ ScanRaises(w) \/ WriteLine(w)
           \/ WriteRaises(w) \/ Crash(w)
    PROVE  /\ EndCall(w)
           /\ pc[w] # "idle"
           /\ UNCHANGED file \/ WritesOut(w)
           /\ returned' \in {returned, returned \cup {call[w]}}
           /\ raised' \in {raised, raised \cup {call[w]}}
<1>1. CASE ReadTailRaises(w) \/ ScanRaises(w)
  BY <1>1 DEF ReadTailRaises, ScanRaises
<1>2. CASE WriteLine(w)
  BY <1>2 DEF WriteLine, WritesOut
<1>3. CASE WriteRaises(w)
  BY <1>3, JsonlAssumption DEF WriteRaises, WritesOut
<1>4. CASE Crash(w)
  BY <1>4, JsonlAssumption DEF Crash, WritesOut, ShortWriteKind
<1> QED
  BY <1>1, <1>2, <1>3, <1>4

LEMMA InitEstablishesLogInv == WholeInit => LogInv
BY DEF WholeInit, Init, LogInv, CallsAreNew, CallsDiffer, LinesAreWhole

LEMMA WriteBytesLeavesALine ==
    ASSUME NoForkInv, LinesAreWhole, NEW w \in Writer, pc[w] = "write",
           NEW kind, WriteBytes(w, kind), unterminated'
    PROVE  rows' # << >>
<1>1. rows \in Seq(Entry \cup {Unparseable}) /\ unterminated \in BOOLEAN
  BY DEF NoForkInv, TypeOK
<1>2. CASE UNCHANGED file
  BY <1>2 DEF file, LinesAreWhole
<1>3. CASE unterminated /\ rows' = [rows EXCEPT ![Len(rows)] = Unparseable]
  <2>1. rows # << >> /\ Len(rows') = Len(rows)
    BY <1>1, <1>3 DEF LinesAreWhole
  <2> QED
    BY <2>1, <1>1
<1>4. ASSUME NEW line \in {Unparseable, Built(w)}, rows' = Append(rows, line)
      PROVE  rows' # << >>
  BY <1>1, <1>4, BuiltFields
<1> QED
  BY <1>1, <1>2, <1>3, <1>4 DEF WriteBytes

LEMMA NextPreservesLogInv ==
    NoForkInv /\ LogInv /\ [WholeNext]_wholeVars => LogInv'
<1> SUFFICES ASSUME NoForkInv, LogInv, [WholeNext]_wholeVars PROVE LogInv'
  OBVIOUS
<1>0. /\ rows \in Seq(Entry \cup {Unparseable})
      /\ unterminated \in BOOLEAN
      /\ pc \in [Writer -> {"idle", "waiting", "locked", "scan", "write"}]
      /\ call \in [Writer -> Payload \cup {NoCall}]
  BY DEF NoForkInv, TypeOK
<1>1. CASE UNCHANGED wholeVars
  BY <1>1 DEF wholeVars, vars, LogInv, CallsAreNew, CallsDiffer, LinesAreWhole,
              Committed, Readable
<1>2. CASE WholeNext
  <2>1. /\ whole' = whole
        /\ whole /\ unterminated' => rows'[Len(rows')] = Unparseable
    BY <1>2 DEF WholeNext
  <2>2. ASSUME NEW w \in Writer, NEW p \in Payload, Call(w, p)
        PROVE  LogInv'
    <3>1. /\ p \notin returned \cup raised \cup InFlight \cup Committed
          /\ pc[w] = "idle"
          /\ rows' = rows /\ unterminated' = unterminated
          /\ returned' = returned /\ raised' = raised
          /\ \A u \in Writer : u # w => pc'[u] = pc[u] /\ call'[u] = call[u]
          /\ call'[w] = p
      BY <2>2, <1>0 DEF Call, file
    <3>2. Committed' = Committed
      BY <3>1 DEF Committed, Readable
    <3>3. \A u \in Writer : u # w /\ pc[u] # "idle" => call[u] # p
      BY <3>1 DEF InFlight
    <3>4. CallsAreNew'
      BY <3>1, <3>2 DEF CallsAreNew, LogInv
    <3>5. CallsDiffer'
      BY <3>1, <3>3 DEF CallsDiffer, LogInv
    <3> QED
      BY <3>1, <3>4, <3>5, <2>1 DEF LinesAreWhole, LogInv
  <2>3. ASSUME NEW w \in Writer,
               AcquireFileLock(w) \/ ReadTail(w) \/ IntegrityScan(w)
        PROVE  LogInv'
    <3>1. /\ rows' = rows /\ unterminated' = unterminated
          /\ returned' = returned /\ raised' = raised
          /\ call' = call
          /\ pc[w] # "idle"
          /\ \A u \in Writer : u # w => pc'[u] = pc[u]
      BY <2>3, <1>0 DEF AcquireFileLock, ReadTail, IntegrityScan, file
    <3>2. Committed' = Committed
      BY <3>1 DEF Committed, Readable
    <3>3. CallsAreNew' /\ CallsDiffer'
      BY <3>1, <3>2 DEF CallsAreNew, CallsDiffer, LogInv
    <3> QED
      BY <3>1, <3>3, <2>1 DEF LinesAreWhole, LogInv
  <2>4. ASSUME NEW w \in Writer,
               \/ ReadTailRaises(w) \/ ScanRaises(w) \/ WriteLine(w)
               \/ WriteRaises(w) \/ Crash(w)
        PROVE  LogInv'
    <3>1. /\ EndCall(w)
          /\ pc[w] # "idle"
          /\ UNCHANGED file \/ WritesOut(w)
          /\ returned' \in {returned, returned \cup {call[w]}}
          /\ raised' \in {raised, raised \cup {call[w]}}
      BY <2>4, EndsOfCalls
    <3>2. Committed' \subseteq Committed \cup {call[w]}
      <4>1. CASE UNCHANGED file
        BY <4>1 DEF file, Committed, Readable
      <4>2. CASE WritesOut(w)
        BY <4>2, WriteBytesCommits DEF WritesOut
      <4> QED
        BY <3>1, <4>1, <4>2
    <3>3. /\ \A u \in Writer : u # w => pc'[u] = pc[u] /\ call'[u] = call[u]
          /\ pc'[w] = "idle"
      BY <3>1, <1>0 DEF EndCall
    <3>4. \A u \in Writer : u # w /\ pc[u] # "idle" => call[u] # call[w]
      BY <3>1 DEF CallsDiffer, LogInv
    <3>5. CallsAreNew'
      BY <3>1, <3>2, <3>3, <3>4 DEF CallsAreNew, LogInv
    <3>6. CallsDiffer'
      BY <3>3 DEF CallsDiffer, LogInv
    <3>7. unterminated' => rows' # << >>
      <4>1. CASE UNCHANGED file
        BY <4>1 DEF file, LinesAreWhole, LogInv
      <4>2. CASE WritesOut(w)
        BY <4>2, WriteBytesLeavesALine DEF WritesOut, LogInv
      <4> QED
        BY <3>1, <4>1, <4>2
    <3> QED
      BY <3>5, <3>6, <3>7, <2>1 DEF LogInv, LinesAreWhole
  <2>5. ASSUME NEW i \in 1 .. Len(rows), Damage(i)
        PROVE  LogInv'
    <3>1. /\ rows' = [rows EXCEPT ![i] = Unparseable]
          /\ unterminated' = unterminated
          /\ pc' = pc /\ call' = call /\ returned' = returned /\ raised' = raised
      BY <2>5 DEF Damage
    <3>2. Committed' \subseteq Committed
      BY <3>1, <1>0, LoseLineCommits
    <3>3. CallsAreNew' /\ CallsDiffer'
      BY <3>1, <3>2 DEF CallsAreNew, CallsDiffer, LogInv
    <3>4. rows' # << >>
      BY <3>1, <1>0
    <3> QED
      BY <3>3, <3>4, <2>1 DEF LogInv, LinesAreWhole
  <2> QED
    BY <1>2, <2>2, <2>3, <2>4, <2>5 DEF WholeNext, Next, Append_
<1> QED
  BY <1>1, <1>2

\* The step adds event p to the head's history.
ExtendsBy(p) ==
    HeadHistory' = Append(HeadHistory, [seq |-> Len(HeadHistory),
                                        payload_hash |-> compute_payload_hash(p),
                                        hash_version |-> Fingerprint])

NotInHead(p) ==
    \A k \in 1 .. Len(HeadHistory) :
        HeadHistory[k].payload_hash # compute_payload_hash(p)

\* What an append that ends makes of the contract's state: the event landed,
\* was refused, or nothing was heard of it.
Lands(p) ==
    /\ NotInHead(p)
    /\ ExtendsBy(p)
    /\ returned' \in {returned, returned \cup {p}}
    /\ raised' = raised

Refuses(p) ==
    /\ NotInHead(p)
    /\ raised' = raised \cup {p}
    /\ HeadHistory' = HeadHistory
    /\ returned' = returned

NothingHeard ==
    HeadHistory' = HeadHistory /\ returned' = returned /\ raised' = raised

\* A write moves the head by exactly the event it was called with, or not at
\* all: the tail read under the lock is the head of the file.
LEMMA WholeWrite ==
    ASSUME NoForkInv, LogInv, whole, NEW w \in Writer, pc[w] = "write",
           NEW kind \in ShortWriteKind \cup {"all"}, WriteBytes(w, kind),
           ~(unterminated' /\ rows'[Len(rows')] # Unparseable)
    PROVE  /\ kind = "all" => ExtendsBy(call[w])
           /\ kind # "all" => HeadHistory' = HeadHistory
<1>1. /\ rows \in Seq(Entry \cup {Unparseable})
      /\ unterminated \in BOOLEAN
      /\ Len(rows) \in Nat
      /\ tail[w] \in TailFields
      /\ tail[w].seq = Len(rows)
      /\ rows = << >> => tail[w].prev = GENESIS_PREV_HASH
      /\ rows # << >> => /\ Readable(Len(rows))
                        /\ tail[w].prev = rows[Len(rows)].entry_hash
  BY DEF NoForkInv, TypeOK, TailIsFresh
<1>2. ~unterminated
  BY <1>1 DEF LogInv, LinesAreWhole, Readable
<1>3. HeadHistory = HeadOf(rows) /\ HeadHistory' = HeadOf(rows')
  BY HeadHistoryIsHeadOf
<1>4. Built(w) \in Entry /\ Built(w) # Unparseable
  BY BuiltFields, UnparseableAssumption
<1>5. CASE kind = "nothing"
  BY <1>3, <1>5 DEF WriteBytes, file
<1>6. CASE kind = "torn"
  <2>1. rows' = Append(rows, Unparseable)
    BY <1>2, <1>6 DEF WriteBytes
  <2>2. rows' \in Seq(Entry \cup {Unparseable})
    BY <1>1, <2>1
  <2> QED
    BY <1>1, <1>3, <1>6, <2>1, <2>2, HeadSurvives
<1>7. ASSUME kind \in {"all", "no_newline"}
      PROVE  /\ rows' = Append(rows, Built(w))
             /\ rows' \in Seq(Entry \cup {Unparseable})
             /\ Len(rows') = Len(rows) + 1
             /\ rows'[Len(rows')] = Built(w)
             /\ unterminated' = (kind # "all")
  BY <1>1, <1>2, <1>4, <1>7 DEF WriteBytes
<1>8. CASE kind = "no_newline"
  BY <1>4, <1>7, <1>8
<1>9. CASE kind = "all"
  <2>1. IsLast(rows', Len(rows'))
    BY <1>1, <1>4, <1>7, <1>9 DEF IsLast
  <2>2. HeadHistory' = Built(w).entry_hash
    BY <1>3, <1>7, <1>9, <2>1, HeadOfLast
  <2>3. HeadHistory = tail[w].prev
    <3>1. CASE rows = << >>
      <4>1. HeadOf(rows) = GENESIS_PREV_HASH
        BY <3>1, HeadOfNone
      <4> QED
        BY <3>1, <4>1, <1>1, <1>3
    <3>2. CASE rows # << >>
      <4>1. IsLast(rows, Len(rows))
        BY <3>2, <1>1 DEF IsLast, Readable
      <4> QED
        BY <3>2, <4>1, <1>1, <1>3, HeadOfLast
    <3> QED
      BY <3>1, <3>2
  <2>4. Len(tail[w].prev) = Len(rows)
    <3>1. CASE rows = << >>
      BY <3>1, <1>1 DEF GENESIS_PREV_HASH
    <3>2. CASE rows # << >>
      BY <3>2, <1>1 DEF NoForkInv, NoFork
    <3> QED
      BY <3>1, <3>2
  <2> QED
    BY <1>1, <1>9, <2>2, <2>3, <2>4, BuiltDigest DEF ExtendsBy
<1> QED
  BY <1>5, <1>6, <1>8, <1>9 DEF ShortWriteKind

\* Every step is a step of the contract, or nothing to it.
LEMMA StepsImplementLog ==
    ASSUME NoForkInv, LogInv, whole, WholeNext
    PROVE  NothingHeard \/ \E p \in Payload \ raised : Lands(p) \/ Refuses(p)
<1>0. rows \in Seq(Entry \cup {Unparseable})
  BY DEF NoForkInv, TypeOK
<1>1. ~(unterminated' /\ rows'[Len(rows')] # Unparseable)
  BY DEF WholeNext
<1>2. HeadHistory = HeadOf(rows) /\ HeadHistory' = HeadOf(rows')
  BY HeadHistoryIsHeadOf
<1>3. ASSUME UNCHANGED file
      PROVE  HeadHistory' = HeadHistory
  BY <1>2, <1>3 DEF file
<1>4. ASSUME NEW w \in Writer, pc[w] # "idle"
      PROVE  call[w] \in Payload \ raised /\ NotInHead(call[w])
  <2>1. call[w] \in Payload /\ call[w] \notin raised \cup Committed
    BY <1>4 DEF NoForkInv, CallPending, LogInv, CallsAreNew
  <2>2. NotInHead(call[w])
    BY <2>1, HeadIsCommitted DEF NotInHead
  <2> QED
    BY <2>1, <2>2
<1>5. ASSUME NEW w \in Writer,
             (\E p \in Payload : Call(w, p)) \/ AcquireFileLock(w) \/ ReadTail(w)
                \/ IntegrityScan(w)
      PROVE  NothingHeard
  BY <1>3, <1>5 DEF Call, AcquireFileLock, ReadTail, IntegrityScan, NothingHeard
<1>6. ASSUME NEW w \in Writer, ReadTailRaises(w) \/ ScanRaises(w)
      PROVE  call[w] \in Payload \ raised /\ Refuses(call[w])
  <2>1. /\ UNCHANGED file
        /\ pc[w] # "idle"
        /\ raised' = raised \cup {call[w]}
        /\ returned' = returned
    BY <1>6 DEF ReadTailRaises, ScanRaises
  <2> QED
    BY <2>1, <1>3, <1>4 DEF Refuses
<1>7. ASSUME NEW w \in Writer, WriteLine(w)
      PROVE  call[w] \in Payload \ raised /\ Lands(call[w])
  <2>1. /\ pc[w] = "write"
        /\ WriteBytes(w, "all")
        /\ returned' = returned \cup {call[w]}
        /\ raised' = raised
    BY <1>7 DEF WriteLine
  <2>2. ExtendsBy(call[w])
    BY <2>1, <1>1, WholeWrite
  <2> QED
    BY <2>1, <2>2, <1>4 DEF Lands
<1>8. ASSUME NEW w \in Writer, WriteRaises(w)
      PROVE  call[w] \in Payload \ raised /\ Refuses(call[w])
  <2>1. /\ pc[w] = "write"
        /\ raised' = raised \cup {call[w]}
        /\ returned' = returned
    BY <1>8 DEF WriteRaises
  <2>2. PICK kind \in ShortWriteKind : WriteBytes(w, kind)
    BY <1>8, JsonlAssumption DEF WriteRaises
  <2>3. kind # "all"
    BY DEF ShortWriteKind
  <2>4. HeadHistory' = HeadHistory
    BY <2>1, <2>2, <2>3, <1>1, WholeWrite
  <2> QED
    BY <2>1, <2>4, <1>4 DEF Refuses
<1>9. ASSUME NEW w \in Writer, Crash(w)
      PROVE  NothingHeard \/ (call[w] \in Payload \ raised /\ Lands(call[w]))
  <2>1. pc[w] # "idle" /\ returned' = returned /\ raised' = raised
    BY <1>9 DEF Crash
  <2>2. CASE pc[w] # "write"
    BY <1>9, <2>1, <2>2, <1>3 DEF Crash, NothingHeard
  <2>3. CASE pc[w] = "write"
    <3>1. PICK kind \in ShortWriteKind \cup {"all"} : WriteBytes(w, kind)
      BY <1>9, <2>3, JsonlAssumption DEF Crash, ShortWriteKind
    <3>2. CASE kind = "all"
      BY <2>1, <2>3, <3>1, <3>2, <1>1, <1>4, WholeWrite DEF Lands
    <3>3. CASE kind # "all"
      BY <2>1, <2>3, <3>1, <3>3, <1>1, WholeWrite DEF NothingHeard
    <3> QED
      BY <3>2, <3>3
  <2> QED
    BY <2>2, <2>3
<1>10. ASSUME NEW i \in 1 .. Len(rows), Damage(i)
       PROVE  NothingHeard
  <2>1. /\ rows' = [rows EXCEPT ![i] = Unparseable]
        /\ \E j \in i + 1 .. Len(rows) : rows[j] # Unparseable
        /\ returned' = returned /\ raised' = raised
    BY <1>10 DEF Damage, Readable
  <2>2. rows' \in Seq(Entry \cup {Unparseable})
    BY <2>1, <1>0
  <2> QED
    BY <2>1, <2>2, <1>0, <1>2, HeadSurvives DEF NothingHeard
<1> QED
  BY <1>5, <1>6, <1>7, <1>8, <1>9, <1>10 DEF WholeNext, Next, Append_

LEMMA InitImplementsLogInit == WholeInit => Log!LogInit
<1> SUFFICES ASSUME WholeInit PROVE Log!LogInit
  OBVIOUS
<1>1. rows = << >> /\ returned = {} /\ raised = {}
  BY DEF WholeInit, Init
<1>2. HeadHistory = GENESIS_PREV_HASH
  BY <1>1, HeadOfNone, HeadHistoryIsHeadOf
<1> QED
  BY <1>1, <1>2 DEF Log!LogInit, Log!GENESIS_PREV_HASH, GENESIS_PREV_HASH

LEMMA NextImplementsLogNext ==
    NoForkInv /\ LogInv /\ [WholeNext]_wholeVars => [Log!LogNext]_(Log!logVars)
<1> SUFFICES ASSUME NoForkInv, LogInv, [WholeNext]_wholeVars
             PROVE  [Log!LogNext]_(Log!logVars)
  OBVIOUS
<1>1. whole' = whole
  BY DEF WholeNext, wholeVars
<1>2. CASE ~whole
  BY <1>1, <1>2 DEF Log!logVars
<1>3. ASSUME NothingHeard, whole
      PROVE  UNCHANGED Log!logVars
  BY <1>1, <1>3 DEF Log!logVars, NothingHeard
<1>4. CASE UNCHANGED wholeVars /\ whole
  <2>1. NothingHeard
    BY <1>4, HeadHistoryIsHeadOf DEF wholeVars, vars, NothingHeard
  <2> QED
    BY <2>1, <1>3, <1>4
<1>5. CASE WholeNext /\ whole
  <2>1. CASE NothingHeard
    BY <2>1, <1>3, <1>5
  <2>2. ASSUME NEW p \in Payload \ raised, Lands(p)
        PROVE  Log!LogNext
    <3>1. ~Log!InHistory(p)
      BY <2>2, <1>5 DEF Lands, NotInHead, Log!InHistory, Log!compute_payload_hash,
                        compute_payload_hash
    <3>2. Log!Extend(p)
      BY <2>2, <1>1, <1>5 DEF Lands, ExtendsBy, Log!Extend, Log!BuildEntry,
            Log!compute_entry_hash, Log!compute_payload_hash, compute_payload_hash
    <3>3. Log!Land(p)
      BY <3>1, <3>2, <2>2, <1>1, <1>5 DEF Log!Land, Lands
    <3> QED
      BY <3>3, <1>5 DEF Log!LogNext
  <2>3. ASSUME NEW p \in Payload \ raised, Refuses(p)
        PROVE  Log!LogNext
    <3>1. ~Log!InHistory(p)
      BY <2>3, <1>5 DEF Refuses, NotInHead, Log!InHistory,
                        Log!compute_payload_hash, compute_payload_hash
    <3>2. Log!Refuse(p)
      BY <3>1, <2>3, <1>1, <1>5 DEF Log!Refuse, Refuses
    <3> QED
      BY <3>2, <1>5 DEF Log!LogNext
  <2> QED
    BY <2>1, <2>2, <2>3, <1>5, StepsImplementLog
<1> QED
  BY <1>2, <1>4, <1>5

LEMMA WholeStepsAreSteps == [WholeNext]_wholeVars => [Next]_vars
BY DEF WholeNext, wholeVars

\* The JSONL file implements the append-only log of ports/backend.py, for any
\* number of writers, crashes, torn writes and damaged old lines, as long as
\* no short write loses nothing but the newline: every event lands once, at
\* the end of one history, and its caller is told no more than what happened.
THEOREM FileImplementsLog == WholeSpec => RefinesAppendOnlyLog
<1>1. WholeInit => NoForkInv /\ LogInv
  BY InitEstablishesNoForkInv, InitEstablishesLogInv DEF WholeInit
<1>2. NoForkInv /\ LogInv /\ [WholeNext]_wholeVars => (NoForkInv /\ LogInv)'
  BY NextPreservesNoForkInv, NextPreservesLogInv, WholeStepsAreSteps
<1> QED
  BY <1>1, <1>2, InitImplementsLogInit, NextImplementsLogNext, PTL
     DEF WholeSpec, RefinesAppendOnlyLog, Log!LogSpec
==============================================================================
