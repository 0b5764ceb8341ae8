--------------------------- MODULE AuditLogProofs ---------------------------
(***************************************************************************)
(* Proofs about AuditLog, for any number of objects, threads and events,   *)
(* any cadence and any faults: the forest every object keeps is a prefix   *)
(* of the trail, every checkpoint published verifies against it, the       *)
(* counters tell every loss, and the cadence is kept.  And about Records,  *)
(* the typed rows of a trail: what its commands leave out is accounted for.*)
(***************************************************************************)
EXTENDS AuditLog, Records, FiniteSetTheorems, NaturalsInduction, WellFoundedInduction, TLAPS

\* The parts of the state the two properties depend on have their types.
Shape ==
    /\ trail \in Seq(Event)
    /\ merkle \in [Log -> Seq(Event)]
    /\ pc \in [Thread -> {"idle", "lock", "backend", "note", "attest",
                          "anchor", "root", "publish"}]
    /\ event \in [Thread -> Event \cup {NoEvent}]
    /\ seq \in [Thread -> Nat]
    /\ hashes \in [Thread -> Seq(Event)]
    /\ root \in [Thread -> Seq(Event)]
    /\ checkpoints \subseteq Checkpoint

\* From begin to seal a thread has an event; once the backend has returned,
\* that event is the row the thread remembers.
RowIsThere ==
    \A t \in Thread :
        /\ pc[t] \in {"lock", "backend", "note"} => event[t] \in Event
        /\ pc[t] = "note" => seq[t] < Len(trail) /\ trail[seq[t] + 1] = event[t]

\* What anchor() read is a beginning of the trail as it is now, and the root
\* it computed is the root of what it read.
ReadIsPrefix ==
    \A t \in Thread :
        /\ pc[t] \in {"root", "publish"} => hashes[t] # << >> /\ IsPrefixOfTrail(hashes[t])
        /\ pc[t] = "publish" => root[t] = hashes[t]

IInv ==
    /\ Shape
    /\ RowIsThere
    /\ ReadIsPrefix
    /\ MerkleIsPrefix
    /\ CheckpointsVerify

-----------------------------------------------------------------------------
(* Prefixes.                                                               *)

\* A prefix, element by element.
LEMMA PrefixByElements ==
    ASSUME NEW s \in Seq(Event), NEW u \in Seq(Event)
    PROVE  (Len(s) <= Len(u) /\ s = SubSeq(u, 1, Len(s)))
           <=> (Len(s) <= Len(u) /\ \A i \in 1 .. Len(s) : s[i] = u[i])
<1> SUFFICES ASSUME Len(s) <= Len(u)
             PROVE  s = SubSeq(u, 1, Len(s)) <=> \A i \in 1 .. Len(s) : s[i] = u[i]
  OBVIOUS
<1> DEFINE p == SubSeq(u, 1, Len(s))
<1>1. p \in Seq(Event) /\ Len(p) = Len(s) /\ \A i \in 1 .. Len(s) : p[i] = u[i]
  OBVIOUS
<1>2. ASSUME \A i \in 1 .. Len(s) : s[i] = p[i] PROVE s = p
  BY <1>1, <1>2
<1> QED
  BY <1>1, <1>2

\* Appending a row to the trail keeps the prefixes it had.
LEMMA PrefixStays ==
    ASSUME trail \in Seq(Event), NEW e \in Event, trail' = Append(trail, e),
           NEW s \in Seq(Event), IsPrefixOfTrail(s)
    PROVE  Len(s) <= Len(trail') /\ s = SubSeq(trail', 1, Len(s))
<1>1. /\ trail' \in Seq(Event) /\ Len(trail') = Len(trail) + 1
      /\ \A i \in 1 .. Len(trail) : trail'[i] = trail[i]
  OBVIOUS
<1>2. Len(s) <= Len(trail) /\ \A i \in 1 .. Len(s) : s[i] = trail[i]
  BY PrefixByElements DEF IsPrefixOfTrail
<1>3. Len(s) <= Len(trail') /\ \A i \in 1 .. Len(s) : s[i] = trail'[i]
  BY <1>1, <1>2
<1> QED
  BY <1>1, <1>3, PrefixByElements

\* Two prefixes of the trail with one length are one prefix.
LEMMA PrefixByLength ==
    ASSUME NEW s, NEW u, IsPrefixOfTrail(s), IsPrefixOfTrail(u), Len(s) = Len(u)
    PROVE  s = u
  BY DEF IsPrefixOfTrail

\* The trail is a prefix of itself, and nothing is one of anything.
LEMMA TrivialPrefixes ==
    ASSUME trail \in Seq(Event)
    PROVE  IsPrefixOfTrail(trail) /\ IsPrefixOfTrail(<< >>)
<1>1. << >> \in Seq(Event) /\ Len(<< >>) = 0
  OBVIOUS
<1> QED
  BY <1>1, PrefixByElements DEF IsPrefixOfTrail

-----------------------------------------------------------------------------
(* Init and the steps.                                                     *)

LEMMA InitEstablishes == Init => IInv
<1> SUFFICES ASSUME Init PROVE IInv
  OBVIOUS
<1> USE DEF Init
<1>1. Shape
  BY DEF Shape
<1>2. RowIsThere /\ ReadIsPrefix /\ CheckpointsVerify
  BY DEF RowIsThere, ReadIsPrefix, CheckpointsVerify
<1>3. MerkleIsPrefix
  BY <1>1, TrivialPrefixes DEF MerkleIsPrefix, Shape
<1> QED
  BY <1>1, <1>2, <1>3 DEF IInv

\* A step that leaves trail, forests and checkpoints alone keeps what is said
\* of them.
LEMMA StoreUntouched ==
    ASSUME IInv, UNCHANGED <<trail, merkle, checkpoints>>
    PROVE  MerkleIsPrefix' /\ CheckpointsVerify'
  BY DEF IInv, MerkleIsPrefix, CheckpointsVerify, IsPrefixOfTrail

\* A thread that has finished its call has no obligations left, and a step of
\* it that leaves the trail alone disturbs nobody else's.
LEMMA FinishKeeps ==
    ASSUME IInv, NEW t \in Thread, Finish(t), UNCHANGED trail,
           merkle' \in [Log -> Seq(Event)], checkpoints' \subseteq Checkpoint,
           MerkleIsPrefix', CheckpointsVerify'
    PROVE  IInv'
<1>1. Shape'
  BY DEF IInv, Shape, Finish, Goto
<1>2. RowIsThere'
  BY DEF IInv, Shape, RowIsThere, Finish, Goto
<1>3. ReadIsPrefix'
  BY DEF IInv, Shape, ReadIsPrefix, IsPrefixOfTrail, Finish, Goto
<1> QED
  BY <1>1, <1>2, <1>3 DEF IInv

\* A step that only moves a thread on, with its frame as it was.
LEMMA MoveKeeps ==
    ASSUME IInv, NEW t \in Thread, NEW where \in {"backend", "attest", "anchor"},
           Goto(t, where), UNCHANGED <<trail, checkpoints, frame>>,
           where = "backend" => pc[t] = "lock",
           merkle' \in [Log -> Seq(Event)], MerkleIsPrefix'
    PROVE  IInv'
<1> USE DEF frame
<1>1. Shape'
  BY DEF IInv, Shape, Goto
<1>2. RowIsThere'
  BY DEF IInv, Shape, RowIsThere, Goto
<1>3. ReadIsPrefix'
  BY DEF IInv, Shape, ReadIsPrefix, IsPrefixOfTrail, Goto
<1>4. CheckpointsVerify'
  BY DEF IInv, CheckpointsVerify
<1> QED
  BY <1>1, <1>2, <1>3, <1>4 DEF IInv

\* The backend lands the row: every prefix of the trail stays one.
LEMMA BackendAppendKeeps ==
    ASSUME IInv, NEW t \in Thread, BackendAppend(t)
    PROVE  IInv'
<1>1. event[t] \in Event /\ trail \in Seq(Event)
  BY DEF IInv, Shape, RowIsThere, BackendAppend
<1>2. trail' = Append(trail, event[t])
  BY DEF BackendAppend
<1>3. /\ trail' \in Seq(Event) /\ Len(trail') = Len(trail) + 1
      /\ trail'[Len(trail) + 1] = event[t]
      /\ \A i \in 1 .. Len(trail) : trail'[i] = trail[i]
  BY <1>1, <1>2
<1>4. ASSUME NEW s \in Seq(Event), IsPrefixOfTrail(s)
      PROVE  Len(s) <= Len(trail') /\ s = SubSeq(trail', 1, Len(s))
  BY <1>1, <1>2, <1>4, PrefixStays
<1>5. Shape'
  BY <1>3 DEF IInv, Shape, BackendAppend, Goto
<1>6. RowIsThere'
  <2> SUFFICES ASSUME NEW u \in Thread
               PROVE  /\ pc'[u] \in {"lock", "backend", "note"} => event'[u] \in Event
                      /\ pc'[u] = "note" => seq'[u] < Len(trail')
                                            /\ trail'[seq'[u] + 1] = event'[u]
    BY DEF RowIsThere
  <2>1. CASE u = t
    BY <2>1, <1>1, <1>3 DEF IInv, Shape, BackendAppend, Goto
  <2>2. CASE u # t
    <3>1. pc'[u] = pc[u] /\ event'[u] = event[u] /\ seq'[u] = seq[u] /\ seq[u] \in Nat
      BY <2>2 DEF IInv, Shape, BackendAppend, Goto
    <3> QED
      BY <3>1, <1>1, <1>3 DEF IInv, RowIsThere
  <2> QED
    BY <2>1, <2>2
<1>7. ReadIsPrefix'
  <2> SUFFICES ASSUME NEW u \in Thread
               PROVE  /\ pc'[u] \in {"root", "publish"} =>
                            hashes'[u] # << >> /\ IsPrefixOfTrail(hashes[u])'
                      /\ pc'[u] = "publish" => root'[u] = hashes'[u]
    BY DEF ReadIsPrefix
  <2>1. hashes' = hashes /\ root' = root /\ hashes[u] \in Seq(Event)
    BY DEF IInv, Shape, BackendAppend
  <2>2. pc'[u] \in {"root", "publish"} => pc'[u] = pc[u]
    BY DEF IInv, Shape, BackendAppend, Goto
  <2> QED
    BY <2>1, <2>2, <1>4 DEF IInv, ReadIsPrefix, IsPrefixOfTrail
<1>8. MerkleIsPrefix'
  <2>1. merkle' = merkle /\ \A l \in Log : merkle[l] \in Seq(Event)
    BY DEF IInv, Shape, BackendAppend
  <2>2. \A l \in Log : IsPrefixOfTrail(merkle[l])
    BY DEF IInv, MerkleIsPrefix
  <2>3. \A l \in Log : /\ Len(merkle[l]) <= Len(trail')
                       /\ merkle[l] = SubSeq(trail', 1, Len(merkle[l]))
    BY <2>1, <2>2, <1>4
  <2> QED
    BY <2>1, <2>3 DEF MerkleIsPrefix, IsPrefixOfTrail
<1>9. CheckpointsVerify'
  <2> SUFFICES ASSUME NEW cp \in checkpoints
               PROVE  /\ cp.seq < Len(trail')
                      /\ cp.entry_hash = trail'[cp.seq + 1]
                      /\ cp.root = SubSeq(trail', 1, cp.seq + 1)
    BY DEF CheckpointsVerify, BackendAppend
  <2>1. cp.seq \in Nat /\ cp.root \in Seq(Event)
    BY DEF IInv, Shape, Checkpoint
  <2>2. /\ cp.seq < Len(trail) /\ cp.entry_hash = trail[cp.seq + 1]
        /\ cp.root = SubSeq(trail, 1, cp.seq + 1)
    BY DEF IInv, CheckpointsVerify
  <2>3. Len(cp.root) = cp.seq + 1
    BY <2>1, <2>2, <1>1
  <2>4. IsPrefixOfTrail(cp.root)
    BY <2>1, <2>2, <2>3, <1>1 DEF IsPrefixOfTrail
  <2>5. cp.root = SubSeq(trail', 1, cp.seq + 1)
    BY <2>1, <2>3, <2>4, <1>4
  <2>6. Len(trail) \in Nat /\ cp.seq + 1 \in 1 .. Len(trail)
    BY <2>1, <2>2, <1>1
  <2>7. cp.entry_hash = trail'[cp.seq + 1]
    BY <2>2, <2>6, <1>3
  <2>8. cp.seq < Len(trail')
    BY <2>1, <2>2, <2>6, <1>3
  <2> QED
    BY <2>5, <2>7, <2>8
<1> QED
  BY <1>5, <1>6, <1>7, <1>8, <1>9 DEF IInv

\* The forest after _note_appended: pushed on exactly seq leaves, it ends
\* with the row; rebuilt, it is the whole trail.
LEMMA NoteAppendedKeeps ==
    ASSUME IInv, NEW t \in Thread, NoteAppended(t)
    PROVE  IInv'
<1> DEFINE l == LogOf[t]
<1>1. /\ l \in Log /\ trail \in Seq(Event) /\ merkle[l] \in Seq(Event)
      /\ event[t] \in Event /\ seq[t] \in Nat
      /\ seq[t] < Len(trail) /\ trail[seq[t] + 1] = event[t]
      /\ IsPrefixOfTrail(merkle[l])
  BY AuditLogAssumption DEF IInv, Shape, RowIsThere, MerkleIsPrefix, NoteAppended
<1>2. PICK m \in {Append(merkle[l], event[t]), trail} :
         /\ merkle' = [merkle EXCEPT ![l] = m]
         /\ m # trail => CanPush(t)
  BY DEF NoteAppended
<1>3. m \in Seq(Event) /\ IsPrefixOfTrail(m)
  <2>1. CASE m = trail
    BY <2>1, <1>1, TrivialPrefixes
  <2>2. CASE m = Append(merkle[l], event[t]) /\ CanPush(t)
    <3>1. /\ m \in Seq(Event) /\ Len(m) = Len(merkle[l]) + 1
          /\ m[Len(m)] = event[t]
          /\ \A i \in 1 .. Len(merkle[l]) : m[i] = merkle[l][i]
      BY <2>2, <1>1
    <3>2. Len(merkle[l]) = seq[t]
      BY <2>2 DEF CanPush
    <3>3. \A i \in 1 .. Len(merkle[l]) : merkle[l][i] = trail[i]
      BY <1>1, PrefixByElements DEF IsPrefixOfTrail
    <3>4. Len(m) <= Len(trail) /\ \A i \in 1 .. Len(m) : m[i] = trail[i]
      BY <3>1, <3>2, <3>3, <1>1
    <3> QED
      BY <3>1, <3>4, <1>1, PrefixByElements DEF IsPrefixOfTrail
  <2> QED
    BY <1>2, <2>1, <2>2
<1>4. merkle' \in [Log -> Seq(Event)]
  BY <1>1, <1>2, <1>3 DEF IInv, Shape
<1>5. MerkleIsPrefix'
  BY <1>1, <1>2, <1>3 DEF IInv, Shape, MerkleIsPrefix, IsPrefixOfTrail, NoteAppended
<1> QED
  BY <1>4, <1>5, MoveKeeps DEF NoteAppended

\* anchor() reads the whole trail.
LEMMA AnchorReadKeeps ==
    ASSUME IInv, NEW t \in Thread, AnchorRead(t)
    PROVE  IInv'
<1> USE DEF AnchorRead
<1>1. Shape'
  BY DEF IInv, Shape, Goto
<1>2. RowIsThere'
  BY DEF IInv, Shape, RowIsThere, Goto
<1>3. ReadIsPrefix'
  <2>1. IsPrefixOfTrail(trail)
    BY TrivialPrefixes DEF IInv, Shape
  <2> QED
    BY <2>1 DEF IInv, Shape, ReadIsPrefix, IsPrefixOfTrail, Goto
<1>4. MerkleIsPrefix' /\ CheckpointsVerify'
  BY StoreUntouched
<1> QED
  BY <1>1, <1>2, <1>3, <1>4 DEF IInv

\* _merkle_root_for: whichever forest it takes the root from, it holds
\* exactly the hashes that were read.
LEMMA TreeForIsRead ==
    ASSUME NEW tree \in Seq(Event), NEW hs \in Seq(Event),
           IsPrefixOfTrail(tree), IsPrefixOfTrail(hs)
    PROVE  TreeFor(tree, hs) = hs
  BY PrefixByLength DEF TreeFor

LEMMA AnchorRootKeeps ==
    ASSUME IInv, NEW t \in Thread, AnchorRoot(t)
    PROVE  IInv'
<1> DEFINE l == LogOf[t]
<1>1. /\ l \in Log /\ merkle[l] \in Seq(Event) /\ hashes[t] \in Seq(Event)
      /\ IsPrefixOfTrail(merkle[l]) /\ IsPrefixOfTrail(hashes[t]) /\ hashes[t] # << >>
  BY AuditLogAssumption DEF IInv, Shape, MerkleIsPrefix, ReadIsPrefix, AnchorRoot
<1>2. TreeFor(merkle[l], hashes[t]) = hashes[t]
  BY <1>1, TreeForIsRead
<1>3. /\ root' = [root EXCEPT ![t] = hashes[t]]
      /\ Goto(t, "publish")
      /\ UNCHANGED <<trail, checkpoints, event, seq, hashes>>
  BY <1>2 DEF AnchorRoot
<1>4. PICK m \in {hashes[t], merkle[l]} : merkle' = [merkle EXCEPT ![l] = m]
  BY <1>2 DEF AnchorRoot
<1>5. Shape'
  BY <1>1, <1>3, <1>4 DEF IInv, Shape, Goto
<1>6. RowIsThere'
  BY <1>3 DEF IInv, Shape, RowIsThere, Goto
<1>7. ReadIsPrefix'
  BY <1>1, <1>3 DEF IInv, Shape, ReadIsPrefix, IsPrefixOfTrail, Goto
<1>8. MerkleIsPrefix'
  BY <1>1, <1>3, <1>4 DEF IInv, Shape, MerkleIsPrefix, IsPrefixOfTrail
<1>9. CheckpointsVerify'
  BY <1>3 DEF IInv, CheckpointsVerify
<1> QED
  BY <1>5, <1>6, <1>7, <1>8, <1>9 DEF IInv

\* The checkpoint that is published is about the rows that were read.
LEMMA PublishKeeps ==
    ASSUME IInv, NEW t \in Thread, Publish(t)
    PROVE  IInv'
<1> DEFINE hs == hashes[t]
           cp == CheckpointFor(t)
<1>1. /\ hs \in Seq(Event) /\ hs # << >> /\ IsPrefixOfTrail(hs) /\ root[t] = hs
      /\ trail \in Seq(Event)
  BY DEF IInv, Shape, ReadIsPrefix, Publish
<1>2. Len(hs) \in Nat \ {0} /\ hs[Len(hs)] \in Event
  BY <1>1
<1>3. cp = [seq |-> Len(hs) - 1, entry_hash |-> hs[Len(hs)], root |-> hs]
  BY <1>1 DEF CheckpointFor
<1>4. cp \in Checkpoint
  BY <1>1, <1>2, <1>3 DEF Checkpoint
<1>5. Len(hs) <= Len(trail) /\ hs[Len(hs)] = trail[Len(hs)]
  BY <1>1, <1>2, PrefixByElements DEF IsPrefixOfTrail
<1>6. hs = SubSeq(trail, 1, Len(hs))
  BY <1>1 DEF IsPrefixOfTrail
<1>7. /\ cp.seq < Len(trail)
      /\ cp.entry_hash = trail[cp.seq + 1]
      /\ cp.root = SubSeq(trail, 1, cp.seq + 1)
  <2>1. cp.seq = Len(hs) - 1 /\ cp.entry_hash = hs[Len(hs)] /\ cp.root = hs
    BY <1>3
  <2>2. cp.seq + 1 = Len(hs) /\ Len(trail) \in Nat
    BY <2>1, <1>1, <1>2
  <2> HIDE DEF cp, hs
  <2> QED
    BY <2>1, <2>2, <1>2, <1>5, <1>6
<1>8. checkpoints' = checkpoints \cup {cp} /\ UNCHANGED <<trail, merkle>> /\ Finish(t)
  BY DEF Publish
<1> HIDE DEF cp
<1>9. CheckpointsVerify'
  BY <1>7, <1>8 DEF IInv, CheckpointsVerify
<1>10. MerkleIsPrefix'
  BY <1>8 DEF IInv, MerkleIsPrefix, IsPrefixOfTrail
<1>11. checkpoints' \subseteq Checkpoint /\ merkle' \in [Log -> Seq(Event)]
  BY <1>4, <1>8 DEF IInv, Shape
<1> QED
  BY <1>8, <1>9, <1>10, <1>11, FinishKeeps

-----------------------------------------------------------------------------
(* The invariant is inductive.                                             *)

LEMMA NextKeeps == IInv /\ [Next]_vars => IInv'
<1> SUFFICES ASSUME IInv, [Next]_vars PROVE IInv'
  OBVIOUS
<1>types. merkle \in [Log -> Seq(Event)] /\ checkpoints \subseteq Checkpoint
  BY DEF IInv, Shape
<1>stop. ASSUME NEW t \in Thread, Finish(t), UNCHANGED <<trail, merkle, checkpoints>>
         PROVE  IInv'
  BY <1>types, <1>stop, StoreUntouched, FinishKeeps
<1>1. ASSUME NEW t \in Thread, NEW e \in Event, Begin(t, e) PROVE IInv'
  <2> USE <1>1 DEF Begin
  <2>1. Shape'
    BY DEF IInv, Shape, Goto
  <2>2. RowIsThere'
    BY DEF IInv, Shape, RowIsThere, Goto
  <2>3. ReadIsPrefix'
    BY DEF IInv, Shape, ReadIsPrefix, IsPrefixOfTrail, Goto
  <2>4. MerkleIsPrefix' /\ CheckpointsVerify'
    BY StoreUntouched
  <2> QED
    BY <2>1, <2>2, <2>3, <2>4 DEF IInv
<1>2. ASSUME NEW t \in Thread, CallAnchor(t) PROVE IInv'
  BY <1>2, <1>types, StoreUntouched, MoveKeeps DEF CallAnchor
<1>3. ASSUME NEW t \in Thread, AcquireAppendLock(t) PROVE IInv'
  BY <1>3, <1>types, StoreUntouched, MoveKeeps DEF AcquireAppendLock
<1>4. ASSUME NEW t \in Thread, BackendAppend(t) PROVE IInv'
  BY <1>4, BackendAppendKeeps
<1>5. ASSUME NEW t \in Thread, BackendRaises(t) PROVE IInv'
  BY <1>5, <1>stop DEF BackendRaises
<1>6. ASSUME NEW t \in Thread, NoteAppended(t) PROVE IInv'
  BY <1>6, NoteAppendedKeeps
<1>7. ASSUME NEW t \in Thread, NoteRaises(t) PROVE IInv'
  BY <1>7, <1>stop DEF NoteRaises
<1>8. ASSUME NEW t \in Thread, Attest(t) PROVE IInv'
  <2>1. CASE AnchorDue(seq[t])
    BY <1>8, <2>1, <1>types, StoreUntouched, MoveKeeps DEF Attest
  <2>2. CASE ~AnchorDue(seq[t])
    BY <1>8, <2>2, <1>stop DEF Attest
  <2> QED
    BY <2>1, <2>2
<1>9. ASSUME NEW t \in Thread, AttestRaises(t) PROVE IInv'
  BY <1>9, <1>stop DEF AttestRaises
<1>10. ASSUME NEW t \in Thread, AnchorRead(t) PROVE IInv'
  BY <1>10, AnchorReadKeeps
<1>11. ASSUME NEW t \in Thread, AnchorReadRaises(t) PROVE IInv'
  BY <1>11, <1>stop DEF AnchorReadRaises, AnchorRaises
<1>12. ASSUME NEW t \in Thread, AnchorRoot(t) PROVE IInv'
  BY <1>12, AnchorRootKeeps
<1>13. ASSUME NEW t \in Thread, Publish(t) PROVE IInv'
  BY <1>13, PublishKeeps
<1>14. ASSUME NEW t \in Thread, PublishRaises(t) PROVE IInv'
  BY <1>14, <1>stop DEF PublishRaises, AnchorRaises
<1>15. ASSUME UNCHANGED <<trail, merkle, checkpoints, pc, frame>> PROVE IInv'
  BY <1>15, StoreUntouched
     DEF IInv, Shape, RowIsThere, ReadIsPrefix, IsPrefixOfTrail, frame
<1>16. ASSUME NEW i \in DOMAIN trail, Damage(i) PROVE IInv'
  BY <1>16, <1>15 DEF Damage
<1>17. CASE UNCHANGED vars
  BY <1>17, <1>15 DEF vars, frame
<1> QED
  BY <1>1, <1>2, <1>3, <1>4, <1>5, <1>6, <1>7, <1>8, <1>9, <1>10, <1>11,
     <1>12, <1>13, <1>14, <1>16, <1>17 DEF Next, Step

LEMMA Invariance == Spec => []IInv
<1>1. Init => IInv
  BY InitEstablishes
<1>2. IInv /\ [Next]_vars => IInv'
  BY NextKeeps
<1> QED
  BY <1>1, <1>2, PTL DEF Spec

\* AuditLog._note_appended keeps the forest of every object a prefix of the
\* durable trail, however many objects and threads append to it.
THEOREM ForestIsAlwaysAPrefix == Spec => []MerkleIsPrefix
<1>1. IInv => MerkleIsPrefix
  BY DEF IInv
<1> QED
  BY <1>1, Invariance, PTL

\* Every checkpoint AuditLog.anchor publishes verifies against the trail from
\* then on, although it reads the trail before it takes the append lock.
THEOREM CheckpointsAlwaysVerify == Spec => []CheckpointsVerify
<1>1. IInv => CheckpointsVerify
  BY DEF IInv
<1> QED
  BY <1>1, Invariance, PTL

-----------------------------------------------------------------------------
(* What the counters tell.                                                 *)

\* The counters and the faults have their types.
BookShape ==
    /\ dropped \in [Log -> SUBSET Event]
    /\ attestFailures \in [Log -> SUBSET Nat]
    /\ anchorFailures \in [Log -> Nat]
    /\ faults \in [FaultKinds -> Nat]

\* No two calls record one event, and one the backend has not returned from
\* is neither on the chain nor counted as dropped.
EventsAreOwn ==
    /\ \A t, u \in Thread : t # u /\ event[t] = event[u] => event[t] = NoEvent
    /\ \A t \in Thread : pc[t] \in {"lock", "backend"} =>
          /\ \A i \in DOMAIN trail : trail[i] # event[t]
          /\ \A l \in Log : event[t] \notin dropped[l]

\* The thread's row is on the chain, and not sealed yet.
Waiting(t) == pc[t] \in {"note", "attest"}

\* A row is sealed, counted or waited for by one thread, and not twice.
RowsAreOwn ==
    /\ sealed \subseteq DOMAIN trail
    /\ \A l \in Log : attestFailures[l] \subseteq DOMAIN trail \ sealed
    /\ \A t \in Thread : Waiting(t) =>
          /\ seq[t] + 1 \in DOMAIN trail \ sealed
          /\ \A l \in Log : seq[t] + 1 \notin attestFailures[l]
          /\ \A u \in Thread : Waiting(u) /\ seq[u] = seq[t] => u = t

\* An unsealed row has been counted, or a thread is still at it.
RowsAreAccounted ==
    Readable /\ TryCallers = Thread =>
        \A i \in DOMAIN trail \ sealed :
            \/ \E l \in Log : i \in attestFailures[l]
            \/ \E t \in Thread : Waiting(t) /\ seq[t] + 1 = i

\* The thread is on its way to a checkpoint that covers the i-th row.
OnItsWay(t, i) ==
    /\ event[t] # NoEvent
    /\ \/ pc[t] \in {"note", "attest", "anchor"} /\ seq[t] + 1 = i
       \/ pc[t] \in {"root", "publish"} /\ Len(hashes[t]) >= i

\* A due row is covered, its failure is counted, or a thread is on its way.
DueIsAnchored ==
    Readable /\ SealsHold =>
        \A i \in DOMAIN trail : i % AnchorEvery = 0 =>
            \/ \E cp \in checkpoints : cp.seq >= i - 1
            \/ \E l \in Log : anchorFailures[l] > 0
            \/ \E t \in Thread : OnItsWay(t, i)

BookInv ==
    /\ BookShape
    /\ EventsAreOwn
    /\ RowsAreOwn
    /\ DropsAreLost
    /\ RowsAreAccounted
    /\ DueIsAnchored

\* Faults are never taken back: what could be read back, and what was sealed,
\* was so before.
LEMMA FaultsOnlyGrow ==
    ASSUME BookShape, damaged \subseteq damaged',
           UNCHANGED faults \/ \E k \in FaultKinds : faults' = [faults EXCEPT ![k] = @ + 1]
    PROVE  /\ faults' \in [FaultKinds -> Nat]
           /\ Readable' => Readable
           /\ SealsHold' => SealsHold
<1>1. faults' \in [FaultKinds -> Nat] /\ \A k \in FaultKinds : faults'[k] = 0 => faults[k] = 0
  BY DEF BookShape
<1> QED
  BY <1>1 DEF Readable, SealsHold

\* A read that raises, and a seal that fails, leave their mark.
LEMMA FaultsShow ==
    ASSUME BookShape
    PROVE  /\ ReadRaises /\ UNCHANGED damaged => ~Readable'
           /\ Fault("seal") => ~SealsHold'
<1>1. ASSUME NEW k, Fault(k) PROVE k \in FaultKinds /\ faults'[k] # 0
  BY <1>1 DEF Fault, BookShape
<1> QED
  BY <1>1 DEF ReadRaises, Readable, SealsHold

\* A step of t leaves the other threads where they are.
Others(t) ==
    \A u \in Thread : u # t =>
        /\ pc'[u] = pc[u] /\ event'[u] = event[u]
        /\ seq'[u] = seq[u] /\ hashes'[u] = hashes[u]

\* A thread that goes on with its event, or ends with it dropped or not.
LEMMA EventsKeep ==
    ASSUME IInv, BookInv, NEW t \in Thread, Others(t), UNCHANGED trail,
           event'[t] \in {event[t], NoEvent},
           pc'[t] \in {"lock", "backend"} =>
               pc[t] \in {"lock", "backend"} /\ event'[t] = event[t] /\ UNCHANGED dropped,
           \A l \in Log : dropped'[l] \subseteq dropped[l] \cup {event[t]}
    PROVE  EventsAreOwn'
<1>1. ASSUME NEW u \in Thread, NEW v \in Thread, u # v, event'[u] = event'[v]
      PROVE  event'[u] = NoEvent
  BY <1>1 DEF Others, BookInv, EventsAreOwn
<1>2. ASSUME NEW u \in Thread, pc'[u] \in {"lock", "backend"}
      PROVE  /\ \A i \in DOMAIN trail : trail[i] # event'[u]
             /\ \A l \in Log : event'[u] \notin dropped'[l]
  <2>1. CASE u = t
    BY <1>2, <2>1 DEF BookInv, EventsAreOwn
  <2>2. CASE u # t
    <3>1. pc[u] \in {"lock", "backend"} /\ event'[u] = event[u]
      BY <1>2, <2>2 DEF Others
    <3>2. event[u] \in Event /\ event[u] # NoEvent
      BY <3>1, AuditLogAssumption DEF IInv, RowIsThere
    <3>3. event[u] # event[t]
      BY <2>2, <3>2 DEF BookInv, EventsAreOwn
    <3> QED
      BY <3>1, <3>3 DEF BookInv, EventsAreOwn
  <2> QED
    BY <2>1, <2>2
<1> QED
  BY <1>1, <1>2 DEF EventsAreOwn

\* A thread that waits goes on waiting, or gives its row up where the trail
\* cannot be read back.
LEMMA RowsKeep ==
    ASSUME IInv, BookInv, NEW t \in Thread, Others(t), UNCHANGED <<trail, sealed, attestFailures>>,
           Readable' => Readable,
           Waiting(t)' => Waiting(t) /\ seq'[t] = seq[t],
           Waiting(t) => Waiting(t)' \/ ~Readable'
    PROVE  RowsAreOwn' /\ RowsAreAccounted'
<1>1. ASSUME NEW u \in Thread, Waiting(u)'
      PROVE  Waiting(u) /\ seq'[u] = seq[u]
  BY <1>1 DEF Others, Waiting
<1>2. RowsAreOwn'
  <2>1. ASSUME NEW u \in Thread, Waiting(u)'
        PROVE  /\ seq'[u] + 1 \in DOMAIN trail \ sealed
               /\ \A l \in Log : seq'[u] + 1 \notin attestFailures[l]
               /\ \A v \in Thread : Waiting(v)' /\ seq'[v] = seq'[u] => v = u
    BY <1>1, <2>1 DEF BookInv, RowsAreOwn
  <2> QED
    BY <2>1 DEF BookInv, RowsAreOwn
<1>3. ASSUME Readable', NEW u \in Thread, Waiting(u)
      PROVE  Waiting(u)' /\ seq'[u] = seq[u]
  BY <1>3 DEF Others, Waiting
<1>4. RowsAreAccounted'
  BY <1>3 DEF BookInv, RowsAreAccounted
<1> QED
  BY <1>2, <1>4

\* A thread on its way to a checkpoint stays on it, gets there, or counts.
StaysOnItsWay(t) ==
    \A i \in DOMAIN trail : i % AnchorEvery = 0 /\ OnItsWay(t, i) /\ Readable' /\ SealsHold' =>
        \/ \E cp \in checkpoints' : cp.seq >= i - 1
        \/ \E l \in Log : anchorFailures'[l] > 0
        \/ OnItsWay(t, i)'

LEMMA CadenceKeeps ==
    ASSUME IInv, BookInv, NEW t \in Thread, Others(t), UNCHANGED trail,
           checkpoints \subseteq checkpoints',
           \A l \in Log : anchorFailures[l] > 0 => anchorFailures'[l] > 0,
           Readable' => Readable, SealsHold' => SealsHold,
           StaysOnItsWay(t)
    PROVE  DueIsAnchored'
<1> SUFFICES ASSUME Readable', SealsHold', NEW i \in DOMAIN trail, i % AnchorEvery = 0
             PROVE  \/ \E cp \in checkpoints' : cp.seq >= i - 1
                    \/ \E l \in Log : anchorFailures'[l] > 0
                    \/ \E u \in Thread : OnItsWay(u, i)'
  BY DEF DueIsAnchored
<1>1. CASE \E cp \in checkpoints : cp.seq >= i - 1
  BY <1>1
<1>2. CASE \E l \in Log : anchorFailures[l] > 0
  BY <1>2
<1>3. CASE \E u \in Thread : OnItsWay(u, i)
  <2>1. PICK u \in Thread : OnItsWay(u, i)
    BY <1>3
  <2>2. CASE u = t
    BY <2>1, <2>2 DEF StaysOnItsWay
  <2>3. CASE u # t
    <3>1. OnItsWay(u, i)'
      BY <2>1, <2>3 DEF Others, OnItsWay
    <3> QED
      BY <3>1
  <2> QED
    BY <2>2, <2>3
<1> QED
  BY <1>1, <1>2, <1>3 DEF BookInv, DueIsAnchored

\* Steps of one thread that neither land nor seal nor count a row.
LEMMA StepKeeps ==
    ASSUME IInv, BookInv, NEW t \in Thread, Others(t),
           UNCHANGED <<trail, sealed, attestFailures, damaged>>,
           UNCHANGED faults \/ \E k \in FaultKinds : faults' = [faults EXCEPT ![k] = @ + 1],
           \* the event and its loss
           event'[t] \in {event[t], NoEvent},
           pc'[t] \in {"lock", "backend"} =>
               pc[t] \in {"lock", "backend"} /\ event'[t] = event[t] /\ UNCHANGED dropped,
           \/ UNCHANGED dropped
           \/ /\ dropped' \in [Log -> SUBSET Event]
              /\ \A l \in Log : dropped'[l] \subseteq dropped[l] \cup {event[t]}
              /\ ~Readable' \/ \A i \in DOMAIN trail : trail[i] # event[t],
           \* the row
           Waiting(t)' => Waiting(t) /\ seq'[t] = seq[t],
           Waiting(t) => Waiting(t)' \/ ~Readable',
           \* the checkpoint
           checkpoints \subseteq checkpoints',
           anchorFailures' \in [Log -> Nat],
           \A l \in Log : anchorFailures[l] > 0 => anchorFailures'[l] > 0,
           StaysOnItsWay(t)
    PROVE  BookInv'
<1>1. faults' \in [FaultKinds -> Nat] /\ (Readable' => Readable) /\ (SealsHold' => SealsHold)
  BY FaultsOnlyGrow DEF BookInv
<1>2. BookShape'
  BY <1>1 DEF BookInv, BookShape
<1>3. EventsAreOwn'
  <2>1. \A l \in Log : dropped'[l] \subseteq dropped[l] \cup {event[t]}
    OBVIOUS
  <2> QED
    BY <2>1, EventsKeep
<1>4. RowsAreOwn' /\ RowsAreAccounted'
  BY <1>1, RowsKeep
<1>5. DropsAreLost'
  <2> SUFFICES ASSUME Readable', NEW l \in Log, NEW i \in DOMAIN trail
               PROVE  trail[i] \notin dropped'[l]
    BY DEF DropsAreLost, PersistedIsNeverDropped
  <2>1. trail[i] \notin dropped[l]
    BY <1>1 DEF BookInv, DropsAreLost, PersistedIsNeverDropped
  <2> QED
    BY <2>1
<1>6. DueIsAnchored'
  BY <1>1, CadenceKeeps
<1> QED
  BY <1>2, <1>3, <1>4, <1>5, <1>6 DEF BookInv

\* What Goto and Finish do to the threads.
LEMMA ThreadMoves ==
    ASSUME IInv, NEW t \in Thread
    PROVE  /\ \A w : Goto(t, w) /\ UNCHANGED frame =>
                 /\ Others(t) /\ pc'[t] = w /\ event'[t] = event[t] /\ seq'[t] = seq[t]
                 /\ hashes'[t] = hashes[t]
           /\ Finish(t) => Others(t) /\ pc'[t] = "idle" /\ event'[t] = NoEvent
<1>1. ASSUME NEW w, Goto(t, w), UNCHANGED frame
      PROVE  /\ Others(t) /\ pc'[t] = w /\ event'[t] = event[t] /\ seq'[t] = seq[t]
             /\ hashes'[t] = hashes[t]
  BY <1>1 DEF Goto, frame, Others, IInv, Shape
<1>2. ASSUME Finish(t) PROVE Others(t) /\ pc'[t] = "idle" /\ event'[t] = NoEvent
  BY <1>2 DEF Finish, Goto, Others, IInv, Shape
<1> QED
  BY <1>1, <1>2

\* A call begins with an event nobody has recorded.
LEMMA BeginKeepsBooks ==
    ASSUME IInv, BookInv, NEW t \in Thread, NEW e \in Event, Begin(t, e)
    PROVE  BookInv'
<1>1. /\ pc[t] = "idle" /\ pc'[t] = "lock" /\ event'[t] = e /\ Others(t)
      /\ UNCHANGED <<trail, sealed, attestFailures, anchorFailures, dropped, damaged, faults,
                     checkpoints>>
  BY DEF Begin, Goto, counters, Others, IInv, Shape
<1>2. (Readable' <=> Readable) /\ (SealsHold' <=> SealsHold)
  BY <1>1 DEF Readable, SealsHold
<1>3. BookShape'
  BY <1>1 DEF BookInv, BookShape
<1>4. EventsAreOwn'
  <2>1. \A u \in Thread : event[u] # e
    BY DEF Begin
  <2>2. /\ \A i \in DOMAIN trail : trail[i] # e
        /\ \A l \in Log : e \notin dropped[l]
    BY DEF Begin
  <2> QED
    BY <1>1, <2>1, <2>2 DEF Others, BookInv, EventsAreOwn
<1>5. RowsAreOwn' /\ RowsAreAccounted'
  BY <1>1, <1>2, RowsKeep DEF Waiting
<1>6. DropsAreLost'
  BY <1>1, <1>2 DEF BookInv, DropsAreLost, PersistedIsNeverDropped
<1>7. StaysOnItsWay(t)
  BY <1>1 DEF StaysOnItsWay, OnItsWay
<1>8. DueIsAnchored'
  BY <1>1, <1>2, <1>7, CadenceKeeps
<1> QED
  BY <1>3, <1>4, <1>5, <1>6, <1>8 DEF BookInv

\* The row that lands is nobody's but the thread's.
LEMMA BackendAppendKeepsBooks ==
    ASSUME IInv, BookInv, NEW t \in Thread, BackendAppend(t)
    PROVE  BookInv'
<1>1. /\ pc[t] = "backend" /\ pc'[t] = "note" /\ event' = event /\ seq'[t] = Len(trail)
      /\ Others(t) /\ hashes' = hashes
      /\ UNCHANGED <<sealed, attestFailures, anchorFailures, dropped, damaged, faults, checkpoints>>
  BY DEF BackendAppend, Goto, counters, Others, IInv, Shape
<1>2. (Readable' <=> Readable) /\ (SealsHold' <=> SealsHold)
  BY <1>1 DEF Readable, SealsHold
<1>3. PICK n \in Nat : n = Len(trail)
  BY DEF IInv, Shape
<1>4. event[t] \in Event /\ event[t] # NoEvent
  BY <1>1, AuditLogAssumption DEF IInv, RowIsThere
<1>5. /\ DOMAIN trail = 1 .. n /\ DOMAIN trail' = 1 .. n + 1 /\ trail'[n + 1] = event[t]
      /\ \A i \in 1 .. n : trail'[i] = trail[i]
  BY <1>3, <1>4 DEF BackendAppend, IInv, Shape
<1>6. seq \in [Thread -> Nat] /\ seq'[t] = n
  BY <1>1, <1>3 DEF IInv, Shape
<1>7. BookShape'
  BY <1>1 DEF BookInv, BookShape
<1>8. EventsAreOwn'
  <2>1. ASSUME NEW u \in Thread, pc'[u] \in {"lock", "backend"}
        PROVE  /\ \A i \in DOMAIN trail' : trail'[i] # event[u]
               /\ \A l \in Log : event[u] \notin dropped[l]
    <3>1. u # t /\ pc[u] \in {"lock", "backend"}
      BY <1>1, <2>1 DEF Others
    <3>2. event[u] # event[t]
      BY <1>4, <3>1 DEF BookInv, EventsAreOwn
    <3>3. /\ \A i \in DOMAIN trail : trail[i] # event[u]
          /\ \A l \in Log : event[u] \notin dropped[l]
      BY <3>1 DEF BookInv, EventsAreOwn
    <3>4. ASSUME NEW i \in 1 .. n + 1 PROVE trail'[i] # event[u]
      <4>1. CASE i = n + 1
        BY <1>5, <3>2, <4>1
      <4>2. CASE i # n + 1
        BY <1>5, <3>3, <4>2
      <4> QED
        BY <4>1, <4>2
    <3> QED
      BY <1>5, <3>3, <3>4
  <2> QED
    BY <1>1, <2>1 DEF BookInv, EventsAreOwn
<1>9. n + 1 \notin DOMAIN trail
  BY <1>5
<1>10. ASSUME NEW u \in Thread
       PROVE  Waiting(u)' <=> u = t \/ Waiting(u)
  BY <1>1 DEF Others, Waiting
<1>11. ASSUME NEW u \in Thread, Waiting(u)
       PROVE  u # t /\ seq'[u] = seq[u] /\ seq[u] + 1 \in 1 .. n
  BY <1>1, <1>5, <1>11 DEF Others, Waiting, BookInv, RowsAreOwn
<1>12. RowsAreOwn'
  <2>1. sealed' \subseteq DOMAIN trail' /\ \A l \in Log : attestFailures'[l] \subseteq DOMAIN trail' \ sealed'
    BY <1>1, <1>5 DEF BookInv, RowsAreOwn
  <2>2. ASSUME NEW u \in Thread, Waiting(u)'
        PROVE  /\ seq'[u] + 1 \in DOMAIN trail' \ sealed'
               /\ \A l \in Log : seq'[u] + 1 \notin attestFailures'[l]
               /\ \A v \in Thread : Waiting(v)' /\ seq'[v] = seq'[u] => v = u
    <3>1. CASE u = t
      <4>1. n + 1 \notin sealed /\ \A l \in Log : n + 1 \notin attestFailures[l]
        BY <1>9 DEF BookInv, RowsAreOwn
      <4>2. \A v \in Thread : Waiting(v) => seq'[v] # n
        BY <1>6, <1>11
      <4> QED
        BY <1>1, <1>5, <1>6, <1>10, <3>1, <4>1, <4>2
    <3>2. CASE u # t
      <4>1. Waiting(u) /\ seq'[u] = seq[u] /\ seq[u] # n
        BY <1>6, <1>10, <1>11, <2>2, <3>2
      <4>2. /\ seq[u] + 1 \in DOMAIN trail \ sealed
            /\ \A l \in Log : seq[u] + 1 \notin attestFailures[l]
            /\ \A v \in Thread : Waiting(v) /\ seq[v] = seq[u] => v = u
        BY <4>1 DEF BookInv, RowsAreOwn
      <4>3. seq[u] + 1 \in DOMAIN trail'
        BY <1>5, <4>2
      <4> QED
        BY <1>1, <1>6, <1>10, <1>11, <4>1, <4>2, <4>3
    <3> QED
      BY <3>1, <3>2
  <2> QED
    BY <2>1, <2>2 DEF RowsAreOwn
<1>13. DropsAreLost'
  <2> SUFFICES ASSUME Readable, NEW l \in Log, NEW i \in 1 .. n + 1
               PROVE  trail'[i] \notin dropped[l]
    BY <1>1, <1>2, <1>5 DEF DropsAreLost, PersistedIsNeverDropped
  <2>1. CASE i = n + 1
    BY <1>1, <1>5, <2>1 DEF BookInv, EventsAreOwn
  <2>2. CASE i # n + 1
    BY <1>5, <2>2 DEF BookInv, DropsAreLost, PersistedIsNeverDropped
  <2> QED
    BY <2>1, <2>2
<1>14. RowsAreAccounted'
  <2> SUFFICES ASSUME Readable, TryCallers = Thread, NEW i \in 1 .. n + 1, i \notin sealed
               PROVE  \/ \E l \in Log : i \in attestFailures[l]
                      \/ \E u \in Thread : Waiting(u)' /\ seq'[u] + 1 = i
    BY <1>1, <1>2, <1>5 DEF RowsAreAccounted
  <2>1. CASE i = n + 1
    BY <1>6, <1>10, <2>1
  <2>2. CASE i # n + 1
    <3>1. \/ \E l \in Log : i \in attestFailures[l]
          \/ \E u \in Thread : Waiting(u) /\ seq[u] + 1 = i
      BY <1>5, <2>2 DEF BookInv, RowsAreAccounted
    <3> QED
      BY <1>10, <1>11, <3>1
  <2> QED
    BY <2>1, <2>2
<1>15. DueIsAnchored'
  <2> SUFFICES ASSUME Readable, SealsHold, NEW i \in 1 .. n + 1, i % AnchorEvery = 0
               PROVE  \/ \E cp \in checkpoints : cp.seq >= i - 1
                      \/ \E l \in Log : anchorFailures[l] > 0
                      \/ \E u \in Thread : OnItsWay(u, i)'
    BY <1>1, <1>2, <1>5 DEF DueIsAnchored
  <2>1. CASE i = n + 1
    <3>1. OnItsWay(t, i)'
      BY <1>1, <1>4, <1>6, <2>1 DEF OnItsWay
    <3> QED
      BY <3>1
  <2>2. CASE i # n + 1
    <3>1. \/ \E cp \in checkpoints : cp.seq >= i - 1
          \/ \E l \in Log : anchorFailures[l] > 0
          \/ \E u \in Thread : OnItsWay(u, i)
      BY <1>5, <2>2 DEF BookInv, DueIsAnchored
    <3>2. ASSUME NEW u \in Thread, OnItsWay(u, i) PROVE OnItsWay(u, i)'
      BY <1>1, <3>2 DEF OnItsWay, Others
    <3> QED
      BY <3>1, <3>2
  <2> QED
    BY <2>1, <2>2
<1> QED
  BY <1>7, <1>8, <1>12, <1>13, <1>14, <1>15 DEF BookInv

\* The row a thread waits for is sealed, or counted as unsealed.
LEMMA SealKeepsBooks ==
    ASSUME IInv, BookInv, NEW t \in Thread, Attest(t) \/ AttestRaises(t)
    PROVE  BookInv'
<1>1. /\ pc[t] = "attest" /\ Waiting(t) /\ seq[t] \in Nat
      /\ UNCHANGED <<trail, damaged, dropped, anchorFailures, checkpoints>>
  BY DEF Attest, AttestRaises, CountUnsealed, counters, Waiting, IInv, Shape
<1>2. PICK r \in Nat : r = seq[t] + 1
  BY <1>1
<1>3. /\ Others(t) /\ pc'[t] \in {"anchor", "idle"} /\ event'[t] \in {event[t], NoEvent}
      /\ pc'[t] = "anchor" => Attest(t) /\ event'[t] = event[t] /\ seq'[t] = seq[t]
  BY ThreadMoves DEF Attest, AttestRaises
<1>4. UNCHANGED faults \/ \E k \in FaultKinds : faults' = [faults EXCEPT ![k] = @ + 1]
  BY DEF Attest, AttestRaises, Fault
<1>5. faults' \in [FaultKinds -> Nat] /\ (Readable' => Readable) /\ (SealsHold' => SealsHold)
  BY <1>1, <1>4, FaultsOnlyGrow DEF BookInv
<1>6. \/ sealed' = sealed \cup {r} /\ UNCHANGED attestFailures
      \/ /\ UNCHANGED sealed
         /\ attestFailures' = [attestFailures EXCEPT ![LogOf[t]] =
                                  IF t \in TryCallers THEN @ \cup {r} ELSE @]
  BY <1>2 DEF Attest, AttestRaises, CountUnsealed, counters
<1>7. BookShape'
  BY <1>1, <1>2, <1>5, <1>6 DEF BookInv, BookShape
<1>8. EventsAreOwn'
  BY <1>1, <1>3, EventsKeep
<1>9. DropsAreLost'
  BY <1>1, <1>5 DEF BookInv, DropsAreLost, PersistedIsNeverDropped
<1>10. ASSUME NEW u \in Thread
       PROVE  Waiting(u)' <=> u # t /\ Waiting(u)
  BY <1>1, <1>3 DEF Others, Waiting
<1>11. /\ r \in DOMAIN trail \ sealed /\ \A l \in Log : r \notin attestFailures[l]
       /\ \A u \in Thread : u # t /\ Waiting(u) => seq'[u] = seq[u] /\ seq[u] + 1 # r
  <2>1. \A u \in Thread : u # t /\ Waiting(u) => seq[u] # seq[t]
    BY <1>1 DEF BookInv, RowsAreOwn
  <2>2. \A u \in Thread : seq[u] \in Nat
    BY DEF IInv, Shape
  <2>3. \A u \in Thread : u # t => seq'[u] = seq[u]
    BY <1>3 DEF Others
  <2>4. r \in DOMAIN trail \ sealed /\ \A l \in Log : r \notin attestFailures[l]
    BY <1>1, <1>2 DEF BookInv, RowsAreOwn
  <2> QED
    BY <1>1, <1>2, <2>1, <2>2, <2>3, <2>4
<1>12. /\ sealed' \subseteq sealed \cup {r}
       /\ \A l \in Log : attestFailures'[l] \subseteq attestFailures[l] \cup {r}
       /\ \A l \in Log : r \in attestFailures'[l] => r \notin sealed'
       /\ sealed \subseteq sealed' /\ \A l \in Log : attestFailures[l] \subseteq attestFailures'[l]
  BY <1>6, <1>11 DEF BookInv, BookShape
<1>13. RowsAreOwn'
  <2>1. sealed' \subseteq DOMAIN trail'
    BY <1>1, <1>11, <1>12 DEF BookInv, RowsAreOwn
  <2>2. ASSUME NEW l \in Log PROVE attestFailures'[l] \subseteq DOMAIN trail' \ sealed'
    BY <1>1, <1>11, <1>12 DEF BookInv, RowsAreOwn
  <2>3. ASSUME NEW u \in Thread, Waiting(u)'
        PROVE  /\ seq'[u] + 1 \in DOMAIN trail' \ sealed'
               /\ \A l \in Log : seq'[u] + 1 \notin attestFailures'[l]
               /\ \A v \in Thread : Waiting(v)' /\ seq'[v] = seq'[u] => v = u
    <3>1. u # t /\ Waiting(u) /\ seq'[u] = seq[u] /\ seq[u] + 1 # r
      BY <1>10, <1>11, <2>3
    <3>2. /\ seq[u] + 1 \in DOMAIN trail \ sealed
          /\ \A l \in Log : seq[u] + 1 \notin attestFailures[l]
          /\ \A v \in Thread : Waiting(v) /\ seq[v] = seq[u] => v = u
      BY <3>1 DEF BookInv, RowsAreOwn
    <3> QED
      BY <1>1, <1>10, <1>11, <1>12, <3>1, <3>2
  <2> QED
    BY <2>1, <2>2, <2>3 DEF RowsAreOwn
<1>14. RowsAreAccounted'
  <2> SUFFICES ASSUME Readable, TryCallers = Thread, NEW i \in DOMAIN trail, i \notin sealed'
               PROVE  \/ \E l \in Log : i \in attestFailures'[l]
                      \/ \E u \in Thread : Waiting(u)' /\ seq'[u] + 1 = i
    BY <1>1, <1>5 DEF RowsAreAccounted
  <2>1. CASE i = r
    <3>1. LogOf[t] \in Log
      BY AuditLogAssumption
    <3>2. r \in attestFailures'[LogOf[t]]
      BY <1>6, <2>1, <3>1 DEF BookInv, BookShape
    <3> QED
      BY <2>1, <3>1, <3>2
  <2>2. CASE i # r
    <3>1. \/ \E l \in Log : i \in attestFailures[l]
          \/ \E u \in Thread : Waiting(u) /\ seq[u] + 1 = i
      BY <1>12 DEF BookInv, RowsAreAccounted
    <3>2. ASSUME NEW u \in Thread, Waiting(u), seq[u] + 1 = i
          PROVE  Waiting(u)' /\ seq'[u] + 1 = i
      BY <1>2, <1>10, <1>11, <2>2, <3>2
    <3> QED
      BY <1>12, <3>1, <3>2
  <2> QED
    BY <2>1, <2>2
<1>15. StaysOnItsWay(t)
  <2> SUFFICES ASSUME NEW i \in DOMAIN trail, i % AnchorEvery = 0, OnItsWay(t, i), SealsHold'
               PROVE  OnItsWay(t, i)'
    BY DEF StaysOnItsWay
  <2>1. event[t] # NoEvent /\ seq[t] + 1 = i
    BY <1>1 DEF OnItsWay
  <2>2. Attest(t)
    BY FaultsShow DEF AttestRaises, BookInv
  <2>3. AnchorDue(seq[t])
    BY <2>1 DEF AnchorDue
  <2>4. pc'[t] = "anchor" /\ event'[t] = event[t] /\ seq'[t] = seq[t]
    BY <2>2, <2>3, ThreadMoves DEF Attest
  <2> QED
    BY <2>1, <2>4 DEF OnItsWay
<1>16. DueIsAnchored'
  BY <1>1, <1>3, <1>5, <1>15, CadenceKeeps
<1> QED
  BY <1>7, <1>8, <1>9, <1>13, <1>14, <1>16 DEF BookInv

\* Every step keeps the books.
LEMMA NextKeepsBooks ==
    ASSUME IInv, BookInv, [Next]_vars
    PROVE  BookInv'
<1>types. /\ anchorFailures \in [Log -> Nat] /\ dropped \in [Log -> SUBSET Event]
  BY DEF BookInv, BookShape
<1>1. ASSUME NEW t \in Thread, NEW e \in Event, Begin(t, e) PROVE BookInv'
  BY <1>1, BeginKeepsBooks
<1>2. ASSUME NEW t \in Thread, CallAnchor(t) \/ AcquireAppendLock(t) \/ NoteAppended(t)
      PROVE  BookInv'
  <2>1. /\ UNCHANGED <<trail, sealed, attestFailures, anchorFailures, dropped, damaged, faults,
                       checkpoints, frame>>
    BY <1>2 DEF CallAnchor, AcquireAppendLock, NoteAppended, ReadOk, counters
  <2>2. \/ pc[t] = "idle" /\ Goto(t, "anchor")
        \/ pc[t] = "lock" /\ Goto(t, "backend")
        \/ pc[t] = "note" /\ Goto(t, "attest")
    BY <1>2 DEF CallAnchor, AcquireAppendLock, NoteAppended
  <2>3. /\ Others(t) /\ event'[t] = event[t] /\ seq'[t] = seq[t] /\ hashes'[t] = hashes[t]
        /\ \/ pc[t] = "idle" /\ pc'[t] = "anchor"
           \/ pc[t] = "lock" /\ pc'[t] = "backend"
           \/ pc[t] = "note" /\ pc'[t] = "attest"
    BY <2>1, <2>2, ThreadMoves
  <2>4. StaysOnItsWay(t)
    BY <2>3 DEF StaysOnItsWay, OnItsWay
  <2>5. Waiting(t)' <=> Waiting(t)
    BY <2>3 DEF Waiting
  <2> QED
    BY <1>types, <2>1, <2>3, <2>4, <2>5, StepKeeps
<1>3. ASSUME NEW t \in Thread, BackendAppend(t) PROVE BookInv'
  BY <1>3, BackendAppendKeepsBooks
<1>4. ASSUME NEW t \in Thread, BackendRaises(t) \/ NoteRaises(t) PROVE BookInv'
  <2>1. /\ UNCHANGED <<trail, sealed, attestFailures, anchorFailures, damaged, checkpoints>>
        /\ Finish(t) /\ CountDrop(t) /\ pc[t] \in {"backend", "note"}
        /\ UNCHANGED faults \/ \E k \in FaultKinds : faults' = [faults EXCEPT ![k] = @ + 1]
    BY <1>4 DEF BackendRaises, NoteRaises, ReadRaises, Fault
  <2>2. Others(t) /\ pc'[t] = "idle" /\ event'[t] = NoEvent
    BY <2>1, ThreadMoves
  <2>3. event[t] \in Event
    BY <2>1 DEF IInv, RowIsThere
  <2>4. /\ dropped' \in [Log -> SUBSET Event]
        /\ \A l \in Log : dropped'[l] \subseteq dropped[l] \cup {event[t]}
    BY <1>types, <2>1, <2>3 DEF CountDrop
  <2>5. pc[t] = "note" => ~Readable'
    BY <1>4, <2>1, FaultsShow DEF BackendRaises, NoteRaises, BookInv
  <2>6. pc[t] = "backend" => \A i \in DOMAIN trail : trail[i] # event[t]
    BY DEF BookInv, EventsAreOwn
  <2>7. StaysOnItsWay(t)
    BY <2>1, <2>5 DEF StaysOnItsWay, OnItsWay
  <2>8. ~Waiting(t)' /\ (Waiting(t) => ~Readable')
    BY <2>1, <2>2, <2>5 DEF Waiting
  <2> QED
    BY <1>types, <2>1, <2>2, <2>4, <2>5, <2>6, <2>7, <2>8, StepKeeps
<1>5. ASSUME NEW t \in Thread, Attest(t) \/ AttestRaises(t) PROVE BookInv'
  BY <1>5, SealKeepsBooks
<1>6. ASSUME NEW t \in Thread, AnchorRead(t) PROVE BookInv'
  <2>1. /\ UNCHANGED <<trail, sealed, attestFailures, anchorFailures, dropped, damaged, faults,
                       checkpoints>>
        /\ pc[t] = "anchor"
    BY <1>6 DEF AnchorRead, ReadOk, counters
  <2>2. /\ Others(t) /\ pc'[t] = "root" /\ event'[t] = event[t] /\ hashes'[t] = trail
    BY <1>6 DEF AnchorRead, Goto, Others, IInv, Shape
  <2>3. \A i \in DOMAIN trail : Len(trail) >= i
    BY DEF IInv, Shape
  <2>4. StaysOnItsWay(t)
    BY <2>1, <2>2, <2>3 DEF StaysOnItsWay, OnItsWay
  <2>5. ~Waiting(t)' /\ ~Waiting(t)
    BY <2>1, <2>2 DEF Waiting
  <2> QED
    BY <1>types, <2>1, <2>2, <2>4, <2>5, StepKeeps
<1>7. ASSUME NEW t \in Thread, AnchorReadRaises(t) \/ PublishRaises(t) PROVE BookInv'
  <2>1. /\ AnchorRaises(t) /\ Finish(t) /\ pc[t] \in {"anchor", "publish"}
        /\ UNCHANGED <<trail, sealed, attestFailures, dropped, damaged, checkpoints>>
        /\ UNCHANGED faults \/ \E k \in FaultKinds : faults' = [faults EXCEPT ![k] = @ + 1]
    BY <1>7 DEF AnchorReadRaises, PublishRaises, AnchorRaises, ReadRaises, Fault
  <2>2. Others(t) /\ pc'[t] = "idle" /\ event'[t] = NoEvent
    BY <2>1, ThreadMoves
  <2>3. LogOf[t] \in Log
    BY AuditLogAssumption
  <2>4. /\ anchorFailures' \in [Log -> Nat]
        /\ \A l \in Log : anchorFailures[l] > 0 => anchorFailures'[l] > 0
        /\ event[t] # NoEvent => anchorFailures'[LogOf[t]] > 0
    BY <1>types, <2>1, <2>3 DEF AnchorRaises
  <2>5. StaysOnItsWay(t)
    BY <2>3, <2>4 DEF StaysOnItsWay, OnItsWay
  <2>6. ~Waiting(t)' /\ ~Waiting(t)
    BY <2>1, <2>2 DEF Waiting
  <2> QED
    BY <2>1, <2>2, <2>4, <2>5, <2>6, StepKeeps
<1>8. ASSUME NEW t \in Thread, AnchorRoot(t) PROVE BookInv'
  <2>1. /\ UNCHANGED <<trail, sealed, attestFailures, anchorFailures, dropped, damaged, faults,
                       checkpoints>>
        /\ pc[t] = "root"
    BY <1>8 DEF AnchorRoot, counters
  <2>2. Others(t) /\ pc'[t] = "publish" /\ event'[t] = event[t] /\ hashes'[t] = hashes[t]
    BY <1>8 DEF AnchorRoot, Goto, Others, IInv, Shape
  <2>3. StaysOnItsWay(t)
    BY <2>1, <2>2 DEF StaysOnItsWay, OnItsWay
  <2>4. ~Waiting(t)' /\ ~Waiting(t)
    BY <2>1, <2>2 DEF Waiting
  <2> QED
    BY <1>types, <2>1, <2>2, <2>3, <2>4, StepKeeps
<1>9. ASSUME NEW t \in Thread, Publish(t) PROVE BookInv'
  <2>1. /\ UNCHANGED <<trail, sealed, attestFailures, anchorFailures, dropped, damaged, faults>>
        /\ pc[t] = "publish" /\ Finish(t) /\ checkpoints' = checkpoints \cup {CheckpointFor(t)}
    BY <1>9 DEF Publish, counters
  <2>2. Others(t) /\ pc'[t] = "idle" /\ event'[t] = NoEvent
    BY <2>1, ThreadMoves
  <2>3. PICK n \in Nat : n = Len(hashes[t])
    BY DEF IInv, Shape
  <2>4. CheckpointFor(t) \in checkpoints' /\ CheckpointFor(t).seq = n - 1
    BY <2>1, <2>3 DEF CheckpointFor
  <2>5. StaysOnItsWay(t)
    <3> SUFFICES ASSUME NEW i \in DOMAIN trail, OnItsWay(t, i)
                 PROVE  \E cp \in checkpoints' : cp.seq >= i - 1
      BY DEF StaysOnItsWay
    <3>1. n >= i /\ i \in Nat
      BY <2>1, <2>3 DEF OnItsWay, IInv, Shape
    <3>2. n - 1 >= i - 1
      BY <3>1
    <3> QED
      BY <2>4, <3>2
  <2>6. ~Waiting(t)' /\ ~Waiting(t)
    BY <2>1, <2>2 DEF Waiting
  <2> QED
    BY <1>types, <2>1, <2>2, <2>5, <2>6, StepKeeps
<1>10. ASSUME UNCHANGED <<trail, sealed, attestFailures, anchorFailures, dropped, checkpoints,
                          pc, event, seq, hashes>>,
              damaged \subseteq damaged',
              UNCHANGED faults \/ \E k \in FaultKinds : faults' = [faults EXCEPT ![k] = @ + 1]
       PROVE  BookInv'
  <2>1. faults' \in [FaultKinds -> Nat] /\ (Readable' => Readable) /\ (SealsHold' => SealsHold)
    BY <1>10, FaultsOnlyGrow DEF BookInv
  <2>2. BookShape'
    BY <1>10, <2>1 DEF BookInv, BookShape
  <2>3. EventsAreOwn' /\ RowsAreOwn'
    BY <1>10 DEF BookInv, EventsAreOwn, RowsAreOwn, Waiting
  <2>4. DropsAreLost' /\ RowsAreAccounted' /\ DueIsAnchored'
    BY <1>10, <2>1 DEF BookInv, DropsAreLost, PersistedIsNeverDropped, RowsAreAccounted, Waiting,
                       DueIsAnchored, OnItsWay
  <2> QED
    BY <2>2, <2>3, <2>4 DEF BookInv
<1>11. ASSUME NEW i \in DOMAIN trail, Damage(i) PROVE BookInv'
  BY <1>10, <1>11 DEF Damage, Fault, counters, frame
<1>12. CASE UNCHANGED vars
  BY <1>10, <1>12 DEF vars
<1> QED
  BY <1>1, <1>2, <1>3, <1>4, <1>5, <1>6, <1>7, <1>8, <1>9, <1>11, <1>12 DEF Next, Step

LEMMA BooksHold == Spec => []BookInv
<1>1. ASSUME Init PROVE BookInv
  <2>1. trail = << >> /\ DOMAIN trail = {}
    BY <1>1 DEF Init
  <2>2. BookShape /\ EventsAreOwn /\ RowsAreOwn
    BY <1>1, <2>1 DEF Init, BookShape, EventsAreOwn, RowsAreOwn, Waiting
  <2>3. DropsAreLost /\ RowsAreAccounted /\ DueIsAnchored
    BY <2>1 DEF DropsAreLost, PersistedIsNeverDropped, RowsAreAccounted, DueIsAnchored
  <2> QED
    BY <2>2, <2>3 DEF BookInv
<1>2. Init => BookInv
  BY <1>1
<1>3. IInv /\ BookInv /\ [Next]_vars => BookInv'
  BY NextKeepsBooks
<1> QED
  BY <1>2, <1>3, Invariance, PTL DEF Spec

\* The counters of try_append tell the truth while the trail can be read
\* back: no row on the chain is counted in dropped_writes, and once the
\* callers are done the unsealed rows are those attest_failures counted.
THEOREM CountersTellTheTruth == Spec => []LossesAreCounted
<1>1. ASSUME BookInv PROVE LossesAreCounted
  <2>1. UnsealedIsReported
    <3> SUFFICES ASSUME Quiet, Readable, TryCallers = Thread
                 PROVE  DOMAIN trail \ sealed = UNION {attestFailures[l] : l \in Log}
      BY DEF UnsealedIsReported
    <3>1. \A t \in Thread : ~Waiting(t)
      BY DEF Quiet, Waiting
    <3>2. \A i \in DOMAIN trail \ sealed : \E l \in Log : i \in attestFailures[l]
      BY <1>1, <3>1 DEF BookInv, RowsAreAccounted
    <3>3. \A l \in Log : attestFailures[l] \subseteq DOMAIN trail \ sealed
      BY <1>1 DEF BookInv, RowsAreOwn
    <3> QED
      BY <3>2, <3>3
  <2> QED
    BY <1>1, <2>1 DEF LossesAreCounted, BookInv
<1>2. BookInv => LossesAreCounted
  BY <1>1
<1> QED
  BY <1>2, BooksHold, PTL

\* Every anchor_every-th row is covered by a checkpoint or a counted failure
\* once the callers are done, while the trail can be read back and sealed:
\* whichever threads and objects append between a row and its anchor.
THEOREM CadenceIsKept == Spec => []CadenceKept
<1>1. ASSUME BookInv PROVE CadenceKept
  <2> SUFFICES ASSUME Readable, SealsHold, Quiet, NEW i \in DOMAIN trail, i % AnchorEvery = 0
               PROVE  \/ \E cp \in checkpoints : cp.seq >= i - 1
                      \/ \E l \in Log : anchorFailures[l] > 0
    BY DEF CadenceKept, AnchoredEveryN
  <2>1. \A t \in Thread : ~OnItsWay(t, i)
    BY DEF Quiet, OnItsWay
  <2> QED
    BY <1>1, <2>1 DEF BookInv, DueIsAnchored
<1>2. BookInv => CadenceKept
  BY <1>1
<1> QED
  BY <1>2, BooksHold, PTL

-----------------------------------------------------------------------------
(* Records: what the record commands leave out, they account for.          *)

\* The rows this trail may have.
ForeignRows == {[type |-> t, ok |-> FALSE] : t \in {INCIDENT, INTERVENTION, DECISION}}
IncidentRows == {Row(INCIDENT, rec) : rec \in Incidents}
InterventionRows == {Row(INTERVENTION, rec) : rec \in InterventionRecord}
DecisionRows == {Row(DECISION, rec) : rec \in DecisionRecord}
TicketRows ==
    {[type |-> TICKET, ok |-> TRUE, rec |-> [ticket_id |-> t]] : t \in Nat}
    \cup {[type |-> TICKET, ok |-> FALSE, rec |-> [ticket_id |-> t]] : t \in Nat}

RecordRow == ForeignRows \cup IncidentRows \cup InterventionRows \cup DecisionRows \cup TicketRows

\* A whole number of leases.
Leases(n) == \E k \in Nat : n = k * lease_size

\* A used ticket has a row or was lost, and only one of the two; the writer is
\* within the newest lease; what the issuer answered was then all it granted.
TicketsHold ==
    /\ granted \in Nat /\ next \in Nat /\ Leases(granted)
    /\ next <= granted /\ granted <= next + lease_size
    /\ lost \subseteq 0..(next - 1)
    /\ \A i \in RowsOf(TICKET) : rows[i].rec.ticket_id \in 0..(next - 1) \ lost
    /\ \A t \in 0..(next - 1) : t \in lost \/ \E i \in RowsOf(TICKET) : rows[i].rec.ticket_id = t
    /\ issued = Null \/ \E g \in Nat : g <= granted /\ Leases(g) /\ issued = 0..(g - 1)

RecordInv == rows \in Seq(RecordRow) /\ now \in Nat /\ TicketsHold /\ RecordsAreAccountedFor

\* A set of numbers has a least one.
LEMMA LeastNumber ==
    ASSUME NEW T \in SUBSET Nat, T # {}
    PROVE  \E x \in T : \A y \in T : x <= y
<1> DEFINE R == OpToRel(<, Nat)
<1>1. IsWellFoundedOn(R, Nat)
  BY NatLessThanWellFounded
<1>2. PICK x \in T : \A y \in T : ~(<<y, x>> \in R)
  BY <1>1, WFMin
<1>3. \A y \in T : ~(y < x)
  BY <1>2 DEF OpToRel
<1> QED
  BY <1>3

\* The lease a ticket belongs to starts at a multiple of lease_size.
LEMMA LastLease ==
    ASSUME NEW k \in Nat, k # 0
    PROVE  ((k * lease_size - 1) \div lease_size) * lease_size = k * lease_size - lease_size
<1>0. lease_size \in Nat \ {0}
  BY RecordsAssumption
<1>1. k * lease_size - 1 = lease_size * (k - 1) + (lease_size - 1)
  BY <1>0
<1>2. (k * lease_size - 1) \div lease_size = k - 1
  BY <1>0, <1>1
<1> QED
  BY <1>0, <1>2

\* Every step says nothing or is one of the commands.
LEMMA SilenceIsFine ==
    ASSUME said'.cmd = "none"
    PROVE  RecordsAreAccountedFor'
BY DEF RecordsAreAccountedFor, MissingTicketsAreLost, ListingsAreComplete

LEMMA RecordInitHolds == RecordInit => RecordInv
<1> SUFFICES ASSUME RecordInit PROVE RecordInv
  OBVIOUS
<1>0. lease_size \in Nat \ {0}
  BY RecordsAssumption
<1>1. /\ rows = << >> /\ granted = 0 /\ next = 0 /\ lost = {} /\ issued = Null /\ now = 0
      /\ said.cmd = "none"
  BY DEF RecordInit, Silent
<1>2. Leases(0)
  BY <1>0 DEF Leases
<1>3. RowsOf(TICKET) = {}
  BY <1>1 DEF RowsOf
<1>4. TicketsHold
  BY <1>0, <1>1, <1>2, <1>3 DEF TicketsHold
<1>5. RecordsAreAccountedFor
  BY <1>1 DEF RecordsAreAccountedFor, MissingTicketsAreLost, ListingsAreComplete
<1> QED
  BY <1>1, <1>4, <1>5 DEF RecordInv

\* Appending a row that is no ticket.
LEMMA RowAppended ==
    ASSUME rows \in Seq(RecordRow), NEW row \in RecordRow, rows' = Append(rows, row)
    PROVE  /\ rows' \in Seq(RecordRow)
           /\ \A i \in DOMAIN rows : i \in DOMAIN rows' /\ rows'[i] = rows[i]
           /\ \A i \in DOMAIN rows' : i \in DOMAIN rows \/ (i = Len(rows) + 1 /\ rows'[i] = row)
           /\ Len(rows) + 1 \in DOMAIN rows' /\ rows'[Len(rows) + 1] = row
<1> QED
  OBVIOUS

LEMMA OtherRow ==
    ASSUME RecordInv, NEW row \in RecordRow, row.type # TICKET, AppendRow(row),
           UNCHANGED <<granted, next, lost, issued, now>>
    PROVE  RecordInv'
<1>1. rows' = Append(rows, row) /\ said'.cmd = "none"
  BY DEF AppendRow, Silent
<1>2. rows \in Seq(RecordRow) /\ TicketsHold /\ now \in Nat
  BY DEF RecordInv
<1>3. /\ rows' \in Seq(RecordRow)
      /\ \A i \in DOMAIN rows : i \in DOMAIN rows' /\ rows'[i] = rows[i]
      /\ \A i \in DOMAIN rows' : i \in DOMAIN rows \/ (i = Len(rows) + 1 /\ rows'[i] = row)
  BY <1>1, <1>2, RowAppended
<1>4. RowsOf(TICKET)' = RowsOf(TICKET)
  BY <1>3 DEF RowsOf
<1>5. \A i \in RowsOf(TICKET) : rows'[i] = rows[i]
  BY <1>3 DEF RowsOf
<1>6. TicketsHold'
  BY <1>2, <1>4, <1>5 DEF TicketsHold
<1>7. RecordsAreAccountedFor'
  BY <1>1, SilenceIsFine
<1> QED
  BY <1>2, <1>3, <1>6, <1>7 DEF RecordInv

\* What writers and the issuer do.
LEMMA WritersKeep ==
    ASSUME RecordInv,
           \/ \E type \in {INCIDENT, INTERVENTION, DECISION} : ForeignRow(type)
           \/ \E rec \in Incidents : record_incident(rec)
           \/ \E rec \in InterventionRecord : record_intervention(rec)
           \/ \E rec \in DecisionRecord : record_decision(rec)
    PROVE  RecordInv'
<1> USE DEF TICKET, INCIDENT, INTERVENTION, DECISION
<1>1. ASSUME NEW type \in {INCIDENT, INTERVENTION, DECISION}, ForeignRow(type) PROVE RecordInv'
  <2> DEFINE row == [type |-> type, ok |-> FALSE]
  <2>1. row \in RecordRow /\ row.type # TICKET
    <3>1. row \in ForeignRows
      BY DEF ForeignRows
    <3>2. row.type # TICKET
      BY DEF Row
    <3> QED
      BY <3>1, <3>2 DEF RecordRow
  <2>2. AppendRow(row) /\ UNCHANGED <<granted, next, lost, issued, now>>
    BY <1>1 DEF ForeignRow
  <2> HIDE DEF row
  <2> QED
    BY <2>1, <2>2, OtherRow
<1>2. ASSUME NEW rec \in Incidents, record_incident(rec) PROVE RecordInv'
  <2> DEFINE row == Row(INCIDENT, rec)
  <2>1. row \in RecordRow /\ row.type # TICKET
    <3>1. row \in IncidentRows
      BY DEF IncidentRows
    <3>2. row.type # TICKET
      BY DEF Row
    <3> QED
      BY <3>1, <3>2 DEF RecordRow
  <2>2. AppendRow(row) /\ UNCHANGED <<granted, next, lost, issued, now>>
    BY <1>2 DEF record_incident
  <2> HIDE DEF row
  <2> QED
    BY <2>1, <2>2, OtherRow
<1>3. ASSUME NEW rec \in InterventionRecord, record_intervention(rec) PROVE RecordInv'
  <2> DEFINE row == Row(INTERVENTION, rec)
  <2>1. row \in RecordRow /\ row.type # TICKET
    <3>1. row \in InterventionRows
      BY DEF InterventionRows
    <3>2. row.type # TICKET
      BY DEF Row
    <3> QED
      BY <3>1, <3>2 DEF RecordRow
  <2>2. AppendRow(row) /\ UNCHANGED <<granted, next, lost, issued, now>>
    BY <1>3 DEF record_intervention
  <2> HIDE DEF row
  <2> QED
    BY <2>1, <2>2, OtherRow
<1>4. ASSUME NEW rec \in DecisionRecord, record_decision(rec) PROVE RecordInv'
  <2> DEFINE row == Row(DECISION, rec)
  <2>1. row \in RecordRow /\ row.type # TICKET
    <3>1. row \in DecisionRows
      BY DEF DecisionRows
    <3>2. row.type # TICKET
      BY DEF Row
    <3> QED
      BY <3>1, <3>2 DEF RecordRow
  <2>2. AppendRow(row) /\ UNCHANGED <<granted, next, lost, issued, now>>
    BY <1>4 DEF record_decision
  <2> HIDE DEF row
  <2> QED
    BY <2>1, <2>2, OtherRow
<1> QED
  BY <1>1, <1>2, <1>3, <1>4

LEMMA IssuerKeeps ==
    ASSUME RecordInv, Lease \/ AskIssuer \/ Tick_
    PROVE  RecordInv'
<1>0. /\ rows \in Seq(RecordRow) /\ TicketsHold /\ now \in Nat /\ lease_size \in Nat \ {0}
      /\ granted \in Nat /\ next \in Nat /\ Leases(granted)
  BY RecordsAssumption DEF RecordInv, TicketsHold
<1>1. said'.cmd = "none" /\ UNCHANGED <<rows, next, lost>> /\ now' \in Nat
  BY <1>0 DEF Lease, AskIssuer, Tick_, Silent
<1>2. RecordsAreAccountedFor' /\ RowsOf(TICKET)' = RowsOf(TICKET)
  BY <1>1, SilenceIsFine DEF RowsOf
<1>3. TicketsHold'
  <2>1. CASE Lease
    <3>1. next = granted /\ granted' = granted + lease_size /\ UNCHANGED issued
      BY <2>1 DEF Lease
    <3>2. Leases(granted')
      <4>1. PICK k \in Nat : granted = k * lease_size
        BY <1>0 DEF Leases
      <4>2. granted' = (k + 1) * lease_size /\ k + 1 \in Nat
        BY <1>0, <3>1, <4>1
      <4> QED
        BY <4>2 DEF Leases
    <3>3. /\ granted' \in Nat /\ next <= granted' /\ granted' <= next + lease_size
          /\ \A g \in Nat : g <= granted => g <= granted'
      BY <1>0, <3>1
    <3> QED
      BY <1>0, <1>1, <1>2, <3>1, <3>2, <3>3 DEF TicketsHold
  <2>2. CASE AskIssuer
    <3>1. issued' = 0..(granted - 1) /\ granted' = granted
      BY <2>2 DEF AskIssuer
    <3> QED
      BY <1>0, <1>1, <1>2, <3>1 DEF TicketsHold
  <2>3. CASE Tick_
    BY <1>0, <1>1, <1>2, <2>3 DEF Tick_, TicketsHold
  <2> QED
    BY <2>1, <2>2, <2>3
<1> QED
  BY <1>0, <1>1, <1>2, <1>3 DEF RecordInv

LEMMA TicketKeeps ==
    ASSUME RecordInv, NEW fate \in {"read", "unread", "lost"}, UseTicket(fate)
    PROVE  RecordInv'
<1>0. /\ rows \in Seq(RecordRow) /\ TicketsHold /\ now \in Nat /\ lease_size \in Nat \ {0}
      /\ granted \in Nat /\ next \in Nat
  BY RecordsAssumption DEF RecordInv, TicketsHold
<1>1. /\ next < granted /\ next' = next + 1 /\ UNCHANGED <<granted, issued, now>>
      /\ said'.cmd = "none"
  BY DEF UseTicket, AppendRow, Silent
<1>2. RecordsAreAccountedFor'
  BY <1>1, SilenceIsFine
<1>3. /\ next' \in Nat /\ next' <= granted /\ granted <= next' + lease_size
      /\ 0..(next' - 1) = 0..(next - 1) \cup {next} /\ next \notin 0..(next - 1)
  BY <1>0, <1>1 DEF TicketsHold
<1>4. CASE fate = "lost"
  <2>1. lost' = lost \cup {next} /\ UNCHANGED rows
    BY <1>4 DEF UseTicket
  <2>2. RowsOf(TICKET)' = RowsOf(TICKET)
    BY <2>1 DEF RowsOf
  <2>3. /\ lost' \subseteq 0..(next' - 1)
        /\ \A i \in RowsOf(TICKET) : rows[i].rec.ticket_id \in 0..(next' - 1) \ lost'
        /\ \A t \in 0..(next' - 1) :
              t \in lost' \/ \E i \in RowsOf(TICKET) : rows[i].rec.ticket_id = t
    BY <1>0, <1>3, <2>1 DEF TicketsHold
  <2>4. TicketsHold'
    BY <1>0, <1>1, <1>3, <2>1, <2>2, <2>3 DEF TicketsHold
  <2> QED
    BY <1>0, <1>1, <1>2, <2>1, <2>4 DEF RecordInv
<1>5. CASE fate # "lost"
  <2> DEFINE row == [Row(TICKET, [ticket_id |-> next]) EXCEPT !.ok = fate = "read"]
  <2>1. AppendRow(row) /\ lost' = lost
    BY <1>5 DEF UseTicket
  <2>2. row = [type |-> TICKET, ok |-> (fate = "read"), rec |-> [ticket_id |-> next]]
    BY DEF Row
  <2> HIDE DEF row
  <2>3. row \in RecordRow /\ row.type = TICKET /\ row.rec.ticket_id = next
    <3>1. ASSUME fate = "read" PROVE row \in TicketRows
      <4>1. row = [type |-> TICKET, ok |-> TRUE, rec |-> [ticket_id |-> next]]
        BY <2>2, <3>1
      <4> QED
        BY <1>0, <4>1 DEF TicketRows
    <3>2. ASSUME fate # "read" PROVE row \in TicketRows
      <4>1. row = [type |-> TICKET, ok |-> FALSE, rec |-> [ticket_id |-> next]]
        BY <2>2, <3>2
      <4> QED
        BY <1>0, <4>1 DEF TicketRows
    <3>3. row \in TicketRows
      BY <3>1, <3>2
    <3>4. row.type = TICKET /\ row.rec = [ticket_id |-> next]
      BY <2>2
    <3>5. row.rec.ticket_id = next
      BY <3>4
    <3> QED
      BY <3>3, <3>4, <3>5 DEF RecordRow
  <2>4. rows' = Append(rows, row)
    BY <2>1 DEF AppendRow
  <2>5. /\ rows' \in Seq(RecordRow)
        /\ \A i \in DOMAIN rows : i \in DOMAIN rows' /\ rows'[i] = rows[i]
        /\ \A i \in DOMAIN rows' : i \in DOMAIN rows \/ (i = Len(rows) + 1 /\ rows'[i] = row)
        /\ Len(rows) + 1 \in DOMAIN rows' /\ rows'[Len(rows) + 1] = row
    BY <1>0, <2>3, <2>4, RowAppended
  <2>6. /\ \A i \in RowsOf(TICKET) : i \in RowsOf(TICKET)' /\ rows'[i] = rows[i]
        /\ \A i \in RowsOf(TICKET)' : i \in RowsOf(TICKET) \/ rows'[i] = row
        /\ Len(rows) + 1 \in RowsOf(TICKET)'
    BY <2>3, <2>5 DEF RowsOf
  <2>7. \A i \in RowsOf(TICKET)' : rows'[i].rec.ticket_id \in 0..(next' - 1) \ lost
    BY <1>0, <1>3, <2>3, <2>6 DEF TicketsHold
  <2>8. \A t \in 0..(next' - 1) :
           t \in lost \/ \E i \in RowsOf(TICKET)' : rows'[i].rec.ticket_id = t
    <3>1. \A t \in 0..(next - 1) :
             t \in lost \/ \E i \in RowsOf(TICKET) : rows[i].rec.ticket_id = t
      BY <1>0 DEF TicketsHold
    <3>2. \A t \in 0..(next - 1) :
             t \in lost \/ \E i \in RowsOf(TICKET)' : rows'[i].rec.ticket_id = t
      BY <2>6, <3>1
    <3>3. \E i \in RowsOf(TICKET)' : rows'[i].rec.ticket_id = next
      BY <2>3, <2>5, <2>6
    <3> QED
      BY <1>3, <3>2, <3>3
  <2>9. lost \subseteq 0..(next' - 1)
    BY <1>0, <1>3 DEF TicketsHold
  <2>10. TicketsHold'
    BY <1>0, <1>1, <1>3, <2>1, <2>7, <2>8, <2>9 DEF TicketsHold
  <2> QED
    BY <1>0, <1>1, <1>2, <2>5, <2>10 DEF RecordInv
<1> QED
  BY <1>4, <1>5


-----------------------------------------------------------------------------
(* Tickets.                                                                *)

\* What reconcile_tickets names against the trail as it is.
LEMMA ReconcileKeeps ==
    ASSUME RecordInv, _reconcile_tickets
    PROVE  RecordInv'
<1>0. /\ rows \in Seq(RecordRow) /\ TicketsHold /\ now \in Nat /\ lease_size \in Nat \ {0}
      /\ granted \in Nat /\ next \in Nat /\ granted <= next + lease_size
  BY RecordsAssumption DEF RecordInv, TicketsHold
<1> DEFINE present == scan_tickets
           result == reconcile_tickets(present, issued)
           verdict == IF Unreadable(TICKET) # {} /\ result.verdict = "ok"
                      THEN "unverifiable" ELSE result.verdict
<1>1. /\ UNCHANGED <<rows, granted, next, lost, issued, now>>
      /\ said'.cmd = "tickets" /\ said'.missing = result.missing
      /\ said'.blind_spot = result.blind_spot /\ said'.asked = issued
      /\ said'.code = CASE verdict = "ok" -> 0 [] verdict = "broken" -> 1 [] OTHER -> 2
  BY DEF _reconcile_tickets
<1>2. /\ RowsOf(TICKET)' = RowsOf(TICKET) /\ Unreadable(TICKET)' = Unreadable(TICKET)
  BY <1>1 DEF RowsOf, Unreadable
<1>3. TicketsHold'
  BY <1>0, <1>1, <1>2 DEF TicketsHold
<1>4. ListingsAreComplete'
  BY <1>1 DEF ListingsAreComplete
<1>5. ASSUME said'.missing # Null, Unreadable(TICKET) = {}
      PROVE  /\ said'.missing \subseteq lost
             /\ said'.code = 0 => lost \cap issued \subseteq said'.blind_spot
             /\ Cardinality(said'.blind_spot) <= lease_size
  <2>1. issued # Null
    BY <1>1, <1>5 DEF reconcile_tickets
  <2>2. PICK g \in Nat : g <= granted /\ Leases(g) /\ issued = 0..(g - 1)
    BY <1>0, <2>1 DEF TicketsHold
  <2>3. said'.code = 0 => result.verdict = "ok"
    BY <1>1, <1>5
  <2>4. CASE g = 0
    <3>1. issued = {}
      BY <2>2, <2>4
    <3>2. result.missing = {} /\ result.blind_spot = {}
      BY <2>1, <3>1 DEF reconcile_tickets
    <3>3. Cardinality({}) = 0
      BY FS_EmptySet
    <3>4. said'.missing = {} /\ said'.blind_spot = {}
      BY <1>1, <3>2
    <3>5. Cardinality(said'.blind_spot) <= lease_size
      BY <1>0, <3>3, <3>4
    <3> HIDE DEF result, verdict
    <3> QED
      BY <3>1, <3>4, <3>5
  <2>5. CASE g # 0
    <3> DEFINE lo == window_lo(issued)
    <3>1. lo = g - lease_size
      <4>1. PICK k \in Nat : g = k * lease_size
        BY <2>2 DEF Leases
      <4>2. k # 0
        BY <1>0, <2>5, <4>1
      <4>3. Max(issued) = g - 1
        <5>1. g - 1 \in issued /\ \A x \in issued : x \in Int /\ x <= g - 1
          BY <2>2, <2>5
        <5>2. \A x \in issued : (\A y \in issued : x >= y) => x = g - 1
          BY <5>1
        <5>3. \A y \in issued : g - 1 >= y
          BY <2>2, <5>1
        <5> QED
          BY <5>1, <5>2, <5>3 DEF Max
      <4>4. lo = ((k * lease_size - 1) \div lease_size) * lease_size
        BY <4>1, <4>3 DEF window_lo
      <4> QED
        BY <4>1, <4>2, <4>4, LastLease
    <3>2. issued # {}
      BY <2>2, <2>5
    <3> HIDE DEF lo, present
    <3>3. /\ result.missing = {t \in issued : t < lo /\ t \notin present}
          /\ result.blind_spot = {t \in issued : t >= lo /\ t \notin present}
          /\ result.verdict = "ok" => ~(\E t \in issued : t < lo /\ t \notin present)
      BY <2>1, <3>2 DEF reconcile_tickets, lo
    <3>4. \A t \in issued : t \in Nat /\ (t < lo => t \in 0..(next - 1))
      BY <1>0, <2>2, <3>1
    <3>5. \A t \in 0..(next - 1) : t \in lost \/ t \in present
      BY <1>0, <1>5 DEF TicketsHold, present, scan_tickets
    <3>6. \A t \in present : t \notin lost
      BY <1>0 DEF TicketsHold, present, scan_tickets
    <3>7. result.missing \subseteq lost
      BY <3>3, <3>4, <3>5
    <3>8. result.verdict = "ok" => lost \cap issued \subseteq result.blind_spot
      <4> SUFFICES ASSUME result.verdict = "ok", NEW t \in lost, t \in issued
                   PROVE  t >= lo /\ t \notin present
        BY <3>3
      <4>1. ~(t < lo) /\ t \notin present
        BY <3>3, <3>6
      <4> QED
        BY <1>0, <2>2, <3>1, <3>4, <4>1
    <3>9. Cardinality(result.blind_spot) <= lease_size
      <4>1. result.blind_spot \subseteq lo..(g - 1)
        BY <1>0, <2>2, <3>1, <3>3
      <4>2. IsFiniteSet(lo..(g - 1)) /\ Cardinality(lo..(g - 1)) = lease_size
        <5>1. lo \in Int /\ g - 1 \in Int /\ ~(lo > g - 1) /\ (g - 1) - lo + 1 = lease_size
          BY <1>0, <2>2, <3>1
        <5> QED
          BY <5>1, FS_Interval
      <4>3. /\ IsFiniteSet(result.blind_spot)
            /\ Cardinality(result.blind_spot) <= Cardinality(lo..(g - 1))
        BY <4>1, <4>2, FS_Subset
      <4> QED
        BY <4>2, <4>3
    <3> QED
      BY <1>1, <2>3, <3>7, <3>8, <3>9
  <2> QED
    BY <2>4, <2>5
<1>6. MissingTicketsAreLost'
  BY <1>1, <1>2, <1>5 DEF MissingTicketsAreLost
<1> QED
  BY <1>0, <1>1, <1>3, <1>4, <1>6 DEF RecordInv, RecordsAreAccountedFor

-----------------------------------------------------------------------------
(* Incidents: what the fold over the rows computes.                        *)

ReadIncidents == RowsOf(INCIDENT) \ Unreadable(INCIDENT)

\* One step of the fold.
FoldRow(folded, n) ==
    IF n = 0 THEN << >>
    ELSE IF n \notin RowsOf(INCIDENT) \ Unreadable(INCIDENT) THEN folded[n - 1]
    ELSE [id \in DOMAIN folded[n - 1] \cup {rows[n].rec.incident_id} |->
            IF id # rows[n].rec.incident_id THEN folded[n - 1][id]
            ELSE [latest |-> rows[n].rec,
                  rows |-> 1 + (IF id \in DOMAIN folded[n - 1] THEN folded[n - 1][id].rows ELSE 0)]]

Folded(N) == CHOOSE folded : folded = [n \in 0..N |-> FoldRow(folded, n)]

LEMMA ScanIsFolded == scan_incidents = Folded(Len(rows))[Len(rows)]
BY DEF scan_incidents, Folded, FoldRow

\* The fold is defined, and every value is one step from the one before.
LEMMA FoldSteps ==
    ASSUME NEW N \in Nat
    PROVE  \A n \in 0..N : Folded(N)[n] = FoldRow(Folded(N), n)
<1> DEFINE Solved(m) == \E f : f = [n \in 0..m |-> FoldRow(f, n)]
           Bad == {m \in Nat : ~Solved(m)}
<1>1. Solved(0)
  <2> DEFINE f == [n \in 0..0 |-> << >>]
  <2>1. f = [n \in 0..0 |-> FoldRow(f, n)]
    BY DEF FoldRow
  <2> QED
    BY <2>1
<1>2. ASSUME NEW m \in Nat, Solved(m) PROVE Solved(m + 1)
  <2>1. PICK f : f = [n \in 0..m |-> FoldRow(f, n)]
    BY <1>2
  <2> DEFINE up == [n \in 0..(m + 1) |-> FoldRow(f, n)]
  <2>2. \A n \in 0..m : up[n] = f[n]
    BY <2>1
  <2>3. ASSUME NEW n \in 0..(m + 1) PROVE FoldRow(f, n) = FoldRow(up, n)
    <3>1. CASE n = 0
      BY <3>1 DEF FoldRow
    <3>2. CASE n # 0
      <4>1. n - 1 \in 0..m
        BY <3>2
      <4>2. up[n - 1] = f[n - 1]
        BY <2>2, <4>1
      <4> HIDE DEF up
      <4> QED
        BY <3>2, <4>2 DEF FoldRow
    <3> QED
      BY <3>1, <3>2
  <2>4. up = [n \in 0..(m + 1) |-> FoldRow(up, n)]
    BY <2>3
  <2> QED
    BY <2>4
<1> HIDE DEF Solved
<1>3. ASSUME Bad # {} PROVE FALSE
  <2>1. PICK m \in Bad : \A i \in Bad : m <= i
    BY <1>3, LeastNumber
  <2>2. m # 0
    BY <2>1, <1>1
  <2>3. m - 1 \in Nat /\ ~(m - 1 \in Bad)
    BY <2>1, <2>2
  <2>4. Solved((m - 1) + 1)
    BY <2>3, <1>2
  <2>5. (m - 1) + 1 = m
    BY <2>1
  <2> QED
    BY <2>1, <2>4, <2>5
<1>4. Solved(N)
  BY <1>3
<1>5. Folded(N) = [n \in 0..N |-> FoldRow(Folded(N), n)]
  BY <1>4 DEF Solved, Folded
<1> DEFINE F == Folded(N)
<1>6. F = [n \in 0..N |-> FoldRow(F, n)]
  BY <1>5
<1> HIDE DEF F
<1>7. \A n \in 0..N : F[n] = FoldRow(F, n)
  BY <1>6
<1> QED
  BY <1>7 DEF F


\* The readable rows of an incident among the first n.
ReadOf(n, id) == {i \in ReadIncidents : i <= n /\ rows[i].rec.incident_id = id}

\* The views after n rows: one for each incident read so far, with its newest
\* row and how many rows it has.
FoldHolds(views, n) ==
    /\ \A id : id \in DOMAIN views <=> ReadOf(n, id) # {}
    /\ \A id \in DOMAIN views : /\ views[id].latest = rows[Max(ReadOf(n, id))].rec
                                /\ views[id].rows = Cardinality(ReadOf(n, id))
                                /\ views[id].latest \in Incidents

\* A readable incident row carries an incident record.
LEMMA ReadRow ==
    ASSUME rows \in Seq(RecordRow), NEW i \in ReadIncidents
    PROVE  rows[i].rec \in Incidents
<1>1. rows[i] \in RecordRow /\ rows[i].type = INCIDENT /\ ~(rows[i].ok = FALSE)
  BY DEF ReadIncidents, RowsOf, Unreadable
<1>2. rows[i] \notin ForeignRows
  BY <1>1 DEF ForeignRows
<1>3. rows[i] \notin InterventionRows /\ rows[i] \notin DecisionRows /\ rows[i] \notin TicketRows
  BY <1>1 DEF InterventionRows, DecisionRows, TicketRows, Row, INCIDENT, INTERVENTION, DECISION, TICKET
<1>4. rows[i] \in IncidentRows
  BY <1>1, <1>2, <1>3 DEF RecordRow
<1> QED
  BY <1>4 DEF IncidentRows, Row

LEMMA LargestIs ==
    ASSUME NEW S \in SUBSET Nat, NEW m \in S, \A x \in S : x <= m
    PROVE  Max(S) = m
<1>1. \A x \in S : (\A y \in S : x >= y) => x = m
  OBVIOUS
<1>2. \A y \in S : m >= y
  OBVIOUS
<1> QED
  BY <1>1, <1>2 DEF Max

LEMMA ReadOfShape ==
    ASSUME rows \in Seq(RecordRow), NEW n \in Nat, NEW id
    PROVE  ReadOf(n, id) \in SUBSET (1..n) /\ IsFiniteSet(ReadOf(n, id))
<1>1. ReadOf(n, id) \in SUBSET (1..n)
  <2> SUFFICES ASSUME NEW i \in ReadOf(n, id) PROVE i \in 1..n
    OBVIOUS
  <2>1. i \in DOMAIN rows /\ i <= n
    BY DEF ReadOf, ReadIncidents, RowsOf
  <2>2. DOMAIN rows = 1..Len(rows) /\ Len(rows) \in Nat
    OBVIOUS
  <2> QED
    BY <2>1, <2>2
<1>2. IsFiniteSet(1..n)
  BY FS_Interval
<1> QED
  BY <1>1, <1>2, FS_Subset

\* One more row.
LEMMA FoldStep ==
    ASSUME rows \in Seq(RecordRow), NEW n \in 1..Len(rows), NEW F,
           FoldHolds(F[n - 1], n - 1), F[n] = FoldRow(F, n)
    PROVE  FoldHolds(F[n], n)
<1> DEFINE before == F[n - 1]
           own == rows[n].rec.incident_id
<1>0. n \in Nat /\ n - 1 \in Nat /\ n # 0
  OBVIOUS
<1>1. \A id : n \notin ReadIncidents \/ id # own => ReadOf(n, id) = ReadOf(n - 1, id)
  <2> SUFFICES ASSUME NEW id, n \notin ReadIncidents \/ id # own
               PROVE  ReadOf(n, id) = ReadOf(n - 1, id)
    OBVIOUS
  <2>1. ReadOf(n, id) \subseteq ReadOf(n - 1, id)
    <3> SUFFICES ASSUME NEW i \in ReadOf(n, id) PROVE i \in ReadOf(n - 1, id)
      OBVIOUS
    <3>1. i \in ReadIncidents /\ i <= n /\ rows[i].rec.incident_id = id
      BY DEF ReadOf
    <3>2. i \in 1..n
      BY <1>0, ReadOfShape
    <3>3. i # n
      BY <3>1
    <3> QED
      BY <1>0, <3>1, <3>2, <3>3 DEF ReadOf
  <2>2. ReadOf(n - 1, id) \subseteq ReadOf(n, id)
    <3> SUFFICES ASSUME NEW i \in ReadOf(n - 1, id) PROVE i \in ReadOf(n, id)
      OBVIOUS
    <3>1. i \in 1..(n - 1)
      BY <1>0, ReadOfShape
    <3> QED
      BY <1>0, <3>1 DEF ReadOf
  <2> QED
    BY <2>1, <2>2
<1>2. CASE n \notin ReadIncidents
  <2>1. F[n] = before
    BY <1>0, <1>2 DEF FoldRow, ReadIncidents
  <2> QED
    BY <1>1, <1>2, <2>1 DEF FoldHolds
<1>3. CASE n \in ReadIncidents
  <2> DEFINE was == ReadOf(n - 1, own)
             is == ReadOf(n, own)
             V == F[n]
  <2>1. V = [id \in DOMAIN before \cup {own} |->
               IF id # own THEN before[id]
               ELSE [latest |-> rows[n].rec,
                     rows |-> 1 + (IF id \in DOMAIN before THEN before[id].rows ELSE 0)]]
    BY <1>0, <1>3 DEF FoldRow, ReadIncidents
  <2>2. was \in SUBSET (1..(n - 1)) /\ IsFiniteSet(was) /\ is \in SUBSET (1..n)
    BY <1>0, ReadOfShape
  <2>3. is = was \cup {n}
    <3>1. n \in is
      BY <1>0, <1>3 DEF ReadOf
    <3>2. ASSUME NEW i \in is, i # n PROVE i \in was
      <4>1. i \in 1..n
        BY <2>2
      <4> QED
        BY <1>0, <3>2, <4>1 DEF ReadOf
    <3>3. ASSUME NEW i \in was PROVE i \in is
      <4>1. i \in 1..(n - 1)
        BY <2>2
      <4> QED
        BY <1>0, <3>3, <4>1 DEF ReadOf
    <3> QED
      BY <3>1, <3>2, <3>3
  <2> HIDE DEF was, is
  <2>4. n \notin was
    BY <1>0, <2>2
  <2>5. Max(is) = n
    <3>1. is \in SUBSET Nat /\ n \in is /\ \A x \in is : x <= n
      BY <1>0, <2>2, <2>3
    <3> QED
      BY <3>1, LargestIs
  <2>6. Cardinality(is) = Cardinality(was) + 1 /\ Cardinality(was) \in Nat
    BY <2>2, <2>3, <2>4, FS_AddElement, FS_CardinalityType
  <2>7. own \notin DOMAIN before => Cardinality(was) = 0
    <3>1. own \notin DOMAIN before => was = {}
      BY DEF FoldHolds, was
    <3> QED
      BY <3>1, FS_EmptySet
  <2>8. own \in DOMAIN before => before[own].rows = Cardinality(was)
    BY DEF FoldHolds, was
  <2> HIDE DEF before, own, V
  <2>9. V[own] = [latest |-> rows[n].rec,
                  rows |-> 1 + (IF own \in DOMAIN before THEN before[own].rows ELSE 0)]
    BY <2>1
  <2>10. V[own].latest = rows[n].rec
    BY <2>9
  <2>11. V[own].rows = Cardinality(is)
    <3>1. V[own].rows = 1 + (IF own \in DOMAIN before THEN before[own].rows ELSE 0)
      BY <2>9
    <3> QED
      BY <2>6, <2>7, <2>8, <3>1
  <2>12. DOMAIN V = DOMAIN before \cup {own} /\ \A id \in DOMAIN before : id # own => V[id] = before[id]
    BY <2>1
  <2>13. \A id : id \in DOMAIN V <=> ReadOf(n, id) # {}
    <3>1. own \in DOMAIN V /\ is # {}
      BY <2>3, <2>12
    <3>2. \A id : id # own => (id \in DOMAIN V <=> ReadOf(n, id) # {})
      BY <1>1, <2>12 DEF FoldHolds, before, own
    <3> QED
      BY <3>1, <3>2 DEF is
  <2>14. ASSUME NEW id \in DOMAIN V
         PROVE  /\ V[id].latest = rows[Max(ReadOf(n, id))].rec
                /\ V[id].rows = Cardinality(ReadOf(n, id)) /\ V[id].latest \in Incidents
    <3>1. CASE id = own
      BY <1>3, <2>5, <2>10, <2>11, <3>1, ReadRow DEF is
    <3>2. CASE id # own
      <4>1. id \in DOMAIN before /\ V[id] = before[id] /\ ReadOf(n, id) = ReadOf(n - 1, id)
        BY <1>1, <2>12, <3>2 DEF own
      <4>2. before[id].latest = rows[Max(ReadOf(n - 1, id))].rec
            /\ before[id].rows = Cardinality(ReadOf(n - 1, id)) /\ before[id].latest \in Incidents
        BY <4>1 DEF FoldHolds, before
      <4> QED
        BY <4>1, <4>2
    <3> QED
      BY <3>1, <3>2
  <2> QED
    BY <2>13, <2>14 DEF FoldHolds, V
<1> QED
  BY <1>2, <1>3

\* What scan_incidents computes.
LEMMA ScanIsRight ==
    ASSUME rows \in Seq(RecordRow)
    PROVE  FoldHolds(scan_incidents, Len(rows))
<1> DEFINE N == Len(rows)
           F == Folded(N)
           Bad == {n \in 0..N : ~FoldHolds(F[n], n)}
<1>0. N \in Nat
  OBVIOUS
<1>1. \A n \in 0..N : F[n] = FoldRow(F, n)
  BY <1>0, FoldSteps
<1> HIDE DEF F
<1>2. FoldHolds(F[0], 0)
  <2>1. F[0] = << >>
    <3>1. F[0] = FoldRow(F, 0)
      BY <1>0, <1>1
    <3> QED
      BY <3>1 DEF FoldRow
  <2>2. DOMAIN F[0] = {}
    BY <2>1
  <2>3. \A id : ReadOf(0, id) = {}
    <3>1. \A id : ReadOf(0, id) \in SUBSET (1..0)
      BY ReadOfShape
    <3> QED
      BY <3>1
  <2> QED
    BY <2>2, <2>3 DEF FoldHolds
<1>3. ASSUME Bad # {} PROVE FALSE
  <2>1. PICK n \in Bad : \A i \in Bad : n <= i
    <3>1. Bad \in SUBSET Nat
      BY <1>0
    <3> QED
      BY <1>3, <3>1, LeastNumber
  <2>2. n # 0 /\ n \in 0..N
    BY <1>2, <2>1
  <2>3. n \in 1..N /\ n - 1 \in 0..N /\ ~(n - 1 \in Bad)
    BY <1>0, <2>1, <2>2
  <2>4. FoldHolds(F[n - 1], n - 1) /\ F[n] = FoldRow(F, n)
    BY <1>1, <2>2, <2>3
  <2>5. FoldHolds(F[n], n)
    BY <2>3, <2>4, FoldStep
  <2> QED
    BY <2>1, <2>5
<1>4. FoldHolds(F[N], N)
  BY <1>0, <1>3
<1> QED
  BY <1>4, ScanIsFolded DEF F

\* A walk filtered by an incident is the rows the fold counted for it.
LEMMA IterIsRead ==
    ASSUME rows \in Seq(RecordRow), NEW id \in IncidentId
    PROVE  iter_incidents(id) = ReadOf(Len(rows), id)
<1>1. id # Null
  BY RecordsAssumption
<1>2. \A i \in RowsOf(INCIDENT) : i <= Len(rows)
  BY DEF RowsOf
<1> QED
  BY <1>1, <1>2 DEF iter_incidents, ReadOf, ReadIncidents, Unreadable

\* The incidents with a readable row.
ReadIds == {id \in IncidentId : iter_incidents(id) # {}}

LEMMA ViewsAreRight ==
    ASSUME rows \in Seq(RecordRow)
    PROVE  /\ DOMAIN scan_incidents = ReadIds
           /\ \A id \in ReadIds :
                /\ scan_incidents[id].latest = rows[Max(iter_incidents(id))].rec
                /\ scan_incidents[id].rows = Cardinality(iter_incidents(id))
                /\ scan_incidents[id].latest \in Incidents
<1> DEFINE views == scan_incidents
<1>1. FoldHolds(views, Len(rows))
  BY ScanIsRight
<1> HIDE DEF views
<1>2. \A id : id \in DOMAIN views <=> ReadOf(Len(rows), id) # {}
  BY <1>1 DEF FoldHolds
<1>3. ASSUME NEW id, ReadOf(Len(rows), id) # {} PROVE id \in IncidentId
  <2>1. PICK i \in ReadIncidents : rows[i].rec.incident_id = id
    BY <1>3 DEF ReadOf
  <2>2. rows[i].rec \in Incidents
    BY <2>1, ReadRow
  <2> QED
    BY <2>1, <2>2, RecordsAssumption
<1>4. \A id : id \in DOMAIN views <=> id \in ReadIds
  BY <1>2, <1>3, IterIsRead DEF ReadIds
<1>5. DOMAIN views = ReadIds
  BY <1>4
<1>6. ASSUME NEW id \in ReadIds
      PROVE  /\ views[id].latest = rows[Max(iter_incidents(id))].rec
             /\ views[id].rows = Cardinality(iter_incidents(id))
             /\ views[id].latest \in Incidents
  <2>1. id \in IncidentId /\ id \in DOMAIN views
    BY <1>5 DEF ReadIds
  <2>2. iter_incidents(id) = ReadOf(Len(rows), id)
    BY <2>1, IterIsRead
  <2> QED
    BY <1>1, <2>1, <2>2 DEF FoldHolds
<1> QED
  BY <1>5, <1>6 DEF views

\* What a status says of the record.
LEMMA StatusIsRight ==
    ASSUME NEW rec \in Incidents, NEW at \in Nat
    PROVE  /\ window_status(rec, at) = "no_report_recorded_past_window" =>
                rec.reported_at = Null /\ rec.report_ref = Null /\ at > rec.confirmed_at + window_h
           /\ window_status(rec, at) = "report_recorded_within_window" =>
                rec.reported_at \in rec.confirmed_at..(rec.confirmed_at + window_h)
<1>1. /\ rec.confirmed_at \in {Null, -1} \cup Nat /\ rec.reported_at \in {Null, -1} \cup Nat
      /\ window_h \in Nat
  BY RecordsAssumption
<1>2. CASE ~Aware(rec.confirmed_at)
  BY <1>2 DEF window_status
<1>3. CASE Aware(rec.confirmed_at)
  <2>1. rec.confirmed_at \in Nat
    BY <1>1, <1>3 DEF Aware, Naive
  <2>2. CASE rec.reported_at = Null
    BY <1>1, <1>3, <2>1, <2>2 DEF window_status
  <2>3. CASE rec.reported_at # Null
    <3>1. Aware(rec.reported_at) => rec.reported_at \in Nat
      BY <1>1, <2>3 DEF Aware, Naive
    <3> QED
      BY <1>1, <1>3, <2>1, <2>3, <3>1 DEF window_status
  <2> QED
    BY <2>2, <2>3
<1> QED
  BY <1>2, <1>3

LEMMA ListingKeeps ==
    ASSUME RecordInv, NEW since \in {Null, 0, 1}, _incidents(since)
    PROVE  RecordInv'
<1>0. rows \in Seq(RecordRow) /\ TicketsHold /\ now \in Nat
  BY DEF RecordInv
<1> DEFINE views == scan_incidents
           listed == {id \in DOMAIN views : Kept(views[id].latest, since)}
<1>1. /\ UNCHANGED <<rows, granted, next, lost, issued, now>>
      /\ said'.cmd = "incidents" /\ said'.since = since
      /\ said'.status = [id \in listed |-> window_status(views[id].latest, now)]
      /\ said'.rows = [id \in listed |-> views[id].rows]
      /\ said'.code = IF Unreadable(INCIDENT) # {} THEN 2 ELSE 0
  BY DEF _incidents
<1>2. /\ DOMAIN views = ReadIds
      /\ \A id \in ReadIds :
            /\ views[id].latest = rows[Max(iter_incidents(id))].rec
            /\ views[id].rows = Cardinality(iter_incidents(id))
            /\ views[id].latest \in Incidents
  BY <1>0, ViewsAreRight
<1> HIDE DEF views
<1>3. TicketsHold'
  BY <1>0, <1>1 DEF TicketsHold, RowsOf
<1>4. Unreadable(INCIDENT)' = Unreadable(INCIDENT) /\ \A id : iter_incidents(id)' = iter_incidents(id)
  BY <1>1 DEF Unreadable, RowsOf, iter_incidents
<1>5. said'.code = 2 <=> Unreadable(INCIDENT) # {}
  BY <1>1
<1>6. ASSUME NEW id \in ReadIds
      PROVE  LET new == rows[Max(iter_incidents(id))].rec
             IN  IF id \in DOMAIN said'.status
                 THEN /\ said'.rows[id] = Cardinality(iter_incidents(id))
                      /\ said'.status[id] = "no_report_recorded_past_window" =>
                            /\ new.reported_at = Null /\ new.report_ref = Null
                            /\ now > new.confirmed_at + window_h
                      /\ said'.status[id] = "report_recorded_within_window" =>
                            new.reported_at \in new.confirmed_at..(new.confirmed_at + window_h)
                 ELSE /\ Aware(new.confirmed_at)
                      /\ said'.since # Null /\ new.confirmed_at < said'.since
  <2> DEFINE new == rows[Max(iter_incidents(id))].rec
  <2>1. views[id].latest = new /\ views[id].rows = Cardinality(iter_incidents(id)) /\ new \in Incidents
    BY <1>2
  <2>2. DOMAIN said'.status = listed /\ (id \in listed <=> Kept(new, since))
    BY <1>1, <1>2, <2>1
  <2> HIDE DEF new
  <2>3. CASE id \in listed
    <3>1. said'.rows[id] = Cardinality(iter_incidents(id)) /\ said'.status[id] = window_status(new, now)
      BY <1>1, <2>1, <2>3
    <3> HIDE DEF listed
    <3> QED
      BY <1>0, <2>1, <2>2, <2>3, <3>1, StatusIsRight DEF new
  <2>4. CASE id \notin listed
    <3>1. ~Kept(new, since)
      BY <2>2, <2>4
    <3>2. since # Null /\ Aware(new.confirmed_at) /\ ~(new.confirmed_at >= since)
      BY <3>1 DEF Kept
    <3>3. new.confirmed_at \in Nat /\ since \in {0, 1}
      BY <2>1, <3>2, RecordsAssumption DEF Aware, Naive
    <3>4. new.confirmed_at < since
      BY <3>2, <3>3
    <3> HIDE DEF listed
    <3> QED
      BY <1>1, <2>2, <2>4, <3>2, <3>4 DEF new
  <2> QED
    BY <2>3, <2>4
<1>7. ListingsAreComplete'
  BY <1>1, <1>4, <1>5, <1>6 DEF ListingsAreComplete, ReadIds
<1>8. MissingTicketsAreLost'
  BY <1>1 DEF MissingTicketsAreLost
<1> QED
  BY <1>0, <1>1, <1>3, <1>7, <1>8 DEF RecordInv, RecordsAreAccountedFor

\* The counters add up because the classes are disjoint.
LEMMA DisjointUnion ==
    ASSUME NEW A, NEW B, IsFiniteSet(A), IsFiniteSet(B), A \cap B = {}
    PROVE  IsFiniteSet(A \cup B) /\ Cardinality(A \cup B) = Cardinality(A) + Cardinality(B)
<1>1. /\ IsFiniteSet(A \cup B)
      /\ Cardinality(A \cup B) = Cardinality(A) + Cardinality(B) - Cardinality(A \cap B)
  BY FS_Union
<1>2. Cardinality(A \cap B) = 0
  BY FS_EmptySet
<1>3. Cardinality(A) \in Nat /\ Cardinality(B) \in Nat
  BY FS_CardinalityType
<1> QED
  BY <1>1, <1>2, <1>3

LEMMA ReportKeeps ==
    ASSUME RecordInv, _report
    PROVE  RecordInv'
<1>0. rows \in Seq(RecordRow) /\ TicketsHold /\ now \in Nat
  BY DEF RecordInv
<1> DEFINE dec == RowsOf(DECISION) \ Unreadable(DECISION)
           int == RowsOf(INTERVENTION) \ Unreadable(INTERVENTION)
           bad == Unreadable(DECISION) \cup Unreadable(INCIDENT) \cup Unreadable(INTERVENTION)
           inc == UNION {iter_incidents(id) : id \in ReadIds}
           all == RowsOf(INTERVENTION) \cup RowsOf(DECISION) \cup RowsOf(INCIDENT)
<1>1. /\ UNCHANGED <<rows, granted, next, lost, issued, now>>
      /\ said'.cmd = "report" /\ said'.report = build_report
  BY DEF _report
<1>2. DOMAIN scan_incidents = ReadIds
  BY <1>0, ViewsAreRight
<1>3. /\ build_report.incidents_total = Cardinality(ReadIds)
      /\ build_report.decisions_total = Cardinality(dec)
      /\ build_report.interventions_total = Cardinality(int)
      /\ build_report.malformed = bad
  BY <1>2 DEF build_report
<1>4. inc = ReadIncidents
  <2>1. ASSUME NEW i \in inc PROVE i \in ReadIncidents
    <3>1. PICK id \in ReadIds : i \in iter_incidents(id)
      OBVIOUS
    <3>2. id \in IncidentId
      BY DEF ReadIds
    <3>3. i \in ReadOf(Len(rows), id)
      BY <1>0, <3>1, <3>2, IterIsRead
    <3> QED
      BY <3>3 DEF ReadOf
  <2>2. ASSUME NEW i \in ReadIncidents PROVE i \in inc
    <3> DEFINE id == rows[i].rec.incident_id
    <3>1. id \in IncidentId
      BY <1>0, ReadRow, RecordsAssumption
    <3>2. i \in iter_incidents(id)
      BY DEF iter_incidents, ReadIncidents, Unreadable
    <3> HIDE DEF id
    <3>3. id \in ReadIds
      BY <3>1, <3>2 DEF ReadIds
    <3> QED
      BY <3>2, <3>3
  <2> QED
    BY <2>1, <2>2
<1> HIDE DEF inc
<1>5. /\ all = ((dec \cup int) \cup bad) \cup inc
      /\ dec \cap int = {} /\ (dec \cup int) \cap bad = {} /\ ((dec \cup int) \cup bad) \cap inc = {}
  BY <1>4 DEF ReadIncidents, RowsOf, Unreadable, INCIDENT, INTERVENTION, DECISION
<1>6. IsFiniteSet(dec) /\ IsFiniteSet(int) /\ IsFiniteSet(bad) /\ IsFiniteSet(inc)
  <2>1. IsFiniteSet(1..Len(rows))
    BY <1>0, FS_Interval
  <2>2. dec \subseteq 1..Len(rows) /\ int \subseteq 1..Len(rows) /\ bad \subseteq 1..Len(rows)
    BY <1>0 DEF RowsOf, Unreadable
  <2>3. inc \subseteq 1..Len(rows)
    BY <1>0, <1>4 DEF ReadIncidents, RowsOf
  <2> QED
    BY <2>1, <2>2, <2>3, FS_Subset
<1> HIDE DEF dec, int, bad, all
<1>7. Cardinality(all) = Cardinality(dec) + Cardinality(int) + Cardinality(bad) + Cardinality(inc)
  <2>1. IsFiniteSet(dec \cup int) /\ Cardinality(dec \cup int) = Cardinality(dec) + Cardinality(int)
    BY <1>5, <1>6, DisjointUnion
  <2>2. /\ IsFiniteSet((dec \cup int) \cup bad)
        /\ Cardinality((dec \cup int) \cup bad) = Cardinality(dec \cup int) + Cardinality(bad)
    BY <1>5, <1>6, <2>1, DisjointUnion
  <2>3. Cardinality(((dec \cup int) \cup bad) \cup inc)
          = Cardinality((dec \cup int) \cup bad) + Cardinality(inc)
    BY <1>5, <1>6, <2>2, DisjointUnion
  <2> QED
    BY <1>5, <2>1, <2>2, <2>3
<1>8. TicketsHold'
  BY <1>0, <1>1 DEF TicketsHold, RowsOf
<1>9. /\ \A id : iter_incidents(id)' = iter_incidents(id)
      /\ \A type : RowsOf(type)' = RowsOf(type)
  BY <1>1 DEF RowsOf, iter_incidents
<1>10. ListingsAreComplete'
  <2>1. /\ said'.report.incidents_total = Cardinality(ReadIds)
        /\ Cardinality(all) = said'.report.decisions_total + said'.report.interventions_total
                              + Cardinality(said'.report.malformed) + Cardinality(inc)
    BY <1>1, <1>3, <1>7
  <2> QED
    BY <1>1, <1>9, <2>1 DEF ListingsAreComplete, ReadIds, inc, all
<1>11. MissingTicketsAreLost'
  BY <1>1 DEF MissingTicketsAreLost
<1> QED
  BY <1>0, <1>1, <1>8, <1>10, <1>11 DEF RecordInv, RecordsAreAccountedFor

LEMMA RecordStepHolds == RecordInv /\ [RecordNext]_recordVars => RecordInv'
<1> SUFFICES ASSUME RecordInv, [RecordNext]_recordVars PROVE RecordInv'
  OBVIOUS
<1>1. CASE UNCHANGED recordVars
  <2>1. /\ rows' = rows /\ granted' = granted /\ next' = next /\ lost' = lost
        /\ issued' = issued /\ now' = now /\ said' = said
    BY <1>1 DEF recordVars
  <2>2. /\ \A id : iter_incidents(id)' = iter_incidents(id)
        /\ \A type : RowsOf(type)' = RowsOf(type) /\ Unreadable(type)' = Unreadable(type)
    BY <2>1 DEF RowsOf, Unreadable, iter_incidents
  <2>3. TicketsHold'
    BY <2>1, <2>2 DEF RecordInv, TicketsHold
  <2>4. MissingTicketsAreLost'
    BY <2>1, <2>2 DEF RecordInv, RecordsAreAccountedFor, MissingTicketsAreLost
  <2>5. ListingsAreComplete'
    BY <2>1, <2>2 DEF RecordInv, RecordsAreAccountedFor, ListingsAreComplete
  <2> QED
    BY <2>1, <2>3, <2>4, <2>5 DEF RecordInv, RecordsAreAccountedFor
<1>2. CASE RecordNext
  BY <1>2, WritersKeep, IssuerKeeps, TicketKeeps, ReconcileKeeps, ReportKeeps, ListingKeeps
     DEF RecordNext
<1> QED
  BY <1>1, <1>2

\* What the record commands leave out, they account for: a ticket named as a
\* drop was lost, exit 0 hides no lost ticket of a closed lease, every
\* incident is listed with its newest row's status or filtered for a stated
\* reason, and the report's counters add up to the rows (reconcile_tickets,
\* scan_incidents, window_status, build_report).
THEOREM RecordsAreComplete == RecordSpec => []RecordsAreAccountedFor
<1>1. RecordInit => RecordInv
  BY RecordInitHolds
<1>2. RecordInv /\ [RecordNext]_recordVars => RecordInv'
  BY RecordStepHolds
<1>3. RecordInv => RecordsAreAccountedFor
  BY DEF RecordInv
<1> QED
  BY <1>1, <1>2, <1>3, PTL DEF RecordSpec

=============================================================================
