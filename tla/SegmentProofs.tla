--------------------------- MODULE SegmentProofs -----------------------------
(***************************************************************************)
(* Proofs about the segments of a trail.  Rotation, for any hooks and      *)
(* server handlers, any threshold and any incidents: a segment is closed   *)
(* once and is bounded, its archive copy holds what its successor's        *)
(* binding names, and verify_segments takes no rotation for a break and no *)
(* missing segment for a good trail.  SegmentArchive, for any archivers,   *)
(* settings, retentions and clocks: what an archive report says of a       *)
(* stored segment holds.                                                   *)
(***************************************************************************)
EXTENDS Rotation, SegmentArchive, FiniteSetTheorems, SequenceTheorems,
        WellFoundedInduction, TLAPS

Bind == [segment : Nat, seq : Nat, head_hash : Nat]

RowT == [id : Nat, binds : Seq(Bind)]

SegT == [rows : Seq(RowT), torn : BOOLEAN]

Where == {"idle", "lock", "resolve", "create", "bind", "archive", "append"}

Shape ==
    /\ segs \in Seq(SegT) /\ Len(segs) > 0
    /\ lock \in Writer \cup {NoWriter}
    /\ pc \in [Writer -> Where]
    /\ handle \in [Writer -> Nat]
    /\ tail \in [Writer -> Bind]
    /\ written \in Nat
    /\ incidents \in [Incidents -> Nat]
    /\ deleted \subseteq 1 .. Active - 1
    /\ \A w \in Writer : pc[w] \in {"archive", "append"} => handle[w] \in 1 .. Active

\* b names a row of segment s.
Names(b, s) ==
    /\ b.segment = s
    /\ b.seq < Len(segs[s].rows)
    /\ segs[s].rows[b.seq + 1].id = b.head_hash

\* Row 0 of segment s is a binding.
Bound(s) == segs[s].rows # << >> /\ segs[s].rows[1].binds # << >>

\* Whoever is inside open_segmented's with block holds the lock.
Exclusion == \A w \in Writer : pc[w] \in {"resolve", "create", "bind"} => lock = w

\* What a rotation under way has read still stands, and the file it created is
\* empty until it writes the binding.
UnderWay(w) ==
    /\ pc[w] = "create" => Names(tail[w], Active)
    /\ pc[w] = "bind" => /\ Active > 1 /\ Names(tail[w], Active - 1)
                         /\ segs[Active].rows = << >> /\ ~segs[Active].torn
    /\ pc[w] = "archive" => /\ tail[w].segment \in 1 .. Active - 1
                            /\ segs[tail[w].segment + 1].rows # << >>

RotationsUnderWay == \A w \in Writer : UnderWay(w)

\* A binding is row 0 of its segment and names a row of the segment before.
BindingsHold ==
    \A s \in 1 .. Active : \A i \in 1 .. Len(segs[s].rows) :
        segs[s].rows[i].binds # << >> =>
            i = 1 /\ s > 1 /\ Names(segs[s].rows[i].binds[1], s - 1)

\* An archived segment has a successor that has its first row, and what that
\* row binds is in the copy.
ArchiveHolds ==
    \A c \in archive :
        /\ c[1] \in 1 .. Active - 1
        /\ segs[c[1] + 1].rows # << >>
        /\ Bound(c[1] + 1) => LET b == segs[c[1] + 1].rows[1].binds[1]
                              IN  b.seq < Len(c[2]) /\ c[2][b.seq + 1].id = b.head_hash

\* Unless a rotation stopped half way, every segment but the first is bound,
\* but for the one whose binding is being written; one that was bound when its
\* predecessor was deleted.
RotationsBind ==
    RotationsComplete =>
        /\ \A s \in 2 .. Active : Bound(s) \/ (s = Active /\ \E w \in Writer : pc[w] = "bind")
        /\ \A s \in deleted : Bound(s + 1)

\* The writers that may yet append to segment s.
Openers(s) == {w \in Writer : pc[w] \in {"archive", "append"} /\ AppendTarget(w) = s}

\* A segment has room for every writer that may yet append to it.
Room ==
    \A s \in 1 .. Active :
        /\ Len(segs[s].rows) <= OpenRows + Cardinality(Writer)
        /\ ~segs[s].torn => Len(segs[s].rows) + Cardinality(Openers(s))
                            <= OpenRows + Cardinality(Writer)

IInv ==
    /\ Shape /\ Exclusion /\ RotationsUnderWay /\ BindingsHold
    /\ ArchiveHolds /\ RotationsBind /\ Room

-----------------------------------------------------------------------------
(* What a step does to the files.                                          *)

\* Rows are only ever appended, and segments only added.
FilesGrow ==
    /\ segs' \in Seq(SegT) /\ Active' >= Active
    /\ \A t \in 1 .. Active :
          /\ Len(segs'[t].rows) >= Len(segs[t].rows)
          /\ \A i \in 1 .. Len(segs[t].rows) : segs'[t].rows[i] = segs[t].rows[i]
          /\ segs[t].torn => segs'[t].torn

LEMMA SegmentTypes ==
  ASSUME Shape, NEW s \in 1 .. Active
  PROVE  /\ segs[s] \in SegT /\ segs[s].rows \in Seq(RowT) /\ segs[s].torn \in BOOLEAN
         /\ Len(segs[s].rows) \in Nat /\ Active \in Nat \ {0}
<1>1. segs \in Seq(SegT) /\ Len(segs) > 0 /\ s \in 1 .. Len(segs)
  BY DEF Shape, Active
<1>2. segs[s] \in SegT
  BY <1>1, ElementOfSeq
<1>3. segs[s].rows \in Seq(RowT) /\ segs[s].torn \in BOOLEAN
  BY <1>2 DEF SegT
<1> QED
  BY <1>1, <1>2, <1>3 DEF Active

LEMMA SameFiles ==
  ASSUME Shape, UNCHANGED segs
  PROVE  FilesGrow
BY DEF Shape, FilesGrow, Active

\* One file replaced by one that extends it.
LEMMA FileReplaced ==
  ASSUME Shape, NEW s \in 1 .. Active, NEW g \in SegT, segs' = [segs EXCEPT ![s] = g],
         Len(g.rows) >= Len(segs[s].rows), segs[s].torn => g.torn,
         \A i \in 1 .. Len(segs[s].rows) : g.rows[i] = segs[s].rows[i]
  PROVE  /\ FilesGrow /\ Active' = Active
         /\ \A t \in 1 .. Active : segs'[t] = IF t = s THEN g ELSE segs[t]
<1>1. segs \in Seq(SegT) /\ s \in 1 .. Len(segs)
  BY DEF Shape, Active
<1>2. /\ segs' \in Seq(SegT) /\ Len(segs') = Len(segs)
      /\ \A t \in 1 .. Len(segs) : segs'[t] = IF t = s THEN g ELSE segs[t]
  BY <1>1, ExceptSeq
<1>3. \A t \in 1 .. Active : Len(segs[t].rows) \in Nat
  BY SegmentTypes
<1>4. Len(segs) \in Nat
  BY <1>1
<1> QED
  BY <1>2, <1>3, <1>4 DEF FilesGrow, Active

\* An append adds one row that binds nothing.
LEMMA RowAdded ==
  ASSUME Shape, NEW s \in 1 .. Active,
         segs' = [segs EXCEPT ![s].rows = Append(@, Row(written + 1))]
  PROVE  /\ FilesGrow /\ Active' = Active
         /\ \A t \in 1 .. Active : /\ segs'[t].torn = segs[t].torn
                                   /\ t # s => segs'[t] = segs[t]
         /\ Len(segs'[s].rows) = Len(segs[s].rows) + 1
         /\ segs'[s].rows[Len(segs[s].rows) + 1].binds = << >>
<1> DEFINE r == Row(written + 1)
<1>1. r \in RowT /\ r.binds = << >>
  BY DEF Row, RowT, Shape
<1>2. segs[s].rows \in Seq(RowT) /\ segs[s] \in SegT
  BY SegmentTypes
<1> HIDE DEF r
<1>3. PICK q \in Seq(RowT) : q = Append(segs[s].rows, r)
  BY <1>1, <1>2, AppendProperties
<1>4. /\ Len(q) = Len(segs[s].rows) + 1
      /\ \A i \in 1 .. Len(segs[s].rows) : q[i] = segs[s].rows[i]
      /\ q[Len(segs[s].rows) + 1] = r
  BY <1>1, <1>2, <1>3, AppendProperties
<1>5. segs' = [segs EXCEPT ![s] = [@ EXCEPT !.rows = q]]
  BY <1>3 DEF r
<1>6. PICK g \in SegT : g = [segs[s] EXCEPT !.rows = q]
  BY <1>2 DEF SegT
<1>7. g.rows = q /\ g.torn = segs[s].torn
  BY <1>6, <1>2 DEF SegT
<1>8. segs' = [segs EXCEPT ![s] = g]
  BY <1>5, <1>6
<1>9. Len(segs[s].rows) \in Nat
  BY <1>2
<1>p. /\ Len(g.rows) >= Len(segs[s].rows) /\ (segs[s].torn => g.torn)
      /\ \A i \in 1 .. Len(segs[s].rows) : g.rows[i] = segs[s].rows[i]
  BY <1>4, <1>7, <1>9
<1>10. /\ FilesGrow /\ Active' = Active
       /\ \A t \in 1 .. Active : segs'[t] = IF t = s THEN g ELSE segs[t]
  BY <1>p, <1>8, FileReplaced
<1> QED
  BY <1>1, <1>4, <1>7, <1>10

\* A short write leaves a torn line after the rows.
LEMMA LineTorn ==
  ASSUME Shape, NEW s \in 1 .. Active, segs' = [segs EXCEPT ![s].torn = TRUE]
  PROVE  /\ FilesGrow /\ Active' = Active /\ segs'[s].torn
         /\ \A t \in 1 .. Active : /\ segs'[t].rows = segs[t].rows
                                   /\ t # s => segs'[t] = segs[t]
<1>1. segs[s] \in SegT /\ Len(segs[s].rows) \in Nat
  BY SegmentTypes
<1>2. PICK g \in SegT : g = [segs[s] EXCEPT !.torn = TRUE]
  BY <1>1 DEF SegT
<1>3. g.rows = segs[s].rows /\ g.torn
  BY <1>2, <1>1 DEF SegT
<1>4. segs' = [segs EXCEPT ![s] = g]
  BY <1>2
<1>p. /\ Len(g.rows) >= Len(segs[s].rows) /\ (segs[s].torn => g.torn)
      /\ \A i \in 1 .. Len(segs[s].rows) : g.rows[i] = segs[s].rows[i]
  BY <1>1, <1>3
<1>5. /\ FilesGrow /\ Active' = Active
      /\ \A t \in 1 .. Active : segs'[t] = IF t = s THEN g ELSE segs[t]
  BY <1>p, <1>4, FileReplaced
<1> QED
  BY <1>3, <1>5

\* A rotation adds an empty segment ...
LEMMA SegmentAdded ==
  ASSUME Shape, segs' = Append(segs, Empty)
  PROVE  /\ FilesGrow /\ Active' = Active + 1
         /\ \A t \in 1 .. Active : segs'[t] = segs[t]
         /\ segs'[Active + 1].rows = << >> /\ ~segs'[Active + 1].torn
<1>1. Empty \in SegT /\ Empty.rows = << >> /\ Empty.torn = FALSE
  BY DEF Empty, SegT
<1>2. /\ segs' \in Seq(SegT) /\ Len(segs') = Len(segs) + 1
      /\ \A t \in 1 .. Len(segs) : segs'[t] = segs[t]
      /\ segs'[Len(segs) + 1] = Empty
  BY <1>1, AppendProperties DEF Shape
<1>3. \A t \in 1 .. Active : Len(segs[t].rows) \in Nat
  BY SegmentTypes
<1> QED
  BY <1>1, <1>2, <1>3 DEF FilesGrow, Active, Shape

\* ... and makes the binding its first row.
LEMMA BindingAdded ==
  ASSUME Shape, segs[Active].rows = << >>, NEW b \in Bind,
         segs' = [segs EXCEPT ![Active].rows = <<BindingRow(written + 1, b)>>]
  PROVE  /\ FilesGrow /\ Active' = Active
         /\ \A t \in 1 .. Active : /\ segs'[t].torn = segs[t].torn
                                   /\ t # Active => segs'[t].rows = segs[t].rows
         /\ Len(segs'[Active].rows) = 1
         /\ segs'[Active].rows[1].binds = <<b>>
<1>0. Active \in 1 .. Active
  BY DEF Shape, Active
<1>1. segs[Active] \in SegT /\ Len(segs[Active].rows) = 0
  BY <1>0, SegmentTypes
<1>2. <<b>> \in Seq(Bind) /\ written + 1 \in Nat
  BY DEF Shape
<1>a. PICK bs \in Seq(Bind) : bs = <<b>>
  BY <1>2
<1>b. [id |-> written + 1, binds |-> bs] \in RowT
  BY <1>2 DEF RowT
<1>c. PICK r \in RowT : r = [id |-> written + 1, binds |-> bs]
  BY <1>b
<1>3. r = BindingRow(written + 1, b) /\ r.binds = <<b>>
  BY <1>a, <1>c DEF BindingRow
<1>4. <<r>> \in Seq(RowT) /\ Len(<<r>>) = 1 /\ <<r>>[1] = r
  OBVIOUS
<1>5. PICK q \in Seq(RowT) : q = <<r>> /\ Len(q) = 1 /\ q[1] = r
  BY <1>4
<1>6. segs' = [segs EXCEPT ![Active] = [@ EXCEPT !.rows = q]]
  BY <1>3, <1>5
<1>7. PICK g \in SegT : g = [segs[Active] EXCEPT !.rows = q]
  BY <1>1 DEF SegT
<1>8. g.rows = q /\ g.torn = segs[Active].torn
  BY <1>7, <1>1 DEF SegT
<1>9. segs' = [segs EXCEPT ![Active] = g]
  BY <1>6, <1>7
<1>p. /\ Len(g.rows) >= Len(segs[Active].rows) /\ (segs[Active].torn => g.torn)
      /\ \A i \in 1 .. Len(segs[Active].rows) : g.rows[i] = segs[Active].rows[i]
  BY <1>1, <1>5, <1>8
<1>10. /\ FilesGrow /\ Active' = Active
       /\ \A t \in 1 .. Active : segs'[t] = IF t = Active THEN g ELSE segs[t]
  BY <1>0, <1>p, <1>9, FileReplaced
<1> QED
  BY <1>0, <1>3, <1>5, <1>8, <1>10

\* What a binding names, and that a segment is bound, stays so.
LEMMA NamesStay ==
  ASSUME Shape, FilesGrow, NEW s \in 1 .. Active, NEW b, b.seq \in Nat, Names(b, s)
  PROVE  Names(b, s)'
<1>1. Len(segs[s].rows) \in Nat
  BY SegmentTypes
<1>2. b.seq + 1 \in 1 .. Len(segs[s].rows)
  BY <1>1 DEF Names
<1>3. segs' \in Seq(SegT) /\ s \in 1 .. Len(segs')
  BY DEF FilesGrow, Active, Shape
<1>4. segs'[s] \in SegT
  BY <1>3, ElementOfSeq
<1>5. Len(segs'[s].rows) \in Nat
  BY <1>4 DEF SegT
<1> QED
  BY <1>1, <1>2, <1>5 DEF Names, FilesGrow

LEMMA BoundStays ==
  ASSUME Shape, FilesGrow, NEW s \in 1 .. Active, segs[s].rows # << >>
  PROVE  /\ segs'[s].rows # << >> /\ segs'[s].rows[1] = segs[s].rows[1]
         /\ Bound(s)' <=> Bound(s)
<1>1. segs[s].rows \in Seq(RowT)
  BY SegmentTypes
<1>2. 1 \in 1 .. Len(segs[s].rows)
  BY <1>1
<1>a. segs' \in Seq(SegT) /\ s \in 1 .. Len(segs')
  BY DEF FilesGrow, Active, Shape
<1>b. segs'[s] \in SegT
  BY <1>a, ElementOfSeq
<1>3. segs'[s].rows \in Seq(RowT)
  BY <1>b DEF SegT
<1>4. Len(segs'[s].rows) >= 1 /\ segs'[s].rows[1] = segs[s].rows[1]
  BY <1>1, <1>2, <1>3 DEF FilesGrow
<1>5. segs'[s].rows # << >>
  BY <1>3, <1>4
<1> QED
  BY <1>4, <1>5 DEF Bound

-----------------------------------------------------------------------------
(* Each part of the invariant across a step, from what the step does to    *)
(* the files and to its writer.                                            *)

LEMMA BindingsKept ==
  ASSUME IInv, FilesGrow,
         \A s \in 1 .. Active' : \A i \in 1 .. Len(segs'[s].rows) :
            segs'[s].rows[i].binds # << >> =>
                \/ s \in 1 .. Active /\ i \in 1 .. Len(segs[s].rows)
                \/ i = 1 /\ s > 1 /\ Names(segs[s].rows[i].binds[1], s - 1)'
  PROVE  BindingsHold'
<1> SUFFICES ASSUME NEW s \in 1 .. Active', NEW i \in 1 .. Len(segs'[s].rows),
                    segs'[s].rows[i].binds # << >>
             PROVE  i = 1 /\ s > 1 /\ Names(segs[s].rows[i].binds[1], s - 1)'
  BY DEF BindingsHold
<1>1. CASE s \in 1 .. Active /\ i \in 1 .. Len(segs[s].rows)
  <2>1. segs'[s].rows[i] = segs[s].rows[i]
    BY <1>1 DEF FilesGrow
  <2>2. PICK b : b = segs[s].rows[i].binds[1]
    OBVIOUS
  <2>3. i = 1 /\ s > 1 /\ Names(b, s - 1)
    BY <1>1, <2>1, <2>2 DEF IInv, BindingsHold
  <2>4. segs[s].rows[i] \in RowT /\ segs[s].rows[i].binds # << >>
    BY <1>1, <2>1, SegmentTypes, ElementOfSeq DEF IInv
  <2>5. segs[s].rows[i].binds \in Seq(Bind)
    BY <2>4 DEF RowT
  <2>6. b \in Bind
    BY <2>2, <2>4, <2>5
  <2>7. b.seq \in Nat
    BY <2>6 DEF Bind
  <2>a. s - 1 \in 1 .. Active
    BY <2>3, <1>1, SegmentTypes DEF IInv
  <2>8. Names(b, s - 1)'
    BY <2>3, <2>7, <2>a, NamesStay DEF IInv
  <2> QED
    BY <2>1, <2>2, <2>3, <2>8
<1>2. CASE ~(s \in 1 .. Active /\ i \in 1 .. Len(segs[s].rows))
  BY <1>2
<1> QED
  BY <1>1, <1>2

LEMMA ArchiveKept ==
  ASSUME IInv, FilesGrow, UNCHANGED archive
  PROVE  ArchiveHolds'
<1> SUFFICES ASSUME NEW c \in archive
             PROVE  /\ c[1] \in 1 .. Active' - 1
                    /\ segs'[c[1] + 1].rows # << >>
                    /\ Bound(c[1] + 1)' =>
                         LET b == segs'[c[1] + 1].rows[1].binds[1]
                         IN  b.seq < Len(c[2]) /\ c[2][b.seq + 1].id = b.head_hash
  BY DEF ArchiveHolds
<1>1. c[1] \in 1 .. Active - 1 /\ segs[c[1] + 1].rows # << >>
  BY DEF IInv, ArchiveHolds
<1>2. c[1] + 1 \in 1 .. Active /\ Active' >= Active /\ Active' \in Nat /\ Active \in Nat
  BY <1>1 DEF FilesGrow, IInv, Shape, Active
<1>3. /\ segs'[c[1] + 1].rows # << >>
      /\ segs'[c[1] + 1].rows[1] = segs[c[1] + 1].rows[1]
      /\ Bound(c[1] + 1)' <=> Bound(c[1] + 1)
  BY <1>1, <1>2, BoundStays DEF IInv
<1>4. c[1] \in 1 .. Active' - 1
  BY <1>1, <1>2
<1>5. PICK b : b = segs[c[1] + 1].rows[1].binds[1] /\ b = segs'[c[1] + 1].rows[1].binds[1]
  BY <1>3
<1>6. Bound(c[1] + 1) => b.seq < Len(c[2]) /\ c[2][b.seq + 1].id = b.head_hash
  BY <1>5 DEF IInv, ArchiveHolds
<1> QED
  BY <1>3, <1>4, <1>5, <1>6

LEMMA BindKept ==
  ASSUME IInv, FilesGrow, Active' = Active, UNCHANGED deleted,
         RotationsComplete' => RotationsComplete,
         \A w \in Writer : pc[w] = "bind" => pc'[w] = "bind"
  PROVE  RotationsBind'
<1> SUFFICES ASSUME RotationsComplete, RotationsComplete'
             PROVE  /\ \A s \in 2 .. Active : \/ Bound(s)'
                                              \/ s = Active /\ \E w \in Writer : pc'[w] = "bind"
                    /\ \A s \in deleted : Bound(s + 1)'
  BY DEF RotationsBind
<1>1. \A s \in 1 .. Active : Bound(s) => Bound(s)'
  BY BoundStays DEF IInv, Bound
<1>2. \A s \in deleted : s + 1 \in 1 .. Active
  BY DEF IInv, Shape, Active
<1>3. \A s \in 2 .. Active : s \in 1 .. Active
  BY DEF Active
<1> QED
  BY <1>1, <1>2, <1>3 DEF IInv, RotationsBind

LEMMA OthersUnderWay ==
  ASSUME IInv, FilesGrow, NEW w \in Writer,
         Active' = Active \/ pc[w] \in {"create", "bind"},
         (\E v \in Writer : pc[v] = "bind" /\ v # w) => segs'[Active] = segs[Active],
         NEW v \in Writer, v # w, pc'[v] = pc[v], tail'[v] = tail[v]
  PROVE  UnderWay(v)'
<1>1. tail[v] \in Bind /\ Active \in Nat \ {0}
  BY DEF IInv, Shape, Active
<1>2. tail[v].seq \in Nat /\ tail[v].segment \in Nat
  BY <1>1 DEF Bind
<1>3. pc[v] \in {"create", "bind"} => Active' = Active
  BY DEF IInv, Exclusion
<1>4. UnderWay(v)
  BY DEF IInv, RotationsUnderWay
<1>5. pc[v] = "create" => Names(tail[v], Active)'
  <2> SUFFICES ASSUME pc[v] = "create" PROVE Names(tail[v], Active)'
    OBVIOUS
  <2>1. PICK b, n : b = tail[v] /\ n = Active
    OBVIOUS
  <2>2. Names(b, n) /\ n \in 1 .. Active
    BY <2>1, <1>1, <1>4 DEF UnderWay
  <2>3. Names(b, n)'
    BY <2>1, <2>2, <1>2, NamesStay DEF IInv
  <2> QED
    BY <2>1, <2>3, <1>3
<1>6. pc[v] = "bind" => Names(tail[v], Active - 1)' /\ segs'[Active] = segs[Active]
  <2> SUFFICES ASSUME pc[v] = "bind"
               PROVE  Names(tail[v], Active - 1)' /\ segs'[Active] = segs[Active]
    OBVIOUS
  <2>1. PICK b, n : b = tail[v] /\ n = Active - 1
    OBVIOUS
  <2>2. Names(b, n) /\ n \in 1 .. Active
    BY <2>1, <1>1, <1>4 DEF UnderWay
  <2>3. Names(b, n)'
    BY <2>1, <2>2, <1>2, NamesStay DEF IInv
  <2> QED
    BY <2>1, <2>3, <1>3
<1>7. pc[v] = "archive" => /\ tail[v].segment \in 1 .. Active' - 1
                           /\ segs'[tail[v].segment + 1].rows # << >>
  <2> SUFFICES ASSUME pc[v] = "archive"
               PROVE  /\ tail[v].segment \in 1 .. Active' - 1
                      /\ segs'[tail[v].segment + 1].rows # << >>
    OBVIOUS
  <2>1. PICK n : n = tail[v].segment + 1
    OBVIOUS
  <2>2. n \in 1 .. Active /\ segs[n].rows # << >>
    BY <2>1, <1>1, <1>2, <1>4 DEF UnderWay
  <2>3. segs'[n].rows # << >>
    BY <2>2, BoundStays DEF IInv
  <2>4. Active' \in Nat /\ Active' >= Active
    BY DEF FilesGrow, Active
  <2>a. tail[v].segment \in 1 .. Active - 1
    BY <1>4 DEF UnderWay
  <2>5. tail[v].segment \in 1 .. Active' - 1
    BY <2>a, <2>4, <1>1, <1>2
  <2> QED
    BY <2>1, <2>3, <2>5
<1> QED
  BY <1>3, <1>4, <1>5, <1>6, <1>7 DEF UnderWay

\* The four ways a segment keeps its room: nothing changes but that writers
\* leave; it is short of its threshold; one writer leaves with one more row; a
\* torn line shuts it.
LEMMA RoomKept ==
  ASSUME IInv, FilesGrow,
         \A s \in 1 .. Active' :
            \/ /\ s \in 1 .. Active /\ Len(segs'[s].rows) = Len(segs[s].rows)
               /\ segs'[s].torn = segs[s].torn
               /\ Openers(s)' \subseteq Openers(s)
            \/ Len(segs'[s].rows) <= OpenRows
            \/ /\ s \in 1 .. Active /\ Len(segs'[s].rows) = Len(segs[s].rows) + 1
               /\ ~segs[s].torn
               /\ \E w \in Openers(s) : Openers(s)' \subseteq Openers(s) \ {w}
            \/ /\ s \in 1 .. Active /\ Len(segs'[s].rows) = Len(segs[s].rows)
               /\ segs'[s].torn
  PROVE  Room'
<1> DEFINE N == Cardinality(Writer)
<1>1. IsFiniteSet(Writer) /\ N \in Nat /\ OpenRows \in Nat
  BY RotationAssumption, FS_CardinalityType DEF OpenRows
<1>2. \A S \in SUBSET Writer : IsFiniteSet(S) /\ Cardinality(S) \in Nat /\ Cardinality(S) <= N
  BY <1>1, FS_Subset, FS_CardinalityType
<1>3. \A S \in SUBSET Writer : \A T \in SUBSET S : Cardinality(T) <= Cardinality(S)
  BY <1>2, FS_Subset
<1>4. \A S \in SUBSET Writer : \A w \in S : Cardinality(S \ {w}) = Cardinality(S) - 1
  BY <1>2, FS_RemoveElement
<1> SUFFICES ASSUME NEW s \in 1 .. Active'
             PROVE  /\ Len(segs'[s].rows) <= OpenRows + N
                    /\ ~segs'[s].torn => Len(segs'[s].rows) + Cardinality(Openers(s)')
                                         <= OpenRows + N
  BY DEF Room
<1>5. Openers(s)' \subseteq Writer
  BY DEF Openers
<1>a. Openers(s) \subseteq Writer
  BY DEF Openers
<1>6. segs'[s] \in SegT
  BY ElementOfSeq DEF FilesGrow, Active
<1>7. Len(segs'[s].rows) \in Nat
  BY <1>6 DEF SegT
<1> DEFINE O == Openers(s)
           P == Openers(s)'
           m == Len(segs'[s].rows)
<1>8. s \in 1 .. Active => /\ Len(segs[s].rows) \in Nat
                           /\ Len(segs[s].rows) <= OpenRows + N
                           /\ ~segs[s].torn => Len(segs[s].rows) + Cardinality(O)
                                               <= OpenRows + N
  BY SegmentTypes DEF IInv, Room
<1>9. Cardinality(P) \in Nat /\ Cardinality(P) <= N /\ Cardinality(O) \in Nat
  BY <1>2, <1>5, <1>a
<1>10. CASE m <= OpenRows
  BY <1>10, <1>7, <1>9, <1>1
<1>11. CASE /\ s \in 1 .. Active /\ m = Len(segs[s].rows)
            /\ segs'[s].torn = segs[s].torn /\ P \subseteq O
  <2>1. Cardinality(P) <= Cardinality(O)
    BY <1>3, <1>a, <1>11
  <2> HIDE DEF N, O, P, m
  <2> QED
    BY <1>11, <2>1, <1>7, <1>8, <1>9, <1>1 DEF m, P
<1>12. CASE /\ s \in 1 .. Active /\ m = Len(segs[s].rows) + 1
            /\ ~segs[s].torn /\ \E w \in O : P \subseteq O \ {w}
  <2>0. PICK w \in O : P \subseteq O \ {w}
    BY <1>12
  <2>1. O \ {w} \in SUBSET Writer /\ Cardinality(O \ {w}) = Cardinality(O) - 1
    BY <1>4, <1>a
  <2>2. Cardinality(P) <= Cardinality(O \ {w})
    BY <1>3, <2>0, <2>1
  <2> HIDE DEF N, O, P, m
  <2> QED
    BY <1>12, <2>1, <2>2, <1>7, <1>8, <1>9, <1>1 DEF m, P
<1>13. CASE s \in 1 .. Active /\ m = Len(segs[s].rows) /\ segs'[s].torn
  BY <1>13, <1>8
<1> QED
  BY <1>10, <1>11, <1>12, <1>13

-----------------------------------------------------------------------------
(* The actions.                                                            *)

\* A step of w that writes no row.
LEMMA NoNewRows ==
  ASSUME IInv, NEW w \in Writer, Shape', Exclusion', FilesGrow, Active' = Active,
         \A t \in 1 .. Active : /\ segs'[t].rows = segs[t].rows
                                /\ segs'[t].torn = segs[t].torn \/ segs'[t].torn,
         (\E v \in Writer : pc[v] = "bind" /\ v # w) => segs'[Active] = segs[Active],
         UNCHANGED archive \/ ArchiveHolds', UNCHANGED deleted,
         RotationsComplete' => RotationsComplete /\ pc[w] # "bind",
         \A v \in Writer \ {w} : pc'[v] = pc[v] /\ tail'[v] = tail[v],
         UnderWay(w)',
         \A s \in 1 .. Active : \/ Openers(s)' \subseteq Openers(s)
                                \/ Len(segs[s].rows) <= OpenRows
                                \/ segs'[s].torn
  PROVE  IInv'
<1>1. BindingsHold'
  BY BindingsKept
<1>2. ArchiveHolds'
  BY ArchiveKept
<1>3. RotationsBind'
  <2>1. CASE RotationsComplete'
    BY <2>1, BindKept
  <2>2. CASE ~RotationsComplete'
    BY <2>2 DEF RotationsBind
  <2> QED
    BY <2>1, <2>2
<1>4. RotationsUnderWay'
  BY OthersUnderWay DEF RotationsUnderWay
<1>5. Room'
  BY RoomKept
<1> QED
  BY <1>1, <1>2, <1>3, <1>4, <1>5 DEF IInv

\* A step that lets no writer in.
LEMMA NobodyEnters ==
  ASSUME NEW w \in Writer, Active' = Active,
         \A v \in Writer \ {w} : pc'[v] = pc[v] /\ handle'[v] = handle[v],
         pc'[w] \in {"archive", "append"} =>
            pc[w] \in {"archive", "append"} /\ handle'[w] = handle[w],
         NEW s
  PROVE  /\ Openers(s)' \subseteq Openers(s)
         /\ pc'[w] \notin {"archive", "append"} => Openers(s)' \subseteq Openers(s) \ {w}
BY DEF Openers, AppendTarget

LEMMA CountersGrow ==
  ASSUME Shape, UNCHANGED incidents \/ \E k \in Incidents : Incident(k)
  PROVE  /\ incidents' \in [Incidents -> Nat]
         /\ RotationsComplete' => RotationsComplete
<1>1. CASE UNCHANGED incidents
  BY <1>1 DEF Shape, RotationsComplete, Happened
<1>2. ASSUME NEW k \in Incidents, Incident(k)
      PROVE  /\ incidents' \in [Incidents -> Nat]
             /\ \A j \in Incidents : incidents[j] \in Nat /\ incidents'[j] >= incidents[j]
  BY <1>2 DEF Shape, Incident
<1>3. ASSUME NEW k \in Incidents, Incident(k) PROVE RotationsComplete' => RotationsComplete
  BY <1>2, <1>3 DEF RotationsComplete, Happened
<1> QED
  BY <1>1, <1>2, <1>3

LEMMA StoppedIsCounted ==
  ASSUME Shape, Incident("bind") \/ Incident("crash_bind")
  PROVE  ~RotationsComplete'
BY DEF Shape, Incident, RotationsComplete, Happened

LEMMA DoneTypes ==
  ASSUME Shape, NEW w \in Writer, Done(w)
  PROVE  /\ pc' \in [Writer -> Where] /\ handle' \in [Writer -> Nat] /\ tail' \in [Writer -> Bind]
         /\ \A v \in Writer \ {w} : pc'[v] = pc[v] /\ tail'[v] = tail[v] /\ handle'[v] = handle[v]
         /\ pc'[w] = "idle" /\ UnderWay(w)'
<1>1. NoTail \in Bind
  BY DEF NoTail, Bind
<1> QED
  BY <1>1 DEF Shape, Done, Goto, Where, UnderWay

LEMMA GotoTypes ==
  ASSUME Shape, NEW w \in Writer, NEW x \in Where, Goto(w, x)
  PROVE  /\ pc' \in [Writer -> Where] /\ pc'[w] = x
         /\ \A v \in Writer \ {w} : pc'[v] = pc[v]
BY DEF Shape, Goto

\* A segment under the threshold has no more than OpenRows rows; one that is
\* not, and is not torn, has a row.
LEMMA RowsAndThreshold ==
  ASSUME Shape, NEW s \in 1 .. Active
  PROVE  /\ UnderThreshold(s) => Len(segs[s].rows) <= OpenRows
         /\ ~UnderThreshold(s) /\ ~segs[s].torn => Len(segs[s].rows) >= 1
<1>1. MaxSegment \in Nat /\ MaxSegment >= 1
  BY RotationAssumption
<1>2. PICK n \in Nat : n = Len(segs[s].rows)
  BY SegmentTypes
<1>3. PICK d \in {0, 1} : Size(s) = n + d /\ (~segs[s].torn => d = 0)
  BY <1>2 DEF Size
<1> QED
  BY <1>1, <1>2, <1>3 DEF UnderThreshold, OpenRows

LEMMA OpenStatKeeps ==
  ASSUME IInv, NEW w \in Writer, OpenStat(w)
  PROVE  IInv'
<1> USE DEF IInv
<1>1. FilesGrow /\ Active' = Active /\ UNCHANGED <<segs, archive, deleted, tail, incidents, lock>>
  BY SameFiles DEF OpenStat, Active
<1>2. PICK x \in {"append", "lock"} :
        Goto(w, x) /\ (x = "append" => UnderThreshold(Active))
  BY DEF OpenStat
<1>3. /\ pc' \in [Writer -> Where] /\ pc'[w] = x
      /\ \A v \in Writer \ {w} : pc'[v] = pc[v]
  BY <1>2, GotoTypes DEF Where
<1>4. Active \in 1 .. Active
  BY DEF Shape, Active
<1>5. /\ handle' \in [Writer -> Nat] /\ handle'[w] = Active
      /\ \A v \in Writer \ {w} : handle'[v] = handle[v]
  BY DEF OpenStat, Shape, Active
<1>6. Shape'
  BY <1>1, <1>3, <1>4, <1>5 DEF Shape, OpenStat
<1>7. Exclusion' /\ UnderWay(w)' /\ pc[w] = "idle"
  BY <1>1, <1>2, <1>3 DEF Exclusion, UnderWay, OpenStat
<1>8. RotationsComplete' => RotationsComplete
  BY <1>1, CountersGrow
<1>9. ASSUME NEW s \in 1 .. Active
      PROVE  Openers(s)' \subseteq Openers(s) \/ Len(segs[s].rows) <= OpenRows
  <2>1. CASE s = Active /\ UnderThreshold(Active)
    BY <2>1, RowsAndThreshold
  <2>2. CASE x = "lock"
    BY <1>1, <1>3, <1>5, <2>2, NobodyEnters
  <2>3. CASE s # Active
    BY <2>3, <1>1, <1>3, <1>5 DEF Openers, AppendTarget
  <2> QED
    BY <2>1, <2>2, <2>3, <1>2
<1> QED
  BY <1>1, <1>3, <1>6, <1>7, <1>8, <1>9, NoNewRows

LEMMA AcquireLockKeeps ==
  ASSUME IInv, NEW w \in Writer, AcquireLock(w)
  PROVE  IInv'
<1> USE DEF IInv
<1>1. /\ FilesGrow /\ Active' = Active /\ pc[w] = "lock" /\ lock = NoWriter /\ lock' = w
      /\ UNCHANGED <<segs, archive, deleted, tail, incidents, handle>>
  BY SameFiles DEF AcquireLock, Active
<1>2. /\ pc' \in [Writer -> Where] /\ pc'[w] = "resolve"
      /\ \A v \in Writer \ {w} : pc'[v] = pc[v]
  BY GotoTypes DEF Where, AcquireLock
<1>3. Shape'
  BY <1>1, <1>2 DEF Shape, AcquireLock
<1>4. Exclusion'
  BY <1>1, <1>2, RotationAssumption DEF Exclusion
<1>5. UnderWay(w)'
  BY <1>2 DEF UnderWay
<1>6. RotationsComplete' => RotationsComplete
  BY <1>1, CountersGrow
<1>7. \A s \in 1 .. Active : Openers(s)' \subseteq Openers(s)
  BY <1>1, <1>2, NobodyEnters
<1> QED
  BY <1>1, <1>2, <1>3, <1>4, <1>5, <1>6, <1>7, NoNewRows

LEMMA ResolveNothingToSealKeeps ==
  ASSUME IInv, NEW w \in Writer, ResolveNothingToSeal(w)
  PROVE  IInv'
<1> USE DEF IInv
<1>1. /\ FilesGrow /\ Active' = Active /\ pc[w] = "resolve" /\ lock' = NoWriter
      /\ UNCHANGED <<segs, archive, deleted, tail, incidents>>
      /\ UnderThreshold(Active) \/ segs[Active].torn
      /\ handle' = [handle EXCEPT ![w] = Active]
  BY SameFiles DEF ResolveNothingToSeal, Resolved, Active, Release
<1>2. /\ pc' \in [Writer -> Where] /\ pc'[w] = "append"
      /\ \A v \in Writer \ {w} : pc'[v] = pc[v]
  BY GotoTypes DEF Where, ResolveNothingToSeal
<1>3. Active \in 1 .. Active
  BY DEF Shape, Active
<1>4. /\ handle' \in [Writer -> Nat] /\ handle'[w] = Active
      /\ \A v \in Writer \ {w} : handle'[v] = handle[v]
  BY <1>1, <1>3 DEF Shape
<1>5. Shape'
  BY <1>1, <1>2, <1>3, <1>4 DEF Shape, ResolveNothingToSeal
<1>6. Exclusion'
  BY <1>1, <1>2 DEF Exclusion
<1>7. UnderWay(w)'
  BY <1>2 DEF UnderWay
<1>8. RotationsComplete' => RotationsComplete
  BY <1>1, CountersGrow
<1>9. ASSUME NEW s \in 1 .. Active
      PROVE  \/ Openers(s)' \subseteq Openers(s) \/ Len(segs[s].rows) <= OpenRows
             \/ segs'[s].torn
  <2>1. CASE s = Active /\ UnderThreshold(Active)
    BY <2>1, RowsAndThreshold
  <2>2. CASE s = Active /\ segs[Active].torn
    BY <2>2, <1>1
  <2>3. CASE s # Active
    BY <2>3, <1>1, <1>2, <1>4 DEF Openers, AppendTarget
  <2> QED
    BY <2>1, <2>2, <2>3, <1>1
<1> QED
  BY <1>1, <1>2, <1>5, <1>6, <1>7, <1>8, <1>9, NoNewRows

\* A segment that is full and not torn has a last row, which TailOf names.
LEMMA FullHasTail ==
  ASSUME IInv, ~(UnderThreshold(Active) \/ segs[Active].torn)
  PROVE  TailOf(Active) \in Bind /\ Names(TailOf(Active), Active)
<1>1. Active \in 1 .. Active
  BY DEF IInv, Shape, Active
<1>2. segs[Active].rows \in Seq(RowT) /\ Len(segs[Active].rows) \in Nat /\ Active \in Nat
  BY <1>1, SegmentTypes DEF IInv
<1>3. Len(segs[Active].rows) >= 1
  BY <1>1, RowsAndThreshold DEF IInv
<1>4. PICK n \in Nat : n = Len(segs[Active].rows) /\ n >= 1
  BY <1>2, <1>3
<1>5. segs[Active].rows[n] \in RowT
  BY <1>2, <1>4, ElementOfSeq
<1>6. segs[Active].rows[n].id \in Nat
  BY <1>5 DEF RowT
<1>7. TailOf(Active) = [segment |-> Active, seq |-> n - 1, head_hash |-> segs[Active].rows[n].id]
  BY <1>4 DEF TailOf
<1>8. n - 1 \in Nat /\ (n - 1) + 1 = n
  BY <1>4
<1>9. TailOf(Active) \in Bind
  BY <1>2, <1>6, <1>7, <1>8 DEF Bind
<1> QED
  BY <1>4, <1>7, <1>8, <1>9 DEF Names

LEMMA ResolveTailKeeps ==
  ASSUME IInv, NEW w \in Writer, ResolveTail(w)
  PROVE  IInv'
<1> USE DEF IInv
<1>1. /\ FilesGrow /\ Active' = Active /\ pc[w] = "resolve"
      /\ UNCHANGED <<segs, archive, deleted, incidents, lock, handle, written>>
      /\ ~(UnderThreshold(Active) \/ segs[Active].torn)
      /\ tail' = [tail EXCEPT ![w] = TailOf(Active)]
  BY SameFiles DEF ResolveTail, Resolved, Active
<1>2. /\ pc' \in [Writer -> Where] /\ pc'[w] = "create"
      /\ \A v \in Writer \ {w} : pc'[v] = pc[v]
  BY GotoTypes DEF Where, ResolveTail
<1>3. TailOf(Active) \in Bind /\ Names(TailOf(Active), Active)
  BY <1>1, FullHasTail
<1>4. /\ tail' \in [Writer -> Bind] /\ tail'[w] = TailOf(Active)
      /\ \A v \in Writer \ {w} : tail'[v] = tail[v]
  BY <1>1, <1>3 DEF Shape
<1>5. Shape'
  BY <1>1, <1>2, <1>4 DEF Shape
<1>6. Exclusion'
  BY <1>1, <1>2 DEF Exclusion
<1>7. UnderWay(w)'
  <2>1. Names(tail[w], Active)'
    BY <1>1, <1>3, <1>4 DEF Names
  <2> QED
    BY <1>2, <2>1 DEF UnderWay
<1>8. RotationsComplete' => RotationsComplete
  BY <1>1, CountersGrow
<1>9. \A s \in 1 .. Active : Openers(s)' \subseteq Openers(s)
  BY <1>1, <1>2, NobodyEnters
<1> QED
  BY <1>1, <1>2, <1>4, <1>5, <1>6, <1>7, <1>8, <1>9, NoNewRows

LEMMA CreateSegmentKeeps ==
  ASSUME IInv, NEW w \in Writer, CreateSegment(w)
  PROVE  IInv'
<1> USE DEF IInv
<1>1. /\ pc[w] = "create" /\ lock = w
      /\ UNCHANGED <<archive, deleted, incidents, lock, handle, tail, written>>
  BY DEF CreateSegment, Exclusion
<1>2. /\ FilesGrow /\ Active' = Active + 1
      /\ \A t \in 1 .. Active : segs'[t] = segs[t]
      /\ segs'[Active + 1].rows = << >> /\ ~segs'[Active + 1].torn
  BY SegmentAdded DEF CreateSegment
<1>3. /\ pc' \in [Writer -> Where] /\ pc'[w] = "bind"
      /\ \A v \in Writer \ {w} : pc'[v] = pc[v]
  BY GotoTypes DEF Where, CreateSegment
<1>4. Active \in Nat /\ Active >= 1 /\ Active \in 1 .. Active
  BY DEF Shape, Active
<1>5. Shape'
  BY <1>1, <1>2, <1>3, <1>4 DEF Shape, FilesGrow, Active
<1>6. Exclusion' /\ \A v \in Writer \ {w} : pc[v] # "bind"
  BY <1>1, <1>3 DEF Exclusion
<1>7. UnderWay(w)'
  <2>1. PICK b, n : b = tail[w] /\ n = Active
    OBVIOUS
  <2>2. Names(b, n) /\ b.seq \in Nat /\ n \in 1 .. Active
    BY <1>1, <1>4, <2>1 DEF RotationsUnderWay, UnderWay, Shape, Bind
  <2>3. Names(b, n)'
    BY <2>2, <1>2, NamesStay
  <2>4. tail'[w] = b /\ Active' - 1 = n /\ Active' > 1
    BY <1>1, <1>2, <1>4, <2>1
  <2> QED
    BY <1>2, <1>3, <2>3, <2>4 DEF UnderWay
<1>8. RotationsUnderWay'
  BY <1>1, <1>2, <1>3, <1>6, <1>7, OthersUnderWay DEF RotationsUnderWay
<1>9. BindingsHold'
  <2>1. \A t \in 1 .. Active' : t \in 1 .. Active \/ t = Active + 1
    BY <1>2, <1>4
  <2>2. Len(segs'[Active + 1].rows) = 0
    BY <1>2
  <2> QED
    BY <1>2, <2>1, <2>2, BindingsKept
<1>10. ArchiveHolds'
  BY <1>1, <1>2, ArchiveKept
<1>11. RotationsBind'
  <2> SUFFICES ASSUME RotationsComplete'
               PROVE  /\ \A s \in 2 .. Active' : Bound(s)' \/ s = Active'
                      /\ \A s \in deleted : Bound(s + 1)'
    BY <1>1, <1>3 DEF RotationsBind
  <2>1. RotationsComplete
    BY <1>1, CountersGrow
  <2>2. \A s \in 2 .. Active : Bound(s)
    BY <2>1, <1>1, <1>6 DEF RotationsBind
  <2>3. \A s \in 1 .. Active : Bound(s) => Bound(s)'
    BY <1>2, BoundStays DEF Bound
  <2>4. \A s \in 2 .. Active' : s = Active' \/ s \in 2 .. Active
    BY <1>2, <1>4
  <2>5. \A s \in 2 .. Active : s \in 1 .. Active
    BY <1>4
  <2>6. \A s \in deleted : s + 1 \in 2 .. Active
    BY <1>4 DEF Shape
  <2> QED
    BY <2>2, <2>3, <2>4, <2>5, <2>6
<1>12. Room'
  <2> SUFFICES ASSUME NEW s \in 1 .. Active'
               PROVE  \/ /\ s \in 1 .. Active /\ Len(segs'[s].rows) = Len(segs[s].rows)
                         /\ segs'[s].torn = segs[s].torn
                         /\ Openers(s)' \subseteq Openers(s)
                      \/ Len(segs'[s].rows) <= OpenRows
    BY <1>2, RoomKept
  <2>1. CASE s = Active + 1
    BY <2>1, <1>2, RotationAssumption DEF OpenRows
  <2>2. CASE s \in 1 .. Active
    <3>1. s # Active'
      BY <2>2, <1>2, <1>4
    <3>2. Openers(s)' \subseteq Openers(s)
      BY <3>1, <1>1, <1>3 DEF Openers, AppendTarget
    <3> QED
      BY <2>2, <3>2, <1>2
  <2> QED
    BY <2>1, <2>2, <1>2, <1>4
<1> QED
  BY <1>5, <1>6, <1>8, <1>9, <1>10, <1>11, <1>12

LEMMA WriteBindingKeeps ==
  ASSUME IInv, NEW w \in Writer, WriteBinding(w)
  PROVE  IInv'
<1> USE DEF IInv
<1>1. /\ pc[w] = "bind" /\ lock = w /\ lock' = NoWriter
      /\ UNCHANGED <<archive, deleted, incidents, tail>>
      /\ handle' = [handle EXCEPT ![w] = Active]
  BY DEF WriteBinding, Exclusion, Release
<1>2. /\ tail[w] \in Bind /\ Active > 1 /\ Names(tail[w], Active - 1)
      /\ segs[Active].rows = << >>
  BY <1>1 DEF RotationsUnderWay, UnderWay, Shape
<1>3. PICK b \in Bind : b = tail[w]
  BY <1>2
<1>4. /\ FilesGrow /\ Active' = Active
      /\ \A t \in 1 .. Active : /\ segs'[t].torn = segs[t].torn
                                /\ t # Active => segs'[t].rows = segs[t].rows
      /\ Len(segs'[Active].rows) = 1
      /\ segs'[Active].rows[1].binds = <<b>>
  BY <1>2, <1>3, BindingAdded DEF WriteBinding
<1>5. /\ pc' \in [Writer -> Where] /\ pc'[w] = "archive"
      /\ \A v \in Writer \ {w} : pc'[v] = pc[v]
  BY GotoTypes DEF Where, WriteBinding
<1>6. Active \in Nat /\ Active >= 1 /\ Active \in 1 .. Active /\ Active - 1 \in 1 .. Active
  BY <1>2 DEF Shape, Active
<1>7. /\ handle' \in [Writer -> Nat] /\ handle'[w] = Active
      /\ \A v \in Writer \ {w} : handle'[v] = handle[v]
  BY <1>1, <1>6 DEF Shape
<1>8. Shape'
  BY <1>1, <1>4, <1>5, <1>6, <1>7 DEF Shape, FilesGrow, Active, WriteBinding
<1>9. Exclusion' /\ \A v \in Writer \ {w} : pc[v] # "bind"
  BY <1>1, <1>5 DEF Exclusion
<1>10. segs'[Active].rows # << >> /\ <<b>> # << >> /\ <<b>>[1] = b
  BY <1>4
<1>11. UnderWay(w)'
  <2>1. tail'[w].segment = Active - 1
    BY <1>1, <1>2 DEF Names
  <2>2. tail'[w].segment + 1 = Active /\ tail'[w].segment \in 1 .. Active - 1
    BY <2>1, <1>2, <1>6
  <2> QED
    BY <2>2, <1>4, <1>5, <1>10 DEF UnderWay
<1>12. RotationsUnderWay'
  BY <1>1, <1>4, <1>5, <1>9, <1>11, OthersUnderWay DEF RotationsUnderWay
<1>13. BindingsHold'
  <2>1. PICK n : n = Active - 1
    OBVIOUS
  <2>2. Names(b, n)'
    BY <2>1, <1>2, <1>3, <1>4, <1>6, NamesStay DEF Bind
  <2>3. Names(segs[Active].rows[1].binds[1], Active - 1)'
    BY <2>1, <2>2, <1>4, <1>10
  <2> SUFFICES ASSUME NEW s \in 1 .. Active', NEW i \in 1 .. Len(segs'[s].rows)
               PROVE  \/ s \in 1 .. Active /\ i \in 1 .. Len(segs[s].rows)
                      \/ i = 1 /\ s > 1 /\ Names(segs[s].rows[i].binds[1], s - 1)'
    BY <1>4, BindingsKept
  <2>4. CASE s = Active
    <3>1. i = 1
      BY <2>4, <1>4
    <3> QED
      BY <3>1, <2>3, <2>4, <1>2, <1>4
  <2>5. CASE s # Active
    BY <2>5, <1>4
  <2> QED
    BY <2>4, <2>5
<1>14. ArchiveHolds'
  BY <1>1, <1>4, ArchiveKept
<1>15. RotationsBind'
  <2> SUFFICES ASSUME RotationsComplete'
               PROVE  \A s \in 2 .. Active : Bound(s)'
    <3>1. \A s \in deleted : s + 1 \in 2 .. Active
      BY <1>6 DEF Shape
    <3> QED
      BY <1>1, <1>4, <3>1 DEF RotationsBind
  <2>1. RotationsComplete
    BY <1>1, CountersGrow
  <2> TAKE s \in 2 .. Active
  <2>2. CASE s = Active
    BY <2>2, <1>4, <1>10 DEF Bound
  <2>3. CASE s # Active
    <3>1. Bound(s) /\ s \in 1 .. Active
      BY <2>1, <2>3, <1>6 DEF RotationsBind
    <3> QED
      BY <3>1, <1>4, BoundStays DEF Bound
  <2> QED
    BY <2>2, <2>3
<1>16. Room'
  <2> SUFFICES ASSUME NEW s \in 1 .. Active'
               PROVE  \/ /\ s \in 1 .. Active /\ Len(segs'[s].rows) = Len(segs[s].rows)
                         /\ segs'[s].torn = segs[s].torn
                         /\ Openers(s)' \subseteq Openers(s)
                      \/ Len(segs'[s].rows) <= OpenRows
    BY <1>4, RoomKept
  <2>1. CASE s = Active
    BY <2>1, <1>4, RotationAssumption DEF OpenRows
  <2>2. CASE s # Active
    <3>1. Openers(s)' \subseteq Openers(s)
      BY <2>2, <1>4, <1>5, <1>7 DEF Openers, AppendTarget
    <3> QED
      BY <2>2, <3>1, <1>4
  <2> QED
    BY <2>1, <2>2
<1> QED
  BY <1>8, <1>9, <1>12, <1>13, <1>14, <1>15, <1>16

\* A call of w ends with its files as they were, or one of them torn.
LEMMA EndsKeep ==
  ASSUME IInv, NEW w \in Writer, Done(w), UNCHANGED <<archive, deleted, written>>,
         lock' = lock \/ (lock' = NoWriter /\ (lock = w \/ lock = NoWriter)),
         pc[w] \in {"resolve", "create", "bind"} => lock' = NoWriter,
         \/ UNCHANGED segs
         \/ \E s \in 1 .. Active : /\ segs' = [segs EXCEPT ![s].torn = TRUE]
                                   /\ \A v \in Writer \ {w} : pc[v] = "bind" => s # Active,
         UNCHANGED incidents \/ \E k \in Incidents : Incident(k),
         pc[w] = "bind" => Incident("bind") \/ Incident("crash_bind")
  PROVE  IInv'
<1> USE DEF IInv
<1>1. /\ FilesGrow /\ Active' = Active
      /\ \A t \in 1 .. Active : /\ segs'[t].rows = segs[t].rows
                                /\ segs'[t].torn = segs[t].torn \/ segs'[t].torn
      /\ (\E v \in Writer : pc[v] = "bind" /\ v # w) => segs'[Active] = segs[Active]
  <2>1. CASE UNCHANGED segs
    BY <2>1, SameFiles DEF Active
  <2>2. ASSUME NEW s \in 1 .. Active, segs' = [segs EXCEPT ![s].torn = TRUE],
               \A v \in Writer \ {w} : pc[v] = "bind" => s # Active
        PROVE  /\ FilesGrow /\ Active' = Active
               /\ \A t \in 1 .. Active : /\ segs'[t].rows = segs[t].rows
                                         /\ segs'[t].torn = segs[t].torn \/ segs'[t].torn
               /\ (\E v \in Writer : pc[v] = "bind" /\ v # w) => segs'[Active] = segs[Active]
    <3>1. /\ FilesGrow /\ Active' = Active /\ segs'[s].torn
          /\ \A t \in 1 .. Active : /\ segs'[t].rows = segs[t].rows
                                    /\ t # s => segs'[t] = segs[t]
      BY <2>2, LineTorn
    <3>2. Active \in 1 .. Active
      BY DEF Shape, Active
    <3> QED
      BY <3>1, <3>2, <2>2
  <2> QED
    BY <2>1, <2>2
<1>2. /\ pc' \in [Writer -> Where] /\ handle' \in [Writer -> Nat] /\ tail' \in [Writer -> Bind]
      /\ \A v \in Writer \ {w} : pc'[v] = pc[v] /\ tail'[v] = tail[v] /\ handle'[v] = handle[v]
      /\ pc'[w] = "idle" /\ UnderWay(w)'
  BY DoneTypes
<1>3. incidents' \in [Incidents -> Nat] /\ (RotationsComplete' => RotationsComplete)
  BY CountersGrow
<1>4. RotationsComplete' => pc[w] # "bind"
  BY StoppedIsCounted
<1>5. Shape'
  BY <1>1, <1>2, <1>3 DEF Shape, FilesGrow, Active
<1>6. Exclusion'
  BY <1>2, RotationAssumption DEF Exclusion
<1>7. \A s \in 1 .. Active : Openers(s)' \subseteq Openers(s)
  BY <1>1, <1>2, NobodyEnters
<1> QED
  BY <1>1, <1>2, <1>3, <1>4, <1>5, <1>6, <1>7, NoNewRows

LEMMA BindingRaisesKeeps ==
  ASSUME IInv, NEW w \in Writer, BindingRaises(w)
  PROVE  IInv'
<1>1. /\ Done(w) /\ UNCHANGED <<archive, deleted, written>> /\ lock' = NoWriter
      /\ Incident("bind") /\ pc[w] \in {"create", "bind"}
      /\ UNCHANGED segs \/ segs' = [segs EXCEPT ![Active].torn = TRUE]
  BY DEF BindingRaises, Unwind, Release
<1>2. "bind" \in Incidents
  BY <1>1 DEF Incident
<1>3. lock = w /\ \A v \in Writer \ {w} : pc[v] # "bind"
  BY <1>1 DEF IInv, Exclusion
<1>4. Active \in 1 .. Active
  BY DEF IInv, Shape, Active
<1> QED
  BY <1>1, <1>2, <1>3, <1>4, EndsKeep

LEMMA TargetExists ==
  ASSUME IInv, NEW w \in Writer, pc[w] = "append"
  PROVE  AppendTarget(w) \in 1 .. Active
BY DEF IInv, Shape, Active, AppendTarget

LEMMA AppendRaisesKeeps ==
  ASSUME IInv, NEW w \in Writer, AppendRaises(w)
  PROVE  IInv'
<1>1. PICK s : s = AppendTarget(w)
  OBVIOUS
<1>2. /\ Done(w) /\ UNCHANGED <<archive, deleted, written, lock>> /\ pc[w] = "append"
      /\ \/ UNCHANGED <<segs, incidents>>
         \/ Incident("torn") /\ segs' = [segs EXCEPT ![s].torn = TRUE]
      /\ \A v \in Writer : pc[v] = "bind" => s # Active
  BY <1>1 DEF AppendRaises, FileLockFree
<1>3. s \in 1 .. Active
  BY <1>1, <1>2, TargetExists
<1>4. Incident("torn") => "torn" \in Incidents
  BY DEF Incident
<1>5. \/ UNCHANGED segs
      \/ \E t \in 1 .. Active : /\ segs' = [segs EXCEPT ![t].torn = TRUE]
                                /\ \A v \in Writer \ {w} : pc[v] = "bind" => t # Active
  BY <1>2, <1>3
<1>6. UNCHANGED incidents \/ \E k \in Incidents : Incident(k)
  BY <1>2, <1>4
<1>7. pc[w] \notin {"resolve", "create", "bind"}
  BY <1>2
<1> QED
  BY <1>2, <1>5, <1>6, <1>7, EndsKeep

LEMMA CrashKeeps ==
  ASSUME IInv, NEW w \in Writer, Crash(w)
  PROVE  IInv'
<1>1. /\ Done(w) /\ UNCHANGED <<archive, deleted, written>>
      /\ lock' = IF lock = w THEN NoWriter ELSE lock
      /\ \/ pc[w] # "bind" /\ Incident("crash") /\ UNCHANGED segs
         \/ /\ pc[w] = "bind" /\ Incident("crash_bind")
            /\ UNCHANGED segs \/ segs' = [segs EXCEPT ![Active].torn = TRUE]
  BY DEF Crash
<1>2. /\ Incident("crash") => "crash" \in Incidents
      /\ Incident("crash_bind") => "crash_bind" \in Incidents
  BY DEF Incident
<1>3. pc[w] \in {"resolve", "create", "bind"} => lock = w
  BY DEF IInv, Exclusion
<1>4. pc[w] = "bind" => \A v \in Writer \ {w} : pc[v] # "bind"
  BY <1>3 DEF IInv, Exclusion
<1>5. Active \in 1 .. Active
  BY DEF IInv, Shape, Active
<1>6. /\ lock' = lock \/ (lock' = NoWriter /\ (lock = w \/ lock = NoWriter))
      /\ pc[w] \in {"resolve", "create", "bind"} => lock' = NoWriter
  BY <1>1, <1>3
<1>7. \/ UNCHANGED segs
      \/ \E s \in 1 .. Active : /\ segs' = [segs EXCEPT ![s].torn = TRUE]
                                /\ \A v \in Writer \ {w} : pc[v] = "bind" => s # Active
  BY <1>1, <1>4, <1>5
<1>8. /\ \E k \in Incidents : Incident(k)
      /\ pc[w] = "bind" => Incident("bind") \/ Incident("crash_bind")
  BY <1>1, <1>2
<1> QED
  BY <1>1, <1>6, <1>7, <1>8, EndsKeep

LEMMA ArchiveSealedKeeps ==
  ASSUME IInv, NEW w \in Writer, ArchiveSealed(w)
  PROVE  IInv'
<1> USE DEF IInv
<1>1. /\ pc[w] = "archive" /\ UNCHANGED <<segs, lock, handle, tail, deleted, written>>
      /\ \/ /\ archive' = archive \cup {<<tail[w].segment, segs[tail[w].segment].rows>>}
            /\ UNCHANGED incidents
         \/ Incident("archive") /\ UNCHANGED archive
  BY DEF ArchiveSealed, Sealed
<1>2. FilesGrow /\ Active' = Active
  BY <1>1, SameFiles DEF Active
<1>3. /\ pc' \in [Writer -> Where] /\ pc'[w] = "append"
      /\ \A v \in Writer \ {w} : pc'[v] = pc[v]
  BY GotoTypes DEF Where, ArchiveSealed
<1>4. incidents' \in [Incidents -> Nat] /\ (RotationsComplete' => RotationsComplete)
  BY <1>1, CountersGrow DEF Incident
<1>5. Shape'
  BY <1>1, <1>2, <1>3, <1>4 DEF Shape
<1>6. Exclusion' /\ UnderWay(w)'
  BY <1>1, <1>3 DEF Exclusion, UnderWay
<1>7. \A s \in 1 .. Active : Openers(s)' \subseteq Openers(s)
  BY <1>1, <1>2, <1>3, NobodyEnters
<1>8. UNCHANGED archive \/ ArchiveHolds'
  <2> SUFFICES ASSUME archive' = archive \cup {<<tail[w].segment, segs[tail[w].segment].rows>>}
               PROVE  ArchiveHolds'
    BY <1>1
  <2>1. PICK t, rs : t = tail[w].segment /\ rs = segs[t].rows
    OBVIOUS
  <2>2. t \in 1 .. Active - 1 /\ segs[t + 1].rows # << >>
    BY <2>1, <1>1 DEF RotationsUnderWay, UnderWay
  <2>3. Active \in Nat /\ t + 1 \in 1 .. Active /\ (t + 1) - 1 = t
    BY <2>2 DEF Shape, Active
  <2>4. 1 \in 1 .. Len(segs[t + 1].rows)
    BY <2>2, <2>3, SegmentTypes
  <2>5. Bound(t + 1) => Names(segs[t + 1].rows[1].binds[1], t)
    BY <2>3, <2>4 DEF BindingsHold, Bound
  <2>6. Bound(t + 1) => LET b == segs[t + 1].rows[1].binds[1]
                        IN  b.seq < Len(rs) /\ rs[b.seq + 1].id = b.head_hash
    BY <2>1, <2>5 DEF Names
  <2>7. PICK c : c = <<t, rs>> /\ c[1] = t /\ c[2] = rs /\ archive' = archive \cup {c}
    BY <2>1
  <2> QED
    BY <2>2, <2>6, <2>7, <1>1, <1>2 DEF ArchiveHolds, Bound
<1> QED
  BY <1>1, <1>2, <1>3, <1>4, <1>5, <1>6, <1>7, <1>8, NoNewRows

LEMMA AppendRowKeeps ==
  ASSUME IInv, NEW w \in Writer, AppendRow(w)
  PROVE  IInv'
<1> USE DEF IInv
<1>0. PICK s : s = AppendTarget(w)
  OBVIOUS
<1>1. /\ pc[w] = "append" /\ Done(w) /\ UNCHANGED <<lock, archive, deleted, incidents>>
      /\ ~segs[s].torn /\ written' = written + 1
      /\ segs' = [segs EXCEPT ![s].rows = Append(@, Row(written + 1))]
      /\ \A v \in Writer : pc[v] = "bind" => s # Active
  BY <1>0 DEF AppendRow, FileLockFree
<1>2. s \in 1 .. Active /\ Active \in 1 .. Active
  BY <1>0, <1>1, TargetExists DEF Shape, Active
<1>3. /\ FilesGrow /\ Active' = Active
      /\ \A t \in 1 .. Active : /\ segs'[t].torn = segs[t].torn
                                /\ t # s => segs'[t] = segs[t]
      /\ Len(segs'[s].rows) = Len(segs[s].rows) + 1
      /\ segs'[s].rows[Len(segs[s].rows) + 1].binds = << >>
  BY <1>1, <1>2, RowAdded
<1>4. /\ pc' \in [Writer -> Where] /\ handle' \in [Writer -> Nat] /\ tail' \in [Writer -> Bind]
      /\ \A v \in Writer \ {w} : pc'[v] = pc[v] /\ tail'[v] = tail[v] /\ handle'[v] = handle[v]
      /\ pc'[w] = "idle" /\ UnderWay(w)'
  BY <1>1, DoneTypes
<1>a. segs' \in Seq(SegT) /\ Len(segs') > 0 /\ written' \in Nat
  BY <1>1, <1>3 DEF Shape, FilesGrow, Active
<1>5. Shape'
  BY <1>a, <1>1, <1>3, <1>4 DEF Shape
<1>6. Exclusion'
  BY <1>1, <1>4 DEF Exclusion
<1>7. RotationsUnderWay'
  BY <1>1, <1>2, <1>3, <1>4, OthersUnderWay DEF RotationsUnderWay
<1>8. BindingsHold'
  <2> SUFFICES ASSUME NEW t \in 1 .. Active', NEW i \in 1 .. Len(segs'[t].rows),
                      segs'[t].rows[i].binds # << >>
               PROVE  t \in 1 .. Active /\ i \in 1 .. Len(segs[t].rows)
    BY <1>3, BindingsKept
  <2>1. CASE t = s
    <3>1. Len(segs[s].rows) \in Nat
      BY <1>2, SegmentTypes
    <3> QED
      BY <2>1, <3>1, <1>2, <1>3
  <2>2. CASE t # s
    BY <2>2, <1>3
  <2> QED
    BY <2>1, <2>2
<1>9. ArchiveHolds'
  BY <1>1, <1>3, ArchiveKept
<1>10. RotationsBind'
  BY <1>1, <1>3, <1>4, BindKept, CountersGrow
<1>11. Room'
  <2>1. \A t : Openers(t)' \subseteq Openers(t) \ {w}
    BY <1>3, <1>4, NobodyEnters
  <2>2. w \in Openers(s)
    BY <1>0, <1>1 DEF Openers
  <2>3. ASSUME NEW t \in 1 .. Active'
        PROVE  \/ /\ t \in 1 .. Active /\ Len(segs'[t].rows) = Len(segs[t].rows)
                  /\ segs'[t].torn = segs[t].torn
                  /\ Openers(t)' \subseteq Openers(t)
               \/ /\ t \in 1 .. Active /\ Len(segs'[t].rows) = Len(segs[t].rows) + 1
                  /\ ~segs[t].torn
                  /\ \E x \in Openers(t) : Openers(t)' \subseteq Openers(t) \ {x}
    <3>1. CASE t = s
      BY <3>1, <2>1, <2>2, <1>1, <1>2, <1>3
    <3>2. CASE t # s
      BY <3>2, <2>1, <1>3
    <3> QED
      BY <3>1, <3>2
  <2> QED
    BY <2>3, <1>3, RoomKept
<1> QED
  BY <1>5, <1>6, <1>7, <1>8, <1>9, <1>10, <1>11

LEMMA DeleteSealedKeeps ==
  ASSUME IInv, NEW s \in 1 .. Active - 1, DeleteSealed(s)
  PROVE  IInv'
<1> USE DEF IInv
<1>1. /\ UNCHANGED <<segs, lock, pc, handle, tail, archive, written>>
      /\ deleted' = deleted \cup {s} /\ \A w \in Writer : pc[w] = "idle"
      /\ Incident("delete") /\ "delete" \in Incidents
  BY DEF DeleteSealed, Incident
<1>2. incidents' \in [Incidents -> Nat] /\ (RotationsComplete' => RotationsComplete)
  BY <1>1, CountersGrow
<1>3. Shape'
  BY <1>1, <1>2 DEF Shape, Active
<1>4. Exclusion' /\ RotationsUnderWay'
  BY <1>1 DEF Exclusion, RotationsUnderWay, UnderWay
<1>5. FilesGrow /\ Active' = Active
  BY <1>1, SameFiles DEF Active
<1>6. BindingsHold' /\ ArchiveHolds'
  BY <1>1, <1>5, BindingsKept, ArchiveKept
<1>7. RotationsBind'
  <2> SUFFICES ASSUME RotationsComplete'
               PROVE  /\ \A t \in 2 .. Active : Bound(t)
                      /\ \A t \in deleted \cup {s} : Bound(t + 1)
    BY <1>1, <1>5 DEF RotationsBind, Bound
  <2>1. \A t \in 2 .. Active : Bound(t)
    BY <1>1, <1>2 DEF RotationsBind
  <2>2. s + 1 \in 2 .. Active
    BY DEF Shape, Active
  <2> QED
    BY <2>1, <2>2, <1>2 DEF RotationsBind
<1>8. Room'
  <2>1. \A t : Openers(t)' = Openers(t)
    BY <1>1, <1>5 DEF Openers, AppendTarget
  <2> QED
    BY <2>1, <1>1, <1>5, RoomKept
<1> QED
  BY <1>3, <1>4, <1>6, <1>7, <1>8

LEMMA NextKeeps == IInv /\ [Next]_vars => IInv'
<1> SUFFICES ASSUME IInv, [Next]_vars PROVE IInv'
  OBVIOUS
<1>1. CASE UNCHANGED vars
  BY <1>1 DEF vars, IInv, Shape, Exclusion, RotationsUnderWay, UnderWay, BindingsHold,
              ArchiveHolds, RotationsBind, Room, Bound, Names, Active, Openers, AppendTarget,
              RotationsComplete, Happened
<1>2. CASE \E w \in Writer : OpenStat(w) \/ Step(w) \/ Crash(w)
  BY <1>2, OpenStatKeeps, AcquireLockKeeps, ResolveNothingToSealKeeps, ResolveTailKeeps,
     CreateSegmentKeeps, WriteBindingKeeps, BindingRaisesKeeps, ArchiveSealedKeeps,
     AppendRowKeeps, AppendRaisesKeeps, CrashKeeps DEF Step
<1>3. CASE \E s \in 1 .. Active - 1 : DeleteSealed(s)
  BY <1>3, DeleteSealedKeeps
<1> QED
  BY <1>1, <1>2, <1>3 DEF Next

LEMMA InitHolds == Init => IInv
<1> SUFFICES ASSUME Init PROVE IInv
  OBVIOUS
<1> USE DEF Init
<1>1. Empty \in SegT /\ Empty.rows = << >> /\ Len(Empty.rows) = 0
  BY DEF Empty, SegT
<1>2. segs \in Seq(SegT) /\ Len(segs) = 1 /\ segs[1] = Empty /\ Active = 1
  BY <1>1 DEF Active
<1>3. NoTail \in Bind
  BY DEF NoTail, Bind
<1>4. Shape
  BY <1>2, <1>3 DEF Shape, Where
<1>5. Exclusion /\ RotationsUnderWay /\ ArchiveHolds
  BY DEF Exclusion, RotationsUnderWay, UnderWay, ArchiveHolds
<1>6. \A s \in 1 .. Active : s = 1
  BY <1>2
<1>7. BindingsHold
  BY <1>1, <1>2, <1>6 DEF BindingsHold
<1>8. RotationsBind
  BY <1>2 DEF RotationsBind
<1>9. Room
  <2>1. \A s : Openers(s) = {}
    BY DEF Openers
  <2>2. Cardinality(Writer) \in Nat /\ OpenRows \in Nat
    BY RotationAssumption, FS_CardinalityType DEF OpenRows
  <2>3. \A s : Cardinality(Openers(s)) = 0
    BY <2>1, FS_EmptySet
  <2>4. Len(segs[1].rows) = 0
    BY <1>1, <1>2
  <2> QED
    BY <2>2, <2>3, <2>4, <1>6 DEF Room
<1> QED
  BY <1>4, <1>5, <1>7, <1>8, <1>9 DEF IInv

LEMMA Invariance == Spec => []IInv
BY InitHolds, NextKeeps, PTL DEF Spec

-----------------------------------------------------------------------------
(* The theorems.                                                           *)

\* Racing writers close a segment once, a segment outgrows its threshold by no
\* more than its writers, and an archived copy holds what its successor binds.
THEOREM ClosedOnce == Spec => []SegmentsCloseOnce
<1>1. IInv => SegmentsCloseOnce
  <2> SUFFICES ASSUME IInv PROVE SegmentsCloseOnce
    OBVIOUS
  <2> USE DEF IInv
  <2>1. DOMAIN segs = 1 .. Active
    BY DEF Shape, Active
  <2>2. ASSUME NEW s \in DOMAIN segs, NEW b \in Bindings(s)
        PROVE  /\ s > 1 /\ Names(b[1], s - 1) /\ Bound(s)
               /\ b = segs[s].rows[1].binds
    <3>1. segs[s].rows \in Seq(RowT)
      BY <2>1, SegmentTypes
    <3>2. PICK i \in 1 .. Len(segs[s].rows) : b = segs[s].rows[i].binds /\ b # << >>
      BY <3>1 DEF Bindings
    <3>3. i = 1 /\ s > 1 /\ Names(b[1], s - 1)
      BY <2>1, <3>2 DEF BindingsHold
    <3>4. segs[s].rows # << >>
      BY <3>1, <3>2
    <3> QED
      BY <3>2, <3>3, <3>4 DEF Bound
  <2>3. OneRotationPerSegment
    BY <2>2 DEF OneRotationPerSegment, Names
  <2>4. SegmentIsBounded
    BY <2>1 DEF SegmentIsBounded, Room
  <2>5. ArchiveHoldsBoundTail
    <3> SUFFICES ASSUME NEW c \in archive, NEW s \in DOMAIN segs, NEW b \in Bindings(s),
                        b[1].segment = c[1]
                 PROVE  b[1].seq < Len(c[2]) /\ c[2][b[1].seq + 1].id = b[1].head_hash
      BY DEF ArchiveHoldsBoundTail
    <3>1. s > 1 /\ Names(b[1], s - 1) /\ Bound(s) /\ b = segs[s].rows[1].binds
      BY <2>2
    <3>2. c[1] + 1 = s
      BY <3>1, <2>1 DEF Names
    <3>3. Bound(c[1] + 1) => LET d == segs[c[1] + 1].rows[1].binds[1]
                             IN  d.seq < Len(c[2]) /\ c[2][d.seq + 1].id = d.head_hash
      BY DEF ArchiveHolds
    <3> QED
      BY <3>1, <3>2, <3>3
  <2> QED
    BY <2>3, <2>4, <2>5 DEF SegmentsCloseOnce
<1> QED
  BY <1>1, Invariance, PTL

\* A set of natural numbers that is not empty has a least element.
LEMMA LeastElement ==
  ASSUME NEW T \in SUBSET Nat, T # {}
  PROVE  \E x \in T : \A y \in T : x <= y
<1> DEFINE R == OpToRel(<, Nat)
<1>1. IsWellFoundedOn(R, Nat)
  BY NatLessThanWellFounded
<1>2. PICK x \in T : \A y \in T : ~(<<y, x>> \in R)
  BY <1>1, WFMin
<1>3. \A y \in T : ~(y < x)
  BY <1>2 DEF OpToRel
<1> QED
  BY <1>3

\* The finding about a segment whose binding names the segment before.
LEMMA BoundFinding ==
  ASSUME IInv, NEW s \in 2 .. Active, Bound(s), ~segs[s].torn
  PROVE  /\ s - 1 \in Present => SegmentReason(s) \notin Broken
         /\ s - 1 \notin Present => SegmentReason(s) = "segment_missing"
<1>1. s \in 1 .. Active /\ segs[s].rows \in Seq(RowT)
  BY SegmentTypes DEF IInv, Shape, Active
<1>2. 1 \in 1 .. Len(segs[s].rows)
  BY <1>1 DEF Bound
<1>3. PICK b : b = segs[s].rows[1].binds[1]
  OBVIOUS
<1>4. Names(b, s - 1)
  BY <1>1, <1>2, <1>3 DEF IInv, BindingsHold, Bound
<1>5. b.segment = s - 1 /\ binding_holds(b)
  BY <1>4 DEF Names, binding_holds
<1>6. SegmentReason(s) =
        IF b.segment \notin Present THEN "segment_missing"
        ELSE IF segs[b.segment].torn THEN "rotation_binding_unchecked"
        ELSE IF ~binding_holds(b) THEN "rotation_binding_mismatch" ELSE "ok"
  BY <1>3 DEF SegmentReason, _binding_finding, Bound
<1> QED
  BY <1>5, <1>6 DEF Broken

\* What verify_segments says of a directory is so: unless a rotation stopped
\* half way, no race, late append or torn line is a break, and a directory
\* without some of its sealed segments is broken.
THEOREM VerdictHolds == Spec => []SegmentVerdictHolds
<1>1. IInv => SegmentVerdictHolds
  <2> SUFFICES ASSUME IInv, RotationsComplete
               PROVE  /\ RotationIsNeverABreak
                      /\ (\E s \in deleted : /\ \E t \in Present : t > s
                                             /\ \A u \in s + 1 .. Active : ~segs[u].torn)
                         => verify_segments = "broken"
    BY DEF SegmentVerdictHolds, RotationIsNoBreak, DeletionIsReported
  <2>0. Active \in Nat /\ Active >= 1
    BY DEF IInv, Shape, Active
  <2>1. RotationIsNeverABreak
    <3> SUFFICES ASSUME deleted = {}, \A w \in Writer : pc[w] # "bind"
                 PROVE  \A s \in Present : SegmentReason(s) \notin Broken
      BY DEF RotationIsNeverABreak, verify_segments
    <3>1. Present = 1 .. Active
      BY DEF Present
    <3> TAKE s \in Present
    <3>2. CASE segs[s].torn
      BY <3>2 DEF SegmentReason, Broken
    <3>3. CASE ~segs[s].torn /\ s \in 2 .. Active
      <4>1. Bound(s) /\ s - 1 \in Present
        BY <3>1, <3>3, <2>0 DEF IInv, RotationsBind
      <4> QED
        BY <4>1, <3>3, BoundFinding
    <3>4. CASE ~segs[s].torn /\ s = 1
      <4>1. ~Bound(1)
        <5> SUFFICES ASSUME Bound(1) PROVE FALSE
          OBVIOUS
        <5>1. 1 \in 1 .. Active
          BY <2>0
        <5>2. segs[1].rows \in Seq(RowT) /\ segs[1].rows # << >>
          BY <5>1, SegmentTypes DEF IInv, Bound
        <5>3. 1 \in 1 .. Len(segs[1].rows)
          BY <5>2
        <5> QED
          BY <5>1, <5>3 DEF IInv, BindingsHold, Bound
      <4>2. \A t \in Present : t >= 1
        BY <3>1
      <4> QED
        BY <3>4, <4>1, <4>2 DEF SegmentReason, _binding_finding, Bound, Broken
    <3> QED
      BY <3>1, <3>2, <3>3, <3>4, <2>0
  <2>2. ASSUME NEW s \in deleted, \E t \in Present : t > s,
               \A u \in s + 1 .. Active : ~segs[u].torn
        PROVE  verify_segments = "broken"
    <3> DEFINE T == {t \in Present : t > s}
    <3>1. T \in SUBSET Nat /\ T # {}
      BY <2>0, <2>2 DEF Present
    <3>2. PICK t \in T : \A y \in T : t <= y
      BY <3>1, LeastElement
    <3>3. s \in 1 .. Active - 1 /\ s \in Nat
      BY <2>0, <2>2 DEF IInv, Shape
    <3>4. t \in Present /\ t \in 2 .. Active /\ t \in s + 1 .. Active
      BY <3>2, <3>3, <2>0 DEF Present
    <3>5. t - 1 \in deleted /\ t - 1 \notin Present
      <4>1. CASE t - 1 = s
        BY <4>1, <2>2 DEF Present
      <4>2. CASE t - 1 # s
        <5>1. t - 1 > s /\ t - 1 \in 1 .. Active /\ ~(t <= t - 1)
          BY <4>2, <3>3, <3>4, <2>0
        <5>2. t - 1 \notin Present
          BY <5>1, <3>2
        <5> QED
          BY <5>1, <5>2 DEF Present
      <4> QED
        BY <4>1, <4>2
    <3>6. Bound(t)
      <4>1. (t - 1) + 1 = t
        BY <3>4
      <4> QED
        BY <3>5, <4>1 DEF IInv, RotationsBind
    <3>7. SegmentReason(t) = "segment_missing"
      BY <3>4, <3>5, <3>6, <2>2, BoundFinding
    <3> QED
      BY <3>4, <3>7 DEF verify_segments, Broken
  <2> QED
    BY <2>1, <2>2
<1> QED
  BY <1>1, Invariance, PTL

-----------------------------------------------------------------------------
(* Naturals.                                                               *)

\* A set of naturals has a least element, and a bounded one a greatest.
LEMMA LeastNat ==
  ASSUME NEW T \in SUBSET Nat, T # {}
  PROVE  \E x \in T : \A y \in T : x <= y
<1> DEFINE R == OpToRel(<, Nat)
<1>1. IsWellFoundedOn(R, Nat)
  BY NatLessThanWellFounded
<1>2. PICK x \in T : \A y \in T : ~(<<y, x>> \in R)
  BY <1>1, WFMin
<1>3. \A y \in T : ~(y < x)
  BY <1>2 DEF OpToRel
<1> QED
  BY <1>3

LEMMA GreatestNat ==
  ASSUME NEW T \in SUBSET Nat, T # {}, NEW n \in Nat, \A t \in T : t <= n
  PROVE  \E x \in T : \A y \in T : y <= x
<1> DEFINE U == {u \in Nat : \E t \in T : t = n - u}
<1>1. \A t \in T : t \in Nat /\ n - t \in Nat /\ t = n - (n - t)
  OBVIOUS
<1>2. U \in SUBSET Nat /\ U # {}
  BY <1>1
<1>3. PICK u \in U : \A v \in U : u <= v
  BY <1>2, LeastNat
<1>4. PICK x \in T : x = n - u
  BY <1>3
<1>5. ASSUME NEW y \in T PROVE y <= x
  <2>1. y \in Nat /\ n - y \in U
    BY <1>1
  <2>2. u <= n - y
    BY <2>1, <1>3
  <2> QED
    BY <2>1, <2>2, <1>3, <1>4
<1> QED
  BY <1>5

\* What Min and Max return.
LEMMA MinIsLeast ==
  ASSUME NEW T \in SUBSET Nat, T # {}
  PROVE  Min(T) \in T /\ \A y \in T : Min(T) <= y
BY LeastNat DEF Min

LEMMA MaxIsGreatest ==
  ASSUME NEW T \in SUBSET Nat, T # {}, NEW n \in Nat, \A t \in T : t <= n
  PROVE  Max(T) \in T /\ \A y \in T : y <= Max(T)
<1>1. \E x \in T : \A y \in T : x >= y
  <2>1. PICK x \in T : \A y \in T : y <= x
    BY GreatestNat
  <2> QED
    BY <2>1
<1>2. Max(T) \in T /\ \A y \in T : Max(T) >= y
  BY <1>1 DEF Max
<1> QED
  BY <1>2

-----------------------------------------------------------------------------
(* The inductive invariant of SegmentArchive.                              *)

Retentions == [mode : {"COMPLIANCE", "GOVERNANCE"}, until : Nat]
Copies == [by : Archiver, key : {"k"} \cup Archiver,
           mode : {"none", "COMPLIANCE", "GOVERNANCE"}, until : Nat]
Directories == [by : Archiver, meta : {"none", "empty", "whole"}, ordinal : Int]
Reports == [state : {"none", "not_attempted", "failed", "stored"},
            worm : {"none", "unknown", "unlocked", "irreversible", "bypassable"}, until : Nat]
Attempts == [pc : {"sealed", "put", "post", "creating", "ask", "done"},
             key : {"k"} \cup Archiver, retain : SUBSET Retentions,
             version : Nat, answered : Nat, said : Reports]

ArchiveShape ==
    /\ clock \in Nat
    /\ versions \in Seq(Copies) /\ imports \in Seq(Directories)
    /\ arch \in [Archiver -> Attempts]

CopiesOf(a) == {i \in DOMAIN versions : versions[i].by = a}
DirectoriesOf(a) == {i \in DOMAIN imports : imports[i].by = a}
WholeOf(a) == {i \in DOMAIN imports : imports[i].by = a /\ imports[i].meta = "whole"}

\* What an attempt has left at the destinations when it stands where it does.
PlaceHolds(a, j) ==
    /\ j.pc \in {"sealed", "put", "post"} => CopiesOf(a) = {} /\ DirectoriesOf(a) = {}
    /\ j.pc = "creating" => /\ CopiesOf(a) = {} /\ Len(imports) # 0
                            /\ DirectoriesOf(a) = {Len(imports)}
                            /\ imports[Len(imports)].meta # "whole"
    /\ j.pc = "ask" => j.version \in CopiesOf(a)
    /\ j.pc # "done" => j.said = NoReport

\* What it says about the copy.
WordHolds(a, j) ==
    /\ j.said.state = "stored" => CopiesOf(a) \cup WholeOf(a) # {}
    /\ j.said.state = "not_attempted" => CopiesOf(a) \cup WholeOf(a) = {}

\* What it says about the lock is what the version that answered has.
LockHolds(j) ==
    /\ j.said.worm \in {"irreversible", "bypassable"} =>
         j.answered \in DOMAIN versions /\ versions[j.answered].mode # "none"
    /\ j.said.worm = "irreversible" =>
         /\ versions[j.answered].mode = "COMPLIANCE"
         /\ versions[j.answered].until = j.said.until
         /\ j.answered \in gone => j.said.until <= clock

AttemptHolds(a, j) == PlaceHolds(a, j) /\ WordHolds(a, j) /\ LockHolds(j)

OneCreates == \A a, b \in Archiver : arch[a].pc = "creating" /\ arch[b].pc = "creating" => a = b

OrdinalsHold ==
    /\ \A i \in DOMAIN imports : imports[i].meta # "none" => imports[i].ordinal < next_ordinal
    /\ \A i, j \in DOMAIN imports :
         i < j /\ imports[i].meta # "none" /\ imports[j].meta # "none" =>
            imports[i].ordinal < imports[j].ordinal

ListedHolds == \A l \in listed : \A i, j \in DOMAIN l : i < j => l[i].ordinal > l[j].ordinal

BucketHolds ==
    /\ bucketSaid = "unlocked" => olock = "off"
    /\ olock = "off" => \A i \in DOMAIN versions : versions[i].mode = "none"

ArchiveInv == /\ ArchiveShape /\ OneCreates /\ OrdinalsHold /\ ListedHolds /\ BucketHolds
              /\ \A a \in Archiver : AttemptHolds(a, arch[a])

LEMMA ArchiveInitHolds == ArchiveInit => ArchiveInv
<1> SUFFICES ASSUME ArchiveInit PROVE ArchiveInv
  OBVIOUS
<1>1. NoReport \in Reports /\ NoReport.state = "none" /\ NoReport.worm = "none"
  BY DEF NoReport, Report, Reports
<1>2. Attempt \in Attempts /\ Attempt.pc = "sealed" /\ Attempt.said = NoReport
  BY <1>1 DEF Attempt, Attempts
<1>3. ArchiveShape
  BY <1>2 DEF ArchiveInit, ArchiveShape
<1>4. \A a \in Archiver : arch[a] = Attempt
  BY DEF ArchiveInit
<1>5. DOMAIN versions = {} /\ DOMAIN imports = {} /\ listed = {} /\ bucketSaid = "none"
  BY DEF ArchiveInit
<1>6. ASSUME NEW a \in Archiver PROVE AttemptHolds(a, arch[a])
  BY <1>1, <1>2, <1>4, <1>5
     DEF AttemptHolds, PlaceHolds, WordHolds, LockHolds, CopiesOf, DirectoriesOf, WholeOf
<1>7. OneCreates /\ OrdinalsHold /\ ListedHolds /\ BucketHolds
  BY <1>2, <1>4, <1>5 DEF OneCreates, OrdinalsHold, ListedHolds, BucketHolds
<1> QED
  BY <1>3, <1>6, <1>7 DEF ArchiveInv

\* A step of one attempt that changes nothing at the destinations.
LEMMA AttemptStepKeeps ==
  ASSUME ArchiveInv, NEW a \in Archiver, NEW j \in Attempts, arch' = [arch EXCEPT ![a] = j],
         UNCHANGED <<clock, olock, versions, gone, imports, bucketSaid, listed>>,
         j.pc # "creating", AttemptHolds(a, j)
  PROVE  ArchiveInv'
<1>1. arch'[a] = j /\ (\A b \in Archiver \ {a} : arch'[b] = arch[b]) /\ ArchiveShape'
  BY DEF ArchiveInv, ArchiveShape
<1>2. OneCreates'
  BY <1>1 DEF ArchiveInv, OneCreates
<1>3. OrdinalsHold' /\ ListedHolds' /\ BucketHolds'
  BY DEF ArchiveInv, OrdinalsHold, ListedHolds, BucketHolds, next_ordinal
<1>4. ASSUME NEW b \in Archiver PROVE AttemptHolds(b, arch[b])'
  <2>1. AttemptHolds(b, arch'[b])
    BY <1>1 DEF ArchiveInv
  <2> QED
    BY <2>1 DEF AttemptHolds, PlaceHolds, WordHolds, LockHolds, CopiesOf, DirectoriesOf, WholeOf
<1> QED
  BY <1>1, <1>2, <1>3, <1>4 DEF ArchiveInv

\* An attempt that ends without a copy reported stored.
LEMMA EndsUnstored ==
  ASSUME ArchiveInv, NEW a \in Archiver,
         NEW state \in {"none", "not_attempted", "failed"}, NEW worm \in {"none", "unknown"},
         Say(a, state, worm, 0),
         UNCHANGED <<clock, olock, versions, gone, imports, bucketSaid, listed>>,
         state = "not_attempted" => arch[a].pc \in {"sealed", "put"}
  PROVE  ArchiveInv'
<1>1. PICK j : j = [arch[a] EXCEPT !.pc = "done", !.said = Report(state, worm, 0)]
  OBVIOUS
<1>2. arch' = [arch EXCEPT ![a] = j] /\ arch[a] \in Attempts
  BY <1>1 DEF Say, ArchiveInv, ArchiveShape
<1>3. Report(state, worm, 0) \in Reports /\ Report(state, worm, 0).state = state
      /\ Report(state, worm, 0).worm = worm
  BY DEF Report, Reports
<1>4. j \in Attempts /\ j.pc = "done" /\ j.said = Report(state, worm, 0)
  BY <1>1, <1>2, <1>3 DEF Attempts
<1>5. state = "not_attempted" => CopiesOf(a) \cup WholeOf(a) = {}
  BY DEF ArchiveInv, AttemptHolds, PlaceHolds, DirectoriesOf, WholeOf
<1>6. AttemptHolds(a, j)
  BY <1>3, <1>4, <1>5 DEF AttemptHolds, PlaceHolds, WordHolds, LockHolds
<1> QED
  BY <1>2, <1>4, <1>6, AttemptStepKeeps

LEMMA ChooseKeeps ==
  ASSUME ArchiveInv, NEW a \in Archiver, NEW setting \in Settings \cup {"s3"},
         NEW retain \in SUBSET Retentions, NEW key \in {"k"} \cup Archiver,
         Choose(a, setting, retain, key)
  PROVE  ArchiveInv'
<1>1. arch[a].pc = "sealed" /\ UNCHANGED <<clock, olock, versions, gone, imports, bucketSaid, listed>>
  BY DEF Choose, store, rest
<1>2. arch[a] \in Attempts /\ AttemptHolds(a, arch[a])
  BY DEF ArchiveInv, ArchiveShape
<1>3. CASE setting = ""
  BY <1>1, <1>3, EndsUnstored DEF Choose
<1>4. CASE setting \in {"other_scheme", "s3_no_bucket"}
  BY <1>1, <1>4, EndsUnstored DEF Choose
<1>5. CASE setting = "s3"
  <2>1. PICK j : j = [arch[a] EXCEPT !.pc = "put", !.retain = retain, !.key = key]
    OBVIOUS
  <2>2. arch' = [arch EXCEPT ![a] = j]
    BY <1>5, <2>1 DEF Choose
  <2>3. j \in Attempts /\ j.pc = "put" /\ j.said = arch[a].said
    BY <1>2, <2>1 DEF Attempts
  <2>4. AttemptHolds(a, j)
    BY <1>1, <1>2, <2>3 DEF AttemptHolds, PlaceHolds, WordHolds, LockHolds, NoReport, Report
  <2> QED
    BY <1>1, <2>2, <2>3, <2>4, AttemptStepKeeps
<1>6. CASE setting = "http"
  <2>1. PICK j : j = [arch[a] EXCEPT !.pc = "post"]
    OBVIOUS
  <2>2. arch' = [arch EXCEPT ![a] = j]
    BY <1>6, <2>1 DEF Choose
  <2>3. j \in Attempts /\ j.pc = "post" /\ j.said = arch[a].said
    BY <1>2, <2>1 DEF Attempts
  <2>4. AttemptHolds(a, j)
    BY <1>1, <1>2, <2>3 DEF AttemptHolds, PlaceHolds, WordHolds, LockHolds, NoReport, Report
  <2> QED
    BY <1>1, <2>2, <2>3, <2>4, AttemptStepKeeps
<1> QED
  BY <1>3, <1>4, <1>5, <1>6, ArchiveAssumption

\* The retention a new version gets.
LEMMA RetentionTypes ==
  ASSUME ArchiveInv, NEW retain \in SUBSET Retentions, retain # {} => olock # "off"
  PROVE  /\ Retention(retain).mode \in {"none", "COMPLIANCE", "GOVERNANCE"}
         /\ Retention(retain).until \in Nat
         /\ olock = "off" => Retention(retain).mode = "none"
<1>1. CASE retain # {}
  <2>1. (CHOOSE r \in retain : TRUE) \in retain
    BY <1>1
  <2> QED
    BY <1>1, <2>1 DEF Retention, Retentions
<1>2. CASE retain = {}
  BY <1>2 DEF Retention, ArchiveInv, ArchiveShape
<1> QED
  BY <1>1, <1>2

LEMMA PutKeeps ==
  ASSUME ArchiveInv, NEW a \in Archiver, Put_(a)
  PROVE  ArchiveInv'
<1> DEFINE v == Version(a, Retention(arch[a].retain))
           n == Len(versions)
<1>1. arch[a].pc = "put" /\ UNCHANGED <<clock, olock, gone, imports, bucketSaid, listed>>
  BY DEF Put_, rest
<1>2. arch[a] \in Attempts /\ AttemptHolds(a, arch[a]) /\ versions \in Seq(Copies)
  BY DEF ArchiveInv, ArchiveShape
<1>3. CASE Say(a, "failed", "none", 0) /\ UNCHANGED versions
  BY <1>1, <1>3, EndsUnstored
<1>4. CASE /\ arch[a].retain # {} => olock # "off"
           /\ versions' = Append(versions, v)
           /\ \/ Say(a, "failed", "none", 0)
              \/ arch' = [arch EXCEPT ![a].pc = "ask", ![a].version = Len(versions')]
  <2>1. v \in Copies /\ v.by = a /\ (olock = "off" => v.mode = "none")
    <3>1. arch[a].retain \in SUBSET Retentions /\ arch[a].key \in {"k"} \cup Archiver
      BY <1>2 DEF Attempts
    <3>2. PICK t : t = Retention(arch[a].retain)
      OBVIOUS
    <3>3. t.mode \in {"none", "COMPLIANCE", "GOVERNANCE"} /\ t.until \in Nat
          /\ (olock = "off" => t.mode = "none")
      BY <1>4, <3>1, <3>2, RetentionTypes
    <3>4. v = [by |-> a, key |-> arch[a].key, mode |-> t.mode, until |-> t.until]
      BY <3>2 DEF Version
    <3> QED
      BY <3>1, <3>3, <3>4 DEF Copies
  <2> HIDE DEF v
  <2>2. /\ versions' \in Seq(Copies) /\ Len(versions') = n + 1 /\ n \in Nat
        /\ DOMAIN versions = 1 .. n /\ DOMAIN versions' = DOMAIN versions \cup {n + 1}
        /\ \A i \in DOMAIN versions : versions'[i] = versions[i]
        /\ versions'[n + 1] = v
    <3>1. versions' = Append(versions, v)
      BY <1>4
    <3> QED
      BY <1>2, <2>1, <3>1
  <2> HIDE DEF n
  <2>3. \E j \in Attempts : /\ arch' = [arch EXCEPT ![a] = j]
                            /\ \/ j.pc = "ask" /\ j.version = n + 1 /\ j.said = arch[a].said
                               \/ j.pc = "done" /\ j.said.state = "failed" /\ j.said.worm = "none"
    <3>1. CASE Say(a, "failed", "none", 0)
      <4>1. PICK j : j = [arch[a] EXCEPT !.pc = "done", !.said = Report("failed", "none", 0)]
        OBVIOUS
      <4>2. Report("failed", "none", 0) \in Reports /\ Report("failed", "none", 0).state = "failed"
            /\ Report("failed", "none", 0).worm = "none"
        BY DEF Report, Reports
      <4>3. j \in Attempts /\ j.pc = "done" /\ j.said = Report("failed", "none", 0)
        BY <1>2, <4>1, <4>2 DEF Attempts
      <4> QED
        BY <3>1, <4>1, <4>2, <4>3 DEF Say
    <3>2. CASE arch' = [arch EXCEPT ![a].pc = "ask", ![a].version = Len(versions')]
      <4>1. PICK j : j = [arch[a] EXCEPT !.pc = "ask", !.version = n + 1]
        OBVIOUS
      <4>2. arch' = [arch EXCEPT ![a] = j]
        BY <3>2, <4>1, <2>2 DEF ArchiveInv, ArchiveShape
      <4>3. n + 1 \in Nat
        BY <2>2
      <4>4. j \in Attempts /\ j.pc = "ask" /\ j.version = n + 1 /\ j.said = arch[a].said
        BY <1>2, <4>1, <4>3 DEF Attempts
      <4> QED
        BY <4>2, <4>4
    <3> QED
      BY <1>4, <3>1, <3>2
  <2>4. PICK j \in Attempts : /\ arch' = [arch EXCEPT ![a] = j]
                              /\ \/ j.pc = "ask" /\ j.version = n + 1 /\ j.said = arch[a].said
                                 \/ j.pc = "done" /\ j.said.state = "failed" /\ j.said.worm = "none"
    BY <2>3
  <2>5. arch'[a] = j /\ (\A b \in Archiver \ {a} : arch'[b] = arch[b]) /\ ArchiveShape'
    BY <1>1, <2>2, <2>4 DEF ArchiveInv, ArchiveShape
  <2>6. OneCreates'
    BY <2>4, <2>5 DEF ArchiveInv, OneCreates
  <2>7. OrdinalsHold' /\ ListedHolds'
    BY <1>1 DEF ArchiveInv, OrdinalsHold, ListedHolds, next_ordinal
  <2>8. BucketHolds'
    BY <1>1, <2>1, <2>2 DEF ArchiveInv, BucketHolds
  <2>9. ASSUME NEW b \in Archiver \ {a} PROVE AttemptHolds(b, arch[b])'
    <3>1. CopiesOf(b)' = CopiesOf(b) /\ DirectoriesOf(b)' = DirectoriesOf(b) /\ WholeOf(b)' = WholeOf(b)
      BY <1>1, <2>1, <2>2 DEF CopiesOf, DirectoriesOf, WholeOf
    <3>2. AttemptHolds(b, arch[b]) /\ arch'[b] = arch[b]
      BY <2>5 DEF ArchiveInv
    <3>3. PlaceHolds(b, arch[b])' /\ WordHolds(b, arch[b])'
      BY <1>1, <3>1, <3>2 DEF AttemptHolds, PlaceHolds, WordHolds
    <3>4. LockHolds(arch[b])'
      BY <1>1, <3>2, <2>2 DEF AttemptHolds, LockHolds
    <3> QED
      BY <3>3, <3>4 DEF AttemptHolds
  <2>10. AttemptHolds(a, arch[a])'
    <3>1. n + 1 \in CopiesOf(a)'
      BY <2>1, <2>2 DEF CopiesOf
    <3>2. arch[a].said = NoReport /\ NoReport.state = "none" /\ NoReport.worm = "none"
      BY <1>1, <1>2 DEF AttemptHolds, PlaceHolds, NoReport, Report
    <3>3. PlaceHolds(a, arch[a])' /\ WordHolds(a, arch[a])' /\ LockHolds(arch[a])'
      BY <2>4, <2>5, <3>1, <3>2 DEF PlaceHolds, WordHolds, LockHolds, NoReport, Report
    <3> QED
      BY <3>3 DEF AttemptHolds
  <2> QED
    BY <2>5, <2>6, <2>7, <2>8, <2>9, <2>10 DEF ArchiveInv
<1> QED
  BY <1>3, <1>4 DEF Put_

LEMMA AskRetentionKeeps ==
  ASSUME ArchiveInv, NEW a \in Archiver, AskRetention(a)
  PROVE  ArchiveInv'
<1>1. arch[a].pc = "ask" /\ UNCHANGED <<clock, olock, versions, gone, imports, bucketSaid, listed>>
  BY DEF AskRetention, store, rest
<1>2. arch[a] \in Attempts /\ AttemptHolds(a, arch[a]) /\ versions \in Seq(Copies) /\ clock \in Nat
  BY DEF ArchiveInv, ArchiveShape
<1>3. PICK i \in {0, Newest(arch[a].key)} :
        LET reply == IF i = 0 THEN [mode |-> "error", until |-> 0] ELSE versions[i]
        IN  arch' = [arch EXCEPT ![a] = [@ EXCEPT !.pc = "done", !.answered = i,
                       !.said = Report("stored", object_worm_state(reply), reply.until)]]
  BY DEF AskRetention
<1>4. i \in Nat /\ (i # 0 => i \in DOMAIN versions \ gone)
  <2> DEFINE T == {0} \cup {k \in DOMAIN versions \ gone : versions[k].key = arch[a].key}
  <2>1. DOMAIN versions = 1 .. Len(versions) /\ Len(versions) \in Nat
    BY <1>2
  <2>2. T \in SUBSET Nat /\ T # {} /\ \A t \in T : t <= Len(versions)
    BY <2>1
  <2>3. Max(T) \in T
    <3> HIDE DEF T
    <3> QED
      BY <2>1, <2>2, MaxIsGreatest
  <2> QED
    BY <1>3, <2>2, <2>3 DEF Newest
<1>5. PICK reply : reply = IF i = 0 THEN [mode |-> "error", until |-> 0] ELSE versions[i]
  OBVIOUS
<1>6. PICK worm : worm = object_worm_state(reply)
  OBVIOUS
<1>7. /\ reply.until \in Nat
      /\ i # 0 => reply = versions[i] /\ versions[i] \in Copies
      /\ i = 0 => reply.mode = "error"
  <2>1. CASE i = 0
    BY <1>5, <2>1
  <2>2. CASE i # 0
    <3>1. reply = versions[i] /\ versions[i] \in Copies
      BY <1>2, <1>4, <1>5, <2>2
    <3> QED
      BY <2>2, <3>1 DEF Copies
  <2> QED
    BY <2>1, <2>2
<1>8. /\ worm \in {"unknown", "unlocked", "irreversible", "bypassable"}
      /\ worm \in {"irreversible", "bypassable"} => i # 0 /\ reply.mode # "none"
      /\ worm = "irreversible" => reply.mode = "COMPLIANCE" /\ i # 0
  BY <1>6, <1>7 DEF object_worm_state, mode_strength
<1>9. PICK said : said = Report("stored", worm, reply.until)
  OBVIOUS
<1>10. said \in Reports /\ said.state = "stored" /\ said.worm = worm /\ said.until = reply.until
  BY <1>7, <1>8, <1>9 DEF Report, Reports
<1>11. PICK j : j = [arch[a] EXCEPT !.pc = "done", !.answered = i, !.said = said]
  OBVIOUS
<1>12. arch' = [arch EXCEPT ![a] = j]
  BY <1>3, <1>5, <1>6, <1>9, <1>11
<1>13. j \in Attempts /\ j.pc = "done" /\ j.answered = i /\ j.said = said
  BY <1>2, <1>4, <1>10, <1>11 DEF Attempts
<1>14. CopiesOf(a) # {}
  BY <1>1, <1>2 DEF AttemptHolds, PlaceHolds
<1>15. PlaceHolds(a, j) /\ WordHolds(a, j)
  BY <1>10, <1>13, <1>14 DEF PlaceHolds, WordHolds
<1>16. LockHolds(j)
  BY <1>4, <1>7, <1>8, <1>10, <1>13 DEF LockHolds
<1> QED
  BY <1>1, <1>12, <1>13, <1>15, <1>16, AttemptStepKeeps DEF AttemptHolds

\* The store's own steps: nothing any attempt says is about them, except that a
\* version goes and that time passes.
LEMMA StoreStepKeeps ==
  ASSUME ArchiveInv, UNCHANGED <<olock, versions, imports, arch>>,
         clock' \in Nat, clock <= clock', ListedHolds', BucketHolds',
         \A i \in gone' : \/ i \in gone
                          \/ i \in DOMAIN versions /\ (versions[i].mode # "COMPLIANCE" \/ versions[i].until <= clock')
  PROVE  ArchiveInv'
<1>1. ArchiveShape' /\ OneCreates' /\ OrdinalsHold'
  BY DEF ArchiveInv, ArchiveShape, OneCreates, OrdinalsHold, next_ordinal
<1>2. ASSUME NEW a \in Archiver PROVE AttemptHolds(a, arch[a])'
  <2>1. AttemptHolds(a, arch[a]) /\ arch[a] \in Attempts /\ clock \in Nat
    BY DEF ArchiveInv, ArchiveShape
  <2>2. PlaceHolds(a, arch[a])' /\ WordHolds(a, arch[a])'
    BY <2>1 DEF AttemptHolds, PlaceHolds, WordHolds, CopiesOf, DirectoriesOf, WholeOf
  <2>3. LockHolds(arch[a])'
    <3>1. arch[a].said.until \in Nat
      BY <2>1 DEF Attempts, Reports
    <3> QED
      BY <2>1, <3>1 DEF AttemptHolds, LockHolds
  <2> QED
    BY <2>2, <2>3 DEF AttemptHolds
<1> QED
  BY <1>1, <1>2 DEF ArchiveInv

LEMMA AskBucketKeeps ==
  ASSUME ArchiveInv, AskBucket
  PROVE  ArchiveInv'
<1>1. PICK reply \in {olock, "error"} : bucketSaid' = bucket_worm_state(reply)
  BY DEF AskBucket
<1>2. bucketSaid' = "unlocked" => olock = "off"
  <2>1. CASE reply = "error"
    BY <1>1, <2>1 DEF bucket_worm_state
  <2>2. CASE reply = "off"
    BY <1>1, <2>2
  <2>3. CASE reply = "on"
    BY <1>1, <2>3 DEF bucket_worm_state
  <2>4. CASE reply \notin {"error", "off", "on"}
    <3>1. bucket_worm_state(reply) = mode_strength(reply)
      BY <2>4 DEF bucket_worm_state
    <3> QED
      BY <1>1, <3>1 DEF mode_strength
  <2> QED
    BY <2>1, <2>2, <2>3, <2>4
<1>3. UNCHANGED <<clock, olock, versions, gone, imports, arch, listed>>
  BY DEF AskBucket, store
<1>4. clock' \in Nat /\ clock <= clock' /\ ListedHolds' /\ BucketHolds'
  BY <1>2, <1>3 DEF ArchiveInv, ArchiveShape, ListedHolds, BucketHolds
<1> QED
  BY <1>3, <1>4, StoreStepKeeps

LEMMA RemoveVersionKeeps ==
  ASSUME ArchiveInv, NEW i \in DOMAIN versions, RemoveVersion(i)
  PROVE  ArchiveInv'
<1>1. /\ UNCHANGED <<clock, olock, versions, imports, arch, bucketSaid, listed>>
      /\ gone' = gone \cup {i} /\ (versions[i].mode # "COMPLIANCE" \/ versions[i].until <= clock)
  BY DEF RemoveVersion, rest
<1>2. clock' \in Nat /\ clock <= clock' /\ ListedHolds' /\ BucketHolds'
  BY <1>1 DEF ArchiveInv, ArchiveShape, ListedHolds, BucketHolds
<1> QED
  BY <1>1, <1>2, StoreStepKeeps

LEMMA PassKeeps ==
  ASSUME ArchiveInv, Pass
  PROVE  ArchiveInv'
<1>1. UNCHANGED <<olock, versions, gone, imports, arch, bucketSaid, listed>> /\ clock' = clock + 1
  BY DEF Pass, store
<1>2. clock' \in Nat /\ clock <= clock' /\ ListedHolds' /\ BucketHolds'
  BY <1>1 DEF ArchiveInv, ArchiveShape, ListedHolds, BucketHolds
<1> QED
  BY <1>1, <1>2, StoreStepKeeps

LEMMA ListKeeps ==
  ASSUME ArchiveInv, List
  PROVE  ArchiveInv'
<1> DEFINE whole == {i \in DOMAIN imports : imports[i].meta = "whole"}
           n == Cardinality(whole)
<1>1. UNCHANGED <<clock, olock, versions, gone, imports, arch, bucketSaid>>
  BY DEF List, store
<1>2. PICK l \in records : listed' = {l}
  BY DEF List
<1>3. PICK o \in [1 .. n -> whole] :
         /\ l = [k \in 1 .. n |-> imports[o[k]]]
         /\ \A i, j \in DOMAIN o : i < j => o[i] # o[j] /\ imports[o[i]].ordinal >= imports[o[j]].ordinal
  BY DEF records
<1>4. ASSUME NEW i \in 1 .. n, NEW j \in 1 .. n, i < j PROVE l[i].ordinal > l[j].ordinal
  <2>1. o[i] \in whole /\ o[j] \in whole /\ o[i] # o[j] /\ imports[o[i]].ordinal >= imports[o[j]].ordinal
    BY <1>3, <1>4
  <2>2. imports \in Seq(Directories) /\ OrdinalsHold
    BY DEF ArchiveInv, ArchiveShape
  <2>3. /\ o[i] \in Nat /\ o[j] \in Nat /\ imports[o[i]].ordinal \in Int /\ imports[o[j]].ordinal \in Int
        /\ imports[o[i]].meta # "none" /\ imports[o[j]].meta # "none"
    <3>1. \A k \in DOMAIN imports : k \in Nat /\ imports[k] \in Directories
      BY <2>2
    <3> QED
      BY <2>1, <3>1 DEF Directories
  <2>4. imports[o[i]].ordinal # imports[o[j]].ordinal
    <3>1. CASE o[i] < o[j]
      <4>1. imports[o[i]].ordinal < imports[o[j]].ordinal
        BY <3>1, <2>1, <2>2, <2>3 DEF OrdinalsHold
      <4> QED
        BY <4>1, <2>3
    <3>2. CASE o[j] < o[i]
      <4>1. imports[o[j]].ordinal < imports[o[i]].ordinal
        BY <3>2, <2>1, <2>2, <2>3 DEF OrdinalsHold
      <4> QED
        BY <4>1, <2>3
    <3> QED
      BY <3>1, <3>2, <2>1, <2>3
  <2>5. l[i] = imports[o[i]] /\ l[j] = imports[o[j]]
    BY <1>3, <1>4
  <2> QED
    BY <2>1, <2>3, <2>4, <2>5
<1>5. DOMAIN l = 1 .. n
  BY <1>3
<1>6. ListedHolds'
  BY <1>2, <1>4, <1>5 DEF ListedHolds
<1>7. clock' \in Nat /\ clock <= clock' /\ BucketHolds'
  BY <1>1 DEF ArchiveInv, ArchiveShape, BucketHolds
<1> QED
  BY <1>1, <1>6, <1>7, StoreStepKeeps

-----------------------------------------------------------------------------
(* The server's imports.                                                   *)

\* A step of one attempt at the imports; the others' directories stay.
LEMMA ImportStepKeeps ==
  ASSUME ArchiveInv, NEW a \in Archiver, NEW j \in Attempts, arch' = [arch EXCEPT ![a] = j],
         UNCHANGED <<clock, olock, versions, gone, bucketSaid, listed>>,
         imports' \in Seq(Directories), OrdinalsHold',
         \A b \in Archiver \ {a} : /\ arch[b].pc # "creating"
                                   /\ DirectoriesOf(b)' = DirectoriesOf(b) /\ WholeOf(b)' = WholeOf(b),
         AttemptHolds(a, j)'
  PROVE  ArchiveInv'
<1>1. arch'[a] = j /\ (\A b \in Archiver \ {a} : arch'[b] = arch[b]) /\ ArchiveShape'
  BY DEF ArchiveInv, ArchiveShape
<1>2. OneCreates' /\ ListedHolds' /\ BucketHolds'
  BY <1>1 DEF ArchiveInv, OneCreates, ListedHolds, BucketHolds
<1>3. ASSUME NEW b \in Archiver PROVE AttemptHolds(b, arch[b])'
  <2>1. CASE b = a
    BY <2>1, <1>1
  <2>2. CASE b # a
    <3>1. AttemptHolds(b, arch[b]) /\ arch'[b] = arch[b] /\ CopiesOf(b)' = CopiesOf(b)
      BY <2>2, <1>1 DEF ArchiveInv, CopiesOf
    <3>2. PlaceHolds(b, arch[b])' /\ WordHolds(b, arch[b])' /\ LockHolds(arch[b])'
      BY <2>2, <3>1 DEF AttemptHolds, PlaceHolds, WordHolds, LockHolds
    <3> QED
      BY <3>2 DEF AttemptHolds
  <2> QED
    BY <2>1, <2>2
<1> QED
  BY <1>1, <1>2, <1>3 DEF ArchiveInv

Ordered == {i \in DOMAIN imports : imports[i].meta # "none"}

LEMMA OrderedIsFinite ==
  ASSUME ArchiveShape
  PROVE  IsFiniteSet(Ordered) /\ next_ordinal = Cardinality(Ordered) /\ next_ordinal \in Nat
<1>1. IsFiniteSet(DOMAIN imports)
  <2>1. imports \in Seq(Directories)
    BY DEF ArchiveShape
  <2>2. DOMAIN imports = 1 .. Len(imports) /\ Len(imports) \in Nat
    BY <2>1
  <2> QED
    BY <2>2, FS_Interval
<1> QED
  BY <1>1, FS_Subset, FS_CardinalityType DEF Ordered, next_ordinal

LEMMA CreateDirectoryKeeps ==
  ASSUME ArchiveInv, NEW a \in Archiver, CreateDirectory(a)
  PROVE  ArchiveInv'
<1> DEFINE n == Len(imports)
<1>1. /\ arch[a].pc = "post" /\ ~Creating /\ UNCHANGED <<clock, olock, versions, gone, bucketSaid, listed>>
      /\ imports' = Append(imports, [by |-> a, meta |-> "none", ordinal |-> -1])
      /\ arch' = [arch EXCEPT ![a].pc = "creating"]
  BY DEF CreateDirectory, rest
<1>2. PICK d : d = [by |-> a, meta |-> "none", ordinal |-> -1]
  OBVIOUS
<1>3. d \in Directories /\ d.by = a /\ d.meta = "none"
  BY <1>2 DEF Directories
<1>4. imports \in Seq(Directories) /\ imports' = Append(imports, d)
  BY <1>1, <1>2 DEF ArchiveInv, ArchiveShape
<1>5. /\ imports' \in Seq(Directories) /\ Len(imports') = n + 1 /\ n \in Nat
      /\ DOMAIN imports = 1 .. n /\ DOMAIN imports' = DOMAIN imports \cup {n + 1}
      /\ \A i \in DOMAIN imports : imports'[i] = imports[i]
      /\ imports'[n + 1] = d /\ n + 1 # 0
  BY <1>3, <1>4
<1> HIDE DEF n
<1>6. PICK j : j = [arch[a] EXCEPT !.pc = "creating"]
  OBVIOUS
<1>7. arch[a] \in Attempts /\ AttemptHolds(a, arch[a]) /\ OrdinalsHold
  BY DEF ArchiveInv, ArchiveShape
<1>8. j \in Attempts /\ j.pc = "creating" /\ j.said = arch[a].said /\ arch' = [arch EXCEPT ![a] = j]
  BY <1>1, <1>6, <1>7 DEF Attempts
<1>9. OrdinalsHold'
  <2>1. next_ordinal' = next_ordinal
    <3>1. Ordered' = Ordered
      BY <1>3, <1>5 DEF Ordered
    <3> QED
      BY <3>1 DEF next_ordinal, Ordered
  <2> QED
    BY <1>3, <1>5, <1>7, <2>1 DEF OrdinalsHold
<1>10. \A b \in Archiver \ {a} : /\ arch[b].pc # "creating"
                                 /\ DirectoriesOf(b)' = DirectoriesOf(b) /\ WholeOf(b)' = WholeOf(b)
  BY <1>1, <1>3, <1>5 DEF Creating, DirectoriesOf, WholeOf
<1>11. AttemptHolds(a, j)'
  <2>1. CopiesOf(a) = {} /\ DirectoriesOf(a) = {} /\ arch[a].said = NoReport
    BY <1>1, <1>7 DEF AttemptHolds, PlaceHolds
  <2>2. CopiesOf(a)' = {} /\ DirectoriesOf(a)' = {n + 1}
    BY <2>1, <1>1, <1>3, <1>5 DEF CopiesOf, DirectoriesOf
  <2>3. PlaceHolds(a, j)'
    BY <2>1, <2>2, <1>3, <1>5, <1>8 DEF PlaceHolds
  <2>4. WordHolds(a, j)' /\ LockHolds(j)'
    BY <2>1, <1>8 DEF WordHolds, LockHolds, NoReport, Report
  <2> QED
    BY <2>3, <2>4 DEF AttemptHolds
<1> QED
  BY <1>1, <1>5, <1>8, <1>9, <1>10, <1>11, ImportStepKeeps

LEMMA WriteMetaKeeps ==
  ASSUME ArchiveInv, NEW a \in Archiver, WriteMeta(a)
  PROVE  ArchiveInv'
<1> DEFINE n == Len(imports)
<1>1. arch[a].pc = "creating" /\ UNCHANGED <<clock, olock, versions, gone, bucketSaid, listed>>
  BY DEF WriteMeta, rest
<1>2. /\ arch[a] \in Attempts /\ AttemptHolds(a, arch[a]) /\ OrdinalsHold
      /\ imports \in Seq(Directories)
  BY DEF ArchiveInv, ArchiveShape
<1>3. /\ CopiesOf(a) = {} /\ n # 0 /\ DirectoriesOf(a) = {n} /\ imports[n].meta # "whole"
      /\ arch[a].said = NoReport
  BY <1>1, <1>2 DEF AttemptHolds, PlaceHolds
<1>4. n \in Nat /\ n \in DOMAIN imports /\ DOMAIN imports = 1 .. n /\ imports[n] \in Directories
      /\ imports[n].by = a
  BY <1>2, <1>3 DEF DirectoriesOf
<1> HIDE DEF n
<1>5. ASSUME NEW d \in Directories, d.by = a, imports' = [imports EXCEPT ![n] = d]
      PROVE  /\ imports' \in Seq(Directories) /\ Len(imports') = n
             /\ DOMAIN imports' = DOMAIN imports /\ imports'[n] = d
             /\ \A i \in DOMAIN imports : i # n => imports'[i] = imports[i]
             /\ DirectoriesOf(a)' = {n}
             /\ CopiesOf(a)' = {}
             /\ \A b \in Archiver \ {a} : /\ arch[b].pc # "creating"
                                           /\ DirectoriesOf(b)' = DirectoriesOf(b) /\ WholeOf(b)' = WholeOf(b)
  <2>1. /\ imports' \in Seq(Directories) /\ Len(imports') = n
        /\ DOMAIN imports' = DOMAIN imports /\ imports'[n] = d
        /\ \A i \in DOMAIN imports : i # n => imports'[i] = imports[i]
    BY <1>2, <1>4, <1>5 DEF n
  <2>2. DirectoriesOf(a)' = {n}
    BY <2>1, <1>3, <1>4, <1>5 DEF DirectoriesOf
  <2>3. CopiesOf(a)' = {}
    BY <1>1, <1>3 DEF CopiesOf
  <2>4. ASSUME NEW b \in Archiver \ {a}
        PROVE  /\ arch[b].pc # "creating"
               /\ DirectoriesOf(b)' = DirectoriesOf(b) /\ WholeOf(b)' = WholeOf(b)
    BY <2>1, <1>1, <1>4, <1>5 DEF ArchiveInv, OneCreates, DirectoriesOf, WholeOf
  <2> QED
    BY <2>1, <2>2, <2>3, <2>4
<1>6. CASE /\ imports[n].meta = "none"
           /\ imports' = [imports EXCEPT ![n].meta = "empty", ![n].ordinal = next_ordinal]
           /\ UNCHANGED arch
  <2>1. PICK d : d = [imports[n] EXCEPT !.meta = "empty", !.ordinal = next_ordinal]
    OBVIOUS
  <2>2. next_ordinal \in Nat /\ next_ordinal = Cardinality(Ordered) /\ IsFiniteSet(Ordered)
    BY OrderedIsFinite DEF ArchiveInv
  <2>3. d \in Directories /\ d.by = a /\ d.meta = "empty" /\ d.ordinal = next_ordinal
    <3>1. PICK m : m = next_ordinal
      OBVIOUS
    <3>2. m \in Int /\ d = [imports[n] EXCEPT !.meta = "empty", !.ordinal = m]
      BY <2>1, <2>2, <3>1
    <3>3. d \in Directories /\ d.by = a /\ d.meta = "empty" /\ d.ordinal = m
      BY <3>2, <1>4 DEF Directories
    <3> QED
      BY <3>1, <3>3
  <2>4. imports' = [imports EXCEPT ![n] = d]
    BY <2>1, <1>4, <1>6
  <2>5. /\ imports' \in Seq(Directories) /\ Len(imports') = n
        /\ DOMAIN imports' = DOMAIN imports /\ imports'[n] = d
        /\ \A i \in DOMAIN imports : i # n => imports'[i] = imports[i]
        /\ DirectoriesOf(a)' = {n} /\ CopiesOf(a)' = {}
        /\ \A b \in Archiver \ {a} : /\ arch[b].pc # "creating"
                                      /\ DirectoriesOf(b)' = DirectoriesOf(b) /\ WholeOf(b)' = WholeOf(b)
    BY <2>3, <2>4, <1>5
  <2>6. next_ordinal' = next_ordinal + 1
    <3>1. Ordered' = Ordered \cup {n} /\ n \notin Ordered
      BY <2>3, <2>5, <1>4, <1>6 DEF Ordered
    <3>2. Cardinality(Ordered \cup {n}) = Cardinality(Ordered) + 1
      BY <2>2, <3>1, FS_AddElement
    <3>3. next_ordinal' = Cardinality(Ordered')
      BY DEF next_ordinal, Ordered
    <3> QED
      BY <2>2, <3>1, <3>2, <3>3
  <2>7. \A i \in DOMAIN imports : imports[i].meta # "none" =>
            imports[i].ordinal \in Int /\ imports[i].ordinal < next_ordinal
    <3>1. \A i \in DOMAIN imports : imports[i] \in Directories
      BY <1>2
    <3>2. \A i \in DOMAIN imports : imports[i].ordinal \in Int
      BY <3>1 DEF Directories
    <3> QED
      BY <3>2, <1>2 DEF OrdinalsHold
  <2>8. OrdinalsHold'
    <3>1. ASSUME NEW i \in DOMAIN imports', imports'[i].meta # "none"
          PROVE  imports'[i].ordinal < next_ordinal'
      BY <3>1, <2>2, <2>3, <2>5, <2>6, <2>7
    <3>2. ASSUME NEW i \in DOMAIN imports', NEW k \in DOMAIN imports', i < k,
                 imports'[i].meta # "none", imports'[k].meta # "none"
          PROVE  imports'[i].ordinal < imports'[k].ordinal
      <4>1. i # n /\ imports'[i] = imports[i]
        BY <3>2, <2>5, <1>4
      <4>2. CASE k = n
        BY <3>2, <4>1, <4>2, <2>3, <2>5, <2>7
      <4>3. CASE k # n
        <5>1. imports'[k] = imports[k]
          BY <4>3, <2>5
        <5> QED
          BY <3>2, <4>1, <5>1, <2>5, <1>2 DEF OrdinalsHold
      <4> QED
        BY <4>2, <4>3
    <3> QED
      BY <3>1, <3>2 DEF OrdinalsHold
  <2>9. PICK j : j = arch[a]
    OBVIOUS
  <2>10. j \in Attempts /\ j.pc = "creating" /\ j.said = NoReport /\ arch' = [arch EXCEPT ![a] = j]
    BY <2>9, <1>1, <1>2, <1>3, <1>6 DEF ArchiveInv, ArchiveShape
  <2>11. AttemptHolds(a, j)'
    <3>1. PlaceHolds(a, j)'
      BY <2>3, <2>5, <2>10, <1>3 DEF PlaceHolds
    <3>2. WordHolds(a, j)' /\ LockHolds(j)'
      BY <2>10 DEF WordHolds, LockHolds, NoReport, Report
    <3> QED
      BY <3>1, <3>2 DEF AttemptHolds
  <2> QED
    BY <1>1, <2>5, <2>8, <2>10, <2>11, ImportStepKeeps
<1>7. CASE /\ imports[n].meta = "empty"
           /\ imports' = [imports EXCEPT ![n].meta = "whole"]
           /\ Say(a, "stored", "none", 0) \/ Say(a, "failed", "none", 0)
  <2>1. PICK d : d = [imports[n] EXCEPT !.meta = "whole"]
    OBVIOUS
  <2>2. d \in Directories /\ d.by = a /\ d.meta = "whole" /\ d.ordinal = imports[n].ordinal
    BY <2>1, <1>4 DEF Directories
  <2>3. imports' = [imports EXCEPT ![n] = d]
    BY <2>1, <1>4, <1>7
  <2>4. /\ imports' \in Seq(Directories) /\ Len(imports') = n
        /\ DOMAIN imports' = DOMAIN imports /\ imports'[n] = d
        /\ \A i \in DOMAIN imports : i # n => imports'[i] = imports[i]
        /\ DirectoriesOf(a)' = {n} /\ CopiesOf(a)' = {}
        /\ \A b \in Archiver \ {a} : /\ arch[b].pc # "creating"
                                      /\ DirectoriesOf(b)' = DirectoriesOf(b) /\ WholeOf(b)' = WholeOf(b)
    BY <2>2, <2>3, <1>5
  <2>5. \A i \in DOMAIN imports : imports'[i].ordinal = imports[i].ordinal
                                  /\ (imports'[i].meta # "none" <=> imports[i].meta # "none")
    BY <2>2, <2>4, <1>7
  <2>6. Ordered' = Ordered
    BY <2>4, <2>5 DEF Ordered
  <2>7. next_ordinal' = next_ordinal
    BY <2>6 DEF next_ordinal, Ordered
  <2>8. OrdinalsHold'
    BY <2>4, <2>5, <2>7, <1>2 DEF OrdinalsHold
  <2>9. PICK state \in {"stored", "failed"} : Say(a, state, "none", 0)
    BY <1>7
  <2>10. PICK said : said = Report(state, "none", 0)
    OBVIOUS
  <2>11. said \in Reports /\ said.state = state /\ said.worm = "none"
    BY <2>10 DEF Report, Reports
  <2>12. PICK j : j = [arch[a] EXCEPT !.pc = "done", !.said = said]
    OBVIOUS
  <2>13. j \in Attempts /\ j.pc = "done" /\ j.said = said /\ arch' = [arch EXCEPT ![a] = j]
    BY <2>9, <2>10, <2>11, <2>12, <1>2 DEF Attempts, Say
  <2>14. n \in WholeOf(a)'
    BY <2>2, <2>4, <1>4 DEF WholeOf
  <2>15. AttemptHolds(a, j)'
    BY <2>9, <2>11, <2>13, <2>14 DEF AttemptHolds, PlaceHolds, WordHolds, LockHolds
  <2> QED
    BY <1>1, <2>4, <2>8, <2>13, <2>15, ImportStepKeeps
<1> QED
  BY <1>6, <1>7 DEF WriteMeta, n

LEMMA ArchiveNextKeeps ==
  ASSUME ArchiveInv, [ArchiveNext]_archiveVars
  PROVE  ArchiveInv'
<1>1. ASSUME NEW a \in Archiver, NEW setting \in Settings, Choose(a, setting, {}, a) PROVE ArchiveInv'
  BY <1>1, ChooseKeeps
<1>2. ASSUME NEW a \in Archiver, NEW retain \in Retain, NEW key \in {"k", a}, Choose(a, "s3", retain, key)
      PROVE  ArchiveInv'
  <2>1. retain \in SUBSET Retentions /\ key \in {"k"} \cup Archiver
    BY ArchiveAssumption DEF Retentions
  <2> QED
    BY <1>2, <2>1, ChooseKeeps
<1>3. ASSUME NEW a \in Archiver, NoClient(a) PROVE ArchiveInv'
  BY <1>3, EndsUnstored DEF NoClient, store, rest
<1>4. ASSUME NEW a \in Archiver, PostFails(a) PROVE ArchiveInv'
  BY <1>4, EndsUnstored DEF PostFails, store, rest
<1>5. ASSUME NEW a \in Archiver, ServerStops(a) PROVE ArchiveInv'
  BY <1>5, EndsUnstored DEF ServerStops, store, rest
<1>6. CASE UNCHANGED archiveVars
  <2>1. UNCHANGED <<clock, olock, versions, gone, imports, arch, bucketSaid, listed>>
    BY <1>6 DEF archiveVars
  <2>2. clock' \in Nat /\ clock <= clock' /\ ListedHolds' /\ BucketHolds'
    BY <2>1 DEF ArchiveInv, ArchiveShape, ListedHolds, BucketHolds
  <2> QED
    BY <2>1, <2>2, StoreStepKeeps
<1> QED
  BY <1>1, <1>2, <1>3, <1>4, <1>5, <1>6, PutKeeps, AskRetentionKeeps, CreateDirectoryKeeps,
     WriteMetaKeeps, AskBucketKeeps, PassKeeps, ListKeeps, RemoveVersionKeeps DEF ArchiveNext

\* However archivers share a key or a server, answers are lost and whoever
\* runs the bucket removes what S3 lets them: what a rotation prints about its
\* copy and about the copy's lock is true (upload_sealed_segment,
\* object_worm_state, ImportStore.create).
THEOREM ArchiveReportsAreTrue == ArchiveSpec => []ArchiveReportsHold
<1>1. ArchiveInv => ArchiveReportsHold
  <2> SUFFICES ASSUME ArchiveInv PROVE ArchiveReportsHold
    OBVIOUS
  <2>1. \A a \in Archiver : WordHolds(a, arch[a]) /\ LockHolds(arch[a])
    BY DEF ArchiveInv, AttemptHolds
  <2>2. CopyIsWhereItIsSaid
    BY <2>1 DEF ArchiveInv, WordHolds, CopiesOf, WholeOf, CopyIsWhereItIsSaid, ListedHolds, OrdinalsHold
  <2>3. ReportedLocksHold
    <3> SUFFICES ASSUME NEW a \in Archiver
                 PROVE  /\ arch[a].said.worm = "irreversible" /\ arch[a].answered = arch[a].version
                           /\ clock < arch[a].said.until => arch[a].version \notin gone
                        /\ bucketSaid = "unlocked" => arch[a].said.worm \notin {"irreversible", "bypassable"}
      BY DEF ReportedLocksHold
    <3>1. arch[a] \in Attempts /\ clock \in Nat
      BY DEF ArchiveInv, ArchiveShape
    <3>2. arch[a].said.until \in Nat
      BY <3>1 DEF Attempts, Reports
    <3> QED
      BY <2>1, <3>1, <3>2 DEF ArchiveInv, LockHolds, BucketHolds
  <2> QED
    BY <2>2, <2>3 DEF ArchiveReportsHold
<1>2. ArchiveInv /\ [ArchiveNext]_archiveVars => ArchiveInv'
  BY ArchiveNextKeeps
<1> QED
  BY <1>1, <1>2, ArchiveInitHolds, PTL DEF ArchiveSpec

==============================================================================
