---------------------------- MODULE IntakeProofs ----------------------------
(***************************************************************************)
(* Theorems about the intake of a project, for any number of witnesses,    *)
(* imports and concurrent requests, any sources and any batch size.        *)
(***************************************************************************)
EXTENDS Intake, TLAPS, FiniteSetTheorems

Importing(s) == call[s].pc \in {"batch", "ready"}

(* An import in flight knows its source and its chapter, and its next      *)
(* passage is one of the source.                                           *)
ImportsKnown ==
    /\ \A k \in Imported : imports[k].witness \in Present
    /\ \A s \in Slots : Importing(s) =>
         LET m == imports[call[s].import] IN
         /\ m # Absent
         /\ call[s].chapter <= Len(chapters)
         /\ call[s].next >= 1
         /\ call[s].pc = "batch" => call[s].next <= Len(m.source)

TypeInv == TypeOK /\ ImportsKnown

-----------------------------------------------------------------------------
(* Rows, requests, sequences. *)

(* A row is not the absence of one. *)
LEMMA RowIsPresent ==
  /\ \A row \in WitnessRow : row # Absent
  /\ \A m \in Import : m # Absent
  BY DEF WitnessRow, Import, Absent

Calls == {Idle} \cup BaseCall \cup ChapterCall \cup ImportCall

(* Where a request stands tells what it carries. *)
LEMMA CallShape ==
  ASSUME TypeOK, NEW s \in Slots
  PROVE  /\ call[s] \in Calls
         /\ call[s].pc \in {"insertBase", "recordBase"} => call[s] \in BaseCall
         /\ call[s].pc = "chapter" => call[s] \in ChapterCall
         /\ Importing(s) => /\ call[s] \in ImportCall
                            /\ call[s].import \in ImportIds
         /\ call[s].pc # "idle" => call[s] # Idle
  <1>1. call[s] \in Calls
    BY DEF TypeOK, Calls
  <1> QED
    BY <1>1 DEF Calls, Idle, BaseCall, ChapterCall, ImportCall, Importing

(* A source is a sequence of passage texts. *)
LEMMA SourceShape ==
  ASSUME NEW source \in Sources
  PROVE  /\ source \in Seq(PassageTexts) /\ Len(source) \in Nat
         /\ \A i \in 1 .. Len(source) : source[i] \in PassageTexts
         /\ source # <<>> => Len(source) >= 1
  <1>1. source \in Seq(PassageTexts)
    BY SourceAssumption
  <1> QED
    BY <1>1

(* The chapters of a witness up to a place can be counted. *)
LEMMA ChaptersFinite ==
  ASSUME TypeOK, NEW w, NEW i \in Nat
  PROVE  /\ IsFiniteSet({j \in 1 .. i : chapters[j].witness = w})
         /\ Cardinality({j \in 1 .. i : chapters[j].witness = w}) \in Nat
  <1>1. IsFiniteSet(1 .. i)
    BY FS_Interval
  <1>2. IsFiniteSet({j \in 1 .. i : chapters[j].witness = w})
    BY <1>1, FS_Subset
  <1> QED
    BY <1>2, FS_CardinalityType

(* The first ordinal of new chapters is one more than their number. *)
LEMMA ChaptersCounted ==
  ASSUME TypeOK, NEW w
  PROVE  /\ ChaptersOf(w) = {j \in 1 .. Len(chapters) : chapters[j].witness = w}
         /\ IsFiniteSet(ChaptersOf(w))
         /\ Cardinality(ChaptersOf(w)) \in Nat
         /\ FirstOrdinal(w) = Cardinality(ChaptersOf(w)) + 1
  <1>1. DOMAIN chapters = 1 .. Len(chapters) /\ Len(chapters) \in Nat
    BY DEF TypeOK
  <1>2. ChaptersOf(w) = {j \in 1 .. Len(chapters) : chapters[j].witness = w}
    BY <1>1 DEF ChaptersOf
  <1>3. /\ IsFiniteSet({j \in 1 .. Len(chapters) : chapters[j].witness = w})
        /\ Cardinality({j \in 1 .. Len(chapters) : chapters[j].witness = w}) \in Nat
    BY <1>1, ChaptersFinite
  <1>4. FirstOrdinal(w) = Cardinality(ChaptersOf(w)) + 1
    BY Zenon DEF FirstOrdinal
  <1> QED
    BY <1>2, <1>3, <1>4, Zenon

(* Rows inserted stand behind those there are, *)
LEMMA Concatenated ==
  ASSUME NEW T, NEW a \in Seq(T), NEW b \in Seq(T)
  PROVE  /\ a \o b \in Seq(T)
         /\ Len(a \o b) = Len(a) + Len(b)
         /\ \A i \in 1 .. Len(a) : (a \o b)[i] = a[i]
  OBVIOUS

(* in their order, *)
LEMMA Later ==
  ASSUME NEW T, NEW a \in Seq(T), NEW b \in Seq(T),
         NEW i \in 1 .. Len(a) + Len(b), ~(i <= Len(a))
  PROVE  (a \o b)[i] = b[i - Len(a)]
  OBVIOUS

(* each at its place. *)
LEMMA Appended ==
  ASSUME NEW T, NEW a \in Seq(T), NEW b \in Seq(T), NEW j \in 1 .. Len(b)
  PROVE  Len(a) + j \in DOMAIN (a \o b) /\ (a \o b)[Len(a) + j] = b[j]
  OBVIOUS

(* What the next transaction of the import in a slot stores: the rows of   *)
(* its source from the next passage up to the end of the batch, under new  *)
(* ids.                                                                    *)
ImportAt(s) == imports[call[s].import]
EndAt(s) == BatchEnd(ImportAt(s).source, call[s].next)
RowsAt(s) ==
    [j \in 1 .. EndAt(s) - call[s].next + 1 |->
       [witness |-> ImportAt(s).witness, chapter |-> call[s].chapter,
        ordinal |-> OrdinalAt(call[s].next, call[s].next + j - 1),
        text |-> ImportAt(s).source[call[s].next + j - 1]]]
IdsAt(s) == [j \in 1 .. EndAt(s) - call[s].next + 1 |-> Len(passages) + j]

(* What a request that stores a batch carries. *)
LEMMA BatchShape ==
  ASSUME TypeInv, NEW s \in Slots, ImportBatch(s)
  PROVE  /\ call[s].pc = "batch" /\ Importing(s)
         /\ call[s] \in ImportCall /\ call[s].import \in ImportIds
         /\ call[s].chapter \in Nat /\ call[s].chapter <= Len(chapters)
         /\ ImportAt(s) \in Import /\ ImportAt(s) # Absent
         /\ ImportAt(s).source \in Sources /\ ImportAt(s).rows \in Seq(Nat)
         /\ ImportAt(s).witness \in WitnessIds
         /\ Len(ImportAt(s).source) \in Nat /\ Len(ImportAt(s).rows) \in Nat
         /\ call[s].next \in Nat /\ call[s].next >= 1
         /\ EndAt(s) \in Nat /\ call[s].next <= EndAt(s) /\ EndAt(s) <= Len(ImportAt(s).source)
  <1> USE DEF TypeInv
  <1>1. call[s].pc = "batch" /\ Importing(s)
    <2>1. call[s].pc = "batch"
      BY Zenon DEF ImportBatch, At
    <2> QED
      BY <2>1 DEF Importing
  <1>2. call[s] \in ImportCall /\ call[s].import \in ImportIds
    BY <1>1, CallShape
  <1>3. ImportAt(s) # Absent /\ ImportAt(s) \in Import
    BY <1>1, <1>2 DEF ImportsKnown, TypeOK, ImportAt
  <1>4. /\ ImportAt(s).source \in Sources /\ ImportAt(s).witness \in WitnessIds
        /\ ImportAt(s).rows \in Seq(Nat)
    BY <1>3 DEF Import
  <1>5. Len(ImportAt(s).source) \in Nat /\ Len(ImportAt(s).rows) \in Nat
    BY <1>4, SourceShape
  <1>6. /\ call[s].next \in Nat /\ call[s].next >= 1 /\ call[s].chapter \in Nat
        /\ call[s].next <= Len(ImportAt(s).source) /\ call[s].chapter <= Len(chapters)
    BY <1>1, <1>2 DEF ImportsKnown, ImportCall, ImportAt
  <1>7. EndAt(s) \in Nat /\ call[s].next <= EndAt(s) /\ EndAt(s) <= Len(ImportAt(s).source)
    BY <1>5, <1>6, BatchAssumption DEF BatchEnd, EndAt
  <1> QED
    BY <1>1, <1>2, <1>3, <1>4, <1>5, <1>6, <1>7

(* The rows of a batch hold the next passages of the source. *)
LEMMA BatchRows ==
  ASSUME TypeInv, NEW s \in Slots, ImportBatch(s)
  PROVE  /\ RowsAt(s) \in Seq(PassageRow) /\ IdsAt(s) \in Seq(Nat)
         /\ Len(RowsAt(s)) = EndAt(s) - call[s].next + 1 /\ Len(IdsAt(s)) = Len(RowsAt(s))
         /\ \A j \in 1 .. Len(RowsAt(s)) :
              /\ RowsAt(s)[j].witness = ImportAt(s).witness
              /\ RowsAt(s)[j].chapter = call[s].chapter
              /\ RowsAt(s)[j].ordinal = call[s].next + j - 1
              /\ RowsAt(s)[j].text = ImportAt(s).source[call[s].next + j - 1]
              /\ IdsAt(s)[j] = Len(passages) + j
  <1> DEFINE next == call[s].next
             m == ImportAt(s)
             end == EndAt(s)
             n == end - next + 1
             Row(i) == [witness |-> m.witness, chapter |-> call[s].chapter,
                        ordinal |-> OrdinalAt(next, i), text |-> m.source[i]]
             rows == [j \in 1 .. n |-> Row(next + j - 1)]
             ids == [j \in 1 .. n |-> Len(passages) + j]
  <1>1. /\ next \in Nat /\ next >= 1 /\ end \in Nat /\ end <= Len(m.source) /\ n \in Nat
        /\ m.witness \in WitnessIds /\ m.source \in Sources /\ Len(m.source) \in Nat
        /\ call[s].chapter \in Nat
    BY BatchShape
  <1>2. Len(passages) \in Nat
    BY DEF TypeInv, TypeOK
  <1>3. rows = RowsAt(s) /\ ids = IdsAt(s)
    BY Zenon DEF RowsAt, IdsAt
  <1> HIDE DEF next, m, end
  <1>4. \A i \in 1 .. Len(m.source) : Row(i) \in PassageRow
    <2> TAKE i \in 1 .. Len(m.source)
    <2>1. m.source[i] \in PassageTexts /\ i \in Nat \ {0}
      BY <1>1, SourceShape
    <2> QED
      BY <1>1, <2>1 DEF PassageRow, OrdinalAt
  <1>5. \A j \in 1 .. n : next + j - 1 \in 1 .. Len(m.source)
    BY <1>1 DEF n
  <1>6. rows \in [1 .. n -> PassageRow] /\ ids \in [1 .. n -> Nat]
    <2> HIDE DEF Row, n
    <2> QED
      BY <1>1, <1>2, <1>4, <1>5
  <1>7. rows \in Seq(PassageRow) /\ ids \in Seq(Nat) /\ Len(rows) = n /\ Len(ids) = n
    <2> HIDE DEF rows, ids, n
    <2> QED
      BY <1>1, <1>6
  <1>8. \A j \in 1 .. n :
           /\ rows[j].witness = m.witness /\ rows[j].chapter = call[s].chapter
           /\ rows[j].ordinal = next + j - 1
           /\ rows[j].text = m.source[next + j - 1]
           /\ ids[j] = Len(passages) + j
    <2> HIDE DEF n
    <2> QED
      BY DEF OrdinalAt
  <1> HIDE DEF rows, ids
  <1>9. /\ Len(rows) = end - next + 1 /\ Len(ids) = Len(rows)
        /\ \A j \in 1 .. Len(rows) :
             /\ rows[j].witness = m.witness /\ rows[j].chapter = call[s].chapter
             /\ rows[j].ordinal = next + j - 1
             /\ rows[j].text = m.source[next + j - 1]
             /\ ids[j] = Len(passages) + j
    BY <1>7, <1>8, Zenon DEF n
  <1> QED
    BY <1>3, <1>7, <1>9, Zenon DEF next, m, end

(* Only its own import and its own request change. *)
LEMMA BatchEffect ==
  ASSUME TypeInv, NEW s \in Slots, ImportBatch(s)
  PROVE  LET k == call[s].import IN
         /\ passages' = passages \o RowsAt(s)
         /\ UNCHANGED <<witness, recorded, chapters, overlapped>>
         /\ imports' \in [ImportIds -> Import \cup {Absent}]
         /\ \A j \in ImportIds : j # k => imports'[j] = imports[j]
         /\ imports'[k] \in Import /\ imports'[k].rows = ImportAt(s).rows \o IdsAt(s)
         /\ imports'[k].source = ImportAt(s).source /\ imports'[k].witness = ImportAt(s).witness
         /\ imports'[k].done = ImportAt(s).done
         /\ call' \in [Slots -> Calls]
         /\ \A t \in Slots : t # s => call'[t] = call[t]
         /\ call'[s] \in ImportCall
         /\ call'[s].import = k /\ call'[s].chapter = call[s].chapter
         /\ call'[s].next = EndAt(s) + 1
         /\ call'[s].pc = IF EndAt(s) < Len(ImportAt(s).source) THEN "batch" ELSE "ready"
  <1> DEFINE k == call[s].import
             m == ImportAt(s)
             all == m.rows \o IdsAt(s)
             end == EndAt(s)
             next == end + 1
             pc == IF end < Len(m.source) THEN "batch" ELSE "ready"
  <1>1. call[s] \in ImportCall /\ k \in ImportIds /\ m \in Import /\ m.rows \in Seq(Nat)
        /\ next \in Nat /\ pc \in {"batch", "ready"} /\ IdsAt(s) \in Seq(Nat)
    BY BatchShape, BatchRows
  <1>2. all \in Seq(Nat)
    <2> HIDE DEF m
    <2>1. m.rows \in Seq(Nat) /\ IdsAt(s) \in Seq(Nat)
      BY <1>1
    <2> QED
      BY <2>1, Concatenated, Zenon
  <1>3. /\ passages' = passages \o RowsAt(s)
        /\ imports' = [imports EXCEPT ![k] = [m EXCEPT !.rows = all]]
        /\ UNCHANGED <<witness, recorded, chapters, overlapped>>
    <2> DEFINE rows == RowsAt(s)
    <2>1. /\ passages' = passages \o RowsAt(s)
          /\ imports' = [imports EXCEPT ![k].rows = @ \o [j \in DOMAIN rows |-> Len(passages) + j]]
      BY Zenon DEF ImportBatch, RowsAt, ImportAt, EndAt
    <2>2. [j \in DOMAIN rows |-> Len(passages) + j] = IdsAt(s)
      BY DEF RowsAt, IdsAt
    <2>3. imports' = [imports EXCEPT ![k].rows = @ \o IdsAt(s)] /\ imports[k] = m
      BY <2>1, <2>2, Zenon DEF ImportAt
    <2>4. imports' = [imports EXCEPT ![k] = [m EXCEPT !.rows = all]]
      BY <2>3, Zenon
    <2> QED
      BY <2>1, <2>4, Zenon DEF ImportBatch
  <1>4. call' = [call EXCEPT ![s] = [call[s] EXCEPT !.next = next, !.pc = pc]]
    BY DEF ImportBatch, More, TypeInv, TypeOK, ImportAt, EndAt
  <1> DEFINE n == [m EXCEPT !.rows = all]
             d == [call[s] EXCEPT !.next = next, !.pc = pc]
  <1> HIDE DEF k, m, all, next, pc
  <1>5. /\ n \in Import /\ n.rows = all /\ n.source = m.source
        /\ n.witness = m.witness /\ n.done = m.done
    BY <1>1, <1>2 DEF Import
  <1>6. /\ d \in ImportCall /\ d.import = call[s].import /\ d.chapter = call[s].chapter
        /\ d.next = next /\ d.pc = pc
    BY <1>1 DEF ImportCall
  <1>7. imports' = [imports EXCEPT ![k] = n] /\ call' = [call EXCEPT ![s] = d]
    BY <1>3, <1>4
  <1> HIDE DEF n, d
  <1>8. /\ imports' \in [ImportIds -> Import \cup {Absent}]
        /\ \A j \in ImportIds : j # k => imports'[j] = imports[j]
        /\ imports'[k] = n
    BY <1>1, <1>5, <1>7 DEF TypeInv, TypeOK
  <1>9. /\ call' \in [Slots -> Calls]
        /\ \A t \in Slots : t # s => call'[t] = call[t]
        /\ call'[s] = d
    BY <1>6, <1>7 DEF TypeInv, TypeOK, Calls
  <1>10. /\ \A j \in ImportIds : j # k => imports'[j] = imports[j]
         /\ imports'[k] \in Import /\ imports'[k].rows = all /\ imports'[k].source = m.source
         /\ imports'[k].witness = m.witness /\ imports'[k].done = m.done
    BY <1>5, <1>8, Zenon
  <1>11. /\ call'[s] \in ImportCall /\ call'[s].import = k /\ call'[s].chapter = call[s].chapter
         /\ call'[s].next = next /\ call'[s].pc = pc
    BY <1>6, <1>9, Zenon DEF k
  <1> QED
    BY <1>3, <1>8, <1>9, <1>10, <1>11, Zenon DEF k, m, all, next, pc

-----------------------------------------------------------------------------
(* Types. *)

(* What the requests know of the imports stays true as long as witnesses,  *)
(* sources and chapters stay and no request starts or advances an import.  *)
LEMMA KnowledgeKept ==
  ASSUME TypeInv, Present \subseteq Present',
         Len(chapters') >= Len(chapters), Len(chapters') \in Nat,
         \A k \in ImportIds : (imports'[k] # Absent) = (imports[k] # Absent),
         \A k \in Imported : /\ imports'[k].witness = imports[k].witness
                             /\ imports'[k].source = imports[k].source,
         \A t \in Slots : Importing(t)' => Importing(t) /\ call'[t] = call[t]
  PROVE  ImportsKnown'
  <1>1. ASSUME NEW k \in Imported'
        PROVE  imports'[k].witness \in Present'
    <2>1. k \in ImportIds /\ k \in Imported
      BY <1>1 DEF Imported
    <2> QED
      BY <2>1 DEF TypeInv, ImportsKnown
  <1>2. ASSUME NEW t \in Slots, Importing(t)'
        PROVE  /\ imports'[call'[t].import] # Absent
               /\ call'[t].chapter <= Len(chapters')
               /\ call'[t].next >= 1
               /\ call'[t].pc = "batch" => call'[t].next <= Len(imports'[call'[t].import].source)
    <2> DEFINE k == call[t].import
    <2>1. call'[t] = call[t] /\ Importing(t)
      BY <1>2
    <2>2. call[t] \in ImportCall /\ call[t].chapter \in Nat
      BY <2>1, CallShape DEF TypeInv, ImportCall
    <2>3. k \in ImportIds /\ imports[k] # Absent
      BY <2>1, CallShape DEF TypeInv, ImportsKnown
    <2>4. k \in Imported
      BY <2>3 DEF Imported
    <2>5. imports'[k] # Absent /\ imports'[k].source = imports[k].source
      BY <2>3, <2>4
    <2>6. Len(chapters) \in Nat
      BY DEF TypeInv, TypeOK
    <2>7. /\ call[t].chapter <= Len(chapters)
          /\ call[t].next >= 1
          /\ call[t].pc = "batch" => call[t].next <= Len(imports[k].source)
      BY <2>1 DEF TypeInv, ImportsKnown
    <2> QED
      BY <2>1, <2>2, <2>5, <2>6, <2>7
  <1> QED
    BY <1>1, <1>2 DEF ImportsKnown

(* A step that writes one request that is no import, and perhaps appends a *)
(* chapter.                                                                *)
LEMMA CallWritten ==
  ASSUME TypeInv, NEW s \in Slots, call'[s].pc \notin {"batch", "ready"},
         \A t \in Slots : t # s => call'[t] = call[t],
         imports' = imports, witness' = witness,
         Len(chapters') >= Len(chapters), Len(chapters') \in Nat
  PROVE  ImportsKnown'
  <1>1. Present \subseteq Present'
    BY DEF Present
  <1>2. \A t \in Slots : Importing(t)' => Importing(t) /\ call'[t] = call[t]
    BY DEF Importing
  <1> QED
    BY <1>1, <1>2, KnowledgeKept

(* A witness row written keeps the witnesses that are there. *)
LEMMA WitnessWritten ==
  ASSUME TypeInv, NEW w \in WitnessIds, NEW row \in WitnessRow,
         witness' = [witness EXCEPT ![w] = row]
  PROVE  /\ witness' \in [WitnessIds -> WitnessRow \cup {Absent}]
         /\ Present \subseteq Present'
  BY RowIsPresent DEF TypeInv, TypeOK, Present

(* A chapter stored: one row more, the request goes on or is answered.      *)
LEMMA ChapterWritten ==
  ASSUME TypeInv, NEW s \in Slots, ChapterInsert(s)
  PROVE  /\ call[s] \in ChapterCall
         /\ chapters' = Append(chapters, [witness |-> call[s].witness, ordinal |-> call[s].ordinal])
         /\ chapters' \in Seq(ChapterRow)
         /\ Len(chapters') = Len(chapters) + 1
         /\ UNCHANGED <<witness, recorded, passages, imports, overlapped>>
         /\ \E c \in ChapterCall \cup {Idle} :
              /\ call' = [call EXCEPT ![s] = c]
              /\ c # Idle => /\ c.witness = call[s].witness
                             /\ c.ordinal = call[s].ordinal + 1
  <1> USE DEF TypeInv
  <1> DEFINE old == call[s]
             new == [old EXCEPT !.ordinal = old.ordinal + 1, !.left = old.left - 1]
             row == [witness |-> old.witness, ordinal |-> old.ordinal]
  <1>1. old \in ChapterCall
    BY CallShape DEF ChapterInsert, At
  <1>2. old.witness \in WitnessIds /\ old.ordinal \in Nat /\ old.left \in Nat
    BY <1>1 DEF ChapterCall
  <1>3. row \in ChapterRow
    BY <1>2 DEF ChapterRow
  <1>4. chapters' = Append(chapters, row)
    BY DEF ChapterInsert
  <1>5. chapters' \in Seq(ChapterRow) /\ Len(chapters') = Len(chapters) + 1
    <2> HIDE DEF row
    <2> QED
      BY <1>3, <1>4 DEF TypeOK
  <1>6. UNCHANGED <<witness, recorded, passages, imports, overlapped>>
    BY DEF ChapterInsert, history
  <1>7. CASE old.left > 1
    <2>1. call' = [call EXCEPT ![s] = new]
      BY <1>7 DEF ChapterInsert, TypeOK
    <2>2. new \in ChapterCall /\ new.witness = old.witness /\ new.ordinal = old.ordinal + 1
      <3> DEFINE o == old.ordinal + 1
                 l == old.left - 1
      <3>1. o \in Nat /\ l \in Nat
        BY <1>2, <1>7
      <3>2. new = [old EXCEPT !.ordinal = o, !.left = l]
        OBVIOUS
      <3> HIDE DEF o, l, old, new
      <3>3. new \in ChapterCall /\ new.witness = old.witness /\ new.ordinal = o
        BY <1>1, <3>1, <3>2 DEF ChapterCall
      <3> QED
        BY <3>3 DEF o
    <2> HIDE DEF new
    <2> QED
      BY <1>1, <1>4, <1>5, <1>6, <2>1, <2>2
  <1>8. CASE ~(old.left > 1)
    BY <1>1, <1>4, <1>5, <1>6, <1>8, Zenon DEF ChapterInsert, Return
  <1> QED
    BY <1>7, <1>8

(* A batch stored. *)
LEMMA BatchTyped ==
  ASSUME TypeInv, NEW s \in Slots, ImportBatch(s)
  PROVE  TypeInv'
  <1> DEFINE c == call[s]
             k == c.import
             m == ImportAt(s)
             end == EndAt(s)
             rows == RowsAt(s)
  <1>1. /\ c.chapter <= Len(chapters) /\ k \in ImportIds /\ m = imports[k] /\ m # Absent
        /\ end \in Nat /\ Len(m.source) \in Nat
    BY BatchShape DEF ImportAt
  <1>2. passages' = passages \o rows /\ UNCHANGED <<witness, recorded, chapters, overlapped>>
    BY BatchEffect
  <1>3. /\ imports' \in [ImportIds -> Import \cup {Absent}]
        /\ \A j \in ImportIds : j # k => imports'[j] = imports[j]
        /\ imports'[k] \in Import
        /\ imports'[k].source = m.source /\ imports'[k].witness = m.witness
    BY BatchEffect
  <1>4. /\ call' \in [Slots -> Calls]
        /\ \A t \in Slots : t # s => call'[t] = call[t]
        /\ call'[s].import = k /\ call'[s].chapter = c.chapter /\ call'[s].next = end + 1
        /\ call'[s].pc = IF end < Len(m.source) THEN "batch" ELSE "ready"
    BY BatchEffect
  <1>5. rows \in Seq(PassageRow) /\ passages \in Seq(PassageRow)
    BY BatchRows DEF TypeInv, TypeOK
  <1>6. \A j \in 1 .. Len(rows) : rows[j].chapter = c.chapter
    BY BatchRows
  <1> HIDE DEF c, k, m, end, rows
  <1>7. passages' \in Seq(PassageRow)
    BY <1>2, <1>5, Concatenated
  <1>8. \A i \in DOMAIN passages' : passages'[i].chapter <= Len(chapters)
    <2>1. \A i \in DOMAIN passages' :
             \/ i \in DOMAIN passages /\ passages'[i] = passages[i]
             \/ i - Len(passages) \in 1 .. Len(rows) /\ passages'[i] = rows[i - Len(passages)]
      BY <1>2, <1>5
    <2> QED
      BY <1>1, <1>6, <2>1 DEF TypeInv, TypeOK
  <1>9. /\ \A j \in ImportIds : (imports'[j] # Absent) = (imports[j] # Absent)
        /\ \A j \in ImportIds : /\ imports'[j].witness = imports[j].witness
                               /\ imports'[j].source = imports[j].source
    BY <1>1, <1>3, RowIsPresent
  <1>10. ASSUME NEW j \in Imported'
         PROVE  imports'[j].witness \in Present'
    <2>1. j \in ImportIds /\ imports[j] # Absent /\ imports'[j].witness = imports[j].witness
      BY <1>9, <1>10 DEF Imported
    <2> QED
      BY <1>2, <2>1 DEF TypeInv, ImportsKnown, Imported, Present
  <1>11. ASSUME NEW t \in Slots, Importing(t)'
         PROVE  /\ imports'[call'[t].import] # Absent
                /\ call'[t].chapter <= Len(chapters)
                /\ call'[t].next >= 1
                /\ call'[t].pc = "batch" => call'[t].next <= Len(imports'[call'[t].import].source)
    <2>1. CASE t = s
      <3>1. imports'[k] # Absent
        BY <1>3, RowIsPresent
      <3>2. end + 1 >= 1 /\ (call'[s].pc = "batch" => end + 1 <= Len(m.source))
        BY <1>1, <1>4
      <3> QED
        BY <1>1, <1>3, <1>4, <2>1, <3>1, <3>2
    <2>2. CASE t # s
      <3>1. call'[t] = call[t] /\ Importing(t)
        BY <1>4, <1>11, <2>2 DEF Importing
      <3>2. call[t].import \in ImportIds /\ imports[call[t].import] # Absent
        BY <3>1, CallShape DEF TypeInv, ImportsKnown
      <3>3. /\ call[t].chapter <= Len(chapters)
            /\ call[t].next >= 1
            /\ call[t].pc = "batch" => call[t].next <= Len(imports[call[t].import].source)
        BY <3>1 DEF TypeInv, ImportsKnown
      <3> QED
        BY <1>9, <3>1, <3>2, <3>3
    <2> QED
      BY <2>1, <2>2
  <1>12. ImportsKnown'
    BY <1>2, <1>10, <1>11 DEF ImportsKnown
  <1> QED
    BY <1>2, <1>3, <1>4, <1>7, <1>8, <1>12 DEF TypeInv, TypeOK, Calls

(* An import answered: its witness waits for alignment, its request is gone. *)
LEMMA ReadyShape ==
  ASSUME TypeInv, NEW s \in Slots, ImportReady(s)
  PROVE  LET k == call[s].import
             m == imports[k]
             old == witness[m.witness]
         IN
         /\ Importing(s) /\ k \in ImportIds /\ m \in Import /\ m # Absent
         /\ m.witness \in WitnessIds /\ old \in WitnessRow
         /\ witness' = [witness EXCEPT ![m.witness] = [old EXCEPT !.status = "pending_alignment"]]
         /\ [old EXCEPT !.status = "pending_alignment"] \in WitnessRow
         /\ [old EXCEPT !.status = "pending_alignment"].status = "pending_alignment"
         /\ [old EXCEPT !.status = "pending_alignment"].base = old.base
         /\ imports' = [imports EXCEPT ![k] = [m EXCEPT !.done = TRUE]]
         /\ [m EXCEPT !.done = TRUE] \in Import
         /\ [m EXCEPT !.done = TRUE].witness = m.witness
         /\ [m EXCEPT !.done = TRUE].source = m.source
         /\ [m EXCEPT !.done = TRUE].rows = m.rows
         /\ [m EXCEPT !.done = TRUE].done
         /\ call' = [call EXCEPT ![s] = Idle]
         /\ UNCHANGED <<recorded, chapters, passages, overlapped>>
  <1> USE DEF TypeInv
  <1> DEFINE k == call[s].import
             m == imports[k]
             old == witness[m.witness]
  <1>1. Importing(s) /\ k \in ImportIds
    BY CallShape DEF ImportReady, At, Importing
  <1>2. m # Absent /\ m \in Import
    BY <1>1 DEF ImportsKnown, TypeOK
  <1>3. m.witness \in Present
    BY <1>1, <1>2 DEF ImportsKnown, Imported
  <1>4. m.witness \in WitnessIds /\ old \in WitnessRow
    BY <1>3 DEF Present, TypeOK
  <1>5. /\ witness' = [witness EXCEPT ![m.witness] = [old EXCEPT !.status = "pending_alignment"]]
        /\ imports' = [imports EXCEPT ![k] = [m EXCEPT !.done = TRUE]]
        /\ call' = [call EXCEPT ![s] = Idle]
        /\ UNCHANGED <<recorded, chapters, passages, overlapped>>
    BY <1>1, <1>4 DEF ImportReady, Return, TypeOK
  <1>6. /\ [old EXCEPT !.status = "pending_alignment"] \in WitnessRow
        /\ [old EXCEPT !.status = "pending_alignment"].status = "pending_alignment"
        /\ [old EXCEPT !.status = "pending_alignment"].base = old.base
    <2> HIDE DEF old
    <2> QED
      BY <1>4 DEF WitnessRow
  <1>7. /\ [m EXCEPT !.done = TRUE] \in Import
        /\ [m EXCEPT !.done = TRUE].witness = m.witness
        /\ [m EXCEPT !.done = TRUE].source = m.source
        /\ [m EXCEPT !.done = TRUE].rows = m.rows
        /\ [m EXCEPT !.done = TRUE].done
    <2> HIDE DEF m
    <2> QED
      BY <1>2 DEF Import
  <1> QED
    BY <1>1, <1>2, <1>4, <1>5, <1>6, <1>7

(* The end of an import keeps the types. *)
LEMMA ReadyTyped ==
  ASSUME TypeInv, NEW s \in Slots, ImportReady(s)
  PROVE  TypeInv'
  <1> USE DEF TypeInv
  <1> DEFINE k == call[s].import
             m == imports[k]
             row == [witness[m.witness] EXCEPT !.status = "pending_alignment"]
             n == [m EXCEPT !.done = TRUE]
  <1>1. /\ Importing(s) /\ k \in ImportIds /\ m \in Import /\ m.witness \in WitnessIds
        /\ row \in WitnessRow /\ n \in Import
        /\ n.witness = m.witness /\ n.source = m.source
        /\ witness' = [witness EXCEPT ![m.witness] = row]
        /\ imports' = [imports EXCEPT ![k] = n]
        /\ call' = [call EXCEPT ![s] = Idle]
        /\ UNCHANGED <<recorded, chapters, passages, overlapped>>
    BY ReadyShape
  <1> HIDE DEF row, n, m, k
  <1>2. /\ witness' \in [WitnessIds -> WitnessRow \cup {Absent}]
        /\ Present \subseteq Present'
    BY <1>1, WitnessWritten
  <1>3. /\ imports' \in [ImportIds -> Import \cup {Absent}]
        /\ \A j \in ImportIds : j # k => imports'[j] = imports[j]
        /\ imports'[k] = n
    BY <1>1 DEF TypeOK
  <1>4. /\ \A j \in ImportIds : (imports'[j] # Absent) = (imports[j] # Absent)
        /\ \A j \in ImportIds : /\ imports'[j].witness = imports[j].witness
                               /\ imports'[j].source = imports[j].source
    BY <1>1, <1>3, RowIsPresent DEF m
  <1>5. /\ call' \in [Slots -> Calls]
        /\ \A t \in Slots : Importing(t)' => Importing(t) /\ call'[t] = call[t]
    BY <1>1 DEF TypeOK, Calls, Importing, Idle
  <1>6. \A j \in Imported : /\ imports'[j].witness = imports[j].witness
                            /\ imports'[j].source = imports[j].source
    BY <1>4 DEF Imported
  <1>7. Len(chapters') >= Len(chapters) /\ Len(chapters') \in Nat
    BY <1>1 DEF TypeOK
  <1>8. ImportsKnown'
    BY <1>2, <1>4, <1>5, <1>6, <1>7, KnowledgeKept
  <1> QED
    BY <1>1, <1>2, <1>3, <1>5, <1>8 DEF TypeOK, Calls

(* Every step keeps the types. *)
LEMMA TypeStep == TypeInv /\ [IntakeNext]_intakeVars => TypeInv'
  <1> SUFFICES ASSUME TypeInv, [IntakeNext]_intakeVars PROVE TypeInv'
    OBVIOUS
  <1> USE DEF TypeInv
  <1>1. /\ Idle \in Calls /\ Idle.pc = "idle"
        /\ BaseCall \subseteq Calls /\ ChapterCall \subseteq Calls /\ ImportCall \subseteq Calls
        /\ Len(chapters) \in Nat
    BY DEF Calls, Idle, TypeOK
  <1>2. CASE Restart
    BY <1>2 DEF Restart, TypeOK, ImportsKnown, Importing, Imported, Present, Idle, tables, history
  <1>3. ASSUME NEW w \in WitnessIds, CreateWitness(w)
        PROVE  TypeInv'
    <2>1. NewWitness(FALSE) \in WitnessRow
      BY DEF NewWitness, WitnessRow
    <2>2. /\ witness' \in [WitnessIds -> WitnessRow \cup {Absent}]
          /\ Present \subseteq Present'
      BY <1>3, <2>1, WitnessWritten DEF CreateWitness
    <2> QED
      BY <1>3, <2>2 DEF CreateWitness, TypeOK, ImportsKnown, Importing, Imported, history
  <1>4. ASSUME NEW s \in Slots, Abort(s)
        PROVE  TypeInv'
    <2>1. /\ UNCHANGED <<witness, recorded, chapters, passages, imports, overlapped>>
          /\ call' = [call EXCEPT ![s] = Idle]
      BY <1>4 DEF Abort, Return, tables, history
    <2>2. /\ call' \in [Slots -> Calls] /\ call'[s] = Idle
          /\ \A t \in Slots : t # s => call'[t] = call[t]
      BY <1>1, <2>1 DEF TypeOK, Calls
    <2>3. ImportsKnown'
      BY <1>1, <2>1, <2>2, CallWritten
    <2> QED
      BY <2>1, <2>2, <2>3 DEF TypeOK, Calls
  <1>5. ASSUME NEW s \in Slots, NEW w \in WitnessIds, BaseCheck(s, w)
        PROVE  TypeInv'
    <2> DEFINE c == [pc |-> "insertBase", witness |-> w]
    <2>1. c \in BaseCall /\ c.pc = "insertBase"
      BY DEF BaseCall
    <2>2. /\ call' = [call EXCEPT ![s] = c] /\ overlapped' \in BOOLEAN
          /\ UNCHANGED <<witness, recorded, chapters, passages, imports>>
      BY <1>5 DEF BaseCheck, Begin, TypeOK, tables
    <2> HIDE DEF c
    <2>3. /\ call' \in [Slots -> Calls] /\ call'[s] = c
          /\ \A t \in Slots : t # s => call'[t] = call[t]
      BY <1>1, <2>1, <2>2 DEF TypeOK, Calls
    <2>4. ImportsKnown'
      BY <1>1, <2>1, <2>2, <2>3, CallWritten
    <2> QED
      BY <2>2, <2>3, <2>4 DEF TypeOK, Calls
  <1>6. ASSUME NEW s \in Slots, NEW w \in WitnessIds, NEW n \in 1 .. MaxTitles, ChaptersCheck(s, w, n)
        PROVE  TypeInv'
    <2> DEFINE c == [pc |-> "chapter", witness |-> w, ordinal |-> FirstOrdinal(w), left |-> n]
    <2>1. FirstOrdinal(w) \in Nat /\ n \in Nat
      BY ChaptersCounted, ChapterAssumption
    <2>2. c \in ChapterCall /\ c.pc = "chapter"
      BY <2>1 DEF ChapterCall
    <2>3. /\ call' = [call EXCEPT ![s] = c] /\ overlapped' \in BOOLEAN
          /\ UNCHANGED <<witness, recorded, chapters, passages, imports>>
      BY <1>6 DEF ChaptersCheck, Begin, TypeOK, tables
    <2> HIDE DEF c
    <2>4. /\ call' \in [Slots -> Calls] /\ call'[s] = c
          /\ \A t \in Slots : t # s => call'[t] = call[t]
      BY <1>1, <2>2, <2>3 DEF TypeOK, Calls
    <2>5. ImportsKnown'
      BY <1>1, <2>2, <2>3, <2>4, CallWritten
    <2> QED
      BY <2>3, <2>4, <2>5 DEF TypeOK, Calls
  <1>7. ASSUME NEW s \in Slots, NEW k \in ImportIds, NEW w \in WitnessIds, NEW source \in Sources,
               ImportCheck(s, k, w, source)
        PROVE  TypeInv'
    <2> DEFINE m == [witness |-> w, source |-> source, rows |-> <<>>, done |-> FALSE]
    <2>1. PICK i \in 0 .. Len(chapters) :
            Begin(s, [pc |-> IF source = <<>> THEN "ready" ELSE "batch",
                      import |-> k, chapter |-> i, next |-> 1])
      BY <1>7 DEF ImportCheck
    <2> DEFINE c == [pc |-> IF source = <<>> THEN "ready" ELSE "batch",
                     import |-> k, chapter |-> i, next |-> 1]
    <2>2. c \in ImportCall /\ c.import = k /\ c.chapter = i /\ c.next = 1
          /\ (c.pc = "batch" => source # <<>>)
      BY <1>1 DEF ImportCall
    <2>3. m \in Import /\ m.source = source /\ m.witness = w
      BY DEF Import
    <2>4. call' = [call EXCEPT ![s] = c] /\ overlapped' \in BOOLEAN
      BY <2>1 DEF Begin, TypeOK
    <2>5. imports' = [imports EXCEPT ![k] = m] /\ imports[k] = Absent
      BY <1>7 DEF ImportCheck
    <2> HIDE DEF c, m
    <2>6. call' \in [Slots -> Calls] /\ imports' \in [ImportIds -> Import \cup {Absent}]
      BY <1>1, <2>2, <2>3, <2>4, <2>5 DEF TypeOK, Calls
    <2>7. \A j \in Imported' : imports'[j].witness \in Present'
      BY <1>7, <2>3, <2>5 DEF ImportCheck, TypeOK, ImportsKnown, Imported, Present, tables
    <2>8. ASSUME NEW t \in Slots, Importing(t)'
          PROVE  /\ imports'[call'[t].import] # Absent
                 /\ call'[t].chapter <= Len(chapters)
                 /\ call'[t].next >= 1
                 /\ call'[t].pc = "batch" => call'[t].next <= Len(imports'[call'[t].import].source)
      <3>1. CASE t = s
        <4>1. call'[t] = c /\ imports'[k] = m
          BY <2>4, <2>5, <3>1 DEF TypeOK
        <4> QED
          BY <1>1, <2>2, <2>3, <4>1, RowIsPresent, SourceShape
      <3>2. CASE t # s
        <4>1. call'[t] = call[t] /\ Importing(t)
          BY <2>4, <2>8, <3>2 DEF Importing, TypeOK
        <4>2. call[t].import \in ImportIds /\ imports[call[t].import] # Absent
          BY <4>1, CallShape DEF ImportsKnown
        <4>3. imports'[call[t].import] = imports[call[t].import]
          BY <2>5, <4>2 DEF TypeOK
        <4> QED
          BY <4>1, <4>3 DEF ImportsKnown
      <3> QED
        BY <3>1, <3>2
    <2>9. ImportsKnown'
      BY <1>7, <2>7, <2>8 DEF ImportsKnown, ImportCheck, tables
    <2> QED
      BY <1>7, <2>4, <2>6, <2>9 DEF ImportCheck, TypeOK, Calls, tables
  <1>8. ASSUME NEW s \in Slots, BaseInsert(s)
        PROVE  TypeInv'
    <2>1. call[s] \in BaseCall /\ call[s].witness \in WitnessIds
      BY <1>8, CallShape DEF BaseInsert, At, BaseCall
    <2>2. NewWitness(TRUE) \in WitnessRow
      BY DEF NewWitness, WitnessRow
    <2>3. /\ witness' \in [WitnessIds -> WitnessRow \cup {Absent}]
          /\ Present \subseteq Present'
      BY <1>8, <2>1, <2>2, WitnessWritten DEF BaseInsert
    <2> DEFINE c == [call[s] EXCEPT !.pc = "recordBase"]
    <2>4. c \in BaseCall /\ c.pc = "recordBase"
      BY <2>1 DEF BaseCall
    <2>5. /\ call' = [call EXCEPT ![s] = c]
          /\ UNCHANGED <<recorded, chapters, passages, imports, overlapped>>
      BY <1>8 DEF BaseInsert, Goto, history, TypeOK
    <2> HIDE DEF c
    <2>6. call' \in [Slots -> Calls]
      BY <1>1, <2>4, <2>5 DEF TypeOK, Calls
    <2>7. \A t \in Slots : Importing(t)' => Importing(t) /\ call'[t] = call[t]
      BY <2>4, <2>5 DEF Importing, TypeOK
    <2>8. ImportsKnown'
      BY <2>3, <2>5, <2>7 DEF ImportsKnown, Imported
    <2> QED
      BY <2>3, <2>5, <2>6, <2>8 DEF TypeOK, Calls
  <1>9. ASSUME NEW s \in Slots, BaseRecord(s)
        PROVE  TypeInv'
    <2>1. call[s].witness \in WitnessIds
      BY <1>9, CallShape DEF BaseRecord, At, BaseCall
    <2>2. /\ UNCHANGED <<witness, chapters, passages, imports, overlapped>>
          /\ call' = [call EXCEPT ![s] = Idle]
          /\ recorded' \in WitnessIds
      BY <1>9, <2>1 DEF BaseRecord, Return, history
    <2>3. /\ call' \in [Slots -> Calls] /\ call'[s] = Idle
          /\ \A t \in Slots : t # s => call'[t] = call[t]
      BY <1>1, <2>2 DEF TypeOK, Calls
    <2>4. ImportsKnown'
      BY <1>1, <2>2, <2>3, CallWritten
    <2> QED
      BY <2>2, <2>3, <2>4 DEF TypeOK, Calls
  <1>10. ASSUME NEW s \in Slots, ChapterInsert(s)
         PROVE  TypeInv'
    <2>1. PICK c \in ChapterCall \cup {Idle} :
            /\ call' = [call EXCEPT ![s] = c]
            /\ chapters' \in Seq(ChapterRow)
            /\ Len(chapters') = Len(chapters) + 1
            /\ UNCHANGED <<witness, recorded, passages, imports, overlapped>>
      BY <1>10, ChapterWritten
    <2>2. c \in Calls /\ c.pc \notin {"batch", "ready"}
      <3>1. CASE c \in ChapterCall
        BY <1>1, <3>1 DEF ChapterCall
      <3>2. CASE c = Idle
        BY <1>1, <3>2
      <3> QED
        BY <3>1, <3>2
    <2>3. /\ call' \in [Slots -> Calls] /\ call'[s] = c
          /\ \A t \in Slots : t # s => call'[t] = call[t]
      BY <1>1, <2>1, <2>2 DEF TypeOK, Calls
    <2>4. ImportsKnown'
      BY <1>1, <2>1, <2>2, <2>3, CallWritten
    <2>5. ASSUME NEW i \in DOMAIN passages
          PROVE  passages[i].chapter <= Len(chapters')
      <3>1. passages \in Seq(PassageRow)
        BY DEF TypeOK
      <3>2. passages[i] \in PassageRow
        BY <3>1
      <3>3. passages[i].chapter \in Nat
        BY <3>2 DEF PassageRow
      <3> QED
        BY <1>1, <2>1, <3>3 DEF TypeOK
    <2> QED
      BY <2>1, <2>3, <2>4, <2>5 DEF TypeOK, Calls
  <1>11. ASSUME NEW s \in Slots, ImportBatch(s)
         PROVE  TypeInv'
    BY <1>11, BatchTyped
  <1>12. ASSUME NEW s \in Slots, ImportReady(s)
         PROVE  TypeInv'
    BY <1>12, ReadyTyped
  <1>13. CASE UNCHANGED intakeVars
    BY <1>13 DEF TypeOK, ImportsKnown, Importing, Imported, Present, intakeVars, tables, history
  <1> QED
    BY <1>2, <1>3, <1>4, <1>5, <1>6, <1>7, <1>8, <1>9, <1>10, <1>11, <1>12, <1>13
       DEF IntakeNext, Arrive, Step

(* An empty project has them. *)
LEMMA InitTypes == Init => TypeInv
  <1> SUFFICES ASSUME Init PROVE TypeInv
    OBVIOUS
  <1>1. chapters \in Seq(ChapterRow) /\ passages \in Seq(PassageRow) /\ DOMAIN passages = {}
    BY DEF Init
  <1>2. TypeOK
    BY <1>1 DEF Init, TypeOK
  <1>3. ImportsKnown
    BY DEF Init, ImportsKnown, Importing, Imported, Idle
  <1> QED
    BY <1>2, <1>3 DEF TypeInv

(* Every run has them. *)
LEMMA TypeInvariant == IntakeSpec => []TypeInv
  BY InitTypes, TypeStep, PTL DEF IntakeSpec

(* Tables, requests and histories keep their shapes, and a passage always  *)
(* names a chapter that is there, or none (ImportPassages takes the last   *)
(* chapter it read before the first batch).                                *)
THEOREM IntakeTypes == IntakeSpec => []TypeOK
  BY TypeInvariant, PTL DEF TypeInv

-----------------------------------------------------------------------------
(* Imports. *)

(* A request in flight is the only one for its import, which has not been  *)
(* answered, and stands right behind the rows stored: full batches before  *)
(* another batch, the whole source before the answer.                      *)
Pending ==
    \A s \in Slots : Importing(s) =>
        LET m == imports[call[s].import] IN
        /\ ~m.done
        /\ call[s].next = Len(m.rows) + 1
        /\ call[s].pc = "batch" => \E q \in Nat : Len(m.rows) = q * BatchSize
        /\ call[s].pc = "ready" => Len(m.rows) = Len(m.source)
        /\ \A t \in Slots : Importing(t) /\ call[t].import = call[s].import => t = s

(* The rows of an import: a prefix of its source, in whole batches.        *)
Stored(k) ==
    LET m == imports[k] IN
    /\ Len(m.rows) <= Len(m.source)
    /\ (\E q \in Nat : Len(m.rows) = q * BatchSize) \/ Len(m.rows) = Len(m.source)
    /\ \A i \in DOMAIN m.rows :
         /\ m.rows[i] \in DOMAIN passages
         /\ passages[m.rows[i]].witness = m.witness
         /\ passages[m.rows[i]].ordinal = i
         /\ passages[m.rows[i]].text = m.source[i]
    /\ m.done => Len(m.rows) = Len(m.source)

ImportInv ==
    /\ TypeInv
    /\ Pending
    /\ \A k \in Imported : Stored(k)
    /\ ReadyMeansImported

(* A step that leaves imports and passages alone, and the requests that    *)
(* import; it makes no witness wait for alignment.                         *)
Quiet ==
    /\ UNCHANGED <<imports, passages>>
    /\ \A t \in Slots : Importing(t)' => Importing(t) /\ call'[t] = call[t]
    /\ \A w \in Present' : witness'[w].status = "pending_alignment" =>
                            w \in Present /\ witness[w].status = "pending_alignment"

(* Writing another request leaves imports in flight as they are. *)
LEMMA OneImporting ==
  ASSUME TypeInv, NEW s \in Slots, NEW c, c.pc \notin {"batch", "ready"},
         call' = [call EXCEPT ![s] = c]
  PROVE  \A t \in Slots : Importing(t)' => Importing(t) /\ call'[t] = call[t]
  BY DEF TypeInv, TypeOK, Importing

(* A new witness waits for its chapters and passages. *)
LEMMA NewWaits ==
  ASSUME TypeInv, NEW w \in WitnessIds, NEW base \in BOOLEAN,
         witness' = [witness EXCEPT ![w] = NewWitness(base)]
  PROVE  \A v \in Present' : witness'[v].status = "pending_alignment" =>
                             v \in Present /\ witness[v].status = "pending_alignment"
  <1>1. NewWitness(base).status # "pending_alignment"
    BY DEF NewWitness
  <1> HIDE DEF NewWitness
  <1> QED
    BY <1>1 DEF TypeInv, TypeOK, Present

(* Imports move by their own three steps only. *)
LEMMA ImportMoves ==
  ASSUME TypeInv, [IntakeNext]_intakeVars
  PROVE  \/ Quiet
         \/ \E s \in Slots, k \in ImportIds, w \in WitnessIds, source \in Sources :
              ImportCheck(s, k, w, source)
         \/ \E s \in Slots : ImportBatch(s)
         \/ \E s \in Slots : ImportReady(s)
  <1> DEFINE Same == \A v \in Present' : witness'[v].status = "pending_alignment" =>
                        v \in Present /\ witness[v].status = "pending_alignment"
  <1>1. witness' = witness => Same
    BY DEF Present
  <1>2. Idle.pc \notin {"batch", "ready"}
    BY DEF Idle
  <1>3. CASE Restart
    BY <1>1, <1>3 DEF Restart, Quiet, Importing, Idle, tables, history
  <1>4. ASSUME NEW w \in WitnessIds, CreateWitness(w)
        PROVE  Quiet
    BY <1>4, NewWaits DEF CreateWitness, Quiet, Importing, history
  <1>5. ASSUME NEW s \in Slots, Abort(s)
        PROVE  Quiet
    <2>1. call' = [call EXCEPT ![s] = Idle] /\ UNCHANGED <<witness, imports, passages>>
      BY <1>5 DEF Abort, Return, tables, history
    <2> QED
      BY <1>1, <1>2, <2>1, OneImporting DEF Quiet
  <1>6. ASSUME NEW s \in Slots, NEW w \in WitnessIds, BaseCheck(s, w)
        PROVE  Quiet
    <2> DEFINE c == [pc |-> "insertBase", witness |-> w]
    <2>1. c.pc \notin {"batch", "ready"}
      OBVIOUS
    <2>2. call' = [call EXCEPT ![s] = c] /\ UNCHANGED <<witness, imports, passages>>
      BY <1>6 DEF BaseCheck, Begin, tables
    <2> HIDE DEF c
    <2> QED
      BY <1>1, <2>1, <2>2, OneImporting DEF Quiet
  <1>7. ASSUME NEW s \in Slots, NEW w \in WitnessIds, NEW n \in 1 .. MaxTitles, ChaptersCheck(s, w, n)
        PROVE  Quiet
    <2> DEFINE c == [pc |-> "chapter", witness |-> w, ordinal |-> FirstOrdinal(w), left |-> n]
    <2>1. c.pc \notin {"batch", "ready"}
      OBVIOUS
    <2>2. call' = [call EXCEPT ![s] = c] /\ UNCHANGED <<witness, imports, passages>>
      BY <1>7 DEF ChaptersCheck, Begin, tables
    <2> HIDE DEF c
    <2> QED
      BY <1>1, <2>1, <2>2, OneImporting DEF Quiet
  <1>8. ASSUME NEW s \in Slots, BaseInsert(s)
        PROVE  Quiet
    <2>1. call[s] \in BaseCall /\ call[s].witness \in WitnessIds
      BY <1>8, CallShape DEF BaseInsert, At, BaseCall, TypeInv
    <2> DEFINE c == [call[s] EXCEPT !.pc = "recordBase"]
    <2>2. c.pc \notin {"batch", "ready"}
      BY <2>1 DEF BaseCall
    <2>3. call' = [call EXCEPT ![s] = c] /\ UNCHANGED <<imports, passages>>
      BY <1>8 DEF BaseInsert, Goto, history, TypeInv, TypeOK
    <2> HIDE DEF c
    <2>4. \A t \in Slots : Importing(t)' => Importing(t) /\ call'[t] = call[t]
      BY <2>2, <2>3, OneImporting
    <2>5. Same
      BY <1>8, <2>1, NewWaits DEF BaseInsert
    <2> QED
      BY <2>3, <2>4, <2>5 DEF Quiet
  <1>9. ASSUME NEW s \in Slots, BaseRecord(s)
        PROVE  Quiet
    <2>1. call' = [call EXCEPT ![s] = Idle] /\ UNCHANGED <<witness, imports, passages>>
      BY <1>9 DEF BaseRecord, Return, history
    <2> QED
      BY <1>1, <1>2, <2>1, OneImporting DEF Quiet
  <1>10. ASSUME NEW s \in Slots, ChapterInsert(s)
         PROVE  Quiet
    <2>1. PICK c \in ChapterCall \cup {Idle} : call' = [call EXCEPT ![s] = c]
      BY <1>10, ChapterWritten
    <2>2. UNCHANGED <<witness, imports, passages>>
      BY <1>10, ChapterWritten
    <2>3. c.pc \notin {"batch", "ready"}
      <3>1. CASE c \in ChapterCall
        BY <3>1 DEF ChapterCall
      <3> QED
        BY <1>2, <3>1
    <2> QED
      BY <1>1, <2>1, <2>2, <2>3, OneImporting DEF Quiet
  <1>11. CASE UNCHANGED intakeVars
    BY <1>1, <1>11 DEF Quiet, Importing, intakeVars, tables, history
  <1> QED
    BY <1>3, <1>4, <1>5, <1>6, <1>7, <1>8, <1>9, <1>10, <1>11 DEF IntakeNext, Arrive, Step

(* New passages move none of the stored ones. *)
LEMMA StoredStays ==
  ASSUME TypeInv, NEW k \in Imported, Stored(k), imports'[k] = imports[k],
         NEW rows \in Seq(PassageRow), passages' = passages \o rows
  PROVE  Stored(k)'
  <1>1. \A i \in DOMAIN passages : i \in DOMAIN passages' /\ passages'[i] = passages[i]
    BY DEF TypeInv, TypeOK
  <1> QED
    BY <1>1 DEF Stored

(* The start of an import keeps the prefixes. *)
LEMMA CheckKeepsImports ==
  ASSUME ImportInv, NEW s \in Slots, NEW k \in ImportIds, NEW w \in WitnessIds,
         NEW source \in Sources, ImportCheck(s, k, w, source)
  PROVE  ImportInv'
  <1> DEFINE m == [witness |-> w, source |-> source, rows |-> <<>>, done |-> FALSE]
  <1>1. TypeInv /\ TypeInv'
    BY TypeStep DEF ImportInv, IntakeNext, Arrive
  <1>2. PICK i \in 0 .. Len(chapters) :
          Begin(s, [pc |-> IF source = <<>> THEN "ready" ELSE "batch",
                    import |-> k, chapter |-> i, next |-> 1])
    BY DEF ImportCheck
  <1> DEFINE c == [pc |-> IF source = <<>> THEN "ready" ELSE "batch",
                   import |-> k, chapter |-> i, next |-> 1]
  <1>3. c.import = k /\ c.next = 1 /\ (c.pc = "ready" => source = <<>>)
    OBVIOUS
  <1>4. m.source = source /\ m.witness = w /\ m.rows = <<>> /\ m.done = FALSE /\ m \in Import
    BY DEF Import
  <1>5. /\ call' = [call EXCEPT ![s] = c] /\ imports' = [imports EXCEPT ![k] = m]
        /\ imports[k] = Absent /\ UNCHANGED <<witness, passages>>
    BY <1>2 DEF Begin, ImportCheck, tables
  <1> HIDE DEF c, m
  <1>6. /\ call'[s] = c /\ \A t \in Slots : t # s => call'[t] = call[t]
        /\ imports'[k] = m /\ \A j \in ImportIds : j # k => imports'[j] = imports[j]
    BY <1>1, <1>5 DEF TypeInv, TypeOK
  <1>7. Stored(k)'
    <2>1. Len(m.rows) = 0 /\ DOMAIN m.rows = {} /\ Len(m.source) >= 0 /\ 0 = 0 * BatchSize
      BY <1>4, SourceShape, BatchAssumption
    <2> QED
      BY <1>4, <1>6, <2>1 DEF Stored
  <1>8. \A j \in Imported' : Stored(j)'
    <2> TAKE j \in Imported'
    <2>1. CASE j = k
      BY <1>7, <2>1
    <2>2. CASE j # k
      <3>1. j \in Imported /\ imports'[j] = imports[j]
        BY <1>6, <2>2 DEF Imported
      <3>2. Stored(j)
        BY <3>1 DEF ImportInv
      <3> QED
        BY <1>5, <3>1, <3>2 DEF Stored
    <2> QED
      BY <2>1, <2>2
  <1>9. \A t \in Slots : Importing(t) => call[t].import \in ImportIds /\ call[t].import # k
    BY <1>1, <1>5, CallShape DEF TypeInv, ImportsKnown
  <1>10. Pending'
    <2> SUFFICES ASSUME NEW t \in Slots, Importing(t)'
                 PROVE  LET n == imports'[call'[t].import] IN
                        /\ ~n.done
                        /\ call'[t].next = Len(n.rows) + 1
                        /\ call'[t].pc = "batch" => \E q \in Nat : Len(n.rows) = q * BatchSize
                        /\ call'[t].pc = "ready" => Len(n.rows) = Len(n.source)
                        /\ \A u \in Slots : Importing(u)' /\ call'[u].import = call'[t].import => u = t
      BY DEF Pending
    <2>1. CASE t = s
      <3>1. imports'[call'[t].import] = m /\ call'[t] = c
        BY <1>3, <1>6, <2>1
      <3>2. Len(m.rows) = 0 /\ 0 = 0 * BatchSize /\ (source = <<>> => Len(m.source) = 0)
        BY <1>4, BatchAssumption
      <3>3. \A u \in Slots : Importing(u)' /\ call'[u].import = k => u = t
        BY <1>6, <1>9, <2>1 DEF Importing
      <3> QED
        BY <1>3, <1>4, <3>1, <3>2, <3>3
    <2>2. CASE t # s
      <3>1. call'[t] = call[t] /\ Importing(t) /\ imports'[call[t].import] = imports[call[t].import]
        BY <1>6, <1>9, <2>2 DEF Importing
      <3>2. \A u \in Slots : Importing(u)' /\ call'[u].import = call[t].import => u # s /\ Importing(u)
        BY <1>3, <1>6, <1>9, <3>1 DEF Importing
      <3> QED
        BY <1>6, <3>1, <3>2 DEF ImportInv, Pending
    <2> QED
      BY <2>1, <2>2
  <1>11. ReadyMeansImported'
    <2> SUFFICES ASSUME NEW v \in Present', witness'[v].status = "pending_alignment"
                 PROVE  \E j \in Imported' : /\ imports'[j].witness = v /\ imports'[j].done
                                             /\ Len(imports'[j].rows) = Len(imports'[j].source)
      BY DEF ReadyMeansImported
    <2>1. v \in Present /\ witness[v].status = "pending_alignment"
      BY <1>5 DEF Present
    <2>2. PICK j \in Imported : /\ imports[j].witness = v /\ imports[j].done
                                /\ Len(imports[j].rows) = Len(imports[j].source)
      BY <2>1 DEF ImportInv, ReadyMeansImported
    <2>3. j \in Imported' /\ imports'[j] = imports[j]
      BY <1>5, <1>6 DEF Imported
    <2> QED
      BY <2>2, <2>3
  <1> QED
    BY <1>1, <1>8, <1>10, <1>11 DEF ImportInv

(* What is no step of an import keeps them. *)
LEMMA QuietKeepsImports ==
  ASSUME ImportInv, TypeInv', Quiet
  PROVE  ImportInv'
  <1>1. imports' = imports /\ passages' = passages /\ Imported' = Imported
    BY DEF Quiet, Imported
  <1>2. \A t \in Slots : Importing(t)' => Importing(t) /\ call'[t] = call[t]
    BY DEF Quiet
  <1>3. Pending'
    BY <1>1, <1>2 DEF ImportInv, Pending
  <1>4. \A k \in Imported' : Stored(k)'
    BY <1>1 DEF ImportInv, Stored
  <1>5. ReadyMeansImported'
    BY <1>1 DEF ImportInv, Quiet, ReadyMeansImported
  <1> QED
    BY <1>3, <1>4, <1>5 DEF ImportInv

(* What the other tables and requests see of it: nothing. *)
LEMMA BatchLeaves ==
  ASSUME TypeInv, NEW s \in Slots, ImportBatch(s)
  PROVE  /\ UNCHANGED <<witness, recorded, chapters, overlapped>>
         /\ call'[s].pc \in {"batch", "ready"}
         /\ \A t \in Slots : t # s => call'[t] = call[t]
  <1>1. call'[s].pc \in {"batch", "ready"}
    <2>1. call'[s].pc = IF EndAt(s) < Len(ImportAt(s).source) THEN "batch" ELSE "ready"
      BY BatchEffect, Zenon
    <2> QED
      BY <2>1
  <1>2. UNCHANGED <<witness, recorded, chapters, overlapped>>
    BY BatchEffect, Zenon
  <1>3. \A t \in Slots : t # s => call'[t] = call[t]
    BY BatchEffect, Zenon
  <1> QED
    BY <1>1, <1>2, <1>3, Zenon

(* A batch goes on with the prefix: it ends at the end of the source or    *)
(* after one more full batch.                                              *)
LEMMA BatchExtends ==
  ASSUME ImportInv, NEW s \in Slots, ImportBatch(s)
  PROVE  LET all == ImportAt(s).rows \o IdsAt(s) IN
         /\ ~ImportAt(s).done
         /\ Len(all) = EndAt(s) /\ DOMAIN all = 1 .. EndAt(s)
         /\ EndAt(s) < Len(ImportAt(s).source) => \E q \in Nat : EndAt(s) = q * BatchSize
         /\ ~(EndAt(s) < Len(ImportAt(s).source)) => EndAt(s) = Len(ImportAt(s).source)
         /\ \A i \in 1 .. EndAt(s) :
              /\ all[i] \in DOMAIN passages'
              /\ passages'[all[i]].witness = ImportAt(s).witness
              /\ passages'[all[i]].ordinal = i
              /\ passages'[all[i]].text = ImportAt(s).source[i]
  <1> DEFINE c == call[s]
             m == ImportAt(s)
             end == EndAt(s)
             len == Len(m.rows)
             rows == RowsAt(s)
             ids == IdsAt(s)
             all == m.rows \o ids
  <1>1. TypeInv
    BY DEF ImportInv
  <1>2. /\ c.pc = "batch" /\ Importing(s) /\ c.import \in ImportIds
        /\ m = imports[c.import] /\ m # Absent
        /\ m.rows \in Seq(Nat) /\ len \in Nat /\ Len(m.source) \in Nat /\ c.next \in Nat
        /\ end \in Nat /\ c.next <= end /\ end <= Len(m.source)
    BY <1>1, BatchShape DEF ImportAt
  <1>3. /\ rows \in Seq(PassageRow) /\ ids \in Seq(Nat)
        /\ Len(rows) = end - c.next + 1 /\ Len(ids) = Len(rows)
    BY <1>1, BatchRows
  <1>4. \A j \in 1 .. Len(rows) :
           /\ rows[j].witness = m.witness /\ rows[j].ordinal = c.next + j - 1
           /\ rows[j].text = m.source[c.next + j - 1] /\ ids[j] = Len(passages) + j
    BY <1>1, BatchRows
  <1>5. passages' = passages \o rows /\ passages \in Seq(PassageRow) /\ Len(passages) \in Nat
    BY <1>1, BatchEffect DEF TypeInv, TypeOK
  <1>6. ~m.done /\ c.next = len + 1 /\ \E q \in Nat : len = q * BatchSize
    BY <1>2 DEF ImportInv, Pending
  <1>7. \A i \in 1 .. len : /\ m.rows[i] \in DOMAIN passages
                            /\ passages[m.rows[i]].witness = m.witness
                            /\ passages[m.rows[i]].ordinal = i
                            /\ passages[m.rows[i]].text = m.source[i]
    <2>1. Stored(c.import) /\ DOMAIN m.rows = 1 .. len
      BY <1>2 DEF ImportInv, Imported
    <2> QED
      BY <1>2, <2>1 DEF Stored
  <1>8. end = BatchEnd(m.source, c.next) /\ BatchSize \in Nat \ {0}
    BY BatchAssumption DEF EndAt
  <1>9. /\ all \in Seq(Nat) /\ Len(all) = len + Len(ids)
        /\ \A i \in 1 .. len : all[i] = m.rows[i]
        /\ \A i \in 1 .. len + Len(ids) : ~(i <= len) => all[i] = ids[i - len]
    <2> HIDE DEF m, ids
    <2>1. m.rows \in Seq(Nat) /\ ids \in Seq(Nat)
      BY <1>2, <1>3
    <2>2. \A i \in 1 .. len + Len(ids) : ~(i <= len) => all[i] = ids[i - len]
      <3> TAKE i \in 1 .. len + Len(ids)
      <3> HAVE ~(i <= len)
      <3> QED
        BY <2>1, Later
    <2> QED
      BY <2>1, <2>2, Concatenated
  <1> HIDE DEF c, m, end, len, rows, ids, all
  <1>10. end = len + Len(ids) /\ Len(rows) = end - len
    BY <1>2, <1>3, <1>6
  <1>11. Len(all) = end /\ DOMAIN all = 1 .. end
    BY <1>9, <1>10
  <1>12. ASSUME end < Len(m.source)
         PROVE  \E q \in Nat : end = q * BatchSize
    <2>1. end = len + BatchSize
      <3>1. c.next = len + 1 /\ len \in Nat /\ BatchSize \in Nat \ {0} /\ Len(m.source) \in Nat
        BY <1>2, <1>6, <1>8
      <3>2. \/ end = Len(m.source)
            \/ end = c.next + BatchSize - 1
        BY <1>8 DEF BatchEnd
      <3>3. end = c.next + BatchSize - 1
        <4>1. end # Len(m.source)
          BY <1>12, <3>1
        <4> QED
          BY <3>2, <4>1
      <3> QED
        BY <3>1, <3>3
    <2>2. PICK q \in Nat : len = q * BatchSize
      BY <1>6
    <2>3. end = (q + 1) * BatchSize /\ q + 1 \in Nat
      BY <1>8, <2>1, <2>2
    <2> QED
      BY <2>3
  <1>13. ~(end < Len(m.source)) => end = Len(m.source)
    BY <1>2
  <1>14. \A i \in 1 .. end : /\ all[i] \in DOMAIN passages'
                             /\ passages'[all[i]].witness = m.witness
                             /\ passages'[all[i]].ordinal = i
                             /\ passages'[all[i]].text = m.source[i]
    <2> TAKE i \in 1 .. end
    <2>1. CASE i <= len
      <3>1. i \in 1 .. len /\ all[i] = m.rows[i]
        BY <1>2, <1>9, <2>1
      <3>2. \A x \in DOMAIN passages : x \in DOMAIN passages' /\ passages'[x] = passages[x]
        BY <1>3, <1>5
      <3> QED
        BY <1>7, <3>1, <3>2
    <2>2. CASE ~(i <= len)
      <3> DEFINE j == i - len
      <3>1. /\ len \in Nat /\ end \in Nat /\ i \in 1 .. end
            /\ c.next = len + 1 /\ Len(rows) = end - len
        BY <1>2, <1>6, <1>10
      <3>2. j \in 1 .. Len(rows) /\ c.next + j - 1 = i
        BY <2>2, <3>1
      <3>3. all[i] = ids[j]
        BY <1>9, <1>10, <2>2
      <3> HIDE DEF j
      <3>4. /\ all[i] = Len(passages) + j /\ rows[j].witness = m.witness
            /\ rows[j].ordinal = i /\ rows[j].text = m.source[i]
        BY <1>4, <3>2, <3>3
      <3>5. passages \in Seq(PassageRow) /\ rows \in Seq(PassageRow) /\ passages' = passages \o rows
        BY <1>3, <1>5
      <3>6. Len(passages) + j \in DOMAIN passages' /\ passages'[Len(passages) + j] = rows[j]
        BY <3>2, <3>5, Appended
      <3> QED
        BY <3>4, <3>6
    <2> QED
      BY <2>1, <2>2
  <1> QED
    BY <1>6, <1>11, <1>12, <1>13, <1>14, Zenon DEF all, end, m, ids

(* A batch keeps them. *)
LEMMA BatchKeepsImports ==
  ASSUME ImportInv, NEW s \in Slots, ImportBatch(s)
  PROVE  ImportInv'
  <1> DEFINE k == call[s].import
             m == ImportAt(s)
             end == EndAt(s)
             rows == RowsAt(s)
             all == m.rows \o IdsAt(s)
  <1>1. TypeInv /\ TypeInv'
    BY BatchTyped DEF ImportInv
  <1>2. /\ k \in ImportIds /\ m = imports[k] /\ m # Absent /\ Importing(s) /\ k = call[s].import
        /\ end \in Nat /\ end <= Len(m.source) /\ rows \in Seq(PassageRow)
    BY <1>1, BatchShape, BatchRows DEF ImportAt
  <1>3. passages' = passages \o rows /\ UNCHANGED witness
    BY <1>1, BatchEffect
  <1>4. /\ \A j \in ImportIds : j # k => imports'[j] = imports[j]
        /\ imports'[k] # Absent /\ imports'[k].rows = all
        /\ imports'[k].source = m.source /\ imports'[k].witness = m.witness
        /\ imports'[k].done = m.done
    BY <1>1, BatchEffect, RowIsPresent
  <1>5. /\ \A t \in Slots : t # s => call'[t] = call[t]
        /\ call'[s].import = k /\ call'[s].next = end + 1
        /\ call'[s].pc = IF end < Len(m.source) THEN "batch" ELSE "ready"
    BY <1>1, BatchEffect
  <1>6. /\ ~m.done /\ Len(all) = end /\ DOMAIN all = 1 .. end
        /\ end < Len(m.source) => \E q \in Nat : end = q * BatchSize
        /\ ~(end < Len(m.source)) => end = Len(m.source)
    BY BatchExtends
  <1>7. \A i \in 1 .. end : /\ all[i] \in DOMAIN passages'
                            /\ passages'[all[i]].witness = m.witness
                            /\ passages'[all[i]].ordinal = i
                            /\ passages'[all[i]].text = m.source[i]
    BY BatchExtends
  <1> HIDE DEF k, m, end, rows, all
  <1>8. Imported' = Imported
    BY <1>2, <1>4 DEF Imported
  <1>9. ASSUME NEW j \in Imported'
        PROVE  Stored(j)'
    <2>1. CASE j = k
      <3>1. /\ Len(all) <= Len(m.source)
            /\ (\E q \in Nat : Len(all) = q * BatchSize) \/ Len(all) = Len(m.source)
        BY <1>2, <1>6
      <3> QED
        BY <1>4, <1>6, <1>7, <2>1, <3>1 DEF Stored
    <2>2. CASE j # k
      <3>1. j \in Imported /\ j \in ImportIds
        BY <1>8, <1>9 DEF Imported
      <3>2. Stored(j) /\ imports'[j] = imports[j]
        BY <1>4, <2>2, <3>1 DEF ImportInv
      <3> QED
        BY <1>1, <1>2, <1>3, <3>1, <3>2, StoredStays
    <2> QED
      BY <2>1, <2>2
  <1>10. \A t \in Slots : Importing(t)' => Importing(t) /\ call'[t].import = call[t].import
    <2> TAKE t \in Slots
    <2>1. CASE t = s
      BY <1>2, <1>5, <2>1
    <2>2. CASE t # s
      BY <1>5, <2>2 DEF Importing
    <2> QED
      BY <2>1, <2>2
  <1>11. Pending'
    <2> SUFFICES ASSUME NEW t \in Slots, Importing(t)'
                 PROVE  LET x == imports'[call'[t].import] IN
                        /\ ~x.done
                        /\ call'[t].next = Len(x.rows) + 1
                        /\ call'[t].pc = "batch" => \E q \in Nat : Len(x.rows) = q * BatchSize
                        /\ call'[t].pc = "ready" => Len(x.rows) = Len(x.source)
                        /\ \A u \in Slots : Importing(u)' /\ call'[u].import = call'[t].import => u = t
      BY DEF Pending
    <2>1. \A u \in Slots : Importing(u)' /\ call'[u].import = call'[t].import => u = t
      BY <1>10 DEF ImportInv, Pending
    <2>2. CASE t = s
      <3>1. call'[t].import = k /\ call'[t].next = end + 1
            /\ (call'[t].pc = "batch" => end < Len(m.source))
            /\ (call'[t].pc = "ready" => ~(end < Len(m.source)))
        BY <1>5, <2>2
      <3> QED
        BY <1>4, <1>6, <2>1, <3>1
    <2>3. CASE t # s
      <3>1. call'[t] = call[t] /\ Importing(t)
        BY <1>5, <1>10, <2>3
      <3>2. call[t].import # k
        BY <1>2, <2>3, <3>1 DEF ImportInv, Pending
      <3>3. call[t].import \in ImportIds
        BY <1>1, <3>1, CallShape DEF TypeInv
      <3>4. imports'[call[t].import] = imports[call[t].import]
        BY <1>4, <3>2, <3>3
      <3> QED
        BY <2>1, <3>1, <3>4 DEF ImportInv, Pending
    <2> QED
      BY <2>2, <2>3
  <1>12. ReadyMeansImported'
    <2> SUFFICES ASSUME NEW v \in Present', witness'[v].status = "pending_alignment"
                 PROVE  \E j \in Imported' : /\ imports'[j].witness = v /\ imports'[j].done
                                             /\ Len(imports'[j].rows) = Len(imports'[j].source)
      BY DEF ReadyMeansImported
    <2>1. v \in Present /\ witness[v].status = "pending_alignment"
      BY <1>3 DEF Present
    <2>2. PICK j \in Imported : /\ imports[j].witness = v /\ imports[j].done
                                /\ Len(imports[j].rows) = Len(imports[j].source)
      BY <2>1 DEF ImportInv, ReadyMeansImported
    <2>3. j # k /\ j \in ImportIds
      BY <1>2, <1>6, <2>2 DEF Imported
    <2>4. j \in Imported' /\ imports'[j] = imports[j]
      BY <1>4, <1>8, <2>3
    <2> QED
      BY <2>2, <2>4
  <1> QED
    BY <1>1, <1>9, <1>11, <1>12 DEF ImportInv

(* The end of an import keeps them. *)
LEMMA ReadyKeepsImports ==
  ASSUME ImportInv, NEW s \in Slots, ImportReady(s)
  PROVE  ImportInv'
  <1> DEFINE k == call[s].import
             m == imports[k]
             row == [witness[m.witness] EXCEPT !.status = "pending_alignment"]
             n == [m EXCEPT !.done = TRUE]
  <1>1. TypeInv /\ TypeInv'
    BY ReadyTyped DEF ImportInv
  <1>2. /\ Importing(s) /\ k \in ImportIds /\ m \in Import /\ m # Absent
        /\ m.witness \in WitnessIds /\ row \in WitnessRow /\ n \in Import
        /\ n.witness = m.witness /\ n.source = m.source /\ n.rows = m.rows /\ n.done
        /\ witness' = [witness EXCEPT ![m.witness] = row]
        /\ imports' = [imports EXCEPT ![k] = n]
        /\ call' = [call EXCEPT ![s] = Idle]
        /\ passages' = passages
    BY <1>1, ReadyShape
  <1>3. k \in Imported /\ Stored(k)
    BY <1>2 DEF ImportInv, Imported
  <1>4. Len(m.rows) = Len(m.source)
    BY <1>2 DEF ImportReady, At, ImportInv, Pending
  <1> HIDE DEF n, row, m, k
  <1>5. /\ \A j \in ImportIds : j # k => imports'[j] = imports[j]
        /\ imports'[k] = n
        /\ \A v \in WitnessIds : v # m.witness => witness'[v] = witness[v]
    BY <1>1, <1>2 DEF TypeInv, TypeOK
  <1>6. Imported' = Imported
    BY <1>2, <1>3, <1>5, RowIsPresent DEF Imported
  <1>7. \A t \in Slots : Importing(t)' => Importing(t) /\ call'[t] = call[t] /\ t # s
    BY <1>1, <1>2 DEF Importing, Idle, TypeInv, TypeOK
  <1>8. \A j \in Imported' : Stored(j)'
    <2> TAKE j \in Imported'
    <2>1. CASE j = k
      BY <1>2, <1>3, <1>4, <1>5, <2>1 DEF Stored, m
    <2>2. CASE j # k
      <3>1. j \in Imported /\ imports'[j] = imports[j]
        BY <1>5, <1>6, <2>2 DEF Imported
      <3> QED
        BY <1>2, <3>1 DEF ImportInv, Stored
    <2> QED
      BY <2>1, <2>2
  <1>9. Pending'
    <2> SUFFICES ASSUME NEW t \in Slots, Importing(t)'
                 PROVE  LET x == imports'[call'[t].import] IN
                        /\ ~x.done
                        /\ call'[t].next = Len(x.rows) + 1
                        /\ call'[t].pc = "batch" => \E q \in Nat : Len(x.rows) = q * BatchSize
                        /\ call'[t].pc = "ready" => Len(x.rows) = Len(x.source)
                        /\ \A u \in Slots : Importing(u)' /\ call'[u].import = call'[t].import => u = t
      BY DEF Pending
    <2>1. call'[t] = call[t] /\ Importing(t) /\ t # s
      BY <1>7
    <2>2. call[t].import # k /\ call[t].import \in ImportIds
      BY <1>1, <1>2, <2>1, CallShape DEF ImportInv, Pending, TypeInv, k
    <2>3. imports'[call[t].import] = imports[call[t].import]
      BY <1>5, <2>2
    <2> QED
      BY <1>7, <2>1, <2>3 DEF ImportInv, Pending
  <1>10. ReadyMeansImported'
    <2> SUFFICES ASSUME NEW v \in Present', witness'[v].status = "pending_alignment"
                 PROVE  \E j \in Imported' : /\ imports'[j].witness = v /\ imports'[j].done
                                             /\ Len(imports'[j].rows) = Len(imports'[j].source)
      BY DEF ReadyMeansImported
    <2>1. CASE v = m.witness
      BY <1>2, <1>3, <1>4, <1>5, <1>6, <2>1
    <2>2. CASE v # m.witness
      <3>1. v \in Present /\ witness[v].status = "pending_alignment"
        BY <1>5, <2>2 DEF Present
      <3>2. PICK j \in Imported : /\ imports[j].witness = v /\ imports[j].done
                                  /\ Len(imports[j].rows) = Len(imports[j].source)
        BY <3>1 DEF ImportInv, ReadyMeansImported
      <3>3. j \in ImportIds /\ j # k
        BY <2>2, <3>2 DEF Imported, m
      <3> QED
        BY <1>5, <1>6, <3>2, <3>3
    <2> QED
      BY <2>1, <2>2
  <1> QED
    BY <1>1, <1>8, <1>9, <1>10 DEF ImportInv

(* Every run keeps the prefixes. *)
LEMMA ImportInvariant == IntakeSpec => []ImportInv
  <1>1. Init => ImportInv
    <2> SUFFICES ASSUME Init PROVE ImportInv
      OBVIOUS
    <2>1. TypeInv
      BY InitTypes
    <2>2. Imported = {} /\ Present = {} /\ \A s \in Slots : ~Importing(s)
      BY DEF Init, Imported, Present, Importing, Idle
    <2> QED
      BY <2>1, <2>2 DEF ImportInv, Pending, ReadyMeansImported
  <1>2. ImportInv /\ [IntakeNext]_intakeVars => ImportInv'
    <2> SUFFICES ASSUME ImportInv, [IntakeNext]_intakeVars PROVE ImportInv'
      OBVIOUS
    <2>1. TypeInv /\ TypeInv'
      BY TypeStep DEF ImportInv
    <2> QED
      BY <2>1, ImportMoves, QuietKeepsImports, CheckKeepsImports, BatchKeepsImports, ReadyKeepsImports
  <1> QED
    BY <1>1, <1>2, PTL DEF IntakeSpec

(* Whatever else is imported meanwhile and wherever it is cut short, an    *)
(* import has stored its source from the beginning, in order, in whole     *)
(* batches (ImportPassages, CreatePassages).                               *)
THEOREM ImportsStorePrefixes == IntakeSpec => []ImportsArePrefixes
  <1>1. ASSUME ImportInv, NEW k \in Imported
        PROVE  LET m == imports[k] IN
               /\ Len(m.rows) <= Len(m.source)
               /\ Len(m.rows) % BatchSize = 0 \/ Len(m.rows) = Len(m.source)
               /\ \A i \in DOMAIN m.rows :
                    LET p == passages[m.rows[i]] IN
                    p.witness = m.witness /\ p.ordinal = i /\ p.text = m.source[i]
    <2> DEFINE len == Len(imports[k].rows)
    <2>1. Stored(k)
      BY <1>1 DEF ImportInv
    <2>2. (\E q \in Nat : len = q * BatchSize) => len % BatchSize = 0
      <3> HIDE DEF len
      <3> QED
        BY BatchAssumption
    <2> QED
      BY <2>1, <2>2 DEF Stored
  <1>2. ImportInv => ImportsArePrefixes
    BY <1>1 DEF ImportsArePrefixes
  <1> QED
    BY <1>2, ImportInvariant, PTL

(* A witness waits for alignment only after some import of it was answered *)
(* and has stored every passage, however many imports of it run next to    *)
(* each other (UpdateWitnessStatus at the end of ImportPassages).          *)
THEOREM WaitingMeansImported == IntakeSpec => []ReadyMeansImported
  BY ImportInvariant, PTL DEF ImportInv

-----------------------------------------------------------------------------
(* Requests one at a time. *)

Alone == ~overlapped => \A s, t \in Slots : call[s] # Idle /\ call[t] # Idle => s = t

(* A request begins alone or is noted as overlapping; every other step     *)
(* begins none.                                                            *)
LEMMA RequestMoves ==
  ASSUME TypeInv, [IntakeNext]_intakeVars
  PROVE  /\ overlapped => overlapped'
         /\ \/ overlapped' = overlapped /\ \A t \in Slots : call'[t] # Idle => call[t] # Idle
            \/ \E s \in Slots : /\ \A t \in Slots : t # s => call'[t] = call[t]
                               /\ overlapped' = (overlapped \/ InFlight # {})
  <1> DEFINE Kept == overlapped' = overlapped /\ \A t \in Slots : call'[t] # Idle => call[t] # Idle
             Begun == \E s \in Slots : /\ \A t \in Slots : t # s => call'[t] = call[t]
                                      /\ overlapped' = (overlapped \/ InFlight # {})
  <1>1. CASE Restart
    BY <1>1 DEF Restart, history
  <1>2. ASSUME NEW w \in WitnessIds, CreateWitness(w)
        PROVE  Kept
    BY <1>2 DEF CreateWitness, history
  <1>3. ASSUME NEW s \in Slots, NEW c, Begin(s, c)
        PROVE  Begun /\ (overlapped => overlapped')
    BY <1>3 DEF Begin, TypeInv, TypeOK
  <1>4. ASSUME NEW s \in Slots, Arrive(s)
        PROVE  Begun /\ (overlapped => overlapped')
    BY <1>3, <1>4, Zenon DEF Arrive, BaseCheck, ChaptersCheck, ImportCheck
  <1>5. ASSUME NEW s \in Slots, Abort(s)
        PROVE  Kept
    BY <1>5 DEF Abort, Return, history, TypeInv, TypeOK
  <1>6. ASSUME NEW s \in Slots, Step(s)
        PROVE  Kept
    <2>1. overlapped' = overlapped
      <3>1. CASE ImportBatch(s)
        BY <3>1, BatchLeaves, Zenon
      <3>2. CASE BaseInsert(s) \/ BaseRecord(s) \/ ChapterInsert(s) \/ ImportReady(s)
        BY <3>2 DEF BaseInsert, BaseRecord, ChapterInsert, ImportReady, history
      <3> QED
        BY <1>6, <3>1, <3>2, Zenon DEF Step
    <2>2. call[s] # Idle
      <3>1. call[s].pc \in {"insertBase", "recordBase", "chapter", "batch", "ready"}
        <4>1. CASE BaseInsert(s) \/ BaseRecord(s) \/ ChapterInsert(s)
          BY <4>1, Zenon DEF BaseInsert, BaseRecord, ChapterInsert, At
        <4>2. CASE ImportBatch(s)
          BY <4>2, BatchShape, Zenon
        <4>3. CASE ImportReady(s)
          BY <4>3, Zenon DEF ImportReady, At
        <4> QED
          BY <1>6, <4>1, <4>2, <4>3, Zenon DEF Step
      <3> QED
        BY <3>1 DEF Idle
    <2>3. \A t \in Slots : t # s => call'[t] = call[t]
      <3>1. CASE BaseInsert(s) \/ BaseRecord(s) \/ ImportReady(s)
        BY <3>1 DEF BaseInsert, BaseRecord, ImportReady, Goto, Return, TypeInv, TypeOK
      <3>2. CASE ChapterInsert(s)
        <4>1. PICK c \in ChapterCall \cup {Idle} : call' = [call EXCEPT ![s] = c]
          BY <3>2, ChapterWritten
        <4> QED
          BY <4>1 DEF TypeInv, TypeOK
      <3>3. CASE ImportBatch(s)
        BY <3>3, BatchLeaves, Zenon
      <3> QED
        BY <1>6, <3>1, <3>2, <3>3, Zenon DEF Step
    <2> QED
      BY <2>1, <2>2, <2>3
  <1>7. CASE UNCHANGED intakeVars
    BY <1>7 DEF intakeVars, history
  <1> QED
    BY <1>1, <1>2, <1>4, <1>5, <1>6, <1>7 DEF IntakeNext

(* While requests do not overlap, at most one is in flight. *)
LEMMA AloneStep ==
  ASSUME TypeInv, Alone, [IntakeNext]_intakeVars
  PROVE  Alone'
  BY RequestMoves DEF Alone, InFlight

-----------------------------------------------------------------------------
(* The base. *)

(* What a request creating the base knows: the row it will insert is the   *)
(* first base as long as it is alone, the one it will record is a base.    *)
BaseInv ==
    /\ TypeInv
    /\ Alone
    /\ recorded # NoWitness => recorded \in Bases
    /\ \A s \in Slots : call[s].pc = "recordBase" => call[s].witness \in Bases
    /\ ~overlapped => /\ \A v, w \in Bases : v = w
                      /\ \A s \in Slots : call[s].pc = "insertBase" => Bases = {}

(* A step that leaves the bases alone, and the requests that create one.   *)
BaseQuiet ==
    /\ Bases' = Bases /\ recorded' = recorded
    /\ \A t \in Slots : call'[t].pc \in {"insertBase", "recordBase"} => call'[t] = call[t]

(* Bases move by the three steps of CreateWitness only. *)
LEMMA OthersKeepBases ==
  ASSUME TypeInv, [IntakeNext]_intakeVars
  PROVE  \/ BaseQuiet
         \/ \E s \in Slots, w \in WitnessIds : BaseCheck(s, w)
         \/ \E s \in Slots : BaseInsert(s) \/ BaseRecord(s)
  <1>1. witness' = witness => Bases' = Bases
    BY DEF Bases, Present
  <1>2. Idle.pc \notin {"insertBase", "recordBase"}
    BY DEF Idle
  <1>3. ASSUME NEW s \in Slots, NEW c, call' = [call EXCEPT ![s] = c],
               c.pc \notin {"insertBase", "recordBase"}
        PROVE  \A t \in Slots : call'[t].pc \in {"insertBase", "recordBase"} => call'[t] = call[t]
    BY <1>3 DEF TypeInv, TypeOK
  <1>4. CASE Restart
    BY <1>1, <1>2, <1>4 DEF Restart, BaseQuiet, tables
  <1>5. ASSUME NEW w \in WitnessIds, CreateWitness(w)
        PROVE  BaseQuiet
    <2> DEFINE row == NewWitness(FALSE)
    <2>1. row.base = FALSE /\ witness[w] = Absent /\ witness' = [witness EXCEPT ![w] = row]
      BY <1>5 DEF CreateWitness, FreshWitness, NewWitness
    <2> HIDE DEF row
    <2>2. /\ w \notin Bases /\ w \notin Bases'
          /\ \A v \in WitnessIds : v # w => witness'[v] = witness[v]
      BY <2>1 DEF Bases, Present, TypeInv, TypeOK
    <2>3. Bases' = Bases
      BY <2>2 DEF Bases, Present
    <2> QED
      BY <1>5, <2>3 DEF CreateWitness, BaseQuiet
  <1>6. ASSUME NEW s \in Slots, Abort(s)
        PROVE  BaseQuiet
    BY <1>1, <1>2, <1>3, <1>6 DEF Abort, Return, BaseQuiet, tables
  <1>7. ASSUME NEW s \in Slots, NEW w \in WitnessIds, NEW n \in 1 .. MaxTitles, ChaptersCheck(s, w, n)
        PROVE  BaseQuiet
    <2> DEFINE c == [pc |-> "chapter", witness |-> w, ordinal |-> FirstOrdinal(w), left |-> n]
    <2>1. c.pc \notin {"insertBase", "recordBase"}
      OBVIOUS
    <2>2. call' = [call EXCEPT ![s] = c] /\ UNCHANGED <<witness, recorded>>
      BY <1>7 DEF ChaptersCheck, Begin, tables
    <2> HIDE DEF c
    <2> QED
      BY <1>1, <1>3, <2>1, <2>2 DEF BaseQuiet
  <1>8. ASSUME NEW s \in Slots, NEW k \in ImportIds, NEW w \in WitnessIds, NEW source \in Sources,
               ImportCheck(s, k, w, source)
        PROVE  BaseQuiet
    <2>1. PICK i \in 0 .. Len(chapters) :
            Begin(s, [pc |-> IF source = <<>> THEN "ready" ELSE "batch",
                      import |-> k, chapter |-> i, next |-> 1])
      BY <1>8 DEF ImportCheck
    <2> DEFINE c == [pc |-> IF source = <<>> THEN "ready" ELSE "batch",
                     import |-> k, chapter |-> i, next |-> 1]
    <2>2. c.pc \notin {"insertBase", "recordBase"}
      OBVIOUS
    <2>3. call' = [call EXCEPT ![s] = c] /\ UNCHANGED <<witness, recorded>>
      BY <1>8, <2>1 DEF ImportCheck, Begin, tables
    <2> HIDE DEF c
    <2> QED
      BY <1>1, <1>3, <2>2, <2>3 DEF BaseQuiet
  <1>9. ASSUME NEW s \in Slots, ChapterInsert(s)
        PROVE  BaseQuiet
    <2>1. PICK c \in ChapterCall \cup {Idle} : call' = [call EXCEPT ![s] = c]
      BY <1>9, ChapterWritten
    <2>2. UNCHANGED <<witness, recorded>>
      BY <1>9, ChapterWritten, Zenon
    <2>3. c.pc \notin {"insertBase", "recordBase"}
      <3>1. CASE c \in ChapterCall
        BY <3>1 DEF ChapterCall
      <3> QED
        BY <1>2, <3>1
    <2> QED
      BY <1>1, <1>3, <2>1, <2>2, <2>3 DEF BaseQuiet
  <1>10. ASSUME NEW s \in Slots, ImportBatch(s)
         PROVE  BaseQuiet
    <2>1. /\ witness' = witness /\ recorded' = recorded
          /\ call'[s].pc \in {"batch", "ready"}
          /\ \A t \in Slots : t # s => call'[t] = call[t]
      BY <1>10, BatchLeaves, Zenon
    <2> QED
      BY <1>1, <2>1 DEF BaseQuiet
  <1>11. ASSUME NEW s \in Slots, ImportReady(s)
         PROVE  BaseQuiet
    <2> DEFINE w == imports[call[s].import].witness
               row == [witness[w] EXCEPT !.status = "pending_alignment"]
    <2>1. /\ w \in WitnessIds /\ witness[w] \in WitnessRow /\ row \in WitnessRow
          /\ row.base = witness[w].base
          /\ witness' = [witness EXCEPT ![w] = row]
          /\ call' = [call EXCEPT ![s] = Idle] /\ recorded' = recorded
      BY <1>11, ReadyShape
    <2> HIDE DEF row, w
    <2>2. /\ witness'[w] = row /\ row # Absent /\ witness[w] # Absent
          /\ \A v \in WitnessIds : v # w => witness'[v] = witness[v]
      BY <2>1, RowIsPresent DEF TypeInv, TypeOK
    <2>3. Bases' = Bases
      BY <2>1, <2>2 DEF Bases, Present
    <2> QED
      BY <1>2, <1>3, <2>1, <2>3 DEF BaseQuiet
  <1>12. CASE UNCHANGED intakeVars
    BY <1>1, <1>12 DEF intakeVars, tables, BaseQuiet
  <1> QED
    BY <1>4, <1>5, <1>6, <1>7, <1>8, <1>9, <1>10, <1>11, <1>12 DEF IntakeNext, Arrive, Step

(* Every step keeps one base, while requests do not overlap. *)
LEMMA BaseStep ==
  ASSUME BaseInv, [IntakeNext]_intakeVars
  PROVE  BaseInv'
  <1>1. TypeInv /\ TypeInv' /\ Alone'
    BY TypeStep, AloneStep DEF BaseInv
  <1>2. overlapped => overlapped'
    BY <1>1, RequestMoves
  <1>3. CASE BaseQuiet
    BY <1>1, <1>2, <1>3 DEF BaseInv, BaseQuiet
  <1>4. ASSUME NEW s \in Slots, NEW w \in WitnessIds, BaseCheck(s, w)
        PROVE  BaseInv'
    <2> DEFINE c == [pc |-> "insertBase", witness |-> w]
    <2>1. c.pc = "insertBase"
      OBVIOUS
    <2>2. call' = [call EXCEPT ![s] = c] /\ UNCHANGED <<witness, recorded>> /\ Bases = {}
      BY <1>4 DEF BaseCheck, BaseTaken, Begin, tables
    <2> HIDE DEF c
    <2>3. call'[s] = c /\ \A t \in Slots : t # s => call'[t] = call[t]
      BY <1>1, <2>2 DEF TypeInv, TypeOK
    <2>4. Bases' = Bases
      BY <2>2 DEF Bases, Present
    <2> QED
      BY <1>1, <1>2, <2>1, <2>2, <2>3, <2>4 DEF BaseInv
  <1>5. ASSUME NEW s \in Slots, BaseInsert(s)
        PROVE  BaseInv'
    <2> DEFINE row == NewWitness(TRUE)
    <2>1. PICK w \in WitnessIds : w = call[s].witness /\ call[s] \in BaseCall
      BY <1>1, <1>5, CallShape DEF BaseInsert, At, BaseCall, TypeInv
    <2>2. row.base /\ row # Absent /\ witness' = [witness EXCEPT ![w] = row]
      BY <1>5, <2>1 DEF BaseInsert, NewWitness, Absent
    <2> DEFINE c == [call[s] EXCEPT !.pc = "recordBase"]
    <2>3. c.pc = "recordBase" /\ c.witness = w /\ call' = [call EXCEPT ![s] = c]
      BY <1>1, <1>5, <2>1 DEF BaseInsert, Goto, BaseCall, TypeInv, TypeOK
    <2> HIDE DEF row, c
    <2>4. call'[s] = c /\ \A t \in Slots : t # s => call'[t] = call[t]
      BY <1>1, <2>3 DEF TypeInv, TypeOK
    <2>5. Bases' = Bases \cup {w}
      <3>1. witness'[w] = row /\ \A v \in WitnessIds : v # w => witness'[v] = witness[v]
        BY <1>1, <2>2 DEF TypeInv, TypeOK
      <3> QED
        BY <2>2, <3>1 DEF Bases, Present
    <2>6. recorded' = recorded /\ overlapped' = overlapped
      BY <1>5 DEF BaseInsert, history
    <2>7. call[s].pc = "insertBase" /\ call[s] # Idle
      BY <1>5 DEF BaseInsert, At, Idle
    <2>8. \A t \in Slots : call'[t].pc = "recordBase" => call'[t].witness \in Bases'
      BY <2>3, <2>4, <2>5 DEF BaseInv
    <2>9. ASSUME ~overlapped'
          PROVE  /\ \A v, u \in Bases' : v = u
                 /\ \A t \in Slots : call'[t].pc # "insertBase"
      <3>1. Bases = {}
        BY <2>6, <2>7, <2>9 DEF BaseInv
      <3>2. \A t \in Slots : t # s => call[t] = Idle
        BY <2>6, <2>7, <2>9 DEF BaseInv, Alone
      <3> QED
        BY <2>3, <2>4, <2>5, <3>1, <3>2 DEF Idle
    <2> QED
      BY <1>1, <2>5, <2>6, <2>8, <2>9 DEF BaseInv
  <1>6. ASSUME NEW s \in Slots, BaseRecord(s)
        PROVE  BaseInv'
    <2>1. recorded' = call[s].witness /\ call[s].pc = "recordBase"
          /\ call' = [call EXCEPT ![s] = Idle] /\ witness' = witness
      BY <1>6 DEF BaseRecord, At, Return
    <2>2. Bases' = Bases
      BY <2>1 DEF Bases, Present
    <2>3. \A t \in Slots : call'[t] = call[t] \/ call'[t] = Idle
      BY <1>1, <2>1 DEF TypeInv, TypeOK
    <2> QED
      BY <1>1, <1>2, <2>1, <2>2, <2>3 DEF BaseInv, Idle
  <1> QED
    BY <1>1, <1>3, <1>4, <1>5, <1>6, OthersKeepBases

(* The project names one of its base witnesses, and without overlapping    *)
(* requests there is only one, wherever a crash falls between the check,   *)
(* the row and the record (CreateWitness, witnesses.go:27).                *)
THEOREM BaseIsOne == IntakeSpec => []OneBase
  <1>1. Init => BaseInv
    <2> SUFFICES ASSUME Init PROVE BaseInv
      OBVIOUS
    <2>1. Bases = {}
      BY DEF Init, Bases, Present
    <2> QED
      BY <2>1, InitTypes DEF BaseInv, Alone, Init, Idle
  <1>2. BaseInv /\ [IntakeNext]_intakeVars => BaseInv'
    BY BaseStep
  <1>3. BaseInv => OneBase
    <2> SUFFICES ASSUME BaseInv PROVE OneBase
      OBVIOUS
    <2>1. ASSUME \A v, w \in Bases : v = w
          PROVE  Cardinality(Bases) <= 1
      <3>1. CASE Bases = {}
        BY <3>1, FS_EmptySet
      <3>2. ASSUME NEW v \in Bases
            PROVE  Cardinality(Bases) <= 1
        <4>1. Bases = {v}
          BY <2>1
        <4>2. Cardinality({v}) = 1
          BY FS_Singleton
        <4> QED
          BY <4>1, <4>2
      <3> QED
        BY <3>1, <3>2
    <2> QED
      BY <2>1 DEF BaseInv, OneBase
  <1> QED
    BY <1>1, <1>2, <1>3, PTL DEF IntakeSpec

-----------------------------------------------------------------------------
(* Chapters. *)

(* The next chapter of a request that is alone carries on the numbering.   *)
ChapterInv ==
    /\ TypeInv
    /\ Alone
    /\ ~overlapped => \A s \in Slots : call[s].pc = "chapter" =>
                         call[s].ordinal = FirstOrdinal(call[s].witness)
    /\ ChaptersContiguous

(* A step that leaves the chapters alone, and the requests storing some.   *)
ChapterQuiet ==
    /\ chapters' = chapters
    /\ \A t \in Slots : call'[t].pc = "chapter" => call'[t] = call[t]

(* Chapters move by the two steps of ImportChapters only. *)
LEMMA OthersKeepChapters ==
  ASSUME TypeInv, [IntakeNext]_intakeVars
  PROVE  \/ ChapterQuiet
         \/ \E s \in Slots, w \in WitnessIds, n \in 1 .. MaxTitles : ChaptersCheck(s, w, n)
         \/ \E s \in Slots : ChapterInsert(s)
  <1>1. Idle.pc # "chapter"
    BY DEF Idle
  <1>2. ASSUME NEW s \in Slots, NEW c, call' = [call EXCEPT ![s] = c], c.pc # "chapter"
        PROVE  \A t \in Slots : call'[t].pc = "chapter" => call'[t] = call[t]
    BY <1>2 DEF TypeInv, TypeOK
  <1>3. CASE Restart
    BY <1>1, <1>3 DEF Restart, ChapterQuiet, tables
  <1>4. ASSUME NEW w \in WitnessIds, CreateWitness(w)
        PROVE  ChapterQuiet
    BY <1>4 DEF CreateWitness, ChapterQuiet
  <1>5. ASSUME NEW s \in Slots, Abort(s)
        PROVE  ChapterQuiet
    BY <1>1, <1>2, <1>5 DEF Abort, Return, ChapterQuiet, tables
  <1>6. ASSUME NEW s \in Slots, NEW w \in WitnessIds, BaseCheck(s, w)
        PROVE  ChapterQuiet
    <2> DEFINE c == [pc |-> "insertBase", witness |-> w]
    <2>1. c.pc # "chapter"
      OBVIOUS
    <2>2. call' = [call EXCEPT ![s] = c] /\ chapters' = chapters
      BY <1>6 DEF BaseCheck, Begin, tables
    <2> HIDE DEF c
    <2> QED
      BY <1>2, <2>1, <2>2 DEF ChapterQuiet
  <1>7. ASSUME NEW s \in Slots, NEW k \in ImportIds, NEW w \in WitnessIds, NEW source \in Sources,
               ImportCheck(s, k, w, source)
        PROVE  ChapterQuiet
    <2>1. PICK i \in 0 .. Len(chapters) :
            Begin(s, [pc |-> IF source = <<>> THEN "ready" ELSE "batch",
                      import |-> k, chapter |-> i, next |-> 1])
      BY <1>7 DEF ImportCheck
    <2> DEFINE c == [pc |-> IF source = <<>> THEN "ready" ELSE "batch",
                     import |-> k, chapter |-> i, next |-> 1]
    <2>2. c.pc # "chapter"
      OBVIOUS
    <2>3. call' = [call EXCEPT ![s] = c] /\ chapters' = chapters
      BY <1>7, <2>1, Zenon DEF ImportCheck, Begin, tables
    <2> HIDE DEF c
    <2> QED
      BY <1>2, <2>2, <2>3 DEF ChapterQuiet
  <1>8. ASSUME NEW s \in Slots, BaseInsert(s)
        PROVE  ChapterQuiet
    <2> DEFINE c == [call[s] EXCEPT !.pc = "recordBase"]
    <2>1. call[s] \in BaseCall
      BY <1>8, CallShape DEF BaseInsert, At, TypeInv
    <2>2. c.pc # "chapter" /\ call' = [call EXCEPT ![s] = c] /\ chapters' = chapters
      BY <1>8, <2>1 DEF BaseInsert, Goto, BaseCall, TypeInv, TypeOK
    <2> HIDE DEF c
    <2> QED
      BY <1>2, <2>2 DEF ChapterQuiet
  <1>9. ASSUME NEW s \in Slots, BaseRecord(s)
        PROVE  ChapterQuiet
    BY <1>1, <1>2, <1>9 DEF BaseRecord, Return, ChapterQuiet
  <1>10. ASSUME NEW s \in Slots, ImportBatch(s)
         PROVE  ChapterQuiet
    <2>1. /\ chapters' = chapters
          /\ call'[s].pc \in {"batch", "ready"}
          /\ \A t \in Slots : t # s => call'[t] = call[t]
      BY <1>10, BatchLeaves, Zenon
    <2> QED
      BY <2>1 DEF ChapterQuiet
  <1>11. ASSUME NEW s \in Slots, ImportReady(s)
         PROVE  ChapterQuiet
    BY <1>1, <1>2, <1>11 DEF ImportReady, Return, ChapterQuiet
  <1>12. CASE UNCHANGED intakeVars
    BY <1>12 DEF intakeVars, tables, ChapterQuiet
  <1> QED
    BY <1>3, <1>4, <1>5, <1>6, <1>7, <1>8, <1>9, <1>10, <1>11, <1>12 DEF IntakeNext, Arrive, Step

(* Every step keeps the next ordinal right, while requests do not overlap. *)
LEMMA ChapterStep ==
  ASSUME ChapterInv, [IntakeNext]_intakeVars
  PROVE  ChapterInv'
  <1>1. TypeInv /\ TypeInv' /\ Alone'
    BY TypeStep, AloneStep DEF ChapterInv
  <1>2. overlapped => overlapped'
    BY <1>1, RequestMoves
  <1>3. CASE ChapterQuiet
    <2>1. ASSUME ~overlapped', NEW t \in Slots, call'[t].pc = "chapter"
          PROVE  (call[t].ordinal = FirstOrdinal(call[t].witness))'
      <3>1. call'[t] = call[t] /\ chapters' = chapters
        BY <1>3, <2>1 DEF ChapterQuiet
      <3>2. call[t].ordinal = FirstOrdinal(call[t].witness)
        BY <1>2, <2>1, <3>1 DEF ChapterInv
      <3> QED
        BY <3>1, <3>2 DEF FirstOrdinal, ChaptersOf
    <2>2. ChaptersContiguous'
      BY <1>2, <1>3 DEF ChapterInv, ChapterQuiet, ChaptersContiguous
    <2> QED
      BY <1>1, <2>1, <2>2 DEF ChapterInv
  <1>4. ASSUME NEW s \in Slots, NEW w \in WitnessIds, NEW n \in 1 .. MaxTitles, ChaptersCheck(s, w, n)
        PROVE  ChapterInv'
    <2> DEFINE c == [pc |-> "chapter", witness |-> w, ordinal |-> FirstOrdinal(w), left |-> n]
    <2>1. c.ordinal = FirstOrdinal(w) /\ c.witness = w
      OBVIOUS
    <2>2. call' = [call EXCEPT ![s] = c] /\ chapters' = chapters
      BY <1>4 DEF ChaptersCheck, Begin, tables
    <2> HIDE DEF c
    <2>3. call'[s] = c /\ \A t \in Slots : t # s => call'[t] = call[t]
      BY <1>1, <2>2 DEF TypeInv, TypeOK
    <2>4. ASSUME ~overlapped', NEW t \in Slots, call'[t].pc = "chapter"
          PROVE  (call[t].ordinal = FirstOrdinal(call[t].witness))'
      <3>1. CASE t = s
        <4>1. call'[t].ordinal = FirstOrdinal(w) /\ call'[t].witness = w
          BY <2>1, <2>3, <3>1
        <4> QED
          BY <2>2, <4>1 DEF FirstOrdinal, ChaptersOf
      <3>2. CASE t # s
        <4>1. call[t].ordinal = FirstOrdinal(call[t].witness) /\ call'[t] = call[t]
          BY <1>2, <2>3, <2>4, <3>2 DEF ChapterInv
        <4> QED
          BY <2>2, <4>1 DEF FirstOrdinal, ChaptersOf
      <3> QED
        BY <3>1, <3>2
    <2>5. ChaptersContiguous'
      BY <1>2, <2>2 DEF ChapterInv, ChaptersContiguous
    <2> QED
      BY <1>1, <2>4, <2>5 DEF ChapterInv
  <1>5. ASSUME NEW s \in Slots, ChapterInsert(s)
        PROVE  ChapterInv'
    <2> DEFINE len == Len(chapters)
    <2>1. PICK w \in WitnessIds, o \in Nat :
            /\ call[s].pc = "chapter" /\ w = call[s].witness /\ o = call[s].ordinal
            /\ call[s] \in ChapterCall
      BY <1>1, <1>5, CallShape DEF ChapterInsert, At, ChapterCall, TypeInv
    <2> DEFINE row == [witness |-> w, ordinal |-> o]
    <2>2. chapters' = Append(chapters, row) /\ overlapped' = overlapped
      BY <1>1, <1>5, <2>1, ChapterWritten
    <2>3. row.witness = w /\ row.ordinal = o /\ row \in ChapterRow
      BY DEF ChapterRow
    <2> HIDE DEF row
    <2>4. /\ len \in Nat /\ DOMAIN chapters = 1 .. len /\ DOMAIN chapters' = 1 .. len + 1
          /\ chapters'[len + 1] = row
          /\ \A i \in 1 .. len : chapters'[i] = chapters[i]
      BY <1>1, <2>2, <2>3 DEF TypeInv, TypeOK
    <2>5. PICK c \in ChapterCall \cup {Idle} :
            /\ call' = [call EXCEPT ![s] = c]
            /\ c # Idle => c.witness = w /\ c.ordinal = o + 1
      BY <1>1, <1>5, <2>1, ChapterWritten
    <2>6. call'[s] = c /\ \A t \in Slots : t # s => call'[t] = call[t]
      BY <1>1, <2>5 DEF TypeInv, TypeOK
    <2>7. CASE overlapped
      BY <1>1, <2>2, <2>7 DEF ChapterInv, ChaptersContiguous
    <2>8. CASE ~overlapped
      <3>1. o = Cardinality(ChaptersOf(w)) + 1
        BY <2>1, <2>8 DEF ChapterInv, FirstOrdinal
      <3>2. ChaptersOf(w)' = ChaptersOf(w) \cup {len + 1} /\ len + 1 \notin ChaptersOf(w)
        BY <2>3, <2>4 DEF ChaptersOf
      <3>3. IsFiniteSet(ChaptersOf(w))
        BY <1>1, ChaptersCounted DEF TypeInv
      <3>4. Cardinality(ChaptersOf(w) \cup {len + 1}) = Cardinality(ChaptersOf(w)) + 1
        BY <3>2, <3>3, FS_AddElement
      <3>c. Cardinality(ChaptersOf(w) \cup {len + 1}) = o
        BY <3>1, <3>4
      <3>5. FirstOrdinal(w)' = o + 1
        BY <3>1, <3>2, <3>4 DEF FirstOrdinal
      <3>6. \A t \in Slots : call'[t].pc = "chapter" => t = s /\ c # Idle
        <4>1. call[s] # Idle
          BY <2>1 DEF Idle
        <4>2. \A t \in Slots : t # s => call[t] = Idle
          BY <2>8, <4>1 DEF ChapterInv, Alone
        <4>3. Idle.pc # "chapter"
          BY DEF Idle
        <4> QED
          BY <2>6, <4>2, <4>3
      <3>7. ASSUME NEW t \in Slots, call'[t].pc = "chapter"
            PROVE  (call[t].ordinal = FirstOrdinal(call[t].witness))'
        <4>1. call'[t].witness = w /\ call'[t].ordinal = o + 1
          BY <2>5, <2>6, <3>6, <3>7
        <4> QED
          BY <3>5, <4>1 DEF FirstOrdinal, ChaptersOf
      <3> DEFINE Same(i) == {j \in 1 .. i : chapters'[j].witness = chapters'[i].witness}
      <3>8. ASSUME NEW i \in 1 .. len + 1
            PROVE  chapters'[i].ordinal = Cardinality(Same(i))
        <4>1. CASE i \in 1 .. len
          <5>1. Same(i) = {j \in 1 .. i : chapters[j].witness = chapters[i].witness}
            BY <2>4, <4>1
          <5>2. chapters[i].ordinal = Cardinality({j \in 1 .. i : chapters[j].witness = chapters[i].witness})
            BY <2>4, <2>8, <4>1 DEF ChapterInv, ChaptersContiguous
          <5> HIDE DEF Same
          <5> QED
            BY <2>4, <4>1, <5>1, <5>2
        <4>2. CASE i = len + 1
          <5>1. Same(i) = ChaptersOf(w) \cup {len + 1}
            BY <2>3, <2>4, <4>2 DEF ChaptersOf
          <5>2. chapters'[i].ordinal = o
            BY <2>3, <2>4, <4>2
          <5> HIDE DEF Same
          <5> QED
            BY <3>c, <5>1, <5>2
        <4>3. i \in 1 .. len \/ i = len + 1
          <5>1. len \in Nat
            BY <2>4
          <5> HIDE DEF len
          <5> QED
            BY <3>8, <5>1
        <4> QED
          BY <4>1, <4>2, <4>3, Zenon
      <3>9. ChaptersContiguous'
        BY <2>4, <3>8 DEF ChaptersContiguous
      <3> QED
        BY <1>1, <3>7, <3>9 DEF ChapterInv
    <2> QED
      BY <2>7, <2>8
  <1> QED
    BY <1>1, <1>3, <1>4, <1>5, OthersKeepChapters

(* Without overlapping requests the chapters of a witness are numbered     *)
(* 1, 2, ... in the order they were stored, however many requests brought  *)
(* them and wherever one was cut short (ImportChapters, witnesses.go:61).  *)
THEOREM ChaptersAreContiguous == IntakeSpec => []ChaptersContiguous
  <1>1. Init => ChapterInv
    BY InitTypes DEF ChapterInv, Alone, ChaptersContiguous, Init, Idle
  <1>2. ChapterInv /\ [IntakeNext]_intakeVars => ChapterInv'
    BY ChapterStep
  <1>3. ChapterInv => ChaptersContiguous
    BY DEF ChapterInv
  <1> QED
    BY <1>1, <1>2, <1>3, PTL DEF IntakeSpec

=============================================================================
