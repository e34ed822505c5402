-------------------------- MODULE WorkbenchProofs --------------------------
(***************************************************************************)
(* Theorems about anchors and alignment runs next to imports, for any      *)
(* number of witnesses, anchors, imports and requests, and any sources.    *)
(***************************************************************************)
EXTENDS Workbench, AlignmentProofs

-----------------------------------------------------------------------------
(* Types. *)

IntakeCalls == {Idle} \cup BaseCall \cup ChapterCall \cup ImportCall
RunCall == [pc : Aligning, base : Seq(Nat), todo : SUBSET WitnessIds,
            from : WitnessIds \cup {NoWitness}, found : Seq(Proposals(Runes, Nat)),
            first : Nat, next : Nat]
WorkCalls == IntakeCalls \cup RunCall

VariantRow == [passage : Nat \cup {NoPassage}, start : Nat, end : Nat, type : VariantTypes]
ReadingRow == [variant : Nat, witness : WitnessIds \cup {NoWitness},
               passage : Nat \cup {NoPassage}, text : Seq(Runes)]

Fetching(s) == call[s].pc \in {"batch", "ready"}

(* An import in flight knows its source, and the next passage is in it. *)
SourcesKnown ==
    \A s \in Slots : Fetching(s) =>
        LET m == imports[call[s].import] IN
        /\ m # Absent /\ m.witness \in Present /\ call[s].next >= 1
        /\ call[s].pc = "batch" => call[s].next <= Len(m.source)

IntakeTyped ==
    /\ witness \in [WitnessIds -> WitnessRow \cup {Absent}]
    /\ chapters \in Seq(ChapterRow)
    /\ passages \in Seq(PassageRow)
    /\ imports \in [ImportIds -> Import \cup {Absent}]
    /\ call \in [Slots -> WorkCalls]
    /\ SourcesKnown

AlignedTyped ==
    /\ anchor \in [AnchorIds -> AnchorRow \cup {Absent}]
    /\ variants \in Seq(VariantRow)
    /\ readings \in Seq(ReadingRow)
    /\ cut \in BOOLEAN

-----------------------------------------------------------------------------
(* Steps of the intake. *)

(* Where a request stands tells what it carries. *)
LEMMA IntakeShapes ==
  ASSUME IntakeTyped, NEW s \in Slots
  PROVE  /\ call[s] \in WorkCalls
         /\ call[s].pc \in {"insertBase", "recordBase"} => call[s] \in BaseCall
         /\ call[s].pc = "chapter" => call[s] \in ChapterCall
         /\ Fetching(s) => call[s] \in ImportCall
         /\ call[s].pc \in Aligning => call[s] \in RunCall
         /\ call[s].pc \notin {"idle"} => call[s] # Idle
  <1>1. call[s] \in WorkCalls
    BY DEF IntakeTyped
  <1> QED
    BY <1>1 DEF WorkCalls, IntakeCalls, Idle, BaseCall, ChapterCall, ImportCall, RunCall,
                Fetching, Aligning

(* A step that writes one request. *)
LEMMA OneCallWritten ==
  ASSUME IntakeTyped, NEW s \in Slots, NEW c \in WorkCalls, call' = [call EXCEPT ![s] = c]
  PROVE  /\ call' \in [Slots -> WorkCalls] /\ call'[s] = c
         /\ \A t \in Slots : t # s => call'[t] = call[t]
  BY DEF IntakeTyped

(* No import starts or goes on: what the others know stays. *)
LEMMA SourcesStayKnown ==
  ASSUME IntakeTyped,
         \A k \in ImportIds : imports[k] # Absent =>
            /\ imports'[k] # Absent /\ imports'[k].source = imports[k].source
            /\ imports'[k].witness = imports[k].witness,
         Present \subseteq Present',
         \A t \in Slots : Fetching(t)' => call'[t] = call[t]
  PROVE  SourcesKnown'
  <1> SUFFICES ASSUME NEW t \in Slots, Fetching(t)'
               PROVE  LET m == imports'[call'[t].import] IN
                      /\ m # Absent /\ m.witness \in Present' /\ call'[t].next >= 1
                      /\ call'[t].pc = "batch" => call'[t].next <= Len(m.source)
    BY DEF SourcesKnown
  <1>1. call'[t] = call[t] /\ Fetching(t)
    BY DEF Fetching
  <1>2. call[t] \in ImportCall
    BY <1>1, IntakeShapes
  <1>3. call[t].import \in ImportIds
    BY <1>2 DEF ImportCall
  <1> QED
    BY <1>1, <1>3 DEF IntakeTyped, SourcesKnown

(* Rows come, none goes or changes; a request that aligns is left alone,   *)
(* and none begins.                                                        *)
TablesGrow ==
    /\ passages' \in Seq(PassageRow) /\ Len(passages) <= Len(passages')
    /\ \A i \in 1 .. Len(passages) : passages'[i] = passages[i]
    /\ Present \subseteq Present'
RunsKept ==
    \A t \in Slots : call'[t].pc \in Aligning \/ call[t].pc \in Aligning => call'[t] = call[t]

(* A witness stored is a row more. *)
LEMMA WitnessAdded ==
  ASSUME IntakeTyped, NEW w \in WitnessIds, NEW row \in WitnessRow,
         witness' = [witness EXCEPT ![w] = row], passages' = passages
  PROVE  witness' \in [WitnessIds -> WitnessRow \cup {Absent}] /\ TablesGrow
  <1>1. row # Absent
    BY DEF WitnessRow, Absent
  <1>2. witness' \in [WitnessIds -> WitnessRow \cup {Absent}] /\ Present \subseteq Present'
    BY <1>1 DEF IntakeTyped, Present
  <1>3. passages \in Seq(PassageRow) /\ Len(passages) \in Nat
    BY DEF IntakeTyped
  <1> QED
    BY <1>2, <1>3 DEF TablesGrow

(* Tables left alone grow by nothing. *)
LEMMA NothingGrows ==
  ASSUME IntakeTyped, UNCHANGED <<witness, passages>>
  PROVE  TablesGrow
  <1>1. passages \in Seq(PassageRow) /\ Len(passages) \in Nat
    BY DEF IntakeTyped
  <1> QED
    BY <1>1 DEF TablesGrow, Present

(* A request of the intake written, and no import advanced. *)
LEMMA IntakeCallWritten ==
  ASSUME IntakeTyped, NEW s \in Slots, NEW c \in IntakeCalls, call' = [call EXCEPT ![s] = c],
         c.pc \notin {"batch", "ready"}, call[s].pc \notin Aligning
  PROVE  /\ call' \in [Slots -> WorkCalls] /\ RunsKept
         /\ \A t \in Slots : Fetching(t)' => call'[t] = call[t]
  <1>1. c \in WorkCalls /\ c.pc \notin Aligning
    BY DEF WorkCalls, IntakeCalls, Idle, BaseCall, ChapterCall, ImportCall, Aligning
  <1>2. /\ call' \in [Slots -> WorkCalls] /\ call'[s] = c
        /\ \A t \in Slots : t # s => call'[t] = call[t]
    BY <1>1, OneCallWritten
  <1> QED
    BY <1>1, <1>2 DEF RunsKept, Fetching

(* Creating a base keeps the types. *)
LEMMA BaseKeepsTypes ==
  ASSUME IntakeTyped, NEW s \in Slots,
         BaseInsert(s) \/ BaseRecord(s) \/ \E w \in WitnessIds : BaseCheck(s, w)
  PROVE  IntakeTyped' /\ TablesGrow /\ RunsKept
  <1>1. ASSUME NEW w \in WitnessIds, BaseCheck(s, w)
        PROVE  IntakeTyped' /\ TablesGrow /\ RunsKept
    <2> DEFINE c == [pc |-> "insertBase", witness |-> w]
    <2>1. /\ c \in IntakeCalls /\ c.pc \notin {"batch", "ready"} /\ call[s].pc \notin Aligning
          /\ call' = [call EXCEPT ![s] = c]
          /\ UNCHANGED <<witness, chapters, passages, imports>>
      BY <1>1 DEF BaseCheck, Begin, Idle, Aligning, IntakeCalls, BaseCall, tables
    <2> HIDE DEF c
    <2>2. /\ call' \in [Slots -> WorkCalls] /\ RunsKept
          /\ \A t \in Slots : Fetching(t)' => call'[t] = call[t]
      BY <2>1, IntakeCallWritten
    <2>3. SourcesKnown'
      BY <2>1, <2>2, SourcesStayKnown DEF Present
    <2> QED
      BY <2>1, <2>2, <2>3, NothingGrows DEF IntakeTyped
  <1>2. CASE BaseInsert(s)
    <2> DEFINE c == [call[s] EXCEPT !.pc = "recordBase"]
               w == call[s].witness
    <2>1. call[s] \in BaseCall /\ call[s].pc = "insertBase"
      BY <1>2, IntakeShapes DEF BaseInsert, At
    <2>2. c \in BaseCall /\ c.pc = "recordBase" /\ w \in WitnessIds
      BY <2>1 DEF BaseCall
    <2>3. /\ call' = [call EXCEPT ![s] = c] /\ witness' = [witness EXCEPT ![w] = NewWitness(TRUE)]
          /\ UNCHANGED <<chapters, passages, imports>>
      BY <1>2 DEF BaseInsert, Goto, history, IntakeTyped
    <2> HIDE DEF c, w
    <2>4. c \in IntakeCalls /\ c.pc \notin {"batch", "ready"} /\ call[s].pc \notin Aligning
      BY <2>1, <2>2 DEF IntakeCalls, Aligning
    <2>5. /\ call' \in [Slots -> WorkCalls] /\ RunsKept
          /\ \A t \in Slots : Fetching(t)' => call'[t] = call[t]
      BY <2>3, <2>4, IntakeCallWritten
    <2>6. NewWitness(TRUE) \in WitnessRow
      BY DEF NewWitness, WitnessRow
    <2>7. witness' \in [WitnessIds -> WitnessRow \cup {Absent}] /\ TablesGrow
      BY <2>2, <2>3, <2>6, WitnessAdded
    <2>8. SourcesKnown'
      BY <2>3, <2>5, <2>7, SourcesStayKnown DEF TablesGrow
    <2> QED
      BY <2>3, <2>5, <2>7, <2>8 DEF IntakeTyped
  <1>3. CASE BaseRecord(s)
    <2>1. /\ Idle \in IntakeCalls /\ Idle.pc \notin {"batch", "ready"} /\ call[s].pc \notin Aligning
          /\ call' = [call EXCEPT ![s] = Idle]
          /\ UNCHANGED <<witness, chapters, passages, imports>>
      BY <1>3 DEF BaseRecord, At, Return, Idle, Aligning, IntakeCalls, history
    <2>2. /\ call' \in [Slots -> WorkCalls] /\ RunsKept
          /\ \A t \in Slots : Fetching(t)' => call'[t] = call[t]
      BY <2>1, IntakeCallWritten
    <2>3. SourcesKnown'
      BY <2>1, <2>2, SourcesStayKnown DEF Present
    <2> QED
      BY <2>1, <2>2, <2>3, NothingGrows DEF IntakeTyped
  <1> QED
    BY <1>1, <1>2, <1>3

(* So does creating another witness. *)
LEMMA WitnessKeepsTypes ==
  ASSUME IntakeTyped, NEW w \in WitnessIds, CreateWitness(w)
  PROVE  IntakeTyped' /\ TablesGrow /\ RunsKept
  <1>1. /\ witness' = [witness EXCEPT ![w] = NewWitness(FALSE)]
        /\ UNCHANGED <<chapters, passages, imports, call>>
    BY DEF CreateWitness, history
  <1>2. NewWitness(FALSE) \in WitnessRow
    BY DEF NewWitness, WitnessRow
  <1>3. witness' \in [WitnessIds -> WitnessRow \cup {Absent}] /\ TablesGrow
    BY <1>1, <1>2, WitnessAdded
  <1>4. SourcesKnown' /\ RunsKept
    BY <1>1, <1>3, SourcesStayKnown DEF TablesGrow, RunsKept
  <1> QED
    BY <1>1, <1>3, <1>4 DEF IntakeTyped

(* The next ordinal of a chapter is a number. *)
LEMMA ChaptersCountable ==
  ASSUME IntakeTyped, NEW w
  PROVE  FirstOrdinal(w) \in Nat
  <1>1. Len(chapters) \in Nat /\ DOMAIN chapters = 1 .. Len(chapters)
    BY DEF IntakeTyped
  <1>2. IsFiniteSet(1 .. Len(chapters))
    BY <1>1, FS_Interval
  <1>3. ChaptersOf(w) \in SUBSET (1 .. Len(chapters))
    BY <1>1 DEF ChaptersOf
  <1>4. IsFiniteSet(ChaptersOf(w))
    BY <1>2, <1>3, FS_Subset
  <1>5. Cardinality(ChaptersOf(w)) \in Nat
    BY <1>4, FS_CardinalityType
  <1> QED
    BY <1>5 DEF FirstOrdinal

(* Importing chapters keeps the types. *)
LEMMA ChaptersKeepTypes ==
  ASSUME IntakeTyped, NEW s \in Slots,
         ChapterInsert(s) \/ \E w \in WitnessIds, n \in 1 .. MaxTitles : ChaptersCheck(s, w, n)
  PROVE  IntakeTyped' /\ TablesGrow /\ RunsKept
  <1>1. ASSUME NEW c \in ChapterCall \cup {Idle}, call' = [call EXCEPT ![s] = c],
               call[s].pc \notin Aligning, chapters' \in Seq(ChapterRow),
               UNCHANGED <<witness, passages, imports>>
        PROVE  IntakeTyped' /\ TablesGrow /\ RunsKept
    <2>1. c \in IntakeCalls /\ c.pc \notin {"batch", "ready"}
      BY DEF IntakeCalls, ChapterCall, Idle
    <2>2. /\ call' \in [Slots -> WorkCalls] /\ RunsKept
          /\ \A t \in Slots : Fetching(t)' => call'[t] = call[t]
      BY <1>1, <2>1, IntakeCallWritten
    <2>3. SourcesKnown'
      BY <1>1, <2>2, SourcesStayKnown DEF Present
    <2> QED
      BY <1>1, <2>2, <2>3, NothingGrows DEF IntakeTyped
  <1>2. ASSUME NEW w \in WitnessIds, NEW n \in 1 .. MaxTitles, ChaptersCheck(s, w, n)
        PROVE  IntakeTyped' /\ TablesGrow /\ RunsKept
    <2> DEFINE c == [pc |-> "chapter", witness |-> w, ordinal |-> FirstOrdinal(w), left |-> n]
    <2>1. n \in Nat
      BY ChapterAssumption
    <2>2. c \in ChapterCall
      BY <2>1, ChaptersCountable DEF ChapterCall
    <2>3. /\ call' = [call EXCEPT ![s] = c] /\ call[s].pc \notin Aligning
          /\ UNCHANGED <<witness, passages, imports, chapters>>
      BY <1>2 DEF ChaptersCheck, Begin, tables, Idle, Aligning
    <2> HIDE DEF c
    <2> QED
      BY <1>1, <2>2, <2>3 DEF IntakeTyped
  <1>3. CASE ChapterInsert(s)
    <2> DEFINE old == call[s]
               o == old.ordinal + 1
               l == old.left - 1
               new == [old EXCEPT !.ordinal = o, !.left = l]
               row == [witness |-> old.witness, ordinal |-> old.ordinal]
    <2>1. old \in ChapterCall /\ old.pc \notin Aligning
      BY <1>3, IntakeShapes DEF ChapterInsert, At, Aligning
    <2>2. old.witness \in WitnessIds /\ old.ordinal \in Nat /\ old.left \in Nat
      BY <2>1 DEF ChapterCall
    <2>3. row \in ChapterRow /\ chapters' = Append(chapters, row)
          /\ UNCHANGED <<witness, passages, imports>>
      BY <1>3, <2>2 DEF ChapterRow, ChapterInsert, history
    <2>4. chapters' \in Seq(ChapterRow)
      <3> HIDE DEF row
      <3> QED
        BY <2>3 DEF IntakeTyped
    <2>5. CASE old.left > 1
      <3>1. o \in Nat /\ l \in Nat
        BY <2>2, <2>5
      <3>2. call' = [call EXCEPT ![s] = new]
        BY <1>3, <2>5 DEF ChapterInsert, IntakeTyped
      <3> HIDE DEF o, l, old
      <3>3. new \in ChapterCall
        BY <2>1, <3>1 DEF ChapterCall
      <3> HIDE DEF new
      <3> QED
        BY <1>1, <2>1, <2>3, <2>4, <3>2, <3>3 DEF old
    <2>6. CASE ~(old.left > 1)
      <3>1. call' = [call EXCEPT ![s] = Idle]
        BY <1>3, <2>6 DEF ChapterInsert, Return
      <3> QED
        BY <1>1, <2>1, <2>3, <2>4, <3>1
    <2> QED
      BY <2>5, <2>6
  <1> QED
    BY <1>2, <1>3

(* The start of an import keeps the types. *)
LEMMA ImportKeepsTypes ==
  ASSUME IntakeTyped, NEW s \in Slots, NEW k \in ImportIds, NEW w \in WitnessIds,
         NEW source \in Sources, ImportCheck(s, k, w, source)
  PROVE  IntakeTyped' /\ TablesGrow /\ RunsKept
  <1>1. PICK i \in 0 .. Len(chapters) :
          Begin(s, [pc |-> IF source = <<>> THEN "ready" ELSE "batch",
                    import |-> k, chapter |-> i, next |-> 1])
    BY DEF ImportCheck
  <1> DEFINE c == [pc |-> IF source = <<>> THEN "ready" ELSE "batch",
                   import |-> k, chapter |-> i, next |-> 1]
             m == [witness |-> w, source |-> source, rows |-> <<>>, done |-> FALSE]
  <1>2. i \in Nat
    BY DEF IntakeTyped
  <1>3. /\ c \in ImportCall /\ c.import = k /\ c.next = 1
        /\ c.pc = "batch" => source # <<>>
    BY <1>2 DEF ImportCall
  <1>4. m \in Import /\ m.source = source /\ m.witness = w /\ m # Absent
    BY DEF Import, Absent
  <1>5. /\ call' = [call EXCEPT ![s] = c] /\ call[s].pc \notin Aligning
        /\ imports' = [imports EXCEPT ![k] = m] /\ imports[k] = Absent /\ w \in Present
        /\ UNCHANGED <<witness, passages, chapters>>
    <2>1. call' = [call EXCEPT ![s] = c] /\ call[s] = Idle
      BY <1>1, Zenon DEF Begin
    <2>2. /\ imports' = [imports EXCEPT ![k] = m] /\ imports[k] = Absent /\ w \in Present
          /\ UNCHANGED tables
      BY Zenon DEF ImportCheck
    <2> QED
      BY <2>1, <2>2 DEF tables, Idle, Aligning
  <1>6. source \in Seq(PassageTexts) /\ (source # <<>> => 1 <= Len(source))
    <2>1. source \in Seq(PassageTexts)
      BY SourceAssumption
    <2> QED
      BY <2>1
  <1> HIDE DEF c, m
  <1>7. c \in WorkCalls /\ c.pc \notin Aligning
    BY <1>3 DEF WorkCalls, IntakeCalls, ImportCall, Aligning
  <1>8. /\ call' \in [Slots -> WorkCalls] /\ call'[s] = c
        /\ \A t \in Slots : t # s => call'[t] = call[t]
    BY <1>5, <1>7, OneCallWritten
  <1>9. /\ imports' \in [ImportIds -> Import \cup {Absent}] /\ imports'[k] = m
        /\ \A j \in ImportIds : j # k => imports'[j] = imports[j]
    BY <1>4, <1>5 DEF IntakeTyped
  <1>10. RunsKept
    BY <1>5, <1>7, <1>8 DEF RunsKept
  <1>11. SourcesKnown'
    <2> SUFFICES ASSUME NEW t \in Slots, Fetching(t)'
                 PROVE  LET n == imports'[call'[t].import] IN
                        /\ n # Absent /\ n.witness \in Present' /\ call'[t].next >= 1
                        /\ call'[t].pc = "batch" => call'[t].next <= Len(n.source)
      BY DEF SourcesKnown
    <2> \A v \in Present : v \in Present'
      BY <1>5 DEF Present
    <2>1. CASE t = s
      BY <1>3, <1>4, <1>5, <1>6, <1>8, <1>9, <2>1
    <2>2. CASE t # s
      <3>1. call'[t] = call[t] /\ Fetching(t)
        BY <1>8, <2>2 DEF Fetching
      <3>2. call[t].import \in ImportIds /\ imports[call[t].import] # Absent
        BY <3>1, IntakeShapes DEF ImportCall, IntakeTyped, SourcesKnown
      <3>3. imports'[call[t].import] = imports[call[t].import]
        BY <1>5, <1>9, <3>2
      <3> QED
        BY <3>1, <3>3 DEF IntakeTyped, SourcesKnown
    <2> QED
      BY <2>1, <2>2
  <1> QED
    BY <1>5, <1>8, <1>9, <1>10, <1>11, NothingGrows DEF IntakeTyped

(* What the next transaction of the import in a slot stores. *)
ImportAt(s) == imports[call[s].import]
EndAt(s) == BatchEnd(ImportAt(s).source, call[s].next)
RowsAt(s) ==
    [j \in 1 .. EndAt(s) - call[s].next + 1 |->
       [witness |-> ImportAt(s).witness, chapter |-> call[s].chapter,
        ordinal |-> OrdinalAt(call[s].next, call[s].next + j - 1),
        text |-> ImportAt(s).source[call[s].next + j - 1]]]
IdsAt(s) == [j \in 1 .. EndAt(s) - call[s].next + 1 |-> Len(passages) + j]

(* What a request that stores a batch carries. *)
LEMMA BatchShape ==
  ASSUME IntakeTyped, NEW s \in Slots, ImportBatch(s)
  PROVE  /\ call[s].pc = "batch"
         /\ call[s] \in ImportCall /\ call[s].import \in ImportIds /\ call[s].chapter \in Nat
         /\ ImportAt(s) \in Import /\ ImportAt(s) # Absent
         /\ ImportAt(s).witness \in WitnessIds /\ ImportAt(s).witness \in Present
         /\ ImportAt(s).source \in Seq(PassageTexts) /\ ImportAt(s).rows \in Seq(Nat)
         /\ call[s].next \in Nat /\ call[s].next >= 1
         /\ EndAt(s) \in Nat /\ call[s].next <= EndAt(s) /\ EndAt(s) <= Len(ImportAt(s).source)
  <1>1. call[s].pc = "batch" /\ Fetching(s)
    <2>1. call[s].pc = "batch"
      BY Zenon DEF ImportBatch, At
    <2> QED
      BY <2>1 DEF Fetching
  <1>2. /\ call[s] \in ImportCall /\ call[s].import \in ImportIds
        /\ call[s].chapter \in Nat /\ call[s].next \in Nat
    BY <1>1, IntakeShapes DEF ImportCall
  <1>3. /\ ImportAt(s) # Absent /\ ImportAt(s) \in Import /\ ImportAt(s).witness \in Present
        /\ call[s].next >= 1 /\ call[s].next <= Len(ImportAt(s).source)
    BY <1>1, <1>2 DEF IntakeTyped, SourcesKnown, ImportAt
  <1>4. /\ ImportAt(s).source \in Seq(PassageTexts) /\ ImportAt(s).witness \in WitnessIds
        /\ ImportAt(s).rows \in Seq(Nat)
    BY <1>3, SourceAssumption DEF Import
  <1>5. Len(ImportAt(s).source) \in Nat
    BY <1>4
  <1>6. EndAt(s) \in Nat /\ call[s].next <= EndAt(s) /\ EndAt(s) <= Len(ImportAt(s).source)
    BY <1>2, <1>3, <1>5, BatchAssumption DEF BatchEnd, EndAt
  <1> QED
    BY <1>1, <1>2, <1>3, <1>4, <1>6

(* The rows of a batch are passages. *)
LEMMA BatchRows ==
  ASSUME IntakeTyped, NEW s \in Slots, ImportBatch(s)
  PROVE  RowsAt(s) \in Seq(PassageRow) /\ IdsAt(s) \in Seq(Nat)
  <1> DEFINE next == call[s].next
             m == ImportAt(s)
             n == EndAt(s) - next + 1
             Row(i) == [witness |-> m.witness, chapter |-> call[s].chapter,
                        ordinal |-> OrdinalAt(next, i), text |-> m.source[i]]
  <1>1. /\ next \in Nat /\ next >= 1 /\ EndAt(s) \in Nat /\ EndAt(s) <= Len(m.source)
        /\ next <= EndAt(s) /\ m.witness \in WitnessIds /\ m.source \in Seq(PassageTexts)
        /\ call[s].chapter \in Nat /\ Len(m.source) \in Nat
    BY BatchShape
  <1>2. Len(passages) \in Nat
    BY DEF IntakeTyped
  <1> HIDE DEF next, m
  <1>3. n \in Nat /\ \A j \in 1 .. n : next + j - 1 \in 1 .. Len(m.source)
    BY <1>1
  <1>4. ASSUME NEW i \in 1 .. Len(m.source)
        PROVE  Row(i) \in PassageRow
    <2>1. m.source[i] \in PassageTexts /\ i \in Nat \ {0}
      BY <1>1
    <2> QED
      BY <1>1, <2>1 DEF PassageRow, OrdinalAt
  <1>5. [j \in 1 .. n |-> Row(next + j - 1)] \in Seq(PassageRow)
    <2> HIDE DEF Row, n
    <2> QED
      BY <1>3, <1>4
  <1>6. [j \in 1 .. n |-> Len(passages) + j] \in Seq(Nat)
    <2> HIDE DEF n
    <2> QED
      BY <1>2, <1>3
  <1> QED
    BY <1>5, <1>6, Zenon DEF RowsAt, IdsAt, next, m

(* Rows inserted stand behind those there are. *)
LEMMA Concatenated ==
  ASSUME NEW T, NEW a \in Seq(T), NEW b \in Seq(T)
  PROVE  /\ a \o b \in Seq(T) /\ Len(a \o b) = Len(a) + Len(b)
         /\ \A i \in 1 .. Len(a) : (a \o b)[i] = a[i]
         /\ \A i \in 1 .. Len(b) : (a \o b)[Len(a) + i] = b[i]
  OBVIOUS

(* A batch keeps the types. *)
LEMMA BatchKeepsTypes ==
  ASSUME IntakeTyped, NEW s \in Slots, ImportBatch(s)
  PROVE  IntakeTyped' /\ TablesGrow /\ RunsKept
  <1> DEFINE k == call[s].import
             m == ImportAt(s)
             all == m.rows \o IdsAt(s)
             end == EndAt(s)
             next == end + 1
             pc == IF end < Len(m.source) THEN "batch" ELSE "ready"
             n == [m EXCEPT !.rows = all]
             d == [call[s] EXCEPT !.next = next, !.pc = pc]
  <1>1. /\ call[s] \in ImportCall /\ k \in ImportIds /\ m \in Import /\ m # Absent
        /\ end \in Nat /\ next \in Nat /\ next >= 1 /\ pc \in {"batch", "ready"}
        /\ m.source \in Seq(PassageTexts) /\ call[s].pc = "batch" /\ m.witness \in Present
    BY BatchShape
  <1>2. all \in Seq(Nat)
    <2> HIDE DEF m
    <2>1. m.rows \in Seq(Nat) /\ IdsAt(s) \in Seq(Nat)
      BY <1>1, BatchRows DEF Import
    <2> QED
      BY <2>1, Concatenated, Zenon
  <1>3. /\ passages' = passages \o RowsAt(s)
        /\ imports' = [imports EXCEPT ![k] = n]
        /\ UNCHANGED <<witness, chapters>>
    <2> DEFINE rows == RowsAt(s)
    <2>1. /\ passages' = passages \o RowsAt(s)
          /\ imports' = [imports EXCEPT ![k].rows = @ \o [j \in DOMAIN rows |-> Len(passages) + j]]
      BY Zenon DEF ImportBatch, RowsAt, ImportAt, EndAt
    <2>2. [j \in DOMAIN rows |-> Len(passages) + j] = IdsAt(s)
      BY DEF RowsAt, IdsAt
    <2>3. imports' = [imports EXCEPT ![k].rows = @ \o IdsAt(s)] /\ imports[k] = m
      BY <2>1, <2>2, Zenon DEF ImportAt
    <2>4. imports' = [imports EXCEPT ![k] = n]
      BY <2>3, Zenon
    <2> QED
      BY <2>1, <2>4, Zenon DEF ImportBatch
  <1>4. call' = [call EXCEPT ![s] = d]
    BY DEF ImportBatch, More, IntakeTyped, ImportAt, EndAt
  <1>5. pc = "batch" => next <= Len(m.source)
    BY <1>1
  <1>6. RowsAt(s) \in Seq(PassageRow) /\ passages \in Seq(PassageRow)
    BY BatchRows DEF IntakeTyped
  <1> HIDE DEF k, m, all, next, pc
  <1>7. n \in Import /\ n.source = m.source /\ n.witness = m.witness /\ n # Absent
    BY <1>1, <1>2 DEF Import, Absent
  <1>8. d \in ImportCall /\ d.import = call[s].import /\ d.next = next /\ d.pc = pc
    BY <1>1 DEF ImportCall
  <1>9. call[s].pc \notin Aligning /\ d \in WorkCalls /\ d.pc \notin Aligning
    BY <1>1, <1>8 DEF Aligning, WorkCalls, IntakeCalls
  <1> HIDE DEF n, d
  <1>10. /\ imports' \in [ImportIds -> Import \cup {Absent}] /\ imports'[k] = n
         /\ \A j \in ImportIds : j # k => imports'[j] = imports[j]
    BY <1>1, <1>3, <1>7 DEF IntakeTyped
  <1>11. /\ call' \in [Slots -> WorkCalls] /\ call'[s] = d
         /\ \A t \in Slots : t # s => call'[t] = call[t]
    BY <1>4, <1>9, OneCallWritten
  <1>12. RunsKept
    BY <1>9, <1>11 DEF RunsKept
  <1>13. SourcesKnown'
    <2> SUFFICES ASSUME NEW t \in Slots, Fetching(t)'
                 PROVE  LET i == imports'[call'[t].import] IN
                        /\ i # Absent /\ i.witness \in Present' /\ call'[t].next >= 1
                        /\ call'[t].pc = "batch" => call'[t].next <= Len(i.source)
      BY DEF SourcesKnown
    <2> \A v \in Present : v \in Present'
      BY <1>3 DEF Present
    <2>1. CASE t = s
      BY <1>1, <1>5, <1>7, <1>8, <1>10, <1>11, <2>1 DEF k
    <2>2. CASE t # s
      <3>1. call'[t] = call[t] /\ Fetching(t)
        BY <1>11, <2>2 DEF Fetching
      <3>2. call[t].import \in ImportIds /\ imports[call[t].import] # Absent
        BY <3>1, IntakeShapes DEF ImportCall, IntakeTyped, SourcesKnown
      <3>3. /\ imports'[call[t].import] # Absent
            /\ imports'[call[t].import].source = imports[call[t].import].source
            /\ imports'[call[t].import].witness = imports[call[t].import].witness
        BY <1>7, <1>10, <3>2 DEF m, ImportAt, k
      <3> QED
        BY <3>1, <3>3 DEF IntakeTyped, SourcesKnown
    <2> QED
      BY <2>1, <2>2
  <1>14. TablesGrow
    <2>1. passages' \in Seq(PassageRow) /\ Len(passages') = Len(passages) + Len(RowsAt(s))
          /\ \A i \in 1 .. Len(passages) : passages'[i] = passages[i]
      BY <1>3, <1>6, Concatenated
    <2>2. Len(passages) \in Nat /\ Len(RowsAt(s)) \in Nat
      BY <1>6
    <2> QED
      BY <1>3, <2>1, <2>2 DEF TablesGrow, Present
  <1> QED
    BY <1>3, <1>10, <1>11, <1>12, <1>13, <1>14 DEF IntakeTyped, TablesGrow

(* The end of an import keeps the types. *)
LEMMA ReadyKeepsTypes ==
  ASSUME IntakeTyped, NEW s \in Slots, ImportReady(s)
  PROVE  IntakeTyped' /\ TablesGrow /\ RunsKept
  <1> DEFINE k == call[s].import
             m == imports[k]
             w == m.witness
             n == [m EXCEPT !.done = TRUE]
  <1>1. call[s].pc = "ready" /\ Fetching(s)
    BY DEF ImportReady, At, Fetching
  <1>2. k \in ImportIds /\ m \in Import /\ m # Absent /\ w \in Present
    BY <1>1, IntakeShapes DEF ImportCall, IntakeTyped, SourcesKnown
  <1>3. /\ imports' = [imports EXCEPT ![k] = n] /\ call' = [call EXCEPT ![s] = Idle]
        /\ witness' = [witness EXCEPT ![w].status = "pending_alignment"]
        /\ UNCHANGED <<chapters, passages>>
    <2>1. /\ imports' = [imports EXCEPT ![k].done = TRUE] /\ call' = [call EXCEPT ![s] = Idle]
          /\ witness' = [witness EXCEPT ![w].status = "pending_alignment"]
          /\ UNCHANGED <<chapters, passages>>
      BY Zenon DEF ImportReady, Return
    <2> QED
      BY <2>1, Zenon
  <1> HIDE DEF k, m
  <1>4. n \in Import /\ n.source = m.source /\ n.witness = w /\ n # Absent
    BY <1>2 DEF Import, Absent
  <1> HIDE DEF n, w
  <1>5. /\ imports' \in [ImportIds -> Import \cup {Absent}] /\ imports'[k] = n
        /\ \A j \in ImportIds : j # k => imports'[j] = imports[j]
    BY <1>2, <1>3, <1>4 DEF IntakeTyped
  <1>6. Idle \in IntakeCalls /\ Idle.pc \notin {"batch", "ready"} /\ call[s].pc \notin Aligning
    BY <1>1 DEF IntakeCalls, Idle, Aligning
  <1>7. /\ call' \in [Slots -> WorkCalls] /\ RunsKept
        /\ \A t \in Slots : Fetching(t)' => call'[t] = call[t]
    BY <1>3, <1>6, IntakeCallWritten
  <1>8. \A j \in ImportIds : imports[j] # Absent =>
            /\ imports'[j] # Absent /\ imports'[j].source = imports[j].source
            /\ imports'[j].witness = imports[j].witness
    BY <1>4, <1>5 DEF m, w
  <1>9. witness' \in [WitnessIds -> WitnessRow \cup {Absent}] /\ TablesGrow
    <2> DEFINE old == witness[w]
               row == [old EXCEPT !.status = "pending_alignment"]
    <2>1. witness' = [witness EXCEPT ![w] = row] /\ old \in WitnessRow /\ w \in WitnessIds
      BY <1>2, <1>3 DEF IntakeTyped, Present
    <2> HIDE DEF old
    <2>2. row \in WitnessRow
      BY <2>1 DEF WitnessRow
    <2> HIDE DEF row
    <2> QED
      BY <1>3, <2>1, <2>2, WitnessAdded
  <1>10. SourcesKnown'
    BY <1>7, <1>8, <1>9, SourcesStayKnown DEF TablesGrow
  <1> QED
    BY <1>3, <1>5, <1>7, <1>9, <1>10 DEF IntakeTyped, TablesGrow

(* Errors and restarts keep the types and end requests. *)
LEMMA OthersKeepTypes ==
  ASSUME IntakeTyped, Restart \/ \E s \in Slots : Abort(s)
  PROVE  /\ IntakeTyped' /\ UNCHANGED <<witness, passages>>
         /\ \A t \in Slots : call'[t] = call[t] \/ call'[t] = Idle
  <1>1. UNCHANGED <<witness, chapters, passages, imports>>
    BY DEF Restart, Abort, tables, history
  <1>2. /\ call' \in [Slots -> WorkCalls]
        /\ \A t \in Slots : call'[t] = call[t] \/ call'[t] = Idle
    <2>1. Idle \in WorkCalls
      BY DEF WorkCalls, IntakeCalls
    <2>2. CASE Restart
      BY <2>1, <2>2 DEF Restart
    <2>3. ASSUME NEW s \in Slots, Abort(s)
          PROVE  /\ call' \in [Slots -> WorkCalls]
                 /\ \A t \in Slots : call'[t] = call[t] \/ call'[t] = Idle
      BY <2>1, <2>3 DEF Abort, Return, IntakeTyped
    <2> QED
      BY <2>2, <2>3
  <1>3. SourcesKnown'
    <2>1. \A t \in Slots : Fetching(t)' => call'[t] = call[t]
      BY <1>2 DEF Fetching, Idle
    <2>2. Present \subseteq Present'
      BY <1>1 DEF Present
    <2> QED
      BY <1>1, <2>1, <2>2, SourcesStayKnown
  <1> QED
    BY <1>1, <1>2, <1>3 DEF IntakeTyped

(* Every step of the intake keeps the types and the runs of the alignment. *)
LEMMA ImportingKeepsTypes ==
  ASSUME IntakeTyped, Importing
  PROVE  IntakeTyped' /\ TablesGrow /\ RunsKept
  BY BaseKeepsTypes, WitnessKeepsTypes, ChaptersKeepTypes, ImportKeepsTypes, BatchKeepsTypes,
     ReadyKeepsTypes DEF Importing, Arrive, Step

-----------------------------------------------------------------------------
(* The invariant. *)

RowOf(v) == [passage |-> v.passage, start |-> v.start, end |-> v.end, type |-> v.type]

(* A place in a base passage, or none. *)
IsPlace(v) ==
    v.passage \in DOMAIN passages \cup {NoPassage} /\ v.start <= v.end

(* A reading from a passage of the witness, which it rebuilds. *)
Rebuilds(text, v, p, w) ==
    /\ p \in DOMAIN passages
    /\ passages[p].witness = w
    /\ passages[p].text = IF v.passage = NoPassage THEN text ELSE Applied(v, text)

(* A locus found for a witness. *)
IsLocus(v, w) ==
    /\ IsPlace(v)
    /\ HasReading(v) <=> v.type \in {"word", "addition"}
    /\ HasReading(v) => Rebuilds(v.alt, v, v.from, w)

Inserting(s) == call[s].pc = "readings"

(* The loci of a run have been stored side by side, in the order they were *)
(* found.                                                                  *)
LociStored(c) ==
    /\ c.first + Len(c.found) <= Len(variants)
    /\ 1 <= c.next /\ c.next <= Len(c.found) + 1
    /\ \A i \in 1 .. Len(c.found) : variants[c.first + i] = RowOf(c.found[i])

IsRun(c) ==
    /\ c.base \in Seq(DOMAIN passages)
    /\ c.todo \subseteq Present
    /\ c.pc \in {"loci", "readings"} =>
         c.from \in Present /\ \A i \in 1 .. Len(c.found) : IsLocus(c.found[i], c.from)
    /\ c.pc = "readings" => LociStored(c)

RunsSound == \A s \in Slots : call[s].pc \in Aligning => IsRun(call[s])

(* Two runs insert readings for loci of their own. *)
RunsApart ==
    \A s, t \in Slots : s # t /\ Inserting(s) /\ Inserting(t) =>
        \/ call[s].first + Len(call[s].found) <= call[t].first
        \/ call[t].first + Len(call[t].found) <= call[s].first

(* The loci a run has yet to come to. *)
IsAhead(i, s) ==
    /\ Inserting(s) /\ call[s].first + call[s].next <= i
    /\ i <= call[s].first + Len(call[s].found)

VariantsSound == \A i \in 1 .. Len(variants) : IsPlace(variants[i])

ReadingsSound ==
    \A k \in 1 .. Len(readings) :
        LET r == readings[k] IN
        /\ r.variant \in 1 .. Len(variants) /\ r.witness \in Present
        /\ variants[r.variant].type \in {"word", "addition"}
        /\ Rebuilds(r.text, variants[r.variant], r.passage, r.witness)
        /\ \A s \in Slots : ~IsAhead(r.variant, s)

OneReadingEach ==
    \A k, l \in 1 .. Len(readings) : readings[k].variant = readings[l].variant => k = l

HasOne(i) == \E k \in 1 .. Len(readings) : readings[k].variant = i

NoneLeftOut ==
    ~cut => \A i \in 1 .. Len(variants) :
              variants[i].type \in {"word", "addition"} =>
                HasOne(i) \/ \E s \in Slots : IsAhead(i, s)

WorkInv ==
    /\ IntakeTyped /\ AlignedTyped
    /\ OneCandidatePerPassage
    /\ RunsSound /\ RunsApart
    /\ VariantsSound /\ ReadingsSound /\ OneReadingEach /\ NoneLeftOut

-----------------------------------------------------------------------------
(* The passages of a witness, in their order. *)

(* What a passage stored is. *)
LEMMA PassageShape ==
  ASSUME IntakeTyped, NEW p \in DOMAIN passages
  PROVE  /\ p \in 1 .. Len(passages) /\ Len(passages) \in Nat /\ p \in Nat \ {0}
         /\ passages[p] \in PassageRow /\ passages[p].ordinal \in Nat
         /\ passages[p].text \in Seq(Runes) \ {<<>>}
         /\ p # NoPassage
  <1>1. passages \in Seq(PassageRow)
    BY DEF IntakeTyped
  <1>2. p \in 1 .. Len(passages) /\ Len(passages) \in Nat /\ p \in Nat \ {0}
        /\ passages[p] \in PassageRow
    BY <1>1
  <1>3. passages[p].ordinal \in Nat /\ passages[p].text \in PassageTexts
    BY <1>2 DEF PassageRow
  <1>4. p # NoPassage
    BY <1>2, NoPassageAssumption
  <1> QED
    BY <1>2, <1>3, <1>4, TextAssumption

(* ListPassages gives passages of the witness asked for. *)
LEMMA PassagesListed ==
  ASSUME IntakeTyped, NEW w
  PROVE  PassagesOf(w) \in Seq({i \in DOMAIN passages : passages[i].witness = w})
  <1> DEFINE ids == {i \in DOMAIN passages : passages[i].witness = w}
             Earlier(i) == {j \in ids : Before(j, i)}
             Rank(i) == Cardinality(Earlier(i))
             n == Cardinality(ids)
  <1>1. IsFiniteSet(ids) /\ n \in Nat
    <2>1. passages \in Seq(PassageRow)
      BY DEF IntakeTyped
    <2>2. Len(passages) \in Nat /\ DOMAIN passages = 1 .. Len(passages)
      BY <2>1
    <2>3. IsFiniteSet(1 .. Len(passages))
      BY <2>2, FS_Interval
    <2>4. IsFiniteSet(ids)
      BY <2>2, <2>3, FS_Subset
    <2> QED
      BY <2>4, FS_CardinalityType
  <1>2. \A i \in ids : i \in Nat /\ passages[i].ordinal \in Nat
    BY PassageShape
  <1>3. /\ \A i \in ids : i \notin Earlier(i)
        /\ \A i, j \in ids : i # j => Before(i, j) \/ Before(j, i)
        /\ \A i, j, k \in ids : Before(i, j) /\ Before(j, k) => Before(i, k)
    BY <1>2 DEF Before
  <1> HIDE DEF ids
  <1>4. \A i \in ids : IsFiniteSet(Earlier(i)) /\ Rank(i) \in 0 .. n - 1
    <2> TAKE i \in ids
    <2>1. IsFiniteSet(ids \ {i}) /\ Cardinality(ids \ {i}) = n - 1
      BY <1>1, FS_RemoveElement
    <2>2. Earlier(i) \in SUBSET (ids \ {i})
      BY <1>3
    <2> HIDE DEF Earlier, n
    <2>3. IsFiniteSet(Earlier(i)) /\ Rank(i) <= n - 1
      BY <2>1, <2>2, FS_Subset
    <2>4. Rank(i) \in Nat
      BY <2>3, FS_CardinalityType
    <2> QED
      BY <1>1, <2>3, <2>4
  <1>5. ASSUME NEW i \in ids, NEW j \in ids, Before(i, j)
        PROVE  Rank(i) < Rank(j)
    <2>1. Earlier(i) \cup {i} \in SUBSET Earlier(j) /\ i \notin Earlier(i)
      BY <1>3, <1>5
    <2> HIDE DEF Earlier, n
    <2>2. IsFiniteSet(Earlier(i) \cup {i}) /\ Cardinality(Earlier(i) \cup {i}) = Rank(i) + 1
      BY <1>4, <2>1, FS_AddElement
    <2>3. Cardinality(Earlier(i) \cup {i}) <= Rank(j)
      BY <1>4, <2>1, FS_Subset
    <2> QED
      BY <1>1, <1>4, <2>2, <2>3
  <1>6. ASSUME NEW m \in 1 .. n
        PROVE  \E i \in ids : Rank(i) = m - 1
    <2> DEFINE ranks == (0 .. n - 1) \ {m - 1}
               f == [i \in ids |-> Rank(i)]
    <2> HIDE DEF Earlier, n
    <2>1. IsFiniteSet(0 .. n - 1) /\ Cardinality(0 .. n - 1) = n
      BY <1>1, <1>6, FS_Interval
    <2>2. IsFiniteSet(ranks) /\ Cardinality(ranks) = n - 1
      <3>1. m - 1 \in 0 .. n - 1
        BY <1>1, <1>6
      <3> QED
        BY <2>1, <3>1, FS_RemoveElement
    <2>3. SUFFICES ASSUME ~\E i \in ids : Rank(i) = m - 1
                   PROVE  FALSE
      OBVIOUS
    <2>4. f \in [ids -> ranks]
      BY <1>4, <2>3
    <2>5. \A i, j \in ids : i # j => f[i] # f[j]
      BY <1>1, <1>3, <1>4, <1>5
    <2> HIDE DEF f, ranks
    <2>6. Cardinality(ranks) < Cardinality(ids)
      BY <1>1, <2>2 DEF n
    <2>7. IsFiniteSet(ids) /\ IsFiniteSet(ranks)
      BY <1>1, <2>2
    <2>8. \E i, j \in ids : i # j /\ f[i] = f[j]
      BY <2>4, <2>6, <2>7, FS_PigeonHole
    <2> QED
      BY <2>5, <2>8
  <1> DEFINE at(m) == CHOOSE i \in ids : Rank(i) = m - 1
  <1>7. \A m \in 1 .. n : at(m) \in ids
    BY <1>6
  <1>8. PassagesOf(w) = [m \in 1 .. n |-> at(m)]
    BY Zenon DEF PassagesOf, ids
  <1> HIDE DEF n, at
  <1>9. PassagesOf(w) \in Seq(ids)
    BY <1>1, <1>7, <1>8
  <1> QED
    BY <1>9 DEF ids

(* A list of passages is one of the texts that Alignment takes. *)
LEMMA ListedPassages ==
  ASSUME IntakeTyped, NEW ids \in Seq(DOMAIN passages)
  PROVE  /\ Listed(ids) \in Seq(PassageItems(Runes, DOMAIN passages))
         /\ \A q \in ToSet(Listed(ids)) :
              /\ q.id \in ToSet(ids) /\ q.id \in DOMAIN passages
              /\ q.text = passages[q.id].text
  <1> DEFINE Item(p) == [id |-> p, ordinal |-> passages[p].ordinal, text |-> passages[p].text]
  <1>1. Listed(ids) = [i \in 1 .. Len(ids) |-> Item(ids[i])] /\ Len(ids) \in Nat
    BY DEF Listed
  <1>2. \A i \in 1 .. Len(ids) : ids[i] \in DOMAIN passages /\ ids[i] \in ToSet(ids)
    BY DEF ToSet
  <1>3. ASSUME NEW p \in DOMAIN passages
        PROVE  /\ Item(p) \in PassageItems(Runes, DOMAIN passages)
               /\ Item(p).id = p /\ Item(p).text = passages[p].text
    BY PassageShape DEF PassageItems
  <1> HIDE DEF Item
  <1>4. Listed(ids) \in Seq(PassageItems(Runes, DOMAIN passages))
    BY <1>1, <1>2, <1>3
  <1>5. ASSUME NEW q \in ToSet(Listed(ids))
        PROVE  q.id \in ToSet(ids) /\ q.id \in DOMAIN passages /\ q.text = passages[q.id].text
    <2>1. PICK i \in 1 .. Len(ids) : q = Item(ids[i])
      BY <1>1 DEF ToSet
    <2> QED
      BY <1>2, <1>3, <2>1
  <1> QED
    BY <1>4, <1>5

(* They are in the table. *)
LEMMA IdsListed ==
  ASSUME IntakeTyped, NEW w
  PROVE  /\ PassagesOf(w) \in Seq(DOMAIN passages)
         /\ \A p \in ToSet(PassagesOf(w)) : passages[p].witness = w
  <1> DEFINE ids == {i \in DOMAIN passages : passages[i].witness = w}
  <1>1. PassagesOf(w) \in Seq(ids)
    BY PassagesListed
  <1>2. \A p \in ids : p \in DOMAIN passages /\ passages[p].witness = w
    OBVIOUS
  <1> HIDE DEF ids
  <1> QED
    BY <1>1, <1>2 DEF ToSet

-----------------------------------------------------------------------------
(* What tables that only grow keep. *)

(* Passages stay where they are stored. *)
LEMMA PassagesKept ==
  ASSUME IntakeTyped, TablesGrow
  PROVE  /\ DOMAIN passages \subseteq DOMAIN passages'
         /\ \A p \in DOMAIN passages : passages'[p] = passages[p]
  <1>1. passages \in Seq(PassageRow) /\ passages' \in Seq(PassageRow)
        /\ Len(passages) <= Len(passages')
        /\ \A i \in 1 .. Len(passages) : passages'[i] = passages[i]
    BY DEF IntakeTyped, TablesGrow
  <1>2. /\ DOMAIN passages = 1 .. Len(passages) /\ DOMAIN passages' = 1 .. Len(passages')
        /\ Len(passages) \in Nat /\ Len(passages') \in Nat
    BY <1>1
  <1> QED
    BY <1>1, <1>2

(* A range of a passage stays one while tables grow. *)
LEMMA PlaceKept ==
  ASSUME IntakeTyped, TablesGrow, NEW v, IsPlace(v)
  PROVE  IsPlace(v)'
  BY PassagesKept DEF IsPlace

(* A reading that rebuilds a passage goes on to. *)
LEMMA RebuildsKept ==
  ASSUME IntakeTyped, TablesGrow, NEW v, IsPlace(v), NEW text, NEW p, NEW w,
         Rebuilds(text, v, p, w)
  PROVE  Rebuilds(text, v, p, w)'
  <1>1. v.passage # NoPassage => Applied(v, text)' = Applied(v, text)
    BY PassagesKept DEF IsPlace, Applied
  <1>2. p \in DOMAIN passages' /\ passages'[p] = passages[p]
    BY PassagesKept DEF Rebuilds
  <1> QED
    BY <1>1, <1>2 DEF Rebuilds

(* A locus goes on to fit. *)
LEMMA LocusKept ==
  ASSUME IntakeTyped, TablesGrow, NEW v, NEW w, IsLocus(v, w)
  PROVE  IsLocus(v, w)'
  <1>1. IsPlace(v) /\ IsPlace(v)'
    BY PlaceKept DEF IsLocus
  <1>2. HasReading(v) => Rebuilds(v.alt, v, v.from, w)'
    BY <1>1, RebuildsKept DEF IsLocus
  <1> QED
    BY <1>1, <1>2 DEF IsLocus

VariantsGrow ==
    /\ Len(variants) <= Len(variants')
    /\ \A i \in 1 .. Len(variants) : variants'[i] = variants[i]

(* What a run of the alignment carries. *)
LEMMA RunShape ==
  ASSUME NEW c \in RunCall
  PROVE  /\ c.pc \in Aligning /\ c.base \in Seq(Nat) /\ c.todo \in SUBSET WitnessIds
         /\ c.from \in WitnessIds \cup {NoWitness}
         /\ c.found \in Seq(Proposals(Runes, Nat)) /\ Len(c.found) \in Nat
         /\ DOMAIN c.found = 1 .. Len(c.found)
         /\ \A i \in 1 .. Len(c.found) : c.found[i] \in Proposals(Runes, Nat)
         /\ c.first \in Nat /\ c.next \in Nat
  <1>1. /\ c.pc \in Aligning /\ c.base \in Seq(Nat) /\ c.todo \in SUBSET WitnessIds
        /\ c.from \in WitnessIds \cup {NoWitness}
        /\ c.found \in Seq(Proposals(Runes, Nat))
        /\ c.first \in Nat /\ c.next \in Nat
    BY DEF RunCall
  <1> QED
    BY <1>1

(* What a run knows stays true while tables grow. *)
LEMMA RunKept ==
  ASSUME IntakeTyped, AlignedTyped, TablesGrow, VariantsGrow, variants' \in Seq(VariantRow),
         NEW c \in RunCall, IsRun(c)
  PROVE  IsRun(c)'
  <1>1. c.base \in Seq(DOMAIN passages') /\ c.todo \subseteq Present'
    <2>1. c.base \in Seq(DOMAIN passages) /\ DOMAIN passages \subseteq DOMAIN passages'
      BY PassagesKept DEF IsRun
    <2>2. c.base \in Seq(DOMAIN passages')
      BY <2>1
    <2> QED
      BY <2>2 DEF TablesGrow, IsRun
  <1>2. ASSUME c.pc \in {"loci", "readings"}
        PROVE  c.from \in Present' /\ \A i \in 1 .. Len(c.found) : IsLocus(c.found[i], c.from)'
    BY <1>2, LocusKept DEF IsRun, TablesGrow
  <1>3. ASSUME c.pc = "readings"
        PROVE  LociStored(c)'
    <2>1. /\ Len(variants) \in Nat /\ Len(variants') \in Nat /\ Len(c.found) \in Nat
          /\ c.first \in Nat /\ Len(variants) <= Len(variants')
          /\ c.first + Len(c.found) <= Len(variants)
      BY <1>3, RunShape DEF AlignedTyped, VariantsGrow, IsRun, LociStored
    <2>2. ASSUME NEW i \in 1 .. Len(c.found)
          PROVE  variants'[c.first + i] = RowOf(c.found[i])
      <3>1. c.first + i \in 1 .. Len(variants)
        BY <2>1
      <3>2. variants[c.first + i] = RowOf(c.found[i])
        BY <1>3 DEF IsRun, LociStored
      <3> QED
        BY <3>1, <3>2 DEF VariantsGrow
    <2>3. c.first + Len(c.found) <= Len(variants')
      BY <2>1
    <2> QED
      BY <1>3, <2>2, <2>3 DEF IsRun, LociStored
  <1> QED
    BY <1>1, <1>2, <1>3 DEF IsRun

-----------------------------------------------------------------------------
(* Steps that leave variants and readings alone. *)

(* A step that stores no locus and no reading keeps what is known of them. *)
LEMMA SameLoci ==
  ASSUME WorkInv, IntakeTyped', TablesGrow, UNCHANGED <<variants, readings>>,
         \A t \in Slots : call'[t].pc \in Aligning =>
            call'[t] = call[t] \/ (call'[t].pc # "readings" /\ IsRun(call[t])'),
         cut => cut',
         \A t \in Slots : call'[t] # call[t] => cut' \/ \A i \in Nat : ~IsAhead(i, t)
  PROVE  /\ RunsSound' /\ RunsApart'
         /\ VariantsSound' /\ ReadingsSound' /\ OneReadingEach' /\ NoneLeftOut'
  <1>1. IntakeTyped /\ AlignedTyped /\ VariantsGrow /\ variants' \in Seq(VariantRow)
    BY DEF WorkInv, AlignedTyped, VariantsGrow
  <1>2. \A t \in Slots : Inserting(t)' => Inserting(t) /\ call'[t] = call[t]
    BY DEF Inserting, Aligning
  <1>3. RunsSound'
    <2> SUFFICES ASSUME NEW t \in Slots, call'[t].pc \in Aligning, call'[t] = call[t]
                 PROVE  IsRun(call[t])'
      BY DEF RunsSound
    <2>1. PICK c : c = call[t]
      OBVIOUS
    <2>2. c \in RunCall /\ IsRun(c)
      BY <1>1, <2>1, IntakeShapes DEF WorkInv, RunsSound
    <2>3. IsRun(c)'
      BY <1>1, <2>2, RunKept
    <2> QED
      BY <2>1, <2>3
  <1>4. RunsApart'
    BY <1>2 DEF RunsApart, WorkInv
  <1>5. VariantsSound'
    BY <1>1, PlaceKept DEF VariantsSound, WorkInv
  <1>6. \A t \in Slots : \A i : IsAhead(i, t)' => IsAhead(i, t)
    BY <1>2 DEF IsAhead
  <1>7. ReadingsSound'
    <2> SUFFICES ASSUME NEW k \in 1 .. Len(readings)
                 PROVE  LET r == readings[k] IN
                        /\ r.variant \in 1 .. Len(variants) /\ r.witness \in Present'
                        /\ variants[r.variant].type \in {"word", "addition"}
                        /\ Rebuilds(r.text, variants[r.variant], r.passage, r.witness)'
                        /\ \A s \in Slots : ~IsAhead(r.variant, s)'
      BY DEF ReadingsSound
    <2>1. PICK r, v : r = readings[k] /\ v = variants[r.variant]
      OBVIOUS
    <2>2. /\ r.variant \in 1 .. Len(variants) /\ r.witness \in Present
          /\ v.type \in {"word", "addition"}
          /\ Rebuilds(r.text, v, r.passage, r.witness)
          /\ \A s \in Slots : ~IsAhead(r.variant, s)
      BY <2>1 DEF WorkInv, ReadingsSound
    <2>3. IsPlace(v)
      BY <2>1, <2>2 DEF WorkInv, VariantsSound
    <2>4. Rebuilds(r.text, v, r.passage, r.witness)'
      BY <1>1, <2>2, <2>3, RebuildsKept
    <2> QED
      BY <1>6, <2>1, <2>2, <2>4 DEF TablesGrow
  <1>8. OneReadingEach'
    BY DEF OneReadingEach, WorkInv
  <1>9. NoneLeftOut'
    <2> SUFFICES ASSUME ~cut', NEW i \in 1 .. Len(variants),
                        variants[i].type \in {"word", "addition"},
                        ~HasOne(i)'
                 PROVE  \E t \in Slots : IsAhead(i, t)'
      BY DEF NoneLeftOut
    <2>1. PICK t \in Slots : IsAhead(i, t)
      BY DEF WorkInv, NoneLeftOut, HasOne
    <2>2. call'[t] = call[t]
      BY <2>1
    <2> QED
      BY <2>1, <2>2 DEF IsAhead, Inserting
  <1> QED
    BY <1>3, <1>4, <1>5, <1>7, <1>8, <1>9

-----------------------------------------------------------------------------
(* The steps of a run. *)

(* What Alignment makes of the passages read is a locus of the witness,    *)
(* and has its range already.                                              *)
LEMMA FoundSound ==
  ASSUME IntakeTyped, NEW base \in Seq(DOMAIN passages), NEW w,
         NEW v \in Fitting(Runes, DOMAIN passages, Listed(base), Listed(PassagesOf(w)))
  PROVE  IsLocus(v, w) /\ Located(v) = v /\ v \in Proposals(Runes, Nat)
  <1> DEFINE ws == Listed(PassagesOf(w))
             bs == Listed(base)
  <1>1. /\ v \in Proposals(Runes, DOMAIN passages)
        /\ HasReading(v) <=> v.type \in {"word", "addition"}
        /\ IsExtra(v, ws) \/ IsWithin(v, bs, ws)
    BY DEF Fitting, HasReading
  <1>2. \A p \in ToSet(ws) : /\ p.id \in DOMAIN passages /\ passages[p.id].witness = w
                             /\ p.text = passages[p.id].text
    BY IdsListed, ListedPassages
  <1>3. \A q \in ToSet(bs) : q.id \in DOMAIN passages /\ q.text = passages[q.id].text
    BY ListedPassages
  <1>4. v \in Proposals(Runes, Nat)
    <2>1. DOMAIN passages \in SUBSET Nat
      BY PassageShape
    <2> HIDE DEF ws, bs
    <2> QED
      BY <1>1, <2>1 DEF Proposals
  <1> HIDE DEF ws, bs
  <1>5. CASE IsExtra(v, ws)
    <2>1. PICK p \in ToSet(ws) : v.from = p.id /\ v.alt = p.text
      BY <1>5 DEF IsExtra
    <2>2. v.passage = NoPassage /\ v.start = 0 /\ v.end = 0
      BY <1>5 DEF IsExtra
    <2>3. IsPlace(v) /\ Rebuilds(v.alt, v, v.from, w)
      BY <1>2, <2>1, <2>2 DEF IsPlace, Rebuilds
    <2>4. Located(v) = v
      BY <2>2 DEF Located
    <2> QED
      BY <1>1, <1>4, <2>3, <2>4 DEF IsLocus
  <1>6. CASE IsWithin(v, bs, ws)
    <2>1. PICK q \in ToSet(bs) :
            /\ v.passage = q.id /\ v.start <= v.end
            /\ v.end > 0 \/ v.type = "addition"
            /\ v.alt # <<>> => \E p \in ToSet(ws) : v.from = p.id /\ Replaced(v, q.text) = p.text
      BY <1>6 DEF IsWithin
    <2>2. q.id \in DOMAIN passages /\ q.text = passages[q.id].text /\ v.passage # NoPassage
      BY <1>3, <2>1, PassageShape
    <2>3. IsPlace(v)
      BY <2>1, <2>2 DEF IsPlace
    <2>4. Located(v) = v
      <3>1. v.end \in Nat
        BY <1>4 DEF Proposals
      <3>2. ~(v.start = 0 /\ v.end = 0 /\ v.type # "addition" /\ v.passage # NoPassage)
        BY <2>1, <3>1
      <3> QED
        BY <3>2, Zenon DEF Located
    <2>5. Replaced(v, q.text) = Applied(v, v.alt)
      BY <2>1, <2>2 DEF Replaced, Applied
    <2>6. HasReading(v) => Rebuilds(v.alt, v, v.from, w)
      BY <1>2, <2>1, <2>2, <2>5 DEF HasReading, Rebuilds
    <2> QED
      BY <1>1, <1>4, <2>3, <2>4, <2>6 DEF IsLocus
  <1> QED
    BY <1>1, <1>5, <1>6

(* Writing the request of a run keeps the types. *)
LEMMA RunCallWritten ==
  ASSUME IntakeTyped, NEW s \in Slots, NEW c \in RunCall \cup {Idle},
         call' = [call EXCEPT ![s] = c], UNCHANGED <<witness, chapters, passages, imports>>
  PROVE  /\ IntakeTyped' /\ TablesGrow
         /\ call'[s] = c /\ \A t \in Slots : t # s => call'[t] = call[t]
  <1>1. c \in WorkCalls /\ c.pc \notin {"batch", "ready"}
    BY DEF WorkCalls, IntakeCalls, RunCall, Idle, Aligning
  <1>2. /\ call' \in [Slots -> WorkCalls] /\ call'[s] = c
        /\ \A t \in Slots : t # s => call'[t] = call[t]
    BY <1>1, OneCallWritten
  <1>3. \A t \in Slots : Fetching(t)' => call'[t] = call[t]
    BY <1>1, <1>2 DEF Fetching
  <1>4. SourcesKnown'
    BY <1>3, SourcesStayKnown DEF Present
  <1> QED
    BY <1>2, <1>4, NothingGrows DEF IntakeTyped

(* A run that stores nothing goes on as c, or ends. *)
LEMMA RunGoesOn ==
  ASSUME WorkInv, NEW s \in Slots, NEW c \in RunCall \cup {Idle},
         call' = [call EXCEPT ![s] = c], c # Idle => c.pc # "readings" /\ IsRun(c),
         UNCHANGED <<witness, chapters, passages, imports, aligned>>,
         \A i \in Nat : ~IsAhead(i, s)
  PROVE  WorkInv'
  <1>1. /\ IntakeTyped' /\ TablesGrow
        /\ call'[s] = c /\ \A t \in Slots : t # s => call'[t] = call[t]
    BY RunCallWritten DEF WorkInv
  <1>2. AlignedTyped' /\ OneCandidatePerPassage'
    BY DEF WorkInv, AlignedTyped, OneCandidatePerPassage, AnchorsIn, aligned
  <1>3. c # Idle => IsRun(c)'
    BY DEF IsRun, IsLocus, IsPlace, Rebuilds, Applied, Present, LociStored, aligned
  <1>4. call'[s].pc \in Aligning => call'[s].pc # "readings" /\ IsRun(call[s])'
    <2>1. c.pc \in Aligning => c # Idle
      BY DEF Idle, Aligning
    <2> QED
      BY <1>1, <1>3, <2>1
  <1>5. /\ RunsSound' /\ RunsApart'
        /\ VariantsSound' /\ ReadingsSound' /\ OneReadingEach' /\ NoneLeftOut'
    <2>1. \A t \in Slots : call'[t].pc \in Aligning =>
            call'[t] = call[t] \/ (call'[t].pc # "readings" /\ IsRun(call[t])')
      BY <1>1, <1>4
    <2>2. \A t \in Slots : call'[t] # call[t] => cut' \/ \A i \in Nat : ~IsAhead(i, t)
      BY <1>1
    <2>3. (cut => cut') /\ UNCHANGED <<variants, readings>>
      BY DEF aligned
    <2> QED
      BY <1>1, <2>1, <2>2, <2>3, SameLoci
  <1> QED
    BY <1>1, <1>2, <1>5 DEF WorkInv

(* Starting a run keeps the invariant. *)
LEMMA CheckKeeps ==
  ASSUME WorkInv, NEW s \in Slots, AlignCheck(s)
  PROVE  WorkInv'
  <1>1. PICK b \in Bases : Begin(s, [NoRun EXCEPT !.base = PassagesOf(b)])
    BY DEF AlignCheck
  <1> DEFINE c == [NoRun EXCEPT !.base = PassagesOf(b)]
  <1>2. call' = [call EXCEPT ![s] = c] /\ call[s] = Idle
    BY <1>1, Zenon DEF Begin
  <1>3. UNCHANGED <<witness, chapters, passages, imports, aligned>>
    BY DEF AlignCheck, tables
  <1>4. PassagesOf(b) \in Seq(DOMAIN passages)
    BY IdsListed DEF WorkInv
  <1>5. PassagesOf(b) \in Seq(Nat)
    <2>1. DOMAIN passages \in SUBSET Nat
      BY PassageShape DEF WorkInv
    <2> QED
      BY <1>4, <2>1
  <1>6. c \in RunCall /\ c.pc = "witnesses" /\ c.base = PassagesOf(b) /\ c.todo = {}
    <2> DEFINE base == PassagesOf(b)
    <2>1. base \in Seq(Nat) /\ <<>> \in Seq(Proposals(Runes, Nat)) /\ {} \in SUBSET WitnessIds
      BY <1>5
    <2> HIDE DEF base
    <2> DEFINE d == [NoRun EXCEPT !.base = base]
    <2>2. d \in RunCall /\ d.pc = "witnesses" /\ d.base = base /\ d.todo = {}
      BY <2>1 DEF NoRun, RunCall, Aligning
    <2> QED
      BY <2>2 DEF base
  <1> HIDE DEF c
  <1>7. IsRun(c)
    BY <1>4, <1>6 DEF IsRun
  <1>8. \A i \in Nat : ~IsAhead(i, s)
    BY <1>2 DEF IsAhead, Inserting, Idle
  <1> QED
    BY <1>2, <1>3, <1>6, <1>7, <1>8, RunGoesOn

(* Listing the witnesses keeps it. *)
LEMMA ListKeeps ==
  ASSUME WorkInv, NEW s \in Slots, AlignList(s)
  PROVE  WorkInv'
  <1>1. PICK todo \in {{}, Present \ Bases} :
          call' = [call EXCEPT ![s].pc = "pair", ![s].todo = todo]
    BY DEF AlignList
  <1> DEFINE old == call[s]
             c == [old EXCEPT !.pc = "pair", !.todo = todo]
  <1>2. old \in RunCall /\ old.pc = "witnesses" /\ IsRun(old)
    BY IntakeShapes DEF AlignList, At, WorkInv, RunsSound, Aligning
  <1>3. call' = [call EXCEPT ![s] = c]
    BY <1>1 DEF WorkInv, IntakeTyped
  <1>4. UNCHANGED <<witness, chapters, passages, imports, aligned>>
    BY DEF AlignList, tables, history
  <1>5. \A i \in Nat : ~IsAhead(i, s)
    BY <1>2 DEF IsAhead, Inserting
  <1> HIDE DEF old
  <1>6. todo \subseteq Present /\ todo \subseteq WitnessIds
    BY DEF Present
  <1>7. c \in RunCall /\ c.pc = "pair" /\ c.base = old.base /\ c.todo = todo
    BY <1>2, <1>6 DEF RunCall, Aligning
  <1> HIDE DEF c
  <1>8. IsRun(c)
    BY <1>2, <1>6, <1>7 DEF IsRun
  <1> QED
    BY <1>3, <1>4, <1>5, <1>7, <1>8, RunGoesOn

(* Aligning a witness keeps it. *)
LEMMA PairKeeps ==
  ASSUME WorkInv, NEW s \in Slots, AlignPair(s)
  PROVE  WorkInv'
  <1> DEFINE old == call[s]
             made(w) == AlignWitness(Listed(old.base), Listed(PassagesOf(w)))
  <1>1. PICK w \in old.todo :
          call' = [call EXCEPT ![s].pc = IF made(w) = <<>> THEN "pair" ELSE "loci",
                               ![s].todo = old.todo \ {w}, ![s].from = w,
                               ![s].found = [i \in DOMAIN made(w) |-> Located(made(w)[i])]]
    BY Zenon DEF AlignPair
  <1> DEFINE pc == IF made(w) = <<>> THEN "pair" ELSE "loci"
             found == [i \in DOMAIN made(w) |-> Located(made(w)[i])]
             c == [old EXCEPT !.pc = pc, !.todo = old.todo \ {w}, !.from = w, !.found = found]
             Good == Fitting(Runes, DOMAIN passages, Listed(old.base), Listed(PassagesOf(w)))
  <1>2. old \in RunCall /\ old.pc = "pair" /\ IsRun(old)
    <2>1. old.pc = "pair"
      BY Zenon DEF AlignPair, At
    <2> QED
      BY <2>1, IntakeShapes DEF WorkInv, RunsSound, Aligning
  <1>3. call' = [call EXCEPT ![s] = c]
    BY <1>1, Zenon
  <1>4. UNCHANGED <<witness, chapters, passages, imports, aligned>>
    BY Zenon DEF AlignPair, tables, history
  <1>5. \A i \in Nat : ~IsAhead(i, s)
    BY <1>2 DEF IsAhead, Inserting
  <1>6. old.base \in Seq(DOMAIN passages) /\ IntakeTyped
    BY <1>2 DEF IsRun, WorkInv
  <1>7. made(w) \in Seq(Good)
    <2>1. PassagesOf(w) \in Seq(DOMAIN passages)
      BY <1>6, IdsListed
    <2>2. /\ Listed(old.base) \in Seq(PassageItems(Runes, DOMAIN passages))
          /\ Listed(PassagesOf(w)) \in Seq(PassageItems(Runes, DOMAIN passages))
      BY <1>6, <2>1, ListedPassages
    <2> QED
      BY <2>2, LociFitWitness
  <1>8. \A v \in Good : IsLocus(v, w) /\ Located(v) = v /\ v \in Proposals(Runes, Nat)
    BY <1>6, FoundSound
  <1> HIDE DEF Good, made
  <1>9. found = made(w)
    BY <1>7, <1>8
  <1> HIDE DEF found
  <1>10. found \in Seq(Proposals(Runes, Nat)) /\ \A i \in 1 .. Len(found) : IsLocus(found[i], w)
    BY <1>7, <1>8, <1>9
  <1>11. w \in WitnessIds /\ w \in Present /\ old.todo \subseteq Present
    BY <1>2 DEF IsRun, Present
  <1> HIDE DEF old
  <1>12. pc \in {"pair", "loci"}
    OBVIOUS
  <1> HIDE DEF pc
  <1>13. /\ c \in RunCall /\ c.pc = pc /\ c.base = old.base /\ c.todo = old.todo \ {w}
         /\ c.from = w /\ c.found = found
    <2>1. old.todo \in SUBSET WitnessIds
      BY <1>2 DEF RunCall
    <2> QED
      BY <1>2, <1>10, <1>11, <1>12, <2>1 DEF RunCall, Aligning
  <1> HIDE DEF c
  <1>14. IsRun(c)
    BY <1>2, <1>10, <1>11, <1>12, <1>13 DEF IsRun
  <1> QED
    BY <1>3, <1>4, <1>5, <1>12, <1>13, <1>14, RunGoesOn

(* Going on to another witness keeps it. *)
LEMMA NextWitnessKeeps ==
  ASSUME WorkInv, NEW s \in Slots, AlignNextWitness(s)
  PROVE  WorkInv'
  <1> DEFINE old == call[s]
             c == [NoRun EXCEPT !.pc = "pair", !.base = old.base, !.todo = old.todo]
  <1>1. old \in RunCall /\ old.pc = "readings" /\ IsRun(old) /\ old.next > Len(old.found)
    BY IntakeShapes DEF AlignNextWitness, At, WorkInv, RunsSound, Aligning
  <1>2. call' = [call EXCEPT ![s] = c]
    BY DEF AlignNextWitness
  <1>3. UNCHANGED <<witness, chapters, passages, imports, aligned>>
    BY DEF AlignNextWitness, tables, history
  <1>4. old.first \in Nat /\ old.next \in Nat /\ Len(old.found) \in Nat
        /\ old.base \in Seq(Nat) /\ old.todo \in SUBSET WitnessIds
        /\ old.base \in Seq(DOMAIN passages) /\ old.todo \subseteq Present
    BY <1>1, RunShape DEF IsRun
  <1>5. \A i \in Nat : ~IsAhead(i, s)
    <2> SUFFICES ASSUME NEW i \in Nat, IsAhead(i, s) PROVE FALSE
      OBVIOUS
    <2>1. ~(old.first + old.next <= old.first + Len(old.found))
      BY <1>1, <1>4
    <2>2. old.first + old.next <= i /\ i <= old.first + Len(old.found)
      BY DEF IsAhead
    <2> QED
      BY <1>4, <2>1, <2>2
  <1> HIDE DEF old
  <1>6. c \in RunCall /\ c.pc = "pair" /\ c.base = old.base /\ c.todo = old.todo
    <2>1. <<>> \in Seq(Proposals(Runes, Nat))
      OBVIOUS
    <2> QED
      BY <1>4, <2>1 DEF NoRun, RunCall, Aligning
  <1> HIDE DEF c
  <1>7. IsRun(c)
    BY <1>4, <1>6 DEF IsRun
  <1> QED
    BY <1>2, <1>3, <1>5, <1>6, <1>7, RunGoesOn

(* The end of a run keeps it. *)
LEMMA EndKeeps ==
  ASSUME WorkInv, NEW s \in Slots, AlignEnd(s)
  PROVE  WorkInv'
  <1>1. call' = [call EXCEPT ![s] = Idle]
    BY DEF AlignEnd, Return
  <1>2. UNCHANGED <<witness, chapters, passages, imports, aligned>>
    BY DEF AlignEnd, tables, history
  <1>3. \A i \in Nat : ~IsAhead(i, s)
    BY DEF AlignEnd, At, IsAhead, Inserting
  <1> QED
    BY <1>1, <1>2, <1>3, RunGoesOn

(* The loci of a witness come behind those of all others. *)
LEMMA LociKeep ==
  ASSUME WorkInv, NEW s \in Slots, AlignLoci(s)
  PROVE  WorkInv'
  <1>1. call[s] \in RunCall /\ call[s].pc = "loci" /\ IsRun(call[s])
        /\ variants \in Seq(VariantRow) /\ IntakeTyped /\ AlignedTyped
    BY IntakeShapes DEF AlignLoci, At, WorkInv, RunsSound, Aligning, AlignedTyped
  <1>2. PICK old \in RunCall, n \in Nat, found \in Seq(Proposals(Runes, Nat)) :
          old = call[s] /\ n = Len(variants) /\ found = old.found
    <2>1. Len(variants) \in Nat
      BY <1>1
    <2>2. call[s].found \in Seq(Proposals(Runes, Nat))
      BY <1>1, RunShape
    <2> QED
      BY <1>1, <2>1, <2>2
  <1> DEFINE rows == [i \in 1 .. Len(found) |-> RowOf(found[i])]
  <1>3. /\ Len(found) \in Nat /\ DOMAIN found = 1 .. Len(found)
        /\ \A i \in 1 .. Len(found) : found[i] \in Proposals(Runes, Nat)
        /\ \A i \in 1 .. Len(found) : IsLocus(found[i], old.from)
        /\ old.base \in Seq(DOMAIN passages) /\ old.todo \subseteq Present /\ old.from \in Present
    BY <1>1, <1>2, RunShape DEF IsRun
  <1>4. UNCHANGED <<witness, chapters, passages, imports, anchor, readings, cut>>
    BY DEF AlignLoci, tables, history
  <1>5. variants' = variants \o rows
    BY <1>2, <1>3, Zenon DEF AlignLoci, RowOf
  <1>6. /\ rows \in Seq(VariantRow) /\ Len(rows) = Len(found)
        /\ \A i \in 1 .. Len(found) : rows[i] = RowOf(found[i]) /\ IsPlace(rows[i])
    <2>1. \A i \in 1 .. Len(found) : RowOf(found[i]) \in VariantRow
      BY <1>3 DEF RowOf, VariantRow, Proposals
    <2>2. \A i \in 1 .. Len(found) : IsPlace(RowOf(found[i]))
      BY <1>3 DEF IsLocus, IsPlace, RowOf
    <2> QED
      BY <1>3, <2>1, <2>2
  <1> HIDE DEF rows
  <1>7. PICK c \in RunCall :
          /\ call' = [call EXCEPT ![s] = c]
          /\ c.pc = "readings" /\ c.first = n /\ c.next = 1 /\ c.found = found
          /\ c.base = old.base /\ c.todo = old.todo /\ c.from = old.from
    <2> DEFINE c == [old EXCEPT !.pc = "readings", !.first = n, !.next = 1]
    <2>1. call' = [call EXCEPT ![s] = c]
      BY <1>2, Zenon DEF AlignLoci
    <2>2. /\ c \in RunCall
          /\ c.pc = "readings" /\ c.first = n /\ c.next = 1 /\ c.found = found
          /\ c.base = old.base /\ c.todo = old.todo /\ c.from = old.from
      BY <1>2 DEF RunCall, Aligning
    <2> HIDE DEF c
    <2> QED
      BY <2>1, <2>2
  <1>8. /\ IntakeTyped' /\ TablesGrow
        /\ call'[s] = c /\ \A t \in Slots : t # s => call'[t] = call[t]
    BY <1>1, <1>4, <1>7, RunCallWritten
  <1>9. /\ variants' \in Seq(VariantRow) /\ Len(variants') = n + Len(found)
        /\ \A i \in 1 .. n : variants'[i] = variants[i]
        /\ \A i \in 1 .. Len(found) : variants'[n + i] = RowOf(found[i])
    <2>1. /\ variants \o rows \in Seq(VariantRow)
          /\ Len(variants \o rows) = Len(variants) + Len(rows)
          /\ \A i \in 1 .. Len(variants) : (variants \o rows)[i] = variants[i]
          /\ \A i \in 1 .. Len(rows) : (variants \o rows)[Len(variants) + i] = rows[i]
      BY <1>1, <1>6, Concatenated
    <2> QED
      BY <1>2, <1>5, <1>6, <2>1
  <1>10. VariantsGrow
    BY <1>2, <1>3, <1>9 DEF VariantsGrow
  <1>11. AlignedTyped' /\ OneCandidatePerPassage'
    BY <1>1, <1>4, <1>9 DEF WorkInv, AlignedTyped, OneCandidatePerPassage, AnchorsIn
  <1>12. IsRun(c)'
    <2>1. c.base \in Seq(DOMAIN passages') /\ c.todo \subseteq Present' /\ c.from \in Present'
      BY <1>3, <1>4, <1>7 DEF Present
    <2>2. \A i \in 1 .. Len(c.found) : IsLocus(c.found[i], c.from)'
      BY <1>1, <1>3, <1>7, <1>8, LocusKept
    <2>3. LociStored(c)'
      BY <1>3, <1>7, <1>9 DEF LociStored
    <2> QED
      BY <1>7, <2>1, <2>2, <2>3 DEF IsRun
  <1>13. RunsSound'
    <2> SUFFICES ASSUME NEW t \in Slots, call'[t].pc \in Aligning
                 PROVE  IsRun(call[t])'
      BY DEF RunsSound
    <2>1. CASE t = s
      BY <1>8, <1>12, <2>1
    <2>2. CASE t # s
      <3>1. PICK d : d = call[t]
        OBVIOUS
      <3>2. d \in RunCall /\ IsRun(d) /\ call'[t] = d
        BY <1>1, <1>8, <2>2, <3>1, IntakeShapes DEF WorkInv, RunsSound
      <3>3. IsRun(d)'
        BY <1>1, <1>8, <1>9, <1>10, <3>2, RunKept
      <3> QED
        BY <3>2, <3>3
    <2> QED
      BY <2>1, <2>2
  <1>14. \A t \in Slots : Inserting(t) => t # s /\ call[t].first + Len(call[t].found) <= n
    BY <1>1, <1>2 DEF Inserting, WorkInv, RunsSound, IsRun, LociStored, Aligning
  <1>15. RunsApart'
    BY <1>7, <1>8, <1>14 DEF WorkInv, RunsApart, Inserting
  <1>16. VariantsSound'
    <2> SUFFICES ASSUME NEW i \in 1 .. n + Len(found) PROVE IsPlace(variants[i])'
      BY <1>9 DEF VariantsSound
    <2>1. CASE i \in 1 .. n
      BY <1>2, <1>4, <1>9, <2>1 DEF WorkInv, VariantsSound, IsPlace
    <2>2. CASE i \notin 1 .. n
      <3>1. i - n \in 1 .. Len(found) /\ n + (i - n) = i
        BY <1>3, <2>2
      <3>2. variants'[i] = RowOf(found[i - n])
        BY <1>9, <3>1
      <3> QED
        BY <1>4, <1>6, <3>1, <3>2 DEF IsPlace
    <2> QED
      BY <2>1, <2>2
  <1>17. ASSUME NEW i \in 1 .. n, NEW t \in Slots
         PROVE  IsAhead(i, t)' <=> IsAhead(i, t)
    <2>1. CASE t = s
      <3>1. ~IsAhead(i, s)
        BY <1>1 DEF IsAhead, Inserting
      <3>2. ~(n + 1 <= i)
        OBVIOUS
      <3> QED
        BY <1>7, <1>8, <2>1, <3>1, <3>2 DEF IsAhead
    <2>2. CASE t # s
      BY <1>8, <2>2 DEF IsAhead, Inserting
    <2> QED
      BY <2>1, <2>2
  <1>18. ReadingsSound'
    <2> SUFFICES ASSUME NEW k \in 1 .. Len(readings)
                 PROVE  LET r == readings[k] IN
                        /\ r.variant \in 1 .. n + Len(found) /\ r.witness \in Present'
                        /\ variants'[r.variant].type \in {"word", "addition"}
                        /\ Rebuilds(r.text, variants[r.variant], r.passage, r.witness)'
                        /\ \A t \in Slots : ~IsAhead(r.variant, t)'
      BY <1>4, <1>9 DEF ReadingsSound
    <2>1. PICK r, v : r = readings[k] /\ v = variants[r.variant]
      OBVIOUS
    <2>2. /\ r.variant \in 1 .. n /\ r.witness \in Present
          /\ v.type \in {"word", "addition"}
          /\ Rebuilds(r.text, v, r.passage, r.witness)
          /\ \A t \in Slots : ~IsAhead(r.variant, t)
      BY <1>2, <2>1 DEF WorkInv, ReadingsSound
    <2>3. IsPlace(v)
      BY <1>2, <2>1, <2>2 DEF WorkInv, VariantsSound
    <2>4. Rebuilds(r.text, v, r.passage, r.witness)'
      BY <1>1, <1>8, <2>2, <2>3, RebuildsKept
    <2>5. variants'[r.variant] = v /\ r.variant \in 1 .. n + Len(found)
      BY <1>3, <1>9, <2>1, <2>2
    <2> QED
      BY <1>4, <1>8, <1>17, <2>1, <2>2, <2>4, <2>5 DEF TablesGrow
  <1>19. OneReadingEach'
    BY <1>4 DEF OneReadingEach, WorkInv
  <1>20. NoneLeftOut'
    <2> SUFFICES ASSUME ~cut, NEW i \in 1 .. n + Len(found),
                        variants'[i].type \in {"word", "addition"},
                        ~HasOne(i)'
                 PROVE  \E t \in Slots : IsAhead(i, t)'
      BY <1>4, <1>9 DEF NoneLeftOut
    <2>1. CASE i \in 1 .. n
      <3>1. PICK t \in Slots : IsAhead(i, t)
        BY <1>2, <1>4, <1>9, <2>1 DEF WorkInv, NoneLeftOut, HasOne
      <3> QED
        BY <1>17, <2>1, <3>1
    <2>2. CASE i \notin 1 .. n
      <3>1. n + 1 <= i /\ i <= n + Len(found)
        BY <1>3, <2>2
      <3> QED
        BY <1>7, <1>8, <3>1 DEF IsAhead, Inserting
    <2> QED
      BY <2>1, <2>2
  <1> QED
    BY <1>8, <1>11, <1>13, <1>15, <1>16, <1>18, <1>19, <1>20 DEF WorkInv

(* A run comes to its next locus: the reading of the locus, if it has one, *)
(* is inserted for it and for no other.                                    *)
LEMMA ReadingKeeps ==
  ASSUME WorkInv, NEW s \in Slots, AlignReading(s)
  PROVE  WorkInv'
  <1>1. call[s] \in RunCall /\ call[s].pc = "readings" /\ IsRun(call[s])
        /\ variants \in Seq(VariantRow) /\ readings \in Seq(ReadingRow)
        /\ Len(variants) \in Nat /\ Len(readings) \in Nat
        /\ IntakeTyped /\ AlignedTyped
    <2>1. variants \in Seq(VariantRow) /\ readings \in Seq(ReadingRow)
      BY DEF WorkInv, AlignedTyped
    <2>2. Len(variants) \in Nat /\ Len(readings) \in Nat
      BY <2>1
    <2>3. call[s].pc = "readings"
      BY Zenon DEF AlignReading, At
    <2> QED
      BY <2>1, <2>2, <2>3, IntakeShapes DEF WorkInv, RunsSound, Aligning
  <1>2. PICK old \in RunCall : old = call[s]
    BY <1>1
  <1>3. PICK v, place, next : v = old.found[old.next] /\ place = old.first + old.next
                             /\ next = old.next + 1
    OBVIOUS
  <1> DEFINE row == [variant |-> place, witness |-> old.from, passage |-> v.from, text |-> v.alt]
  <1>4. old.next <= Len(old.found)
        /\ readings' = (IF HasReading(v) THEN Append(readings, row) ELSE readings)
    BY <1>2, <1>3, Zenon DEF AlignReading, LocusAt
  <1>5. UNCHANGED <<witness, chapters, passages, imports, anchor, variants, cut>>
    BY Zenon DEF AlignReading, tables, history
  <1>6. /\ old.next \in Nat /\ old.first \in Nat /\ Len(old.found) \in Nat
        /\ old.next >= 1 /\ old.next \in 1 .. Len(old.found) /\ v \in Proposals(Runes, Nat)
        /\ next \in Nat /\ next = old.next + 1
        /\ IsLocus(v, old.from) /\ old.from \in Present /\ LociStored(old)
    <2>1. old.next \in Nat /\ old.first \in Nat /\ Len(old.found) \in Nat
      BY RunShape
    <2>2. /\ old.from \in Present /\ LociStored(old) /\ old.next >= 1
          /\ \A i \in 1 .. Len(old.found) : IsLocus(old.found[i], old.from)
      BY <1>1, <1>2 DEF IsRun, LociStored
    <2>3. old.next \in 1 .. Len(old.found)
      BY <1>4, <2>1, <2>2
    <2> QED
      BY <1>3, <2>1, <2>2, <2>3, RunShape
  <1>7. /\ place \in 1 .. Len(variants) /\ variants[place] = RowOf(v)
        /\ place <= old.first + Len(old.found) /\ old.first + 1 <= place
    <2>1. /\ old.first + Len(old.found) <= Len(variants)
          /\ variants[old.first + old.next] = RowOf(old.found[old.next])
      BY <1>6 DEF LociStored
    <2>2. PICK first, n : first = old.first /\ n = Len(old.found)
      OBVIOUS
    <2>3. place = first + old.next /\ first \in Nat /\ n \in Nat /\ old.next \in 1 .. n
          /\ first + n <= Len(variants) /\ Len(variants) \in Nat
      BY <1>1, <1>3, <1>6, <2>1, <2>2
    <2>4. place \in Nat /\ place >= 1 /\ place <= first + n
          /\ place <= Len(variants) /\ first + 1 <= place
      BY <2>3
    <2> QED
      BY <1>3, <2>1, <2>2, <2>3, <2>4
  <1>8. IsAhead(place, s)
    BY <1>1, <1>2, <1>3, <1>7 DEF IsAhead, Inserting
  <1>9. PICK c \in RunCall :
          /\ call' = [call EXCEPT ![s] = c]
          /\ c.pc = "readings" /\ c.first = old.first /\ c.next = next /\ c.found = old.found
          /\ c.base = old.base /\ c.todo = old.todo /\ c.from = old.from
    <2> DEFINE c == [old EXCEPT !.next = next]
    <2>1. call' = [call EXCEPT ![s] = c]
      BY <1>2, <1>3, Zenon DEF AlignReading
    <2>2. /\ c \in RunCall
          /\ c.pc = "readings" /\ c.first = old.first /\ c.next = next /\ c.found = old.found
          /\ c.base = old.base /\ c.todo = old.todo /\ c.from = old.from
      BY <1>1, <1>2, <1>6 DEF RunCall
    <2> HIDE DEF c
    <2> QED
      BY <2>1, <2>2
  <1>10. /\ IntakeTyped' /\ TablesGrow
         /\ call'[s] = c /\ \A t \in Slots : t # s => call'[t] = call[t]
    BY <1>1, <1>5, <1>9, RunCallWritten
  <1>11. VariantsGrow /\ variants' \in Seq(VariantRow)
    BY <1>1, <1>5 DEF VariantsGrow
  <1>12. HasReading(v) => row \in ReadingRow
    <2>1. v.from \in Nat \cup {NoPassage} /\ v.alt \in Seq(Runes) /\ place \in Nat
      BY <1>3, <1>6 DEF Proposals
    <2>2. old.from \in WitnessIds
      BY <1>6 DEF Present
    <2> QED
      BY <2>1, <2>2 DEF ReadingRow
  <1>13. PICK m \in Nat :
           /\ readings' \in Seq(ReadingRow) /\ Len(readings') = m
           /\ m = IF HasReading(v) THEN Len(readings) + 1 ELSE Len(readings)
           /\ \A k \in 1 .. Len(readings) : readings'[k] = readings[k]
           /\ HasReading(v) => readings'[m] = row
    <2> HIDE DEF row
    <2>1. CASE HasReading(v)
      <3>1. readings' = Append(readings, row) /\ row \in ReadingRow
        BY <1>4, <1>12, <2>1
      <3>2. /\ readings' \in Seq(ReadingRow) /\ Len(readings') = Len(readings) + 1
            /\ \A k \in 1 .. Len(readings) : readings'[k] = readings[k]
            /\ readings'[Len(readings) + 1] = row
        BY <1>1, <3>1
      <3> QED
        BY <1>1, <2>1, <3>2
    <2>2. CASE ~HasReading(v)
      BY <1>1, <1>4, <2>2
    <2> QED
      BY <2>1, <2>2
  <1>14. AlignedTyped' /\ OneCandidatePerPassage'
    BY <1>1, <1>5, <1>13 DEF WorkInv, AlignedTyped, OneCandidatePerPassage, AnchorsIn
  <1>15. RunsSound'
    <2>1. IsRun(c)'
      <3>1. IsRun(old)'
        BY <1>1, <1>2, <1>10, <1>11, RunKept
      <3>2. LociStored(old)'
        BY <1>1, <1>2, <3>1 DEF IsRun
      <3>3. LociStored(c)'
        BY <1>6, <1>9, <3>2 DEF LociStored
      <3> QED
        BY <1>1, <1>2, <1>9, <3>1, <3>3 DEF IsRun
    <2> SUFFICES ASSUME NEW t \in Slots, call'[t].pc \in Aligning, t # s
                 PROVE  IsRun(call[t])'
      BY <1>10, <2>1 DEF RunsSound
    <2>2. PICK d : d = call[t]
      OBVIOUS
    <2>3. d \in RunCall /\ IsRun(d) /\ call'[t] = d
      BY <1>1, <1>10, <2>2, IntakeShapes DEF WorkInv, RunsSound
    <2>4. IsRun(d)'
      BY <1>1, <1>10, <1>11, <2>3, RunKept
    <2> QED
      BY <2>3, <2>4
  <1>16. RunsApart'
    BY <1>1, <1>2, <1>9, <1>10 DEF WorkInv, RunsApart, Inserting
  <1>17. VariantsSound'
    BY <1>5 DEF WorkInv, VariantsSound, IsPlace
  <1>18. ASSUME NEW i \in Nat, NEW t \in Slots
         PROVE  IsAhead(i, t)' <=> IsAhead(i, t) /\ (t = s => i # place)
    <2>1. CASE t = s
      <3>1. IsAhead(i, t) <=> place <= i /\ i <= old.first + Len(old.found)
        BY <1>1, <1>2, <1>3, <2>1 DEF IsAhead, Inserting
      <3>2. IsAhead(i, t)' <=> old.first + next <= i /\ i <= old.first + Len(old.found)
        BY <1>9, <1>10, <2>1 DEF IsAhead, Inserting
      <3>3. old.first + next <= i <=> place <= i /\ i # place
        BY <1>3, <1>6
      <3> QED
        BY <2>1, <3>1, <3>2, <3>3
    <2>2. CASE t # s
      BY <1>10, <2>2 DEF IsAhead, Inserting
    <2> QED
      BY <2>1, <2>2
  <1>19. \A t \in Slots : IsAhead(place, t) => t = s
    <2> SUFFICES ASSUME NEW t \in Slots, IsAhead(place, t), t # s
                 PROVE  FALSE
      OBVIOUS
    <2>1. Inserting(t) /\ Inserting(s) /\ call[t] \in RunCall /\ IsRun(call[t])
      BY <1>1, IntakeShapes DEF IsAhead, Inserting, WorkInv, RunsSound, Aligning
    <2>2. PICK first, ahead, end :
            first = call[t].first /\ ahead = call[t].next /\ end = Len(call[t].found)
      OBVIOUS
    <2>3. first \in Nat /\ ahead \in Nat /\ end \in Nat /\ ahead >= 1
      BY <2>1, <2>2, RunShape DEF IsRun, LociStored, Inserting
    <2>4. old.first + Len(old.found) <= first \/ first + end <= old.first
      BY <1>2, <2>1, <2>2 DEF WorkInv, RunsApart
    <2>5. first + ahead <= place /\ place <= first + end
      BY <2>2 DEF IsAhead
    <2>6. place \in Nat
      BY <1>3, <1>6
    <2> HIDE DEF row
    <2> QED
      BY <1>6, <1>7, <2>3, <2>4, <2>5, <2>6
  <1>20. ASSUME NEW k \in 1 .. Len(readings)
         PROVE  /\ readings[k].variant \in 1 .. Len(variants) /\ readings[k].variant \in Nat
                /\ readings[k].variant # place
    <2>1. readings[k].variant \in 1 .. Len(variants) /\ ~IsAhead(readings[k].variant, s)
      BY DEF WorkInv, ReadingsSound
    <2> QED
      BY <1>8, <2>1
  <1>21. ReadingsSound'
    <2> SUFFICES ASSUME NEW k \in 1 .. m, NEW r, NEW w, r = readings'[k], w = variants[r.variant]
                 PROVE  /\ r.variant \in 1 .. Len(variants) /\ r.witness \in Present
                        /\ w.type \in {"word", "addition"}
                        /\ Rebuilds(r.text, w, r.passage, r.witness)
                        /\ \A t \in Slots : ~IsAhead(r.variant, t)'
      <3>1. \A text, v1, p, w1 : Rebuilds(text, v1, p, w1) => Rebuilds(text, v1, p, w1)'
        BY <1>5 DEF Rebuilds, Applied
      <3>2. Present' = Present /\ variants' = variants /\ Len(readings') = m
        BY <1>5, <1>13 DEF Present
      <3> QED
        BY <3>1, <3>2 DEF ReadingsSound
    <2>1. CASE k \in 1 .. Len(readings)
      <3>1. r = readings[k]
        BY <1>13, <2>1
      <3>2. /\ r.variant \in 1 .. Len(variants) /\ r.witness \in Present
            /\ w.type \in {"word", "addition"}
            /\ Rebuilds(r.text, w, r.passage, r.witness)
            /\ \A t \in Slots : ~IsAhead(r.variant, t)
        BY <2>1, <3>1 DEF WorkInv, ReadingsSound
      <3> QED
        BY <1>18, <1>20, <2>1, <3>1, <3>2
    <2>2. CASE k \notin 1 .. Len(readings)
      <3>1. HasReading(v) /\ k = m
        BY <1>1, <1>13, <2>2
      <3>2. r.variant = place /\ r.witness = old.from /\ r.passage = v.from /\ r.text = v.alt
        BY <1>13, <3>1
      <3>3. w = RowOf(v)
        BY <1>7, <3>2
      <3>4. w.type \in {"word", "addition"}
        BY <1>6, <3>1, <3>3 DEF IsLocus, RowOf
      <3>5. Rebuilds(v.alt, w, v.from, old.from)
        <4>1. Rebuilds(v.alt, v, v.from, old.from)
          BY <1>6, <3>1 DEF IsLocus
        <4>2. w.passage = v.passage /\ w.start = v.start /\ w.end = v.end
          BY <3>3 DEF RowOf
        <4> QED
          BY <4>1, <4>2 DEF Rebuilds, Applied
      <3>6. \A t \in Slots : ~IsAhead(place, t)'
        <4>1. place \in Nat
          BY <1>3, <1>6
        <4> QED
          BY <1>18, <1>19, <4>1
      <3> QED
        BY <1>6, <1>7, <3>2, <3>4, <3>5, <3>6
    <2> QED
      BY <2>1, <2>2
  <1>22. OneReadingEach'
    <2> SUFFICES ASSUME NEW k \in 1 .. m, NEW l \in 1 .. m,
                        readings'[k].variant = readings'[l].variant
                 PROVE  k = l
      BY <1>13 DEF OneReadingEach
    <2>1. CASE k \in 1 .. Len(readings) /\ l \in 1 .. Len(readings)
      BY <1>13, <2>1 DEF WorkInv, OneReadingEach
    <2>2. ASSUME NEW i \in 1 .. m, i \notin 1 .. Len(readings)
          PROVE  i = m /\ readings'[i].variant = place
      BY <1>1, <1>13, <2>2
    <2>3. \A i \in 1 .. Len(readings) : readings'[i].variant # place
      BY <1>13, <1>20
    <2> QED
      BY <2>1, <2>2, <2>3
  <1>23. NoneLeftOut'
    <2> SUFFICES ASSUME ~cut, NEW i \in 1 .. Len(variants),
                        variants[i].type \in {"word", "addition"},
                        \A t \in Slots : ~IsAhead(i, t)'
                 PROVE  HasOne(i)'
      BY <1>5 DEF NoneLeftOut
    <2>1. i \in Nat
      BY <1>1
    <2>2. CASE HasOne(i)
      <3>1. PICK k \in 1 .. Len(readings) : readings[k].variant = i
        BY <2>2 DEF HasOne
      <3>2. k \in 1 .. m /\ readings'[k] = readings[k]
        BY <1>1, <1>13
      <3> QED
        BY <1>13, <3>1, <3>2 DEF HasOne
    <2>3. CASE ~HasOne(i)
      <3>1. PICK t \in Slots : IsAhead(i, t)
        BY <2>3 DEF WorkInv, NoneLeftOut
      <3>2. i = place
        BY <1>18, <2>1, <3>1
      <3>3. HasReading(v)
        BY <1>6, <1>7, <3>2 DEF IsLocus, RowOf
      <3>4. m \in 1 .. m /\ readings'[m].variant = i
        BY <1>1, <1>13, <3>2, <3>3
      <3> QED
        BY <1>13, <3>4 DEF HasOne
    <2> QED
      BY <2>2, <2>3
  <1> QED
    BY <1>10, <1>14, <1>15, <1>16, <1>17, <1>21, <1>22, <1>23 DEF WorkInv

-----------------------------------------------------------------------------
(* Imports, anchors and broken-off requests. *)

(* Every step of the intake keeps it. *)
LEMMA ImportingKeeps == WorkInv /\ Importing => WorkInv'
  <1> SUFFICES ASSUME WorkInv, Importing PROVE WorkInv'
    OBVIOUS
  <1>1. IntakeTyped' /\ TablesGrow /\ RunsKept
    BY ImportingKeepsTypes DEF WorkInv
  <1>2. UNCHANGED <<anchor, variants, readings, cut>>
    BY DEF Importing, aligned
  <1>3. AlignedTyped' /\ OneCandidatePerPassage'
    BY <1>2 DEF WorkInv, AlignedTyped, OneCandidatePerPassage, AnchorsIn
  <1>4. \A t \in Slots : call'[t].pc \in Aligning => call'[t] = call[t]
    BY <1>1 DEF RunsKept
  <1>5. \A t \in Slots : call'[t] # call[t] => \A i \in Nat : ~IsAhead(i, t)
    BY <1>1 DEF RunsKept, IsAhead, Inserting, Aligning
  <1>6. /\ RunsSound' /\ RunsApart'
        /\ VariantsSound' /\ ReadingsSound' /\ OneReadingEach' /\ NoneLeftOut'
    BY <1>1, <1>2, <1>4, <1>5, SameLoci
  <1> QED
    BY <1>1, <1>3, <1>6 DEF WorkInv

(* Errors and restarts keep it: they are remembered in cut. *)
LEMMA BreakingOffKeeps ==
  ASSUME WorkInv, WorkbenchRestart \/ \E s \in Slots : WorkbenchAbort(s)
  PROVE  WorkInv'
  <1>1. /\ IntakeTyped' /\ UNCHANGED <<witness, passages>>
        /\ \A t \in Slots : call'[t] = call[t] \/ call'[t] = Idle
    BY OthersKeepTypes DEF WorkbenchRestart, WorkbenchAbort, WorkInv
  <1>2. TablesGrow
    BY <1>1, NothingGrows DEF WorkInv
  <1>3. UNCHANGED <<anchor, variants, readings>> /\ cut' \in BOOLEAN /\ (cut => cut')
    BY DEF WorkbenchRestart, WorkbenchAbort, WorkInv, AlignedTyped
  <1>4. AlignedTyped' /\ OneCandidatePerPassage'
    BY <1>3 DEF WorkInv, AlignedTyped, OneCandidatePerPassage, AnchorsIn
  <1>5. \A t \in Slots : call'[t].pc \in Aligning => call'[t] = call[t]
    BY <1>1 DEF Idle, Aligning
  <1>6. \A t \in Slots : call'[t] # call[t] => cut' \/ \A i \in Nat : ~IsAhead(i, t)
    <2> SUFFICES ASSUME NEW t \in Slots, call'[t] # call[t], call[t].pc \in Aligning
                 PROVE  cut'
      BY DEF IsAhead, Inserting, Aligning
    <2>1. CASE WorkbenchRestart
      BY <2>1 DEF WorkbenchRestart
    <2>2. ASSUME NEW s \in Slots, WorkbenchAbort(s)
          PROVE  cut'
      <3>1. t = s
        BY <2>2 DEF WorkbenchAbort, Abort, Return, WorkInv, IntakeTyped
      <3> QED
        BY <2>2, <3>1 DEF WorkbenchAbort
    <2> QED
      BY <2>1, <2>2
  <1>7. /\ RunsSound' /\ RunsApart'
        /\ VariantsSound' /\ ReadingsSound' /\ OneReadingEach' /\ NoneLeftOut'
    BY <1>1, <1>2, <1>3, <1>5, <1>6, SameLoci
  <1> QED
    BY <1>1, <1>4, <1>7 DEF WorkInv

(* What the anchors do, whoever acts on them: a passage without a candidate *)
(* gets one, or a candidate is decided on.                                  *)
AnchorProposed(a) ==
    /\ anchor[a] = Absent /\ anchor' = [anchor EXCEPT ![a] = anchor'[a]]
    /\ anchor'[a] \in AnchorRow /\ anchor'[a].status = "candidate"
    /\ ~Occupied(anchor'[a].passage)
AnchorDecided(a) ==
    /\ anchor[a] # Absent /\ anchor[a].status = "candidate"
    /\ anchor' = [anchor EXCEPT ![a] = anchor'[a]]
    /\ anchor'[a] \in AnchorRow /\ anchor'[a].status # "candidate"

(* A step about anchors proposes or decides one and touches nothing else. *)
LEMMA AnchorMoves ==
  ASSUME IntakeTyped, AlignedTyped, Anchoring
  PROVE  /\ UNCHANGED <<intakeVars, variants, readings, cut>>
         /\ \E a \in AnchorIds : AnchorProposed(a) \/ AnchorDecided(a)
  <1>1. ASSUME NEW a \in AnchorIds, NEW p \in Anchorable, ProposeAnchor(a, p)
        PROVE  AnchorProposed(a)
    <2> DEFINE row == [passage |-> p, status |-> "candidate"]
    <2>1. anchor[a] = Absent /\ ~Occupied(p) /\ anchor' = [anchor EXCEPT ![a] = row]
      BY <1>1 DEF ProposeAnchor
    <2>2. row \in AnchorRow /\ row.status = "candidate" /\ row.passage = p
      <3>1. p \in Nat \ {0}
        BY <1>1, PassageShape DEF ProposeAnchor
      <3> QED
        BY <3>1 DEF AnchorRow, AnchorStatus
    <2> HIDE DEF row
    <2>3. anchor'[a] = row
      BY <2>1 DEF AlignedTyped
    <2> QED
      BY <2>1, <2>2, <2>3 DEF AnchorProposed
  <1>2. ASSUME NEW a \in AnchorIds, ConfirmAnchor(a) \/ DeprecateAnchor(a)
        PROVE  AnchorDecided(a)
    <2>1. PICK status \in {"confirmed", "deprecated"} : anchor' = [anchor EXCEPT ![a].status = status]
      BY <1>2 DEF ConfirmAnchor, DeprecateAnchor
    <2> DEFINE old == anchor[a]
               row == [old EXCEPT !.status = status]
    <2>2. old.status = "candidate" /\ old \in AnchorRow \cup {Absent}
      BY <1>2 DEF ConfirmAnchor, DeprecateAnchor, Deprecable, AnchorsIn, AlignedTyped
    <2>3. old # Absent
      BY <2>2 DEF Absent
    <2>4. anchor' = [anchor EXCEPT ![a] = row]
      BY <2>1, Zenon
    <2> HIDE DEF old
    <2>5. row \in AnchorRow /\ row.status = status
      BY <2>2, <2>3 DEF AnchorRow, AnchorStatus
    <2> HIDE DEF row
    <2>6. anchor'[a] = row
      BY <2>4 DEF AlignedTyped
    <2> QED
      BY <2>2, <2>3, <2>4, <2>5, <2>6 DEF AnchorDecided, old
  <1>3. UNCHANGED <<intakeVars, variants, readings, cut>>
    BY DEF Anchoring, ProposeAnchor, ConfirmAnchor, DeprecateAnchor
  <1> QED
    BY <1>1, <1>2, <1>3 DEF Anchoring

(* Every step about anchors keeps the invariant. *)
LEMMA AnchoringKeeps == WorkInv /\ Anchoring => WorkInv'
  <1> SUFFICES ASSUME WorkInv, Anchoring PROVE WorkInv'
    OBVIOUS
  <1>1. IntakeTyped /\ AlignedTyped
    BY DEF WorkInv
  <1>2. UNCHANGED <<intakeVars, variants, readings, cut>>
    BY <1>1, AnchorMoves
  <1>3. UNCHANGED <<witness, chapters, passages, imports, call>>
    BY <1>2 DEF intakeVars, tables, history
  <1>4. IntakeTyped' /\ TablesGrow
    BY <1>1, <1>3, NothingGrows DEF IntakeTyped, SourcesKnown, Fetching, Present
  <1>5. AlignedTyped' /\ OneCandidatePerPassage'
    <2>1. PICK a \in AnchorIds : AnchorProposed(a) \/ AnchorDecided(a)
      BY <1>1, AnchorMoves
    <2>2. /\ anchor'[a] \in AnchorRow
          /\ \A b \in AnchorIds : b # a => anchor'[b] = anchor[b]
          /\ anchor' \in [AnchorIds -> AnchorRow \cup {Absent}]
      BY <1>1, <2>1 DEF AnchorProposed, AnchorDecided, AlignedTyped
    <2>3. ASSUME NEW b \in AnchorIds, NEW c \in AnchorIds,
                 anchor'[b].status = "candidate", anchor'[c].status = "candidate",
                 anchor'[b].passage = anchor'[c].passage
          PROVE  b = c
      <3>1. \A d \in AnchorIds \ {a} : anchor'[d].status = "candidate" =>
              d \in AnchorsIn("candidate") /\ anchor[d] = anchor'[d]
        BY <2>2 DEF AnchorsIn
      <3>2. CASE b # a /\ c # a
        BY <2>3, <3>1, <3>2 DEF WorkInv, OneCandidatePerPassage
      <3>3. CASE b = a \/ c = a
        <4>1. AnchorProposed(a)
          BY <2>1, <2>3, <3>3 DEF AnchorDecided
        <4>2. \A d \in AnchorsIn("candidate") : anchor[d].passage # anchor'[a].passage
          BY <4>1 DEF AnchorProposed, Occupied
        <4> QED
          BY <2>3, <3>1, <3>3, <4>2
      <3> QED
        BY <3>2, <3>3
    <2>4. OneCandidatePerPassage'
      BY <2>3 DEF OneCandidatePerPassage, AnchorsIn
    <2> QED
      BY <1>1, <1>2, <2>2, <2>4 DEF AlignedTyped
  <1>6. /\ RunsSound' /\ RunsApart'
        /\ VariantsSound' /\ ReadingsSound' /\ OneReadingEach' /\ NoneLeftOut'
    BY <1>2, <1>3, <1>4, SameLoci
  <1> QED
    BY <1>4, <1>5, <1>6 DEF WorkInv

-----------------------------------------------------------------------------
(* The invariant and what follows from it. *)

(* An empty workbench satisfies it. *)
LEMMA WorkInit == WorkbenchInit => WorkInv
  <1> SUFFICES ASSUME WorkbenchInit PROVE WorkInv
    OBVIOUS
  <1>1. \A s \in Slots : call[s] = Idle
    BY DEF WorkbenchInit, Init
  <1>2. IntakeTyped
    <2>1. Idle \in WorkCalls
      BY DEF WorkCalls, IntakeCalls
    <2>2. SourcesKnown
      BY <1>1 DEF SourcesKnown, Fetching, Idle
    <2> QED
      BY <2>1, <2>2 DEF WorkbenchInit, Init, IntakeTyped
  <1>3. AlignedTyped
    <2>1. variants = <<>> /\ readings = <<>> /\ cut = FALSE
          /\ anchor = [a \in AnchorIds |-> Absent]
      BY Zenon DEF WorkbenchInit
    <2>2. anchor \in [AnchorIds -> AnchorRow \cup {Absent}]
      BY <2>1
    <2>3. variants \in Seq(VariantRow) /\ readings \in Seq(ReadingRow)
      BY <2>1
    <2>4. cut \in BOOLEAN
      BY <2>1
    <2> QED
      BY <2>2, <2>3, <2>4 DEF AlignedTyped
  <1>4. OneCandidatePerPassage
    <2>1. \A a \in AnchorIds : anchor[a].status = "absent"
      BY DEF WorkbenchInit, Absent
    <2> QED
      BY <2>1 DEF OneCandidatePerPassage, AnchorsIn
  <1>5. RunsSound /\ RunsApart
    BY <1>1 DEF RunsSound, RunsApart, Inserting, Idle, Aligning
  <1>6. VariantsSound /\ ReadingsSound /\ OneReadingEach /\ NoneLeftOut
    <2>1. Len(variants) = 0 /\ Len(readings) = 0
      BY DEF WorkbenchInit
    <2> QED
      BY <2>1 DEF VariantsSound, ReadingsSound, OneReadingEach, NoneLeftOut
  <1> QED
    BY <1>2, <1>3, <1>4, <1>5, <1>6 DEF WorkInv

(* Doing nothing keeps it. *)
LEMMA StutteringKeeps == WorkInv /\ UNCHANGED vars => WorkInv'
  <1> SUFFICES ASSUME WorkInv, UNCHANGED vars PROVE WorkInv'
    OBVIOUS
  <1>1. UNCHANGED <<witness, chapters, passages, imports, call, anchor, variants, readings, cut>>
    BY DEF vars, intakeVars, tables, history, aligned
  <1>2. IntakeTyped' /\ TablesGrow
    BY <1>1, NothingGrows DEF WorkInv, IntakeTyped, SourcesKnown, Fetching, Present
  <1>3. AlignedTyped' /\ OneCandidatePerPassage'
    BY <1>1 DEF WorkInv, AlignedTyped, OneCandidatePerPassage, AnchorsIn
  <1>4. /\ RunsSound' /\ RunsApart'
        /\ VariantsSound' /\ ReadingsSound' /\ OneReadingEach' /\ NoneLeftOut'
    BY <1>1, <1>2, SameLoci
  <1> QED
    BY <1>2, <1>3, <1>4 DEF WorkInv

(* Every step keeps it. *)
LEMMA WorkStep == WorkInv /\ [Next]_vars => WorkInv'
  <1> SUFFICES ASSUME WorkInv, [Next]_vars PROVE WorkInv'
    OBVIOUS
  <1>1. ASSUME NEW s \in Slots, RunAlignment(s)
        PROVE  WorkInv'
    BY <1>1, CheckKeeps, ListKeeps, PairKeeps, LociKeep, ReadingKeeps, NextWitnessKeeps, EndKeeps,
       Zenon DEF RunAlignment
  <1> QED
    BY <1>1, ImportingKeeps, AnchoringKeeps, BreakingOffKeeps, StutteringKeeps DEF Next

(* Every run keeps it. *)
LEMMA WorkInvariant == Spec => []WorkInv
  BY WorkInit, WorkStep, PTL DEF Spec

(* However proposals, confirmations and deprecations interleave with each  *)
(* other and with imports, no two unconfirmed anchors stand on one passage *)
(* (ProposeAnchor, anchors.go; README.md:81).                              *)
THEOREM OneCandidateStands == Spec => []OneCandidatePerPassage
  <1>1. WorkInv => OneCandidatePerPassage
    BY DEF WorkInv
  <1> QED
    BY <1>1, WorkInvariant, PTL

(* No step moves, changes or deprecates a confirmed anchor: DeprecateAnchor *)
(* asks for a candidate (anchors.go).                                       *)
THEOREM ConfirmedAnchorsStay == Spec => ConfirmedForGood
  <1>1. ASSUME WorkInv, [Next]_vars
        PROVE  [\A a \in AnchorsIn("confirmed") : anchor'[a] = anchor[a]]_vars
    <2>1. CASE Anchoring
      <3>1. PICK a \in AnchorIds : AnchorProposed(a) \/ AnchorDecided(a)
        BY <1>1, <2>1, AnchorMoves DEF WorkInv
      <3>2. /\ \A b \in AnchorIds : b # a => anchor'[b] = anchor[b]
            /\ a \notin AnchorsIn("confirmed")
        BY <1>1, <3>1 DEF WorkInv, AlignedTyped, AnchorProposed, AnchorDecided, AnchorsIn, Absent
      <3> QED
        BY <3>2 DEF AnchorsIn
    <2>2. CASE ~Anchoring
      <3>1. anchor' = anchor
        BY <1>1, <2>2, Zenon DEF Next, Importing, RunAlignment, AlignCheck, AlignList, AlignPair,
           AlignLoci, AlignReading, AlignNextWitness, AlignEnd, WorkbenchAbort,
           WorkbenchRestart, aligned, vars
      <3> QED
        BY <3>1
    <2> QED
      BY <2>1, <2>2
  <1> QED
    BY <1>1, WorkInvariant, PTL DEF Spec, ConfirmedForGood

(* Anchors, variants and readings keep their shape: a place is within the  *)
(* table of passages and is no negative range, a reading names a variant,  *)
(* a passage and a witness that exist (RunAlignment).                      *)
THEOREM WorkbenchTypes == Spec => []WorkbenchTypeOK
  <1>1. WorkInv => WorkbenchTypeOK
    <2> SUFFICES ASSUME WorkInv PROVE WorkbenchTypeOK
      OBVIOUS
    <2>1. variants \in Seq(VariantRow) /\ readings \in Seq(ReadingRow)
      BY DEF WorkInv, AlignedTyped
    <2>2. /\ Len(variants) \in Nat /\ DOMAIN variants = 1 .. Len(variants)
          /\ Len(readings) \in Nat /\ DOMAIN readings = 1 .. Len(readings)
      BY <2>1
    <2>3. ASSUME NEW v \in ToSet(variants)
          PROVE  /\ v.passage \in DOMAIN passages \cup {NoPassage}
                 /\ 0 <= v.start /\ v.start <= v.end
      <3>1. PICK i \in 1 .. Len(variants) : v = variants[i]
        BY <2>2 DEF ToSet
      <3>2. v.start \in Nat
        <4>1. v \in VariantRow
          BY <2>1, <2>2, <3>1
        <4> QED
          BY <4>1 DEF VariantRow
      <3> QED
        BY <3>1, <3>2 DEF WorkInv, VariantsSound, IsPlace
    <2>4. ASSUME NEW r \in ToSet(readings)
          PROVE  /\ r.variant \in DOMAIN variants /\ r.passage \in DOMAIN passages
                 /\ r.witness \in Present
      <3>1. PICK k \in 1 .. Len(readings) : r = readings[k]
        BY <2>2 DEF ToSet
      <3> QED
        BY <2>2, <3>1 DEF WorkInv, ReadingsSound, Rebuilds
    <2> QED
      BY <2>3, <2>4 DEF WorkInv, AlignedTyped, WorkbenchTypeOK
  <1> QED
    BY <1>1, WorkInvariant, PTL

(* Every stored reading, put in the place of the range of its locus, turns *)
(* the base passage into the passage of the witness it was taken from,     *)
(* whatever imports and other alignments stored between the reads of a run *)
(* and its inserts, and for any sources (RunAlignment, alignment.go).      *)
THEOREM ReadingsRebuild == Spec => []ReadingRebuilds
  <1>1. WorkInv => ReadingRebuilds
    <2> SUFFICES ASSUME WorkInv, NEW r \in ToSet(readings)
                 PROVE  LET v == variants[r.variant] IN
                        /\ passages[r.passage].witness = r.witness
                        /\ passages[r.passage].text =
                             IF v.passage = NoPassage THEN r.text ELSE Applied(v, r.text)
      BY DEF ReadingRebuilds
    <2>1. readings \in Seq(ReadingRow)
      BY DEF WorkInv, AlignedTyped
    <2>2. PICK k \in 1 .. Len(readings) : r = readings[k]
      BY <2>1 DEF ToSet
    <2> QED
      BY <2>2 DEF WorkInv, ReadingsSound, Rebuilds
  <1> QED
    BY <1>1, WorkInvariant, PTL

(* Unless an alignment was cut short, every word and addition that no run  *)
(* is still working on has one reading and not two, and nothing else has   *)
(* any, however many runs insert at the same time.                         *)
THEOREM LociAreWitnessed == Spec => []LociWitnessed
  <1>1. WorkInv => LociWitnessed
    <2> DEFINE open == UNION {{call[s].first + i : i \in DOMAIN call[s].found} :
                              s \in {t \in Slots : At(t, "readings")}}
               Of(i) == {k \in DOMAIN readings : readings[k].variant = i}
    <2> SUFFICES ASSUME WorkInv, ~cut, NEW i \in DOMAIN variants \ open
                 PROVE  Cardinality(Of(i)) =
                          (IF variants[i].type \in {"word", "addition"} THEN 1 ELSE 0)
      BY DEF LociWitnessed
    <2>1. variants \in Seq(VariantRow) /\ readings \in Seq(ReadingRow) /\ IntakeTyped
      BY DEF WorkInv, AlignedTyped
    <2>2. /\ Len(variants) \in Nat /\ DOMAIN variants = 1 .. Len(variants)
          /\ DOMAIN readings = 1 .. Len(readings) /\ i \in Nat
      BY <2>1
    <2>3. ASSUME NEW s \in Slots, IsAhead(i, s)
          PROVE  FALSE
      <3>1. At(s, "readings") /\ call[s] \in RunCall /\ IsRun(call[s])
        BY <2>1, <2>3, IntakeShapes DEF WorkInv, RunsSound, IsAhead, Inserting, At, Aligning
      <3>2. PICK first, next, n, found :
              /\ first = call[s].first /\ next = call[s].next
              /\ found = call[s].found /\ n = Len(found)
        OBVIOUS
      <3>3. first \in Nat /\ next \in Nat /\ n \in Nat /\ next >= 1 /\ DOMAIN found = 1 .. n
        BY <3>1, <3>2, RunShape DEF IsRun, LociStored, At
      <3>4. first + next <= i /\ i <= first + n
        BY <2>3, <3>2 DEF IsAhead
      <3>5. i - first \in 1 .. n /\ first + (i - first) = i
        BY <2>2, <3>3, <3>4
      <3>6. i - first \in DOMAIN call[s].found /\ call[s].first + (i - first) = i
        BY <3>2, <3>3, <3>5
      <3>7. i \in open
        BY <3>1, <3>6
      <3> QED
        BY <3>7
    <2> HIDE DEF open
    <2>4. CASE variants[i].type \in {"word", "addition"}
      <3>1. HasOne(i)
        BY <2>2, <2>3, <2>4 DEF WorkInv, NoneLeftOut
      <3>2. PICK k \in 1 .. Len(readings) : readings[k].variant = i
        BY <3>1 DEF HasOne
      <3>3. Of(i) = {k}
        BY <2>2, <3>2 DEF WorkInv, OneReadingEach
      <3>4. Cardinality({k}) = 1
        BY FS_Singleton
      <3> QED
        BY <2>4, <3>3, <3>4
    <2>5. CASE variants[i].type \notin {"word", "addition"}
      <3>1. Of(i) = {}
        BY <2>2, <2>5 DEF WorkInv, ReadingsSound
      <3> QED
        BY <2>5, <3>1, FS_EmptySet
    <2> QED
      BY <2>4, <2>5
  <1> QED
    BY <1>1, WorkInvariant, PTL

=============================================================================
