------------------------------- MODULE Intake -------------------------------
(***************************************************************************)
(* What comes into a project: witnesses, one of them the base, and their   *)
(* chapters and passages (internal/service/witnesses.go over               *)
(* internal/store).  One store call is one step, as in EditorialDesk.      *)
(*                                                                         *)
(* Chapters and passages are tables that only grow: a row's id is its      *)
(* place, and rows of equal ordinals are listed as they were inserted (the *)
(* index on witness and ordinal).  A source is given as the sequence of    *)
(* texts that SegmentByParagraph makes of it; Edition shows how.           *)
(***************************************************************************)
EXTENDS Integers, FiniteSets, SequencesExt

CONSTANTS
    WitnessIds,     \* ids NewID may return for witnesses
    NoWitness,      \* the empty base_witness_id
    Sources,        \* texts a client may send: sequences of passage texts
    ImportIds,      \* the imports that may be made
    Slots,          \* concurrent requests
    BatchSize,      \* passages per transaction: 20 in the code
    MaxTitles,      \* chapters a request may bring
    MaxChapters     \* bound: no chapters are imported beyond this many rows

ASSUME BatchAssumption == BatchSize \in Nat \ {0}
ASSUME ChapterAssumption == MaxTitles \in Nat /\ MaxChapters \in Nat

PassageTexts == UNION {ToSet(source) : source \in Sources}
ASSUME SourceAssumption == Sources \subseteq Seq(PassageTexts)

VARIABLES
    witness,    \* table witnesses
    recorded,   \* base_witness_id of the project
    chapters,   \* table chapters
    passages,   \* table passages
    call,       \* requests in flight
    imports,    \* history: for each import its witness, its source, the rows it has
                \*          stored and whether it has been answered with success
    overlapped  \* history: some request arrived while another was in flight

tables == <<witness, recorded, chapters, passages>>
history == <<imports, overlapped>>
intakeVars == <<tables, call, history>>

-----------------------------------------------------------------------------
(* Rows and requests. *)

Absent == [status |-> "absent"]
WitnessRow == [status: {"pending_segmentation", "pending_alignment"}, base: BOOLEAN]
ChapterRow == [witness: WitnessIds, ordinal: Nat]
PassageRow == [witness: WitnessIds, chapter: Nat, ordinal: Nat \ {0}, text: PassageTexts]
Import == [witness: WitnessIds, source: Sources, rows: Seq(Nat), done: BOOLEAN]

Idle == [pc |-> "idle"]
BaseCall == [pc: {"insertBase", "recordBase"}, witness: WitnessIds]
ChapterCall == [pc: {"chapter"}, witness: WitnessIds, ordinal: Nat, left: Nat]
ImportCall == [pc: {"batch", "ready"}, import: ImportIds, chapter: Nat, next: Nat]

TypeOK ==
    /\ witness \in [WitnessIds -> WitnessRow \cup {Absent}]
    /\ recorded \in WitnessIds \cup {NoWitness}
    /\ chapters \in Seq(ChapterRow)
    /\ passages \in Seq(PassageRow)
    /\ \A i \in DOMAIN passages : passages[i].chapter <= Len(chapters)
    /\ call \in [Slots -> {Idle} \cup BaseCall \cup ChapterCall \cup ImportCall]
    /\ imports \in [ImportIds -> Import \cup {Absent}]
    /\ overlapped \in BOOLEAN

Present == {w \in WitnessIds : witness[w] # Absent}
Bases == {w \in Present : witness[w].base}
Imported == {k \in ImportIds : imports[k] # Absent}

Init ==
    /\ witness = [w \in WitnessIds |-> Absent]
    /\ recorded = NoWitness
    /\ chapters = <<>>
    /\ passages = <<>>
    /\ call = [s \in Slots |-> Idle]
    /\ imports = [k \in ImportIds |-> Absent]
    /\ overlapped = FALSE

-----------------------------------------------------------------------------
(* Requests in flight. *)

InFlight == {s \in Slots : call[s] # Idle}

Begin(s, c) == /\ call[s] = Idle
               /\ call' = [call EXCEPT ![s] = c]
               /\ overlapped' = (overlapped \/ InFlight # {})
At(s, pc) == call[s].pc = pc
Goto(s, pc) == call' = [call EXCEPT ![s].pc = pc]
Return(s) == call' = [call EXCEPT ![s] = Idle]

Abort(s) ==
    /\ call[s] # Idle
    /\ Return(s)
    /\ UNCHANGED <<tables, history>>

Restart ==
    /\ call' = [s \in Slots |-> Idle]
    /\ UNCHANGED <<tables, history>>

-----------------------------------------------------------------------------
(* CreateWitness. *)

NewWitness(base) == [status |-> "pending_segmentation", base |-> base]

FreshWitness(w) ==
    /\ witness[w] = Absent
    /\ \A s \in Slots : ~(At(s, "insertBase") /\ call[s].witness = w)

(* Without is_base the only write is the row. *)
CreateWitness(w) ==
    /\ FreshWitness(w)
    /\ witness' = [witness EXCEPT ![w] = NewWitness(FALSE)]
    /\ UNCHANGED <<recorded, chapters, passages, call, history>>

BaseTaken_Recorded == recorded # NoWitness   \* seeded: the project is asked, not its witnesses
BaseTaken == Bases # {}

BaseCheck(s, w) ==
    /\ ~BaseTaken
    /\ FreshWitness(w)
    /\ Begin(s, [pc |-> "insertBase", witness |-> w])
    /\ UNCHANGED <<tables, imports>>

BaseInsert(s) ==
    /\ At(s, "insertBase")
    /\ witness' = [witness EXCEPT ![call[s].witness] = NewWitness(TRUE)]
    /\ Goto(s, "recordBase")
    /\ UNCHANGED <<recorded, chapters, passages, history>>

BaseRecord(s) ==
    /\ At(s, "recordBase")
    /\ recorded' = call[s].witness
    /\ Return(s)
    /\ UNCHANGED <<witness, chapters, passages, history>>

-----------------------------------------------------------------------------
(* ImportChapters: nobody asks whether the witness exists. *)

ChaptersOf(w) == {i \in DOMAIN chapters : chapters[i].witness = w}

FirstOrdinal_Last(w) ==   \* seeded: the last ordinal is given again
    IF ChaptersOf(w) = {} THEN 1 ELSE Cardinality(ChaptersOf(w))
FirstOrdinal(w) == Cardinality(ChaptersOf(w)) + 1

ChaptersCheck(s, w, n) ==
    /\ Len(chapters) < MaxChapters
    /\ Begin(s, [pc |-> "chapter", witness |-> w, ordinal |-> FirstOrdinal(w), left |-> n])
    /\ UNCHANGED <<tables, imports>>

ChapterInsert(s) ==
    LET c == call[s] IN
    /\ At(s, "chapter")
    /\ chapters' = Append(chapters, [witness |-> c.witness, ordinal |-> c.ordinal])
    /\ IF c.left > 1
       THEN call' = [call EXCEPT ![s].ordinal = c.ordinal + 1, ![s].left = c.left - 1]
       ELSE Return(s)
    /\ UNCHANGED <<witness, recorded, passages, history>>

-----------------------------------------------------------------------------
(* ImportPassages. *)

(* The last chapter by ordinal, 0 without chapters. *)
IsLastChapter(i, w) ==
    IF ChaptersOf(w) = {} THEN i = 0
    ELSE i \in ChaptersOf(w) /\ \A j \in ChaptersOf(w) : chapters[j].ordinal <= chapters[i].ordinal

(* GetWitnessFromAny and ListChapters; a witness is never deleted. *)
ImportCheck(s, k, w, source) ==
    /\ w \in Present
    /\ imports[k] = Absent
    /\ \E i \in 0 .. Len(chapters) :
         /\ IsLastChapter(i, w)
         /\ Begin(s, [pc |-> IF source = <<>> THEN "ready" ELSE "batch",
                      import |-> k, chapter |-> i, next |-> 1])
    /\ imports' = [imports EXCEPT ![k] = [witness |-> w, source |-> source,
                                         rows |-> <<>>, done |-> FALSE]]
    /\ UNCHANGED tables

(* The passages from the next on that go into one transaction, and whether  *)
(* another batch follows.  Seeded: a last batch that is not full is left    *)
(* out.                                                                     *)
BatchEnd(source, next) == IF next + BatchSize - 1 > Len(source) THEN Len(source)
                          ELSE next + BatchSize - 1
More_FullOnly(source, end) == end + BatchSize <= Len(source)
More(source, end) == end < Len(source)

(* Seeded: ordinals start anew with each batch; they start at 0. *)
OrdinalAt_InBatch(next, i) == i - next + 1
OrdinalAt_Zero(next, i) == i - 1
OrdinalAt(next, i) == i

(* CreatePassages: one transaction; the ids are new, so nothing conflicts. *)
ImportBatch(s) ==
    LET c == call[s]
        k == c.import
        source == imports[k].source
        end == BatchEnd(source, c.next)
        Row(i) == [witness |-> imports[k].witness, chapter |-> c.chapter,
                   ordinal |-> OrdinalAt(c.next, i), text |-> source[i]]
        rows == [j \in 1 .. end - c.next + 1 |-> Row(c.next + j - 1)]
    IN
    /\ At(s, "batch")
    /\ passages' = passages \o rows
    /\ imports' = [imports EXCEPT ![k].rows = @ \o [j \in DOMAIN rows |-> Len(passages) + j]]
    /\ call' = [call EXCEPT ![s].next = end + 1,
                            ![s].pc = IF More(source, end) THEN "batch" ELSE "ready"]
    /\ UNCHANGED <<witness, recorded, chapters, overlapped>>

(* UpdateWitnessStatus, whatever the status is. *)
ImportReady(s) ==
    LET k == call[s].import IN
    /\ At(s, "ready")
    /\ witness' = [witness EXCEPT ![imports[k].witness].status = "pending_alignment"]
    /\ imports' = [imports EXCEPT ![k].done = TRUE]
    /\ Return(s)
    /\ UNCHANGED <<recorded, chapters, passages, overlapped>>

-----------------------------------------------------------------------------
Arrive(s) ==
    \/ \E w \in WitnessIds : BaseCheck(s, w)
    \/ \E w \in WitnessIds, n \in 1 .. MaxTitles : ChaptersCheck(s, w, n)
    \/ \E k \in ImportIds, w \in WitnessIds, source \in Sources : ImportCheck(s, k, w, source)

Step(s) ==
    \/ BaseInsert(s) \/ BaseRecord(s)
    \/ ChapterInsert(s)
    \/ ImportBatch(s) \/ ImportReady(s)

IntakeNext ==
    \/ Restart
    \/ \E w \in WitnessIds : CreateWitness(w)
    \/ \E s \in Slots : Arrive(s) \/ Step(s) \/ Abort(s)

IntakeSpec == Init /\ [][IntakeNext]_intakeVars

-----------------------------------------------------------------------------
(* Correctness. *)

(* The base the project names is one of its base witnesses, and as long as  *)
(* requests come one at a time there is no other, although a crash may fall *)
(* between the check, the row and the record (CreateWitness).               *)
OneBase ==
    /\ recorded # NoWitness => recorded \in Bases
    /\ ~overlapped => Cardinality(Bases) <= 1

(* As long as requests come one at a time the chapters of a witness are     *)
(* numbered 1, 2, ... without gaps, in the order they were stored, however  *)
(* imports are cut short (ImportChapters, witnesses.go:61).                 *)
ChaptersContiguous ==
    ~overlapped =>
        \A i \in DOMAIN chapters :
            chapters[i].ordinal =
              Cardinality({j \in 1 .. i : chapters[j].witness = chapters[i].witness})

(* An import stores its source from the beginning, in order and in whole    *)
(* batches: a crash or a failing statement leaves no gap and no passage of  *)
(* another import among its own (ImportPassages, CreatePassages).           *)
ImportsArePrefixes ==
    \A k \in Imported :
        LET m == imports[k] IN
        /\ Len(m.rows) <= Len(m.source)
        /\ Len(m.rows) % BatchSize = 0 \/ Len(m.rows) = Len(m.source)
        /\ \A i \in DOMAIN m.rows :
             LET p == passages[m.rows[i]] IN
             p.witness = m.witness /\ p.ordinal = i /\ p.text = m.source[i]

(* A witness waiting for alignment has all passages of some import that was *)
(* answered; one cut short leaves the status alone, even next to another    *)
(* import of the same witness.                                              *)
ReadyMeansImported ==
    \A w \in Present :
        witness[w].status = "pending_alignment" =>
            \E k \in Imported : /\ imports[k].witness = w /\ imports[k].done
                                /\ Len(imports[k].rows) = Len(imports[k].source)

-----------------------------------------------------------------------------
(* What the repository's words say and the code does not do. *)

(* witnesses.go:90: the import is idempotent, importing the same again      *)
(* leaves one passage per ordinal (every import of the witness having       *)
(* brought the same source).                                                *)
ReimportIdempotent ==
    \A k, m \in Imported :
        /\ imports[k].witness = imports[m].witness
        /\ imports[k].source = imports[m].source
        => \A i, j \in ToSet(imports[k].rows) \cup ToSet(imports[m].rows) :
             passages[i].ordinal = passages[j].ordinal => i = j

=============================================================================
