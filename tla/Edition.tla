------------------------------ MODULE Edition ------------------------------
(***************************************************************************)
(* From source texts to the definitive text: a base and its witnesses are  *)
(* imported, each witness is aligned with the base, decisions on the       *)
(* proposed variants are approved, and the approved readings are applied   *)
(* to the base (internal/collate, internal/definitive over internal/align  *)
(* and internal/text).                                                     *)
(*                                                                         *)
(* Only data flows here: one import per text and one alignment per witness *)
(* (Workbench lets them interleave, repeat and fail).                      *)
(***************************************************************************)
EXTENDS Alignment

CONSTANTS
    Base,           \* the base witness
    Witnesses,      \* the others
    Sources,        \* [{Base} \cup Witnesses -> sets of source texts]
    EditorTexts,    \* readings an editor may type in
    MaxDecisions    \* bound on the decisions approved

AllTexts == {Base} \cup Witnesses

(* Texts are sequences of runes, and the empty id is no passage's.          *)
Runes == {Space} \cup UNION {ToSet(t) : t \in EditorTexts \cup UNION {Sources[w] : w \in AllTexts}}
ASSUME SourceAssumption == \A w \in AllTexts : Sources[w] \subseteq Seq(Runes)
ASSUME EditorAssumption == EditorTexts \subseteq Seq(Runes)
ASSUME NoPassageAssumption == NoPassage \notin AllTexts \X Nat

VARIABLES
    source,     \* the text given for each witness
    passages,   \* its passages, as imported
    proposals,  \* what aligning it has proposed
    approved    \* decisions: [witness, index of the proposal, nth on it, text adopted]

vars == <<source, passages, proposals, approved>>

-----------------------------------------------------------------------------
(* Import and alignment. *)

Passages(w, raw) ==
    LET segments == SegmentByParagraph(raw)
    IN [i \in DOMAIN segments |->
          [id |-> <<w, i>>, ordinal |-> segments[i].ordinal, text |-> segments[i].text]]

Init ==
    /\ source \in [AllTexts -> UNION {Sources[w] : w \in AllTexts}]
    /\ \A w \in AllTexts : source[w] \in Sources[w]
    /\ passages = [w \in AllTexts |-> Passages(w, source[w])]
    /\ proposals = [w \in Witnesses |-> <<>>]
    /\ approved = {}

(* A text without passages is aligned like any other. *)
Align(w) ==
    /\ proposals[w] = <<>>
    /\ proposals' = [proposals EXCEPT ![w] = AlignWitness(passages[Base], passages[w])]
    /\ UNCHANGED <<source, passages, approved>>

(* The readings of a proposal: what the alignment has stored, if that is   *)
(* not empty, and whatever editors type in.                                *)
Readings(v) == EditorTexts \cup ({v.alt} \ {<<>>})

DecisionsAbout(w, i) == {a \in approved : a.witness = w /\ a.index = i}

(* A decision is proposed for any of the readings and approved.  Nothing    *)
(* asks whether another decision about the same variant stands approved.   *)
Approve(w, i, reading) ==
    /\ Cardinality(approved) < MaxDecisions
    /\ \E nth \in 1 .. MaxDecisions :
          /\ {a.nth : a \in DecisionsAbout(w, i)} = 1 .. nth - 1
          /\ approved' = approved \cup {[witness |-> w, index |-> i, nth |-> nth, text |-> reading]}
    /\ UNCHANGED <<source, passages, proposals>>

Next ==
    \/ \E w \in Witnesses : Align(w)
    \/ \E w \in Witnesses : \E i \in DOMAIN proposals[w] :
          \E reading \in Readings(proposals[w][i]) : Approve(w, i, reading)

Spec == Init /\ [][Next]_vars

-----------------------------------------------------------------------------
(* The compiler. *)

Variant(a) == proposals[a.witness][a.index]

ReadingText(v, reading) == IF v.type = "omission" THEN <<>> ELSE reading

RegisterEdit(a) == [start |-> Variant(a).start, end |-> Variant(a).end,
                    adopted |-> ReadingText(Variant(a), a.text)]
Registered(listed) == [k \in DOMAIN listed |-> RegisterEdit(listed[k])]

(* Stable: edits of one start stay in the order given.  Seeded: no sort. *)
ByStart_AsGiven(edits) == edits
Precedes(edits, i, j) == \/ edits[i].start < edits[j].start
                         \/ edits[i].start = edits[j].start /\ i < j
ByStart(edits) ==
    LET Rank(i) == Cardinality({j \in DOMAIN edits : Precedes(edits, j, i)})
    IN [k \in DOMAIN edits |-> edits[CHOOSE i \in DOMAIN edits : Rank(i) = k - 1]]

(* An edit that starts inside the one before is skipped. *)
Overlaps(e, cursor) == e.start < cursor

ApplyEdit(base, acc, e) ==
    IF Overlaps(e, acc.cursor) THEN acc
    ELSE [out |-> acc.out \o SliceByRunes(base, acc.cursor, e.start) \o e.adopted,
          cursor |-> e.end]
(* Seeded: the text after the last edit is lost. *)
ApplyEdits_NoTail(base, edits) ==
    FoldLeft(LAMBDA acc, e : ApplyEdit(base, acc, e), [out |-> <<>>, cursor |-> 0], ByStart(edits)).out

ApplyEdits(base, edits) ==
    LET last == FoldLeft(LAMBDA acc, e : ApplyEdit(base, acc, e),
                         [out |-> <<>>, cursor |-> 0], ByStart(edits))
    IN last.out \o SliceByRunes(base, last.cursor, Len(base))

(* CompileDefinitive; edits maps passage ids to the edits listed for them. *)
CompileDefinitive(ps, edits) ==
    FlattenSeq([i \in DOMAIN ps |-> ApplyEdits(ps[i].text, edits[ps[i].id])])

(* One decision on its own. *)
ApplyDecision(v, reading, base) ==
    LET Around(text) == SliceByRunes(base, 0, v.start) \o text \o SliceByRunes(base, v.end, Len(base))
    IN CASE v.type = "omission" -> Around(<<>>)
         [] v.type \in {"word", "addition"} -> Around(reading)
         [] v.type = "movement" -> base \o reading

-----------------------------------------------------------------------------
(* Correctness. *)

PassageOf(id) == CHOOSE p \in ToSet(passages[Base]) : p.id = id
InBase(v) == v.passage # NoPassage

(* Proposals stay inside their passage: only an addition has an empty      *)
(* range, so every other one names runes that are there (the ranges of     *)
(* DiffText and of whole passages, counted in runes).                      *)
TypeOK ==
    \A w \in Witnesses : \A i \in DOMAIN proposals[w] :
        LET v == proposals[w][i] IN
        /\ v.type \in {"word", "addition", "omission", "movement"}
        /\ InBase(v) =>
             /\ v.start \in 0 .. Len(PassageOf(v.passage).text)
             /\ v.type # "addition" => IsValidRange(Len(PassageOf(v.passage).text), v.start, v.end)
             /\ v.type = "addition" => v.start = v.end

(* Segmentation loses, joins and reorders nothing: the words of a source    *)
(* are the words of its passages, whatever newlines and spaces stand       *)
(* between them, and no passage is blank or broken (SegmentByParagraph).   *)
SegmentsKeepWords ==
    \A w \in AllTexts :
        LET texts == [i \in DOMAIN passages[w] |-> passages[w][i].text] IN
        /\ FlattenSeq([i \in DOMAIN texts |-> Fields(texts[i])]) = Fields(source[w])
        /\ \A i \in DOMAIN texts : texts[i] # <<>> /\ ~Contains(texts[i], Newline)

(* In a source whose blocks need no trimming, single spaces inside and one  *)
(* blank line between, a passage is found at its rune offsets, although     *)
(* they are computed in bytes (RuneOffset).                                 *)
OffsetsExact ==
    \A w \in AllTexts :
        LET segments == SegmentByParagraph(source[w])
            tidy == Joined([i \in DOMAIN segments |-> segments[i].text], <<Newline, Newline>>)
        IN source[w] = tidy =>
             \A i \in DOMAIN segments :
                 SliceByRunes(source[w], segments[i].start, segments[i].end) = segments[i].text

(* Every variant of a witness is decided once, for the witness's reading    *)
(* where it has one.  (A movement variant carries no text.)                *)
Adopted(w) ==
    /\ proposals[w] # <<>>
    /\ \A i \in DOMAIN proposals[w] :
          LET v == proposals[w][i] IN
          /\ v.type # "movement"
          /\ \E a \in approved : /\ DecisionsAbout(w, i) = {a}
                                 /\ v.alt # <<>> => a.text = v.alt

(* The edits of a witness's decisions, by base passage. *)
EditsFor(w) ==
    [id \in {p.id : p \in ToSet(passages[Base])} |->
        Registered(SetToSeq({a \in approved : a.witness = w /\ Variant(a).passage = id}))]

(* Nothing of a witness is lost in its variants: once all of them are       *)
(* adopted, CompileDefinitive turns the base into the witness, passage by   *)
(* passage, with nothing where the witness omits one.  (Passages the        *)
(* witness has beyond the base belong to no base passage.)                  *)
AdoptedWitnessRebuilt ==
    \A w \in Witnesses : Adopted(w) =>
        LET base == passages[Base]
            edits == EditsFor(w)
            rebuilt == [i \in DOMAIN base |->
                          IF i <= Len(passages[w]) THEN passages[w][i].text ELSE <<>>]
        IN /\ \A i \in DOMAIN base : ApplyEdits(base[i].text, edits[base[i].id]) = rebuilt[i]
           /\ CompileDefinitive(base, edits) = FlattenSeq(rebuilt)

(* What listed edits mean, position by position: a rune stays unless an     *)
(* edit covers it, and the texts of the edits that start there stand before *)
(* it, in the order of the list.                                           *)
Apart(edits) ==
    \A i, j \in DOMAIN edits :
        i # j /\ edits[i].start <= edits[j].start => edits[i].end <= edits[j].start
Kept(base, edits, k) ==
    IF k < Len(base) /\ \A i \in DOMAIN edits : ~(edits[i].start <= k /\ k < edits[i].end)
    THEN <<base[k + 1]>> ELSE <<>>
Typed(edits, k) ==
    FlattenSeq([i \in DOMAIN edits |-> IF edits[i].start = k THEN edits[i].adopted ELSE <<>>])
Edited(base, edits) ==
    FlattenSeq([i \in 1 .. Len(base) + 1 |-> Typed(edits, i - 1) \o Kept(base, edits, i - 1)])

(* Edits that do not overlap are all applied, each where it belongs, in     *)
(* whatever order the decisions are listed; two insertions at one place,    *)
(* equal ones too, both stand there in that order (applyEdits sorts stably  *)
(* and moves a cursor).                                                     *)
EditsApplied ==
    \A bp \in ToSet(passages[Base]) :
        \A listed \in SetToSeqs({a \in approved : Variant(a).passage = bp.id}) :
            LET edits == Registered(listed)
            IN Apart(edits) => ApplyEdits(bp.text, edits) = Edited(bp.text, edits)

(* The compiler and ApplyDecision agree on a single decision; for movements *)
(* they do not, one replaces the passage and the other appends to it.       *)
DecisionAgrees ==
    \A a \in approved :
        InBase(Variant(a)) /\ Variant(a).type # "movement" =>
            LET base == PassageOf(Variant(a).passage).text
            IN ApplyDecision(Variant(a), a.text, base) = ApplyEdits(base, <<RegisterEdit(a)>>)

(* With every base passage linked, no inverted edge means that the witness  *)
(* passages follow the base (DetectMovements looks at neighbours only).     *)
MovementsFound ==
    \A w \in Witnesses :
        LET base == passages[Base] IN
        \A link \in [{p.id : p \in ToSet(base)} -> ToSet(passages[w])] :
            InvertedCount(DetectMovements(base, link)) = 0 <=>
                \A i, j \in DOMAIN base :
                    i < j => link[base[i].id].ordinal <= link[base[j].id].ordinal

-----------------------------------------------------------------------------
(* What the repository's words say and the code does not do. *)

(* interval.go:36: a witness with the base's passages in another order gets *)
(* a movement variant.  movement.go:46: relations that cannot be reconciled *)
(* with the base order are a cycle, and refused.  So another order is       *)
(* noticed one way or the other, however the passages are linked.           *)
Reordered(base, ws) ==
    /\ Len(ws) = Len(base)
    /\ \E i \in DOMAIN base : base[i].text # ws[i].text
    /\ \E place \in Bijection(DOMAIN base, DOMAIN ws) :
          \A i \in DOMAIN base : ws[place[i]].text = base[i].text
ReorderingNoticed ==
    \A w \in Witnesses :
        LET base == passages[Base]
            Links == [{p.id : p \in ToSet(base)} -> ToSet(passages[w])]
        IN proposals[w] # <<>> /\ Reordered(base, passages[w]) =>
             \/ \E v \in ToSet(proposals[w]) : v.type = "movement"
             \/ \E link \in Links : HasCycle(DetectMovements(base, link))

=============================================================================
