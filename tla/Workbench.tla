----------------------------- MODULE Workbench -----------------------------
(***************************************************************************)
(* Imports, anchors and alignment runs of one project at the same time:    *)
(* Intake, the anchors (internal/store/anchors.go), and RunAlignment       *)
(* (internal/service/alignment.go), whose loci and first readings are what *)
(* Alignment makes of the passages a run has read.                         *)
(*                                                                         *)
(* Passages, variants and readings are named by their place in the table.  *)
(* The update of the project that ends a run is in Publication.            *)
(***************************************************************************)
EXTENDS Intake, Alignment

CONSTANTS
    AnchorIds,      \* ids NewID may return for anchors
    Anchorable,     \* bound: anchors are proposed on these passages only
    MaxVariants     \* bound: no alignment starts beyond this many variants

ASSUME VariantBoundAssumption == MaxVariants \in Nat
ASSUME NoPassageAssumption == NoPassage \notin Nat

(* No passage is empty: SegmentByParagraph drops blank blocks. *)
Runes == UNION {ToSet(text) : text \in PassageTexts}
ASSUME TextAssumption == PassageTexts \subseteq Seq(Runes) \ {<<>>}

VARIABLES
    anchor,     \* table anchors
    variants,   \* table variants: what the proposals of Alignment keep
    readings,   \* table readings
    cut         \* history: some alignment has ended early

aligned == <<anchor, variants, readings, cut>>
vars == <<intakeVars, aligned>>

-----------------------------------------------------------------------------
AnchorStatus == {"candidate", "confirmed", "deprecated"}
AnchorRow == [passage: Nat \ {0}, status: AnchorStatus]

WorkbenchTypeOK ==
    /\ anchor \in [AnchorIds -> AnchorRow \cup {Absent}]
    /\ \A v \in ToSet(variants) : /\ v.passage \in DOMAIN passages \cup {NoPassage}
                                 /\ 0 <= v.start /\ v.start <= v.end
    /\ \A r \in ToSet(readings) : /\ r.variant \in DOMAIN variants
                                 /\ r.passage \in DOMAIN passages
                                 /\ r.witness \in Present
    /\ cut \in BOOLEAN

WorkbenchInit ==
    /\ Init
    /\ anchor = [a \in AnchorIds |-> Absent]
    /\ variants = <<>>
    /\ readings = <<>>
    /\ cut = FALSE

AnchorsIn(status) == {a \in AnchorIds : anchor[a].status = status}

(* ListPassages: by ordinal, equal ordinals as they were inserted. *)
Before(i, j) == \/ passages[i].ordinal < passages[j].ordinal
                \/ passages[i].ordinal = passages[j].ordinal /\ i < j
PassagesOf(w) ==
    LET ids == {i \in DOMAIN passages : passages[i].witness = w}
        Rank(i) == Cardinality({j \in ids : Before(j, i)})
    IN [n \in 1 .. Cardinality(ids) |-> CHOOSE i \in ids : Rank(i) = n - 1]
Listed(ids) == [i \in DOMAIN ids |-> [id |-> ids[i], ordinal |-> passages[ids[i]].ordinal,
                                      text |-> passages[ids[i]].text]]

-----------------------------------------------------------------------------
(* Anchors, a transaction or one UPDATE each.  The base passage may be any  *)
(* passage; the witness passage that is linked is read by nobody.           *)

Occupied_Confirmed(p) == \E a \in AnchorsIn("confirmed") : anchor[a].passage = p   \* seeded
Occupied(p) == \E a \in AnchorsIn("candidate") : anchor[a].passage = p

ProposeAnchor(a, p) ==
    /\ anchor[a] = Absent
    /\ p \in DOMAIN passages
    /\ ~Occupied(p)
    /\ anchor' = [anchor EXCEPT ![a] = [passage |-> p, status |-> "candidate"]]
    /\ UNCHANGED <<intakeVars, variants, readings, cut>>

(* An anchor that is not a candidate is refused, or not matched. *)
ConfirmAnchor(a) ==
    /\ a \in AnchorsIn("candidate")
    /\ anchor' = [anchor EXCEPT ![a].status = "confirmed"]
    /\ UNCHANGED <<intakeVars, variants, readings, cut>>

Deprecable_Any(a) == anchor[a] # Absent   \* seeded: no status in the WHERE
Deprecable(a) == a \in AnchorsIn("candidate")

DeprecateAnchor(a) ==
    /\ Deprecable(a)
    /\ anchor' = [anchor EXCEPT ![a].status = "deprecated"]
    /\ UNCHANGED <<intakeVars, variants, readings, cut>>

-----------------------------------------------------------------------------
(* RunAlignment. *)

Aligning == {"witnesses", "pair", "loci", "readings"}
NoRun == [pc |-> "witnesses", base |-> <<>>, todo |-> {}, from |-> NoWitness,
          found |-> <<>>, first |-> 0, next |-> 0]

(* Confirmed anchors and bases stay, so the reads up to the base passages   *)
(* are as one.  Of several bases the first by code is taken.                *)
AlignCheck(s) ==
    /\ Len(variants) < MaxVariants
    /\ Cardinality(AnchorsIn("confirmed")) >= 2
    /\ \E b \in Bases : Begin(s, [NoRun EXCEPT !.base = PassagesOf(b)])
    /\ UNCHANGED <<tables, imports, aligned>>

(* mustListWitnesses: none if the store fails; in the order of their codes, *)
(* so here in any.                                                          *)
AlignList(s) ==
    /\ At(s, "witnesses")
    /\ \E todo \in {{}, Present \ Bases} :
         call' = [call EXCEPT ![s].pc = "pair", ![s].todo = todo]
    /\ UNCHANGED <<tables, history, aligned>>

(* An empty range that is no addition becomes the whole passage. *)
Located(v) ==
    IF v.start = 0 /\ v.end = 0 /\ v.type # "addition" /\ v.passage # NoPassage
    THEN [v EXCEPT !.end = Len(passages[v.passage].text)] ELSE v

AlignPair(s) ==
    LET c == call[s] IN
    /\ At(s, "pair")
    /\ \E w \in c.todo :
         LET found == AlignWitness(Listed(c.base), Listed(PassagesOf(w)))
         IN call' = [call EXCEPT ![s].pc = IF found = <<>> THEN "pair" ELSE "loci",
                                 ![s].todo = c.todo \ {w}, ![s].from = w,
                                 ![s].found = [i \in DOMAIN found |-> Located(found[i])]]
    /\ UNCHANGED <<tables, history, aligned>>

(* CreateVariants: one transaction for the loci of a witness. *)
AlignLoci(s) ==
    LET c == call[s]
        Row(v) == [passage |-> v.passage, start |-> v.start, end |-> v.end, type |-> v.type]
    IN
    /\ At(s, "loci")
    /\ variants' = variants \o [i \in DOMAIN c.found |-> Row(c.found[i])]
    /\ call' = [call EXCEPT ![s].pc = "readings", ![s].first = Len(variants), ![s].next = 1]
    /\ UNCHANGED <<tables, history, anchor, readings, cut>>

(* The locus a reading belongs to.  Seeded: readings are counted apart; the *)
(* place is one too far.                                                    *)
LocusAt_Counted(c) ==
    c.first + Cardinality({i \in 1 .. c.next : c.found[i].alt # <<>>})
LocusAt_Next(c) == c.first + c.next + 1
LocusAt(c) == c.first + c.next

(* Seeded: additions get no reading. *)
HasReading_Words(v) == v.alt # <<>> /\ v.type = "word"
HasReading(v) == v.alt # <<>>

(* One INSERT per reading. *)
AlignReading(s) ==
    LET c == call[s] IN
    /\ At(s, "readings") /\ c.next <= Len(c.found)
    /\ readings' = IF HasReading(c.found[c.next])
                   THEN Append(readings, [variant |-> LocusAt(c), witness |-> c.from,
                                          passage |-> c.found[c.next].from,
                                          text |-> c.found[c.next].alt])
                   ELSE readings
    /\ call' = [call EXCEPT ![s].next = @ + 1]
    /\ UNCHANGED <<tables, history, anchor, variants, cut>>

AlignNextWitness(s) ==
    /\ At(s, "readings") /\ call[s].next > Len(call[s].found)
    /\ call' = [call EXCEPT ![s] = [NoRun EXCEPT !.pc = "pair", !.base = call[s].base,
                                                 !.todo = call[s].todo]]
    /\ UNCHANGED <<tables, history, aligned>>

AlignEnd(s) ==
    /\ At(s, "pair") /\ call[s].todo = {}
    /\ Return(s)
    /\ UNCHANGED <<tables, history, aligned>>

-----------------------------------------------------------------------------
(* An error or a restart, as in Intake. *)

WorkbenchAbort(s) ==
    /\ Abort(s)
    /\ cut' = (cut \/ call[s].pc \in Aligning)
    /\ UNCHANGED <<anchor, variants, readings>>

WorkbenchRestart ==
    /\ Restart
    /\ cut' = (cut \/ \E s \in Slots : call[s].pc \in Aligning)
    /\ UNCHANGED <<anchor, variants, readings>>

Importing ==
    /\ \/ \E w \in WitnessIds : CreateWitness(w)
       \/ \E s \in Slots : Arrive(s) \/ Step(s)
    /\ UNCHANGED aligned

Anchoring ==
    \E a \in AnchorIds : \/ \E p \in Anchorable : ProposeAnchor(a, p)
                         \/ ConfirmAnchor(a)
                         \/ DeprecateAnchor(a)

RunAlignment(s) ==
    \/ AlignCheck(s) \/ AlignList(s) \/ AlignPair(s) \/ AlignLoci(s)
    \/ AlignReading(s) \/ AlignNextWitness(s) \/ AlignEnd(s)

Next ==
    \/ Importing
    \/ Anchoring
    \/ \E s \in Slots : RunAlignment(s) \/ WorkbenchAbort(s)
    \/ WorkbenchRestart

Spec == WorkbenchInit /\ [][Next]_vars

-----------------------------------------------------------------------------
(* Correctness. *)

(* No two unconfirmed anchors stand on one passage (README.md:81), while    *)
(* anchors are confirmed and deprecated and passages come in.               *)
OneCandidatePerPassage ==
    \A a, b \in AnchorsIn("candidate") : anchor[a].passage = anchor[b].passage => a = b

(* A confirmed anchor stays confirmed and where it is, so a snapshot and an *)
(* alignment may rely on it (DeprecateAnchor asks for the status).          *)
ConfirmedForGood ==
    [][\A a \in AnchorsIn("confirmed") : anchor'[a] = anchor[a]]_vars

Applied(v, text) ==
    LET base == passages[v.passage].text
    IN SliceByRunes(base, 0, v.start) \o text \o SliceByRunes(base, v.end, Len(base))

(* A stored reading belongs to its locus: put in the place of the locus's   *)
(* range it turns the base passage into the passage it was taken from, of   *)
(* the witness it names, although another import or alignment may have      *)
(* added rows between the reads and the inserts (vs[i] in RunAlignment).    *)
ReadingRebuilds ==
    \A r \in ToSet(readings) :
        LET v == variants[r.variant] IN
        /\ passages[r.passage].witness = r.witness
        /\ passages[r.passage].text = IF v.passage = NoPassage THEN r.text ELSE Applied(v, r.text)

(* Unless an alignment was cut short, every word or addition that no run is *)
(* still working on has exactly one reading: a locus is never left without  *)
(* the text that makes it one.                                              *)
LociWitnessed ==
    LET open == UNION {{call[s].first + i : i \in DOMAIN call[s].found} :
                       s \in {t \in Slots : At(t, "readings")}}
    IN ~cut => \A i \in DOMAIN variants \ open :
                 Cardinality({k \in DOMAIN readings : readings[k].variant = i}) =
                   (IF variants[i].type \in {"word", "addition"} THEN 1 ELSE 0)

=============================================================================
