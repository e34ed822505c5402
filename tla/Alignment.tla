----------------------------- MODULE Alignment -----------------------------
(***************************************************************************)
(* What the alignment proposes for one witness (internal/align): the       *)
(* passages of the base and of the witness, paired by position, and their  *)
(* differences as variants; movements between linked passages.  A passage  *)
(* is [id, ordinal, text].                                                 *)
(***************************************************************************)
EXTENDS Texts

CONSTANTS
    NoPassage   \* the empty base_passage_id

-----------------------------------------------------------------------------
(* AlignInterval, for the one witness RunAlignment gives it. *)

(* By ordinal. *)
OrderDiffers(base, ws) == \E i \in DOMAIN base : base[i].ordinal # ws[i].ordinal

ClassifyDiff(d) ==
    CASE d.base = <<>> /\ d.alt # <<>> -> "addition"
      [] d.alt = <<>> /\ d.base # <<>> -> "omission"
      [] OTHER -> "word"

(* Seeded: the range is the witness's. *)
DiffProposals_WitnessRange(bp, wp) ==
    [i \in DOMAIN DiffText(bp.text, wp.text) |->
        LET d == DiffText(wp.text, bp.text)[i]
        IN [passage |-> bp.id, start |-> d.start, end |-> d.end, from |-> wp.id,
            type |-> ClassifyDiff(DiffText(bp.text, wp.text)[i]), alt |-> d.base]]

DiffProposals(bp, wp) ==
    LET Proposal(d) == [passage |-> bp.id, start |-> d.start, end |-> d.end,
                        type |-> ClassifyDiff(d), alt |-> d.alt, from |-> wp.id]
        diffs == DiffText(bp.text, wp.text)
    IN [i \in DOMAIN diffs |-> Proposal(diffs[i])]

WholePassage(bp, type) ==
    [passage |-> bp.id, start |-> 0, end |-> Len(bp.text), type |-> type,
     alt |-> <<>>, from |-> NoPassage]

ExtraPassage(wp) ==
    [passage |-> NoPassage, start |-> 0, end |-> 0, type |-> "addition",
     alt |-> wp.text, from |-> wp.id]

IsMovement(base, ws) == Len(base) > 1 /\ Len(ws) = Len(base) /\ OrderDiffers(base, ws)

Paired(base, ws) == IF Len(ws) < Len(base) THEN Len(ws) ELSE Len(base)

AlignWitness(base, ws) ==
    LET extra == SubSeq(ws, Len(base) + 1, Len(ws))
        missing == SubSeq(base, Len(ws) + 1, Len(base))
    IN IF IsMovement(base, ws) THEN <<WholePassage(base[1], "movement")>>
       ELSE FlattenSeq([i \in 1 .. Paired(base, ws) |-> DiffProposals(base[i], ws[i])])
            \o [i \in DOMAIN extra |-> ExtraPassage(extra[i])]
            \o [i \in DOMAIN missing |-> WholePassage(missing[i], "omission")]

-----------------------------------------------------------------------------
(* Movements between consecutive base passages; link maps some ids of base *)
(* passages to witness passages.                                           *)

(* Seeded: an edge is inverted only if the passages stand side by side. *)
Inverted_Adjacent(from, to) == from.ordinal = to.ordinal + 1
Inverted(from, to) == from.ordinal > to.ordinal

DetectMovements(base, link) ==
    LET Edge(i) ==
            LET from == base[i].id
                to == base[i + 1].id
            IN IF {from, to} \subseteq DOMAIN link
               THEN <<[from |-> from, to |-> to, inverted |-> Inverted(link[from], link[to])]>>
               ELSE <<>>
    IN FlattenSeq([i \in 1 .. Len(base) - 1 |-> Edge(i)])

InvertedCount(edges) == Cardinality({i \in DOMAIN edges : edges[i].inverted})

(* Along the inverted edges from some start on, one leads back. *)
HasCycle(edges) ==
    \E first \in DOMAIN edges : \E i \in first .. Len(edges) :
        /\ edges[i].inverted
        /\ edges[i].to \in {edges[first].from}
             \cup UNION {{edges[j].from, edges[j].to} :
                         j \in {k \in first .. i - 1 : edges[k].inverted}}

=============================================================================
