--------------------------- MODULE MCPublication ---------------------------
(***************************************************************************)
(* Instances of the publication of a project for TLC.  Variants and        *)
(* decisions are numbered: decision i is about variant i, and decisions    *)
(* beyond the last variant are about variant 1.                            *)
(***************************************************************************)
EXTENDS Publication, TLC

DecisionTopics == [d \in DecisionIds |-> IF d \in VariantIds THEN d ELSE 1]

(* Requests, anchors and snapshot ids are interchangeable. *)
Symmetry == Permutations(Slots) \cup Permutations(Anchors) \cup Permutations(SnapshotIds)

=============================================================================
