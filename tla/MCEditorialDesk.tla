-------------------------- MODULE MCEditorialDesk --------------------------
(***************************************************************************)
(* Instances of the editorial desk for TLC.                                *)
(***************************************************************************)
EXTENDS EditorialDesk, TLC

(* Requests, editors' names and generated ids are interchangeable; the     *)
(* empty editor is not.  Used by runs without liveness properties.         *)
Symmetry ==
    Permutations(Slots) \cup Permutations(Editors \ {NoEditor})
      \cup Permutations(Witnesses) \cup Permutations(ReadingIds)
      \cup Permutations(DecisionIds)

=============================================================================
