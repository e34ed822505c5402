---------------------------- MODULE MCWorkbench ----------------------------
(***************************************************************************)
(* Instances of the workbench for TLC: passages over two letters.          *)
(***************************************************************************)
EXTENDS Workbench

CONSTANTS a, b

(* A word that differs from a word, a word that only lacks a letter, a      *)
(* passage more or less.                                                    *)
SourceSet == {<<<<a, b>>, <<a>>>>, <<<<a>>, <<b>>>>, <<<<a>>>>}

Symmetry == Permutations(Slots) \cup Permutations(WitnessIds) \cup Permutations(ImportIds)
              \cup Permutations(AnchorIds)

=============================================================================
