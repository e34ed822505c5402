------------------------------ MODULE MCIntake ------------------------------
(***************************************************************************)
(* Instances of the intake for TLC.                                        *)
(***************************************************************************)
EXTENDS Intake

CONSTANTS t1, t2, t3

SourceSet == {<<t1, t2, t3>>, <<t1>>, <<>>}
Symmetry == Permutations(Slots) \cup Permutations(WitnessIds) \cup Permutations(ImportIds)

=============================================================================
