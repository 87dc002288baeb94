------------------------------ MODULE MCIntake ------------------------------
(* A small instance of Intake for TLC.                                        *)
EXTENDS Intake, TLC
Symmetric == Permutations(Serial) \cup Permutations(Proc) \cup Permutations(Hook)
=============================================================================
