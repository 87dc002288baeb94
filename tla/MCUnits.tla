------------------------------ MODULE MCUnits -------------------------------
(* A small instance of Units for TLC.                                         *)
EXTENDS Units, TLC
Symmetric == Permutations(Department) \cup Permutations(Device) \cup Permutations(Proc)
=============================================================================
