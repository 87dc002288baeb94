-------------------------- MODULE MCDeviceRecords ---------------------------
(* A small instance of DeviceRecords for TLC.                                 *)
EXTENDS DeviceRecords, TLC
Symmetric == Permutations(User) \cup Permutations(Proc)
=============================================================================
