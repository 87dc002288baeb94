----------------------------- MODULE MCPlatform -----------------------------
(* Small instances of Platform for TLC.                                       *)
EXTENDS PlatformCustody, TLC

\* The rows and the handlers of a kind are interchangeable.
Symmetric ==
  Permutations(Device) \cup Permutations(Employee) \cup Permutations(Proc)
=============================================================================
