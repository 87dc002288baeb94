----------------------------- MODULE MCSessions -----------------------------
EXTENDS SessionsSignIns, TLC

Symmetric == Permutations(Proc)
=============================================================================
