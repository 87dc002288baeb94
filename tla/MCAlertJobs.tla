---------------------------- MODULE MCAlertJobs -----------------------------
EXTENDS AlertJobs, TLC

Symmetric == Permutations(Device)
=============================================================================
