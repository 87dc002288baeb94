--------------------------- MODULE MCDeviceImages ---------------------------
EXTENDS DeviceImages, TLC

Symmetric == Permutations(Proc)
=============================================================================
