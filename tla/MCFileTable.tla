---------------------------- MODULE MCFileTable ----------------------------
EXTENDS FileTable, TLC

MCSymmetry == Permutations(Files) \cup Permutations(Proc \ {InitProc})
=============================================================================
