------------------------------- MODULE MCPipe -------------------------------
EXTENDS Pipe, TLC

MCSymmetry == Permutations(Proc)
=============================================================================
