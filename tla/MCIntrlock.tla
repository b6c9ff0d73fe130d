----------------------------- MODULE MCIntrlock -----------------------------
EXTENDS Intrlock, TLC

\* Threads and locks are interchangeable: Init chooses any thread to run.
MCSymmetry == Permutations(Threads) \cup Permutations(Locks)
=============================================================================
