----------------------------- MODULE MCProcess -----------------------------
(* Constants of Process for TLC.                                           *)
EXTENDS Process

\* wait_for of any child, and of pid 2.
MCWaitPids == {-1, 2}
=============================================================================
