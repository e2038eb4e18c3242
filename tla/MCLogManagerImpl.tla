-------------------------- MODULE MCLogManagerImpl --------------------------
(* Small instances of LogManagerImpl for TLC. *)
EXTENDS LogManagerImpl, TLC

CONSTANTS t1, t2, t3, l1, l2

Symm == Permutations(Threads) \cup Permutations(Loggers)
=============================================================================
