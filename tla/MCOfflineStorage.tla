-------------------------- MODULE MCOfflineStorage --------------------------
(* Small instances of OfflineStorage for TLC. *)
EXTENDS OfflineStorage, TLC

CONSTANTS r1, r2, t1, t2, c1, c2, c3

\* Records of two tenants.
MCTenant == [r \in Records |-> IF r = r1 THEN t1 ELSE t2]

\* The worker is the only thread that retrieves records.
Deleting == {{"Kill", "KillExpires", "RetryAfter", "Crash"}, {"Statistics", "DeleteData"}}
Flushing == {{"Flush", "DropIfFull"}, {"Statistics", "Crash"}}
\* Events of EventLatency_Max: the user's thread retrieves records as well.
TwoReaders == {{"Immediate"}}
DeletingOrTwoReaders == Deleting \cup TwoReaders

\* Retrieve_Begin takes an unused context, and unused contexts do not differ.
Symm == Permutations(Uploads)
=============================================================================
