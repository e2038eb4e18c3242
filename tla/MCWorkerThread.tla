--------------------------- MODULE MCWorkerThread ---------------------------
(* Small instances of WorkerThread for TLC. *)
EXTENDS WorkerThread, TLC

CONSTANTS a1, a2, a3
=============================================================================
