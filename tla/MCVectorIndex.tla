--------------------------- MODULE MCVectorIndex ---------------------------
(* Small instances of VectorIndex for TLC. *)
EXTENDS VectorIndex, TLC

CONSTANTS web, worker, t1, t2, t3, r1, r2

\* A web process that only searches, and a worker with two threads that write.
OneReader == (t1 :> web) @@ (t2 :> worker) @@ (t3 :> worker)
ReaderAndWriter ==
  (web :> {"query"}) @@ (worker :> {"query", "upsert", "delete", "clear", "reset"})

\* The worker's threads, and the records, are interchangeable there.
Alike == Permutations({t2, t3}) \cup Permutations({r1, r2})
=============================================================================
