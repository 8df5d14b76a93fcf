--------------------------- MODULE MCIngestQueue ---------------------------
(* Small instances of IngestQueue for TLC. *)
EXTENDS IngestQueue, TLC

\* Every source is in the same notebook.
OneNotebook == [s \in Sources |-> CHOOSE n \in Notebooks : TRUE]

\* Job ids order the sources, so only the processes are interchangeable.
ProcessSymmetry == Permutations(Workers) \cup Permutations(Requests)
=============================================================================
