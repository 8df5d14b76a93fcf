-------------------------- MODULE MCIndexMigration --------------------------
(* Small instances of IndexMigration for TLC. *)
EXTENDS IndexMigration, TLC

CONSTANTS s1, s2, small, large, a1, a2

\* The threads, the sources and the widths are interchangeable.
Alike == Permutations({a1, a2}) \cup Permutations({s1, s2}) \cup Permutations({small, large})
=============================================================================
