----------------------------- MODULE MCNotebook -----------------------------
(* A small instance of Notebook for TLC. *)
EXTENDS Notebook, TLC

CONSTANTS n1, n2, s1, s2, s3, r1, r2

\* Two sources of one notebook, one of another.
Homes == (s1 :> n1) @@ (s2 :> n1) @@ (s3 :> n2)

\* No selection, and one that leaves out a source of the first notebook, names a
\* source of the other, and is emptied by the deletion of one source.
Forms == {{}, {s1, s3}}
Alike == Permutations({r1, r2})
=============================================================================
