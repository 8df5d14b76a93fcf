-------------------------------- MODULE Lists --------------------------------
(***************************************************************************)
(* What the handlers do with lists: add up, pick out, sort, cut.           *)
(*                                                                         *)
(* Sorting and picking count what comes before an element. The library's   *)
(* SortSeq and SelectSeq give the same sequences; these definitions can be *)
(* expanded in a proof.                                                    *)
(***************************************************************************)
EXTENDS Integers, SequencesExt

Least(a, b) == IF a < b THEN a ELSE b

Total(lengths) == FoldLeft(+, 0, lengths)

Cut(s, n) == SubSeq(s, 1, Least(Len(s), n))

\* The n-th of the numbers in P.
Nth(P, n) == CHOOSE k \in P : Cardinality({j \in P : j < k}) = n - 1

\* The elements of s at the places in P, in their order.
Picked(s, P) == [n \in 1 .. Cardinality(P) |-> s[Nth(P, n)]]

\* The place i is sorted before the place j: by descending rank, and equals as they are.
Outranks(rank, i, j) == rank[i] > rank[j] \/ (rank[i] = rank[j] /\ i < j)

\* s sorted by descending rank, where rank[i] is that of s[i].
Ranked(s, rank) ==
  [n \in DOMAIN s |->
     s[CHOOSE i \in DOMAIN s : Cardinality({j \in DOMAIN s : Outranks(rank, j, i)}) = n - 1]]
=============================================================================
