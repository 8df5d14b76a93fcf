--------------------------- MODULE MCEvalWorkbench ---------------------------
(* A small instance of EvalWorkbench for TLC. *)
EXTENDS EvalWorkbench, TLC

CONSTANTS r1, r2, p1, p2, base, other, upper, lower, acronym, m1, m2

\* Nothing ticked; everything; a policy that is not judged is refused.
Boxes == {[judge |-> FALSE, hints |-> FALSE, policy |-> FALSE],
          [judge |-> TRUE, hints |-> TRUE, policy |-> TRUE],
          [judge |-> FALSE, hints |-> TRUE, policy |-> TRUE]}
\* All of it off, and all of it on.
Saves == {[revision |-> 0, hintsOn |-> b, policyOn |-> b, policy |-> b] : b \in BOOLEAN}
\* Two spellings of one word, which an index that folds ASCII tells apart (such as
\* one that begins with an umlaut), and another word.
Folded == (upper :> "word") @@ (lower :> "word") @@ (acronym :> "acronym")
Kept   == [t \in {upper, lower, acronym} |-> t]
Alike == Permutations({r1, r2}) \cup Permutations({p1, p2}) \cup Permutations({upper, lower})
=============================================================================
