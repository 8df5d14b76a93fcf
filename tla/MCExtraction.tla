----------------------------- MODULE MCExtraction -----------------------------
(* A small instance of Extraction for TLC. *)
EXTENDS Extraction

CONSTANT r1

\* The web process works alone; or both processes work (nobody set
\* NOTEBOOKLM_INLINE_WORKER=0), under a shorter visibility timeout, a default
\* above its ceiling and no cap on memory.
Toml == {[vis |-> 4, timeout |-> 1, memory |-> 2, loops |-> {"inline"}],
         [vis |-> 2, timeout |-> 3, memory |-> 0, loops |-> {"inline", "standalone"}]}
\* With Precise = 2 and Coarse = 3 a memory cap of 2 is shown as 3, the other values as they are.
\* A longer timeout and one no deployment allows; a cap, and one too low.
Typed == [timeout |-> {3, 9}, memory |-> {1, 3}]
=============================================================================
