------------------------------ MODULE MCSignIn ------------------------------
(* A small instance of SignIn for TLC. *)
EXTENDS SignIn, TLC

CONSTANTS u1, u2, u3, u4, r1, r2

\* Founders, later accounts, and requests are interchangeable.
Alike == Permutations({u1, u2}) \cup Permutations({u3, u4}) \cup Permutations({r1, r2})
=============================================================================
