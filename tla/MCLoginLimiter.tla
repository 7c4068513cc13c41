--------------------------- MODULE MCLoginLimiter ---------------------------
(* Instances of LoginLimiter for TLC. *)
EXTENDS LoginLimiter, TLC

CONSTANTS r1, r2

Symmetry == Permutations(Request)
=============================================================================
