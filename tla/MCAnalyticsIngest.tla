------------------------- MODULE MCAnalyticsIngest -------------------------
(* Instances of AnalyticsIngest for TLC. *)
EXTENDS AnalyticsIngest, TLC

CONSTANTS t1, t2, r1, r2, viewA, viewB, click

Symmetry == Permutations(Request) \cup Permutations(Tab)
=============================================================================
