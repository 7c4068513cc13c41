---------------------------- MODULE MCNocMetrics ----------------------------
(* Instances of NocMetrics for TLC; the bounds are in the .cfg files. *)
EXTENDS NocMetrics
=============================================================================
