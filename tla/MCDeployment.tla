---------------------------- MODULE MCDeployment ----------------------------
(***************************************************************************)
(* What is set up before and around the application: the schema with the   *)
(* seed, and the boundary of exposure. They share no variable, so that it  *)
(* is enough to let each of them move while the other has not begun.       *)
(***************************************************************************)
EXTENDS Schema, Exposure

Init == SchemaInit /\ ExposureInit

Next ==
    \/ /\ SchemaNext
       /\ ExposureInit /\ ingress = "funnel" /\ token = Unset
       /\ UNCHANGED exposureVars
    \/ ExposureNext /\ SchemaInit /\ UNCHANGED schemaVars

Spec == Init /\ [][Next]_<<schemaVars, exposureVars>>

=============================================================================
