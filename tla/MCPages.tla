------------------------------ MODULE MCPages -------------------------------
(* Instances of Pages for TLC.                                               *)
EXTENDS Pages, TLC

CONSTANTS p1, p2, c1

\* p1 has both translations, p2 only the Spanish one, and c1 only the English.
Projects       == p1 :> {"en", "es"} @@ p2 :> {"es"}
Certifications == c1 :> {"en"}
=============================================================================
