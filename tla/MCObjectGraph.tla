--------------------------- MODULE MCObjectGraph -----------------------------
(* Two entities (1 and 2), the root dictionary (3) and ACAD_GROUP (4).       *)
EXTENDS ObjectGraph

MCAutoNames == [i \in 1 .. 2 |-> IF i = 1 THEN "*A1" ELSE "*A2"]
=============================================================================
