---------------------------- MODULE MCSymbolTable ----------------------------
(* Five spellings of four names: "0" is protected, "wall" and "WALL" fold to *)
(* "WALL".                                                                   *)
EXTENDS SymbolTable

MCNames == {"0", "DOOR", "ROOF", "WALL", "wall"}
MCFold == [n \in MCNames |-> IF n = "wall" THEN "WALL" ELSE n]

\* No action reads one reference to change another, so that it is enough to
\* follow one of them at a time away from the protected layer.
OneReferenceMoved ==
    \/ state = "0" /\ current.name = "0"
    \/ state = "0" /\ \A x \in Ents : layerOf[x] = "0"
    \/ current.name = "0" /\ \A x \in Ents : layerOf[x] = "0"
=============================================================================
