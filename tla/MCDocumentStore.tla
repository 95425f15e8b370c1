--------------------------- MODULE MCDocumentStore ---------------------------
(* A small drawing: model space (1), paper space (2), a caller that may      *)
(* bring handles of its own, and images of entities 3 and 4 that it kept.    *)
EXTENDS DocumentStore

CONSTANTS v1, v2

MCImages ==
    {[handle |-> 3, owner |-> 1, sub |-> FALSE, val |-> v1, raw |-> v1],
     [handle |-> 4, owner |-> 2, sub |-> FALSE, val |-> v1, raw |-> NoRaw]}
=============================================================================
