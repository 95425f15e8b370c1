----------------------------- MODULE MCLayouts ------------------------------
(***************************************************************************)
(* A drawing with model space (1), two paper spaces (2, 3), the root (4),    *)
(* the layout dictionary (5) and its layouts (6, 7, 8).  The first sheet has *)
(* an authored viewport (10) before its overall one (9); it was saved with   *)
(* the authored one entered; the record of handle 13 was lost.             *)
(***************************************************************************)
EXTENDS Layouts, TLC

Ent(h, kind, owner) == [handle |-> h, kind |-> kind, owner |-> owner, id |-> 0]
Block(name, h, layout, listed) ==
    [name |-> name, handle |-> h, layout |-> layout, listed |-> listed]

MCSound ==
    [blocks |-> <<Block(0, 1, 6, <<12>>), Block(1, 2, 7, <<10, 9>>), Block(2, 3, 8, <<11>>)>>,
     objects |->
        (4 :> Dictionary(Null, <<<<Root, 5>>>>))
        @@ (5 :> Dictionary(4, <<<<"Model", 6>>, <<"Sheet1", 7>>, <<"Sheet2", 8>>>>))
        @@ (6 :> Layout("Model", 5, 1, Null, << >>, 0))
        @@ (7 :> Layout("Sheet1", 5, 2, 10, <<9, 10>>, 1))
        @@ (8 :> Layout("Sheet2", 5, 3, 11, <<11>>, 2)),
     ents |-> <<Ent(12, "line", 1), Ent(10, "viewport", 2), Ent(9, "viewport", 2),
                Ent(11, "viewport", 3)>>,
     nod |-> 4, layoutDict |-> 5, model |-> 1, paper |-> 2, next |-> 14]
=============================================================================
