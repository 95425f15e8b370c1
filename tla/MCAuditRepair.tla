--------------------------- MODULE MCAuditRepair ----------------------------
(***************************************************************************)
(* A drawing with a layer, model space (4) with a line and paper space (5)  *)
(* with an insert, a Block marker each, the root dictionary (13), a record  *)
(* in it (14) and the line's extension dictionary (15).                     *)
(***************************************************************************)
EXTENDS AuditRepair, TLC

Ent(h, kind, owner, xdic, nested) ==
    [handle |-> h, kind |-> kind, owner |-> owner, xdic |-> xdic,
     nested |-> nested, mode |-> IF owner = 4 THEN 2 ELSE 1,
     raw |-> [handle |-> h, owner |-> owner, xdic |-> xdic]]
Obj(h, kind, owner, refs, tag) ==
    [id |-> h, kind |-> kind, owner |-> owner, refs |-> refs, tag |-> tag]

MCSound ==
    [ctl |-> [layer |-> 1, block |-> 2],
     layers |-> <<3>>,
     blocks |-> <<[handle |-> 4, begin |-> 6, end |-> 7, listed |-> <<10>>],
                  [handle |-> 5, begin |-> 8, end |-> 9, listed |-> <<11>>]>>,
     ents |-> <<Ent(10, "line", 4, 15, {}), Ent(6, "begin", 4, 0, {}),
                Ent(11, "insert", 5, 0, {12}), Ent(8, "begin", 5, 0, {})>>,
     index |-> (10 :> 1) @@ (6 :> 2) @@ (11 :> 3) @@ (8 :> 4),
     objs |-> (13 :> Obj(13, "dictionary", 0, {14}, "root"))
              @@ (14 :> Obj(14, "xrecord", 13, {}, "record"))
              @@ (15 :> Obj(15, "dictionary", 10, {}, "extension")),
     xdicOf |-> (10 :> 15),
     dict |-> 13, model |-> 4, paper |-> 5, next |-> 16, seed |-> 16]
=============================================================================
