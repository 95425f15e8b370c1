----------------------------- MODULE MCDwgLoad ------------------------------
(***************************************************************************)
(* One drawing of sixteen records, before and after R2004.  Model space (1)  *)
(* holds an INSERT (13) with two attributes and two lines, drawn 13, 23, 12.  *)
(* A second sheet (3) draws a line (21), then a polyline (17) with vertices   *)
(* 18, 20, 19 and 25, the last one of another kind of polyline.  Line 22      *)
(* names an owner that does not exist, line 23 none.  Up to two records fail, *)
(* or one fails and a link or a list is damaged; a visitor may refuse the     *)
(* INSERT or the polyline.                                                  *)
(***************************************************************************)
EXTENDS DwgLoad, TLC

R(h, kind, mode, owner, next, owned) ==
    [handle |-> h, kind |-> kind, mode |-> mode, owner |-> owner, next |-> next,
     owned |-> owned, fault |-> "none", at |-> (h * 5) % 27]

\* The next entity of each record.
SoundLinks == [h \in 11 .. 26 |->
    CASE h = 13 -> 23 [] h = 23 -> 12 [] h = 14 -> Unlinked [] h = 18 -> 20 [] h = 20 -> 19
      [] h = 19 -> 25 [] h = 21 -> 17 [] OTHER -> Null]

Drawing(links, owned, r2004) ==
    LET Rec(h, kind, mode, owner) ==
            R(h, kind, mode, owner, links[h], IF h = 17 /\ r2004 THEN owned ELSE << >>)
    IN <<Rec(11, "marker", "model", Null), Rec(12, "plain", "model", Null),
         Rec(13, "insert", "model", Null), Rec(14, "attrib", "explicit", 13),
         Rec(15, "attrib", "explicit", 13), Rec(16, "seqend", "explicit", 13),
         Rec(17, "polyface", "paper", Null), Rec(18, "vertex", "explicit", 17),
         Rec(19, "vertex", "explicit", 17), Rec(20, "vertex", "explicit", 17),
         Rec(21, "plain", "paper", Null), Rec(22, "plain", "explicit", 99),
         Rec(23, "plain", "explicit", Null), Rec(24, "auxiliary", "explicit", 1),
         Rec(25, "stray", "explicit", 17), Rec(26, "object", "explicit", 1)>>

\* What a sheet's block record may list, and the ends its chain may have.
Block(h, first, last, list) == [handle |-> h, first |-> first, last |-> last, list |-> list]
SheetLists == {<<21, 17>>, << >>, <<17>>, <<21, 17, 21>>, <<21, 17, 23>>}
SheetEnds == {<<21, 17>>, <<0, 0>>, <<21, 99>>}
BlocksOf(ends, list) ==
    <<Block(1, 13, 12, <<13, 23, 12>>), Block(2, 0, 0, << >>), Block(3, ends[1], ends[2], list)>>

Faulty(records, faults) ==
    [i \in DOMAIN records |->
        IF records[i].handle \in DOMAIN faults
        THEN [records[i] EXCEPT !.fault = faults[records[i].handle]] ELSE records[i]]

OneFault == {<< >>} \cup {h :> f : h \in 11 .. 26, f \in {"payload", "unread"}}
TwoFaults == {[h \in {a, b} |-> "payload"] : a, b \in 11 .. 26}

File(records, blocks, r2004, refused, failsafe) ==
    [records |-> records, blocks |-> blocks, r2004 |-> r2004, refused |-> refused,
     failsafe |-> failsafe]

Owned == {<<18, 20, 19, 25>>, << >>, <<20>>, <<19, 19, 20, 18>>}

\* One link leads back, on to another sequence, nowhere, or to no record.
DamagedLinks ==
    {[SoundLinks EXCEPT ![d[1]] = d[2]] :
        d \in {<<13, 13>>, <<23, 13>>, <<23, 99>>, <<23, 21>>,
                 <<18, 0>>, <<19, 18>>, <<19, 20>>, <<20, 99>>}}
Refusals == {{}, {13}, {17}}

MCFiles ==
    {File(Faulty(Drawing(SoundLinks, <<18, 20, 19, 25>>, v), f), BlocksOf(<<21, 17>>, <<21, 17>>),
          v, s, TRUE) : v \in BOOLEAN, f \in TwoFaults, s \in Refusals}
    \cup {File(Faulty(Drawing(SoundLinks, o, TRUE), f), BlocksOf(<<21, 17>>, l), TRUE, {}, TRUE) :
            o \in Owned, l \in SheetLists, f \in OneFault}
    \cup {File(Faulty(Drawing(k, << >>, FALSE), f), BlocksOf(e, << >>), FALSE, {}, TRUE) :
            k \in DamagedLinks, e \in SheetEnds, f \in OneFault}
    \cup {File(Faulty(Drawing(SoundLinks, <<18, 20, 19, 25>>, v), f), BlocksOf(<<21, 17>>, <<21, 17>>),
               v, {}, FALSE) : v \in BOOLEAN, f \in OneFault}
=============================================================================
