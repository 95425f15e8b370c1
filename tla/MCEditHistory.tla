---------------------------- MODULE MCEditHistory ----------------------------
(* One or two transactions over an opened drawing with model space (1) and   *)
(* paper space (2): line 3 in model space with its verbatim record, line 4   *)
(* in model space without one.                                               *)
EXTENDS EditHistory

CONSTANTS v1, v2

MCLoaded ==
    <<[handle |-> 3, owner |-> 1, sub |-> FALSE, val |-> v1, raw |-> v1],
      [handle |-> 4, owner |-> 1, sub |-> FALSE, val |-> v1, raw |-> NoRaw]>>
=============================================================================
