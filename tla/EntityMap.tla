------------------------------ MODULE EntityMap ------------------------------
(***************************************************************************)
(* What the entity store promises its callers: a map from handles to       *)
(* entities.  One entity is put in under its own handle, changed where it  *)
(* is, or taken out, and no other is touched; or entities are rewritten    *)
(* under their own handles, each staying with its owner.                   *)
(***************************************************************************)
CONSTANT Entity     \* records with fields `handle`, `owner` and `sub`

VARIABLE map        \* handle -> the entity stored under it

Init == map = << >>

Put(e) ==
    /\ e.handle \notin DOMAIN map
    /\ map' = [h \in DOMAIN map \cup {e.handle} |->
                  IF h = e.handle THEN e ELSE map[h]]

Change(h, e) ==
    /\ h \in DOMAIN map
    /\ e.handle = h
    /\ map' = [map EXCEPT ![h] = e]

Take(h) ==
    /\ h \in DOMAIN map
    /\ map' = [k \in DOMAIN map \ {h} |-> map[k]]

Rewrite ==
    /\ DOMAIN map' = DOMAIN map
    /\ \A h \in DOMAIN map : /\ map'[h] \in Entity
                             /\ map'[h].handle = h
                             /\ map'[h].owner = map[h].owner
                             /\ map'[h].sub = map[h].sub

\* The step a transition of the map is, if it is one: the entity it puts in
\* or leaves in place of another is the one found there afterwards.
Next ==
    \/ \E h \in DOMAIN map' : map'[h] \in Entity /\ (Put(map'[h]) \/ Change(h, map'[h]))
    \/ \E h \in DOMAIN map : Take(h)
    \/ Rewrite

Spec == Init /\ [][Next]_map

=============================================================================
