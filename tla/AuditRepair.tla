----------------------------- MODULE AuditRepair -----------------------------
(***************************************************************************)
(* Handle integrity of a whole document: synchronize_handle_allocator and   *)
(* resolve_references (src/document.rs), audit and repair (src/audit.rs).   *)
(*                                                                         *)
(* A document is a record.  The two table controls stand for all ten; an    *)
(* object is a dictionary, an XRecord, or of a kind without an arm in the   *)
(* remapping (Group, Material, Scale, SortEntitiesTable, ...).  Names and   *)
(* keys of table entries are in SymbolTable: here every name is unique.     *)
(***************************************************************************)
EXTENDS Integers, FiniteSets, Sequences

CONSTANTS
    Sound,      \* the drawing before anything was damaged
    Values,     \* handles a damaged field may take
    NoRaw,      \* an entity without a verbatim record
    MaxFaults   \* bound: fields damaged

Null == 0

ASSUME DamageAssumption == MaxFaults \in Nat /\ Values \subseteq Nat

VARIABLES
    doc,        \* the document: a record of tables, entities and objects
    faults,     \* fields damaged so far
    last        \* history: the operation just done

vars == <<doc, faults, last>>

Highest(S) == CHOOSE x \in S : \A y \in S : y <= x
Lowest(S) == CHOOSE x \in S : \A y \in S : x <= y
Larger(x, y) == IF x >= y THEN x ELSE y
\* A map with one more entry, or another value for a key it has.
With(map, key, value) ==
    [x \in DOMAIN map \cup {key} |-> IF x = key THEN value ELSE map[x]]
Marker(e) == e.kind \in {"begin", "end"}

-----------------------------------------------------------------------------
(* The record of a document.                                               *)

BlockRecord == [handle : Nat, begin : Nat, end : Nat, listed : Seq(Nat)]
Entity ==
    [handle : Nat, kind : STRING, owner : Nat, xdic : Nat, nested : SUBSET Nat,
     mode : 0 .. 2,
     raw : {NoRaw} \cup [handle : Nat, owner : Nat, xdic : Nat]]
Object == [id : Nat, kind : STRING, owner : Nat, refs : SUBSET Nat, tag : STRING]

\* Entries of a map are called by its keys; a map has finitely many.
MapFrom(map, keys) ==
    map = [k \in DOMAIN map |-> map[k]] /\ DOMAIN map \subseteq keys
    /\ IsFiniteSet(DOMAIN map)

Drawing(d) ==
    /\ d = [ctl |-> d.ctl, layers |-> d.layers, blocks |-> d.blocks,
            ents |-> d.ents, index |-> d.index, objs |-> d.objs,
            xdicOf |-> d.xdicOf, dict |-> d.dict, model |-> d.model,
            paper |-> d.paper, next |-> d.next, seed |-> d.seed]
    /\ d.ctl \in [layer : Nat, block : Nat]
    /\ d.layers \in Seq(Nat) /\ d.blocks \in Seq(BlockRecord) /\ d.ents \in Seq(Entity)
    /\ MapFrom(d.index, Nat) /\ \A h \in DOMAIN d.index : d.index[h] \in DOMAIN d.ents
    /\ MapFrom(d.objs, Nat) /\ \A k \in DOMAIN d.objs : d.objs[k] \in Object
    /\ MapFrom(d.xdicOf, Nat) /\ \A h \in DOMAIN d.xdicOf : d.xdicOf[h] \in Nat
    /\ {d.model, d.paper} \subseteq Nat \ {Null}
    /\ d.dict \in Nat /\ d.next \in Nat \ {Null} /\ d.seed \in Nat

-----------------------------------------------------------------------------
(* Identities.                                                             *)

LayerHandles(d) == {d.layers[i] : i \in DOMAIN d.layers}
BlockHandles(d) == {d.blocks[i].handle : i \in DOMAIN d.blocks}
EntityHandles(d) == {d.ents[i].handle : i \in DOMAIN d.ents}
Nested(d) == UNION {d.ents[i].nested : i \in DOMAIN d.ents}
Controls(d) == {d.ctl["layer"], d.ctl["block"]}
MarkerHandles(d) ==
    UNION {{d.blocks[i].begin, d.blocks[i].end} : i \in DOMAIN d.blocks}
Listed(b) == {b.listed[j] : j \in DOMAIN b.listed}
Members(d) == UNION {Listed(d.blocks[i]) : i \in DOMAIN d.blocks}
Ids(d) == {d.objs[k].id : k \in DOMAIN d.objs}

Advanced(d, stored) ==
    LET next == Larger(d.next, Highest(stored) + 1)
    IN [d EXCEPT !.next = next, !.seed = Larger(@, next)]

\* Fault: the objects, and what the blocks list, are not looked at.
SynchronizeStored(d) ==
    Advanced(d, Controls(d) \cup LayerHandles(d) \cup BlockHandles(d)
                \cup MarkerHandles(d) \cup EntityHandles(d))

\* synchronize_handle_allocator: everything but the records nested in an INSERT.
Stored(d) ==
    Controls(d) \cup LayerHandles(d) \cup BlockHandles(d) \cup MarkerHandles(d)
    \cup EntityHandles(d) \cup Members(d) \cup DOMAIN d.objs \cup Ids(d)
Synchronize(d) == Advanced(d, Stored(d))

\* allocate_handle: the handle, and the document afterwards.
Fresh(d) == Larger(d.next, d.seed)
Taken(d) == [d EXCEPT !.next = Fresh(d) + 1, !.seed = Fresh(d) + 1]

-----------------------------------------------------------------------------
(* resolve_references, pass by pass.                                       *)

\* 1a. Table entries without a handle, the block records last.
AssignLayer(d, i) ==
    IF d.layers[i] = Null THEN [Taken(d) EXCEPT !.layers[i] = Fresh(d)] ELSE d
AssignBlock(d, i) ==
    IF d.blocks[i].handle = Null
    THEN [Taken(d) EXCEPT !.blocks[i].handle = Fresh(d)] ELSE d
AssignTables(d) ==
    LET layers[i \in 0 .. Len(d.layers)] ==
            IF i = 0 THEN d ELSE AssignLayer(layers[i - 1], i)
        blocks[i \in 0 .. Len(d.blocks)] ==
            IF i = 0 THEN layers[Len(d.layers)] ELSE AssignBlock(blocks[i - 1], i)
    IN blocks[Len(d.blocks)]

\* An object under another key, its own handle with it.
Rekeyed(objs, k, h) ==
    [x \in (DOMAIN objs \ {k}) \cup {h} |->
        IF x = h THEN [objs[k] EXCEPT !.id = h] ELSE objs[x]]

\* 1a. The object under the NULL key, then objects whose own handle is missing.
AssignNullObject(d) ==
    IF Null \in DOMAIN d.objs
    THEN [Taken(d) EXCEPT !.objs = Rekeyed(@, Null, Fresh(d))] ELSE d
AlignObjects(d) ==
    [d EXCEPT !.objs = [k \in DOMAIN @ |->
        IF @[k].id = Null /\ k # Null THEN [@[k] EXCEPT !.id = k] ELSE @[k]]]

\* Fault: the marker entities count as well.
NonObjectsMarkers(d) ==
    (LayerHandles(d) \cup BlockHandles(d) \cup EntityHandles(d)) \ {Null}

\* Handles of records that are no objects (1b, the snapshot 1d decides by).
NonObjects(d) ==
    (LayerHandles(d) \cup BlockHandles(d)
     \cup {d.ents[i].handle : i \in {j \in DOMAIN d.ents : ~Marker(d.ents[j])}})
    \ {Null}
Used(d) == NonObjects(d) \cup (DOMAIN d.objs \ {Null})

\* 1b. A table control whose handle a record uses gets the next number.
MoveControl(used, d, table) ==
    IF d.ctl[table] \in used
    THEN [d EXCEPT !.ctl[table] = d.next, !.next = @ + 1] ELSE d
MoveControls(d) ==
    MoveControl(Used(d), MoveControl(Used(d), d, "layer"), "block")

MarkerSlots(d, old, side) ==
    {i \in DOMAIN d.ents : d.ents[i].handle = old /\ d.ents[i].kind = side}

\* 1c. The marker entity follows its record; the index forgets the old handle,
\* or leads to the other entity that has it.
MoveMarker(d, old, new, owner, side) ==
    LET slot == Lowest(MarkerSlots(d, old, side))
        others == {i \in DOMAIN d.ents \ {slot} : d.ents[i].handle = old}
        index == IF others # {} THEN With(d.index, old, Lowest(others))
                 ELSE [h \in DOMAIN d.index \ {old} |-> d.index[h]]
    IN IF old = Null \/ MarkerSlots(d, old, side) = {} THEN d
       ELSE [d EXCEPT !.ents[slot].handle = new, !.ents[slot].owner = owner,
                      !.index = With(index, new, slot)]

\* Fault: what was accepted is not reserved.
PlaceMarkerUnreserved(acc, b, side) ==
    LET old == acc.d.blocks[b][side]
        new == acc.d.next
        placed == [acc.d EXCEPT !.blocks[b][side] = new, !.next = @ + 1]
    IN IF old # Null /\ old \notin acc.used THEN acc
       ELSE [acc EXCEPT !.d = MoveMarker(placed, old, new, placed.blocks[b].handle, side)]

\* 1c. A marker of a block record that is missing or whose handle is taken gets
\* the next number; each is reserved as it is accepted.
PlaceMarker(acc, b, side) ==
    LET old == acc.d.blocks[b][side]
        moves == old = Null \/ old \in acc.used
        new == IF moves THEN acc.d.next ELSE old
        placed == [acc.d EXCEPT !.blocks[b][side] = new, !.next = @ + 1]
    IN [d |-> IF moves
              THEN MoveMarker(placed, old, new, placed.blocks[b].handle, side)
              ELSE acc.d,
        used |-> acc.used \cup {new}]

\* 1c. The markers of the block records in turn.  The code moves the entities
\* when all are placed; no placing looks at an entity.
MoveMarkers(d) ==
    LET placed[b \in 0 .. Len(d.blocks)] ==
            IF b = 0
            THEN [d |-> d, used |-> Used(d) \cup (Controls(d) \ {Null})]
            ELSE PlaceMarker(PlaceMarker(placed[b - 1], b, "begin"), b, "end")
    IN placed[Len(d.blocks)].d

\* 1d. Objects under the handle of another record, in the order of their
\* handles, and everything that names them.
Remap(d, nonObjects) ==
    LET moving == DOMAIN d.objs \cap nonObjects
    IN [h \in moving |-> d.next + Cardinality({g \in moving : g < h})]

\* Where a handle leads after the remapping.
To(remap, h) == IF h \in DOMAIN remap THEN remap[h] ELSE h

\* The kinds without an arm of their own are left as they are.
RemapObject(o, remap) ==
    CASE o.kind = "dictionary" ->
            [o EXCEPT !.owner = To(remap, @), !.refs = {To(remap, h) : h \in @}]
      [] o.kind = "xrecord" -> [o EXCEPT !.owner = To(remap, @)]
      [] OTHER -> o

\* Fault: the keys of the side table move, what they name does not.
SideTableKeys(table, remap) ==
    [k \in {To(remap, h) : h \in DOMAIN table} |->
        table[CHOOSE o \in DOMAIN table : To(remap, o) = k]]

\* The side table of extension dictionaries, by owner.
SideTable(table, remap) ==
    [k \in {To(remap, h) : h \in DOMAIN table} |->
        To(remap, table[CHOOSE o \in DOMAIN table : To(remap, o) = k])]

MoveObjects(d, nonObjects) ==
    LET remap == Remap(d, nonObjects)
        keys == {To(remap, k) : k \in DOMAIN d.objs}
        From(k) == CHOOSE o \in DOMAIN d.objs : To(remap, o) = k
    IN [d EXCEPT
          !.objs = [k \in keys |->
                      RemapObject(IF From(k) = k THEN @[k]
                                  ELSE [@[From(k)] EXCEPT !.id = k], remap)],
          !.xdicOf = SideTable(@, remap),
          !.dict = To(remap, @),
          !.ents = [i \in DOMAIN @ |-> [@[i] EXCEPT !.xdic = To(remap, d.ents[i].xdic)]],
          !.next = @ + Cardinality(DOMAIN remap)]

\* Owners: the first block that lists an entity, as the index has it; for the
\* others paper or model space.
ListedBy(d, i) ==
    {b \in DOMAIN d.blocks :
        \E h \in Listed(d.blocks[b]) : h \in DOMAIN d.index /\ d.index[h] = i}
OwnerOf(d, i) ==
    IF d.ents[i].owner # Null THEN d.ents[i].owner
    ELSE IF ListedBy(d, i) # {} THEN d.blocks[Lowest(ListedBy(d, i))].handle
    ELSE IF d.ents[i].mode = 1 THEN d.paper ELSE d.model
ModeOf(d, owner) ==
    IF owner = d.model THEN 2 ELSE IF owner = d.blocks[2].handle THEN 1 ELSE 0

\* Fault: the spaces claim every entity without an owner.
AssignOwnersToSpaces(d) ==
    [d EXCEPT !.ents = [i \in DOMAIN @ |->
        LET owner == IF @[i].owner # Null THEN @[i].owner
                     ELSE IF @[i].mode = 1 THEN d.paper ELSE d.model
        IN [@[i] EXCEPT !.owner = owner, !.mode = ModeOf(d, owner)]]]

AssignOwners(d) ==
    [d EXCEPT !.ents = [i \in DOMAIN @ |->
        [@[i] EXCEPT !.owner = OwnerOf(d, i), !.mode = ModeOf(d, OwnerOf(d, i))]]]

Resolved(d) ==
    LET aligned == AlignObjects(AssignNullObject(AssignTables(Synchronize(d))))
        moved == MoveMarkers(MoveControls(aligned))
    IN AssignOwners(MoveObjects(moved, NonObjects(aligned)))

\* Fault: the header keeps its HANDSEED.
ResolveReferencesSeedless(d) == Resolved(d)
ResolveReferences(d) ==
    LET resolved == Resolved(d)
    IN [resolved EXCEPT !.seed = Larger(@, resolved.next)]

-----------------------------------------------------------------------------
(* audit.                                                                  *)

\* Every record the audit counts, with the handle it carries.
Records(d) ==
    {<<"layer", i, d.layers[i]>> : i \in DOMAIN d.layers}
    \cup {<<"block", i, d.blocks[i].handle>> : i \in DOMAIN d.blocks}
    \cup {<<"entity", i, d.ents[i].handle>> : i \in DOMAIN d.ents}
    \cup (UNION {{<<"nested", i, h>> : h \in d.ents[i].nested \ {Null}} :
                   i \in DOMAIN d.ents})
    \cup {<<"object", k, k>> : k \in DOMAIN d.objs}
Known(d) == ({r[3] : r \in Records(d)} \cup Controls(d)) \ {Null}

\* Handles: missing, shared by several records, and objects under another key.
IdentityIssues(d) ==
    LET Holders(h) == {r \in Records(d) : r[3] = h}
    IN {<<"NullHandle", r[1], r[2]>> : r \in Holders(Null)}
       \cup (UNION {{<<"DuplicateHandle", h, n>> : n \in 2 .. Cardinality(Holders(h))} :
                      h \in Known(d)})
       \cup {<<"ObjectMapMismatch", k, d.objs[k].id>> :
               k \in {x \in DOMAIN d.objs : d.objs[x].id # x}}

\* References to no record: owners, extension dictionaries, dictionary entries
\* and block membership.
References(d) ==
    {<<"object", k, d.objs[k].owner>> : k \in DOMAIN d.objs}
    \cup (UNION {{<<"entry", k, h>> : h \in d.objs[k].refs} : k \in DOMAIN d.objs})
    \cup {<<"xdictionary of", h, d.xdicOf[h]>> : h \in DOMAIN d.xdicOf}
    \cup (UNION {{<<"member", b, h>> : h \in Listed(d.blocks[b])} :
                   b \in DOMAIN d.blocks})
    \cup {<<"owner", i, d.ents[i].owner>> : i \in DOMAIN d.ents}
    \cup {<<"xdictionary", i, d.ents[i].xdic>> : i \in DOMAIN d.ents}
DanglingIssues(d) ==
    {<<"DanglingReference", r>> : r \in {x \in References(d) :
                                           x[3] \notin Known(d) \cup {Null}}}

ListPlaces(d) ==
    UNION {{b} \X (DOMAIN d.blocks[b].listed) : b \in DOMAIN d.blocks}

\* Entities against the blocks: the owner is a block, and the only one that
\* lists the entity.
Lists(d, h) ==
    {p \in ListPlaces(d) : d.blocks[p[1]].listed[p[2]] = h}
OwnerIssues(d) ==
    LET own(i) == d.ents[i].owner
        lists(i) == Lists(d, d.ents[i].handle)
    IN {<<"OwnerMismatch", i, "no block">> :
          i \in {x \in DOMAIN d.ents : own(x) \notin BlockHandles(d) \cup {Null}}}
       \cup {<<"OwnerMismatch", i, "listed twice">> :
               i \in {x \in DOMAIN d.ents : Cardinality(lists(x)) > 1}}
       \cup {<<"OwnerMismatch", i, "other block">> :
               i \in {x \in DOMAIN d.ents :
                        /\ Cardinality(lists(x)) = 1 /\ own(x) # Null
                        /\ \A p \in lists(x) : d.blocks[p[1]].handle # own(x)}}

\* The index leads back to the slots, and every slot is indexed.
IndexIssues(d) ==
    {<<"EntityIndexMismatch", "index", h>> :
       h \in {x \in DOMAIN d.index : d.index[x] \notin DOMAIN d.ents
                                     \/ d.ents[d.index[x]].handle # x}}
    \cup {<<"EntityIndexMismatch", "slot", i>> :
            i \in {x \in DOMAIN d.ents : d.ents[x].handle \notin DOMAIN d.index
                                         \/ d.index[d.ents[x].handle] # x}}

SeedIssues(d) ==
    {<<"InvalidHandleSeed">> : x \in {y \in {Highest(Known(d))} :
                                        d.seed <= y \/ d.next <= y}}

\* Owner chains of entities and dictionaries that never end.
CycleIssues(d) ==
    LET owned == {i \in DOMAIN d.ents : d.ents[i].owner # Null}
        dicts == {k \in DOMAIN d.objs : d.objs[k].kind = "dictionary"
                                        /\ d.objs[k].owner # Null}
        owner == [h \in dicts \cup {d.ents[i].handle : i \in owned} |->
                    IF h \in dicts THEN d.objs[h].owner
                    ELSE d.ents[Highest({i \in owned : d.ents[i].handle = h})].owner]
        Ends[n \in Nat] ==
            LET nearer == Ends[n - 1]
            IN {h \in DOMAIN owner : owner[h] \notin DOMAIN owner
                                     \/ (n > 0 /\ owner[h] \in nearer)}
    IN {<<"OwnerCycle", h>> : h \in DOMAIN owner \ Ends[Cardinality(DOMAIN owner)]}

Issues(d) ==
    IdentityIssues(d) \cup DanglingIssues(d) \cup OwnerIssues(d)
    \cup IndexIssues(d) \cup SeedIssues(d) \cup CycleIssues(d)

-----------------------------------------------------------------------------
(* repair.                                                                 *)

Unnamed(d, b) ==
    {j \in DOMAIN d.blocks[b].listed :
        d.blocks[b].listed[j] \notin EntityHandles(d)}

\* An entity without a handle gets one; the first member of its owner's list
\* that names no entity is taken to have meant it.
AssignEntity(d, i) ==
    LET h == Fresh(d)
        owners == {b \in DOMAIN d.blocks : d.blocks[b].handle = d.ents[i].owner}
        b == Lowest(owners)
        e == [Taken(d) EXCEPT !.ents[i].handle = h, !.ents[i].raw = NoRaw]
    IN IF owners = {} THEN e
       ELSE IF Unnamed(d, b) = {} THEN e
       ELSE [e EXCEPT !.blocks[b].listed[Lowest(Unnamed(d, b))] = h]
NullEntities(d) == {i \in DOMAIN d.ents : d.ents[i].handle = Null}
AssignEntities(d) ==
    LET assigned[i \in 0 .. Len(d.ents)] ==
            IF i = 0 THEN d
            ELSE IF i \in NullEntities(d) THEN AssignEntity(assigned[i - 1], i)
            ELSE assigned[i - 1]
    IN assigned[Len(d.ents)]

\* The NULL-keyed object's side data moves with it.
MoveNullObject(d) ==
    LET moved == AssignNullObject(d)
        others == [h \in DOMAIN d.xdicOf \ {Null} |-> d.xdicOf[h]]
    IN IF Null \in DOMAIN d.objs /\ Null \in DOMAIN d.xdicOf
       THEN [moved EXCEPT !.xdicOf = With(others, Fresh(d), @[Null])]
       ELSE moved

\* A missing owner, where exactly one block lists the entity.
ClaimOwners(d) ==
    [d EXCEPT !.ents = [i \in DOMAIN @ |->
        LET places == Lists(d, @[i].handle)
        IN IF @[i].owner = Null /\ Cardinality(places) = 1
           THEN LET p == CHOOSE q \in places : TRUE
                IN [@[i] EXCEPT !.owner = d.blocks[p[1]].handle, !.raw = NoRaw]
           ELSE @[i]]]

\* Fault: the slots are counted from one place too far.
ReindexedShifted(d) ==
    [d EXCEPT !.index = [h \in EntityHandles(d) \ {Null} |->
                     1 + Lowest({i \in DOMAIN d.ents : d.ents[i].handle = h})]]

\* The index from nothing: the first slot of a handle.
Reindexed(d) ==
    [d EXCEPT !.index = [h \in EntityHandles(d) \ {Null} |->
                            Lowest({i \in DOMAIN d.ents : d.ents[i].handle = h})]]

Repaired(d) ==
    LET synced == AssignTables(Synchronize(d))
        claimed == ClaimOwners(MoveNullObject(AlignObjects(AssignEntities(synced))))
        resolved == ResolveReferences(claimed)
        indexed == IF NullEntities(d) # {} \/ IndexIssues(d) # {}
                   THEN Reindexed(resolved) ELSE resolved
    IN Synchronize(indexed)

-----------------------------------------------------------------------------
(* What there is for neither of them to do.                                *)

Places(d) == (DOMAIN d.blocks) \X {"begin", "end"}
Others(d) ==
    {r[3] : r \in {x \in Records(d) : x[1] \in {"layer", "block"}
                     \/ (x[1] = "entity" /\ ~Marker(d.ents[x[2]]))}} \ {Null}

\* No object has the handle of another record, no control that of a record, and
\* every marker of a block record one of its own.
Separate(d) ==
    LET records == Others(d) \cup DOMAIN d.objs
        marker(p) == d.blocks[p[1]][p[2]]
    IN /\ DOMAIN d.objs \cap Others(d) = {}
       /\ Controls(d) \cap records = {}
       /\ \A p \in Places(d) : marker(p) \notin records \cup Controls(d) \cup {Null}
       /\ \A p, q \in Places(d) : marker(p) = marker(q) => p = q

\* Every record has a handle below the allocator, entities have their owners and
\* the index is sound, or the one repair() builds.
Settled(d) ==
    /\ \A h \in Stored(d) : h < d.next
    /\ d.next <= d.seed
    /\ Null \notin LayerHandles(d) \cup BlockHandles(d) \cup EntityHandles(d)
                   \cup DOMAIN d.objs \cup Ids(d)
    /\ Separate(d)
    /\ \A i \in DOMAIN d.ents :
          d.ents[i].owner # Null /\ d.ents[i].mode = ModeOf(d, d.ents[i].owner)
    /\ IndexIssues(d) = {} \/ Reindexed(d) = d

\* What was loaded was written by the library, or repaired.
ASSUME SoundAssumption == Drawing(Sound) /\ Settled(Sound) /\ Issues(Sound) = {}

\* A tag stands for one object, under whatever handle.
Tagged(d) == \A k, l \in DOMAIN d.objs : d.objs[k].tag = d.objs[l].tag => k = l
ASSUME TagAssumption == Tagged(Sound)

-----------------------------------------------------------------------------
(* Callers: public fields, and entities through get_entity_mut, which drops *)
(* the verbatim record.                                                    *)

DamageTables(v) ==
    \/ \E t \in DOMAIN doc.ctl : doc' = [doc EXCEPT !.ctl[t] = v]
    \/ \E i \in DOMAIN doc.layers : doc' = [doc EXCEPT !.layers[i] = v]
    \/ \E i \in DOMAIN doc.blocks, field \in {"handle", "begin", "end"} :
          doc' = [doc EXCEPT !.blocks[i][field] = v]
    \/ \E i \in DOMAIN doc.blocks : \E j \in DOMAIN doc.blocks[i].listed :
          doc' = [doc EXCEPT !.blocks[i].listed[j] = v]
    \/ \E i \in DOMAIN doc.blocks :
          doc' = [doc EXCEPT !.blocks[i].listed = Append(@, v)]
    \/ doc' = [doc EXCEPT !.seed = v]

DamageEntity(v) ==
    \E h \in DOMAIN doc.index :
        \/ \E field \in {"handle", "owner", "xdic"} :
              doc' = [doc EXCEPT !.ents[doc.index[h]][field] = v,
                                 !.ents[doc.index[h]].raw = NoRaw]
        \/ /\ doc.ents[doc.index[h]].kind = "insert"
           /\ doc' = [doc EXCEPT !.ents[doc.index[h]].nested = {v},
                                 !.ents[doc.index[h]].raw = NoRaw]

DamageObject(v) ==
    \E k \in DOMAIN doc.objs :
        \/ v \notin DOMAIN doc.objs /\ doc' = [doc EXCEPT !.objs = Rekeyed(@, k, v)]
        \/ \E field \in {"id", "owner"} : doc' = [doc EXCEPT !.objs[k][field] = v]

Damage ==
    /\ faults < MaxFaults
    /\ \E v \in Values : DamageTables(v) \/ DamageEntity(v) \/ DamageObject(v)
    /\ faults' = faults + 1
    /\ last' = "damage"

Resolve == doc' = ResolveReferences(doc) /\ last' = "resolve" /\ UNCHANGED faults
Repair == doc' = Repaired(doc) /\ last' = "repair" /\ UNCHANGED faults

Init == doc = Sound /\ faults = 0 /\ last = "load"
Next == Damage \/ Resolve \/ Repair
Spec == Init /\ [][Next]_vars

-----------------------------------------------------------------------------
(* Properties.                                                             *)

\* A document of handles; the drawing nobody damaged has no issue.
TypeOk == Drawing(doc) /\ (faults = 0 => Issues(doc) = {})

\* Of these codes, no more issues than before.
NoMore(codes, before, after) ==
    \A code \in codes : Cardinality({x \in after : x[1] = code})
                       <= Cardinality({x \in before : x[1] = code})
NestedBelow(d) == \A h \in Nested(d) : h < Larger(d.next, d.seed)
Afterwards == last' \in {"repair", "resolve"}
\* repair() is idempotent: a second one changes nothing.
RepairStable == [][last' = "repair" => Repaired(doc') = doc']_vars

\* Neither adds an issue of identity to what audit() reported, whatever was
\* damaged, if no record nested in an INSERT lies above the allocator.  The index
\* is rebuilt by repair() only: resolve_references keeps a sound one sound.
NoWorse ==
    [][Afterwards /\ NestedBelow(doc) =>
        /\ NoMore({"NullHandle", "DuplicateHandle", "ObjectMapMismatch",
                   "InvalidHandleSeed"}, Issues(doc), Issues(doc'))
        /\ last' = "repair" \/ IndexIssues(doc) = {} =>
              NoMore({"EntityIndexMismatch"}, IndexIssues(doc), IndexIssues(doc'))]_vars

\* No two records other than objects share a handle, and the header's spaces
\* are block records.
Unambiguous(d) ==
    /\ {d.model, d.paper} \subseteq BlockHandles(d)
    /\ NestedBelow(d)
    /\ \A r, q \in {x \in Records(d) : x[1] # "object"} :
          r[3] = q[3] /\ r[3] # Null => r = q
    /\ \A p, q \in Places(d) :
          d.blocks[p[1]][p[2]] \in {Null, d.blocks[q[1]][q[2]]} => p = q
    /\ MarkerHandles(d) \cap (LayerHandles(d) \cup BlockHandles(d) \cup Controls(d) \cup Members(d))
          \subseteq {Null}

\* Neither leaves a reference dangling, or an entity at odds with its block, that
\* was not before, where the identities are unambiguous.
NoNewReference ==
    [][Afterwards /\ Unambiguous(doc) =>
        NoMore({"DanglingReference", "OwnerMismatch"}, Issues(doc), Issues(doc'))]_vars

\* After resolve_references records of different kinds have different handles.
Apart == [][Afterwards => Separate(doc')]_vars

Tag(d, h) == IF h \in DOMAIN d.objs THEN d.objs[h].tag ELSE "none"

\* A reference that led to an object leads to it after the object was moved: the
\* header's dictionary, the entities' extension dictionaries, the entries of
\* dictionaries, the owners of dictionaries and extension records, and the side
\* table of extension dictionaries, if the allocator takes its keys into account:
\* a moved object may otherwise be given the handle of one of them.
ReferencesFollow ==
    [][Afterwards =>
        LET Same(h, g) ==
                h \in DOMAIN doc.objs \ {Null} => Tag(doc, h) = Tag(doc', g)
        IN /\ Same(doc.dict, doc'.dict)
           /\ \A i \in DOMAIN doc.ents : Same(doc.ents[i].xdic, doc'.ents[i].xdic)
           /\ \A k \in DOMAIN doc.objs, l \in DOMAIN doc'.objs :
                 doc.objs[k].tag = doc'.objs[l].tag =>
                    /\ doc.objs[k].kind = "dictionary" =>
                          {Tag(doc, h) : h \in doc.objs[k].refs \ {Null}} \ {"none"}
                          \subseteq {Tag(doc', h) : h \in doc'.objs[l].refs}
                    /\ doc.objs[k].kind \in {"dictionary", "xrecord"} =>
                          Same(doc.objs[k].owner, doc'.objs[l].owner)
           /\ DOMAIN doc.xdicOf \subseteq Stored(doc) \ {Null} =>
                 \A h \in DOMAIN doc.xdicOf : \E g \in DOMAIN doc'.xdicOf :
                     Same(h, g) /\ Same(doc.xdicOf[h], doc'.xdicOf[g])]_vars

\* Block membership decides: an entity a block lists stays in that list under
\* whatever handle it ends with, every entity ends with an owner, and one without
\* an owner that a single block lists goes to that block, not to model space; for
\* resolve_references, which asks the index, if the index is sound.
MembershipDecides ==
    [][Afterwards =>
        \A i \in DOMAIN doc.ents :
            LET e == doc.ents[i]
                after == doc'.ents[i]
                blocks == {b \in DOMAIN doc.blocks : e.handle \in Listed(doc.blocks[b])}
            IN /\ after.owner # Null
               /\ ~Marker(e) /\ e.handle # Null =>
                     /\ \A b \in blocks : after.handle \in Listed(doc'.blocks[b])
                     /\ /\ e.owner = Null /\ Cardinality(Lists(doc, e.handle)) = 1
                        /\ last' = "repair" \/ IndexIssues(doc) = {}
                        => \A b \in blocks : after.owner = doc'.blocks[b].handle]_vars

\* Afterwards the allocator and HANDSEED are above every identity, but for the
\* records nested in an INSERT.
SeedAbove ==
    [][Afterwards =>
        \A h \in Known(doc') :
            h >= doc'.next \/ h >= doc'.seed => h \in Nested(doc')]_vars

\* An entity that has its verbatim record still says what the record says.
RawIsCurrent ==
    \A i \in DOMAIN doc.ents :
        LET e == doc.ents[i]
        IN e.raw # NoRaw =>
              e.raw = [handle |-> e.handle, owner |-> e.owner, xdic |-> e.xdic]

=============================================================================
