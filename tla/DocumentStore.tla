---------------------------- MODULE DocumentStore ----------------------------
(***************************************************************************)
(* The flat entity store of CadDocument (src/document.rs): the vector      *)
(* `entities`, its lookup `entity_index`, the handle lists of the block    *)
(* records, the handle allocator (`next_handle` and the header's           *)
(* HANDSEED) and the first-touch EntityChangeRecorder.                     *)
(*                                                                         *)
(* A handle is a natural number, 0 is Handle::NULL.  An entity keeps the   *)
(* fields the store itself reads or writes: its handle, its owner, whether *)
(* it is a sub-entity kind that no block lists (AttributeEntity, Block,    *)
(* BlockEnd), its drawing data `val`, and `raw`, the data the verbatim DWG *)
(* record (`raw_record`) encodes, NoRaw when there is none.                *)
(***************************************************************************)
EXTENDS Integers, Sequences, FiniteSets

CONSTANTS
    Blocks,         \* handles of the block records the drawing has
    ModelSpace,     \* header.model_space_block_handle
    PaperSpace,     \* header.paper_space_block_handle
    FirstHandle,    \* next_handle of a new document, above the blocks
    Explicit,       \* handles a caller may bring with an entity
    Seeds,          \* HANDSEEDs the drawing may start with: a file brings its own
    Strays,         \* owner handles that name no block record
    Vals,           \* drawing data of an entity
    NoRaw,          \* no verbatim record
    Images,         \* entities a caller may restore or put in place of another
    AllowDuplicates, \* may a caller bring a handle the store already holds?
    Transactional,  \* does the host attach an EntityChangeRecorder?
    MaxHandle,      \* bound: the last handle the allocator hands out
    MaxSlots,       \* bound: slots in the store
    MaxListed       \* bound: length of a block's handle list

Null == 0
Absent == [absent |-> TRUE]

ASSUME BlocksAssumption ==
    /\ Blocks \subseteq Nat \ {Null}
    /\ ModelSpace \in Blocks
    /\ PaperSpace \in Blocks
ASSUME HandlesAssumption ==
    /\ FirstHandle \in Nat \ {Null}
    /\ Explicit \subseteq Nat \ {Null}
    /\ Seeds \subseteq Nat
    /\ Strays \subseteq Nat \ Blocks
    /\ \A b \in Blocks : b < FirstHandle
ASSUME NoRawAssumption == NoRaw \notin Vals
ASSUME AllowDuplicatesAssumption == AllowDuplicates \in BOOLEAN
ASSUME TransactionalAssumption == Transactional \in BOOLEAN
ASSUME BoundsAssumption ==
    /\ MaxHandle \in Nat
    /\ MaxSlots \in Nat
    /\ MaxListed \in Nat

VARIABLES
    entities,   \* Vec<Arc<EntityType>>: the slots
    index,      \* entity_index: handle -> slot
    members,    \* block record -> its entity_handles
    next,       \* next_handle
    seed,       \* header.handle_seed
    recording,  \* is an EntityChangeRecorder attached to this document?
    before      \* the recorder's first-touch images, handle -> image

storeVars == <<entities, index, members, next, seed, recording, before>>

Handles == Nat
Owners == Blocks \cup Strays \cup {Null}
Entity == [handle : Handles \ {Null}, owner : Handles, sub : BOOLEAN,
           val : Vals, raw : Vals \cup {NoRaw}]
Image == Entity \cup {Absent}

ASSUME ImagesAssumption ==
    /\ Images \subseteq Entity
    /\ \A e \in Images : e.handle # Null /\ e.raw \in {NoRaw, e.val}

Live == DOMAIN index
Slots == 1 .. Len(entities)
Stored(h) == entities[index[h]]
Listed(b) == {members[b][i] : i \in 1 .. Len(members[b])}

MaxOf(a, b) == IF a >= b THEN a ELSE b

\* A drawing without entities: a new one, or one whose header was just read
\* and that took over the file's HANDSEED, whatever next_handle is.
StoreInit ==
    /\ entities = << >>
    /\ index = << >>
    /\ members = [b \in Blocks |-> << >>]
    /\ next = FirstHandle
    /\ seed \in Seeds
    /\ recording = FALSE
    /\ before = << >>

-----------------------------------------------------------------------------
(* The allocator.                                                          *)

\* The handle allocate_handle() would return now.
Fresh == MaxOf(next, seed)

\* Fault: a handle the caller brings is not adopted.
AllocateWithoutAdopting(h0) ==
    IF h0 = Null
    THEN next' = Fresh + 1 /\ seed' = Fresh + 1
    ELSE UNCHANGED <<next, seed>>

\* allocate_handle() for a null handle, the adoption of an explicit one
\* otherwise: an explicit handle only ever pushes the counter up.
Allocate(h0) ==
    IF h0 = Null
    THEN next' = Fresh + 1 /\ seed' = Fresh + 1
    ELSE IF h0 >= next
         THEN next' = h0 + 1 /\ seed' = MaxOf(seed, h0 + 1)
         ELSE UNCHANGED <<next, seed>>

HandleFor(h0) == IF h0 = Null THEN Fresh ELSE h0

-----------------------------------------------------------------------------
(* The recorder and the slots.                                             *)

\* Fault: a later image of a handle replaces the first.
RecordLatest(h, image) ==
    before' = IF recording
              THEN [k \in DOMAIN before \cup {h} |->
                       IF k = h THEN image ELSE before[k]]
              ELSE before

\* Only the first image of a handle is kept, and only while recording.
Record(h, image) ==
    before' = IF recording /\ h \notin DOMAIN before
              THEN [k \in DOMAIN before \cup {h} |->
                       IF k = h THEN image ELSE before[k]]
              ELSE before

\* A new slot at the end; a handle that was indexed before now names it.
Push(e) ==
    /\ entities' = Append(entities, e)
    /\ index' = [h \in Live \cup {e.handle} |->
                    IF h = e.handle THEN Len(entities) + 1 ELSE index[h]]

List(b, h) == members' = [members EXCEPT ![b] = Append(@, h)]

\* What a caller may hand to an add: a null handle, or one of its own.
MayBring(h0) == AllowDuplicates \/ h0 \notin Live

\* The bounds of a checked instance.
Room(h0) ==
    /\ Len(entities) < MaxSlots
    /\ h0 = Null => Fresh <= MaxHandle

-----------------------------------------------------------------------------
(* The operations.                                                         *)

\* add_entity: default owner, routing by owner, *Model_Space as fallback.
AddEntity(h0, owner0, sub, onPaper, v) ==
    LET h == HandleFor(h0)
        owner == IF owner0 # Null THEN owner0
                 ELSE IF onPaper THEN PaperSpace ELSE ModelSpace
        home == IF owner \in Blocks THEN owner ELSE ModelSpace
    IN /\ MayBring(h0)
       /\ Room(h0)
       /\ Allocate(h0)
       /\ Record(h, Absent)
       /\ sub \/ Len(members[home]) < MaxListed
       /\ IF sub THEN UNCHANGED members ELSE List(home, h)
       /\ Push([handle |-> h, owner |-> IF sub THEN owner ELSE home,
                sub |-> sub, val |-> v, raw |-> NoRaw])
       /\ UNCHANGED recording

\* Fault: the block lists the entity, which goes on naming model space.
AddToBlockUnowned(h0, b, sub, v) ==
    LET h == HandleFor(h0)
    IN /\ MayBring(h0)
       /\ Room(h0)
       /\ Allocate(h0)
       /\ Record(h, Absent)
       /\ Len(members[b]) < MaxListed
       /\ List(b, h)
       /\ Push([handle |-> h, owner |-> ModelSpace, sub |-> sub, val |-> v,
                raw |-> NoRaw])
       /\ UNCHANGED recording

\* add_entity_to_block: the named block takes ownership, whatever the kind
\* and the owner the caller set.
AddEntityToBlock(h0, b, sub, v) ==
    LET h == HandleFor(h0)
    IN /\ MayBring(h0)
       /\ Room(h0)
       /\ Allocate(h0)
       /\ Record(h, Absent)
       /\ Len(members[b]) < MaxListed
       /\ List(b, h)
       /\ Push([handle |-> h, owner |-> b, sub |-> sub, val |-> v,
                raw |-> NoRaw])
       /\ UNCHANGED recording

\* add_loaded_entity: the loader's path keeps the verbatim record, lists the
\* entity nowhere (the loader rebuilds block membership itself) and is not
\* recorded.
AddLoadedEntity(h0, owner, sub, v) ==
    /\ MayBring(h0)
    /\ Room(h0)
    /\ Allocate(h0)
    /\ Push([handle |-> HandleFor(h0), owner |-> owner, sub |-> sub,
             val |-> v, raw |-> v])
    /\ UNCHANGED <<members, recording, before>>

\* get_entity_mut: records, copies the entity out of any shared image, drops
\* the verbatim record; the caller then writes the drawing data.
GetEntityMut(h, v) ==
    /\ h \in Live
    /\ Record(h, Stored(h))
    /\ entities' = [entities EXCEPT ![index[h]].val = v,
                                    ![index[h]].raw = NoRaw]
    /\ UNCHANGED <<index, members, next, seed, recording>>

\* Fault: an image of another handle is let in.
ReplaceAnyImage(h, e) ==
    /\ h \in Live
    /\ Record(h, Stored(h))
    /\ entities' = [entities EXCEPT ![index[h]] = e]
    /\ UNCHANGED <<index, members, next, seed, recording>>

\* replace_entity_arc: only an image of the same handle, in the same slot.
ReplaceEntityArc(h, e) ==
    /\ e.handle = h
    /\ h \in Live
    /\ Record(h, Stored(h))
    /\ entities' = [entities EXCEPT ![index[h]] = e]
    /\ UNCHANGED <<index, members, next, seed, recording>>

\* Fault: restoring is refused while a block still lists the handle.
RestoreUnlisted(e) ==
    /\ e.handle # Null
    /\ e.handle \notin Live
    /\ \A b \in Blocks : e.handle \notin Listed(b)
    /\ Room(e.handle)
    /\ Record(e.handle, Absent)
    /\ Allocate(e.handle)
    /\ Push(e)
    /\ UNCHANGED <<members, recording>>

\* restore_entity_arc: back into the store, block membership untouched.
RestoreEntityArc(e) ==
    /\ e.handle # Null
    /\ e.handle \notin Live
    /\ Room(e.handle)
    /\ Record(e.handle, Absent)
    /\ Allocate(e.handle)
    /\ Push(e)
    /\ UNCHANGED <<members, recording>>

\* Fault: the later slots move down, as after Vec::remove.
ShiftRemove(i) ==
    [j \in 1 .. Len(entities) - 1 |->
        IF j < i THEN entities[j] ELSE entities[j + 1]]

\* remove_entity_arc: the last slot moves into the hole and its index entry
\* is redirected; the block that lists the handle goes on listing it.
SwapRemove(i) ==
    [j \in 1 .. Len(entities) - 1 |->
        IF j = i THEN entities[Len(entities)] ELSE entities[j]]

\* Fault: the index keeps the removed handle.
RemoveKeepingIndex(h) ==
    /\ h \in Live
    /\ LET i == index[h]
           moved == entities[Len(entities)].handle
       IN /\ Record(h, Stored(h))
          /\ entities' = SwapRemove(i)
          /\ index' = IF i < Len(entities) THEN [index EXCEPT ![moved] = i]
                      ELSE index
    /\ UNCHANGED <<members, next, seed, recording>>

RemoveEntityArc(h) ==
    /\ h \in Live
    /\ LET i == index[h]
           moved == entities[Len(entities)].handle
           rest == [k \in Live \ {h} |-> index[k]]
       IN /\ Record(h, Stored(h))
          /\ entities' = SwapRemove(i)
          /\ index' = IF i < Len(entities)
                      THEN [k \in DOMAIN rest \cup {moved} |->
                               IF k = moved THEN i ELSE rest[k]]
                      ELSE rest
    /\ UNCHANGED <<members, next, seed, recording>>

\* record_all_entities_for_transaction: every slot in turn, so that of two
\* slots with one handle the first gives the image.
RecordEverySlot ==
    LET handles == {entities[i].handle : i \in Slots}
    IN \E first \in [handles -> Slots] :
          /\ \A h \in handles :
                /\ entities[first[h]].handle = h
                /\ \A j \in 1 .. first[h] - 1 : entities[j].handle # h
          /\ before' = [h \in DOMAIN before \cup handles |->
                           IF h \in DOMAIN before THEN before[h]
                           ELSE entities[first[h]]]

\* Fault: the bulk write keeps the verbatim records.
EntitiesMutKeepingRaw(n, v) ==
    /\ entities' = [i \in Slots |->
                       IF i <= n THEN [entities[i] EXCEPT !.val = v]
                       ELSE entities[i]]
    /\ IF recording THEN RecordEverySlot ELSE UNCHANGED before
    /\ UNCHANGED <<index, members, next, seed, recording>>

\* entities_mut: every slot is recorded, but an entity loses its verbatim
\* record only when the iterator hands it out; the caller takes the first n
\* of them and writes the drawing data v.
EntitiesMut(n, v) ==
    /\ entities' = [i \in Slots |->
                       IF i <= n THEN [entities[i] EXCEPT !.val = v, !.raw = NoRaw]
                       ELSE entities[i]]
    /\ IF recording THEN RecordEverySlot ELSE UNCHANGED before
    /\ UNCHANGED <<index, members, next, seed, recording>>

RecordAll ==
    /\ recording
    /\ RecordEverySlot
    /\ UNCHANGED <<entities, index, members, next, seed, recording>>

BeginRecording ==
    /\ Transactional
    /\ recording' = TRUE
    /\ before' = << >>
    /\ UNCHANGED <<entities, index, members, next, seed>>

EndRecording ==
    /\ Transactional
    /\ recording' = FALSE
    /\ before' = << >>
    /\ UNCHANGED <<entities, index, members, next, seed>>

BringHandles == Explicit \cup {Null}

AddAny == \E h0 \in BringHandles, o \in Owners, sub, onPaper \in BOOLEAN,
              v \in Vals : AddEntity(h0, o, sub, onPaper, v)
AddToBlockAny == \E h0 \in BringHandles, b \in Blocks, sub \in BOOLEAN,
                    v \in Vals : AddEntityToBlock(h0, b, sub, v)
AddLoadedAny == \E h0 \in BringHandles, o \in Owners, sub \in BOOLEAN,
                   v \in Vals : AddLoadedEntity(h0, o, sub, v)
MutateAny == \E h \in Live, v \in Vals : GetEntityMut(h, v)
EntitiesMutAny == \E n \in 0 .. Len(entities), v \in Vals : EntitiesMut(n, v)
ReplaceAny == \E h \in Live, e \in Images : ReplaceEntityArc(h, e)
RestoreAny == \E e \in Images : RestoreEntityArc(e)
RemoveAny == \E h \in Live : RemoveEntityArc(h)

Next ==
    \/ AddAny
    \/ AddToBlockAny
    \/ AddLoadedAny
    \/ MutateAny
    \/ EntitiesMutAny
    \/ ReplaceAny
    \/ RestoreAny
    \/ RemoveAny
    \/ RecordAll
    \/ BeginRecording
    \/ EndRecording

Spec == StoreInit /\ [][Next]_storeVars

-----------------------------------------------------------------------------
(* Properties.                                                             *)

\* Every variable of the store keeps its type.
TypeOk ==
    /\ entities \in Seq(Entity)
    /\ Live \subseteq Handles \ {Null}
    /\ index \in [Live -> Slots]
    /\ members \in [Blocks -> Seq(Handles \ {Null})]
    /\ next \in Nat \ {Null}
    /\ seed \in Nat
    /\ recording \in BOOLEAN
    /\ DOMAIN before \subseteq Handles
    /\ before \in [DOMAIN before -> Image]

\* The derived lookup never lies: whatever adds, swap-removals, replacements
\* and restores happened, and even when two slots carry the same handle, an
\* indexed handle leads to a slot that carries it.
IndexSound == \A h \in Live : Stored(h).handle = h

\* With unique handles no slot is stranded: every stored entity is the one
\* its handle leads to (audit's EntityIndexMismatch never arises).
SlotsReachable ==
    ~AllowDuplicates =>
        \A i \in Slots : entities[i].handle \in Live
                          /\ index[entities[i].handle] = i

\* The allocator stays above every identity in the store, the ones a block
\* still lists for undo and the ones the recorder remembers, so that no
\* later allocation re-issues one of them.
AllocatorAbove ==
    /\ \A i \in Slots : entities[i].handle < Fresh
    /\ \A b \in Blocks : \A h \in Listed(b) : h < Fresh
    /\ \A h \in DOMAIN before : h < Fresh

\* A verbatim record is only kept while it still encodes the drawing data.
RawFaithful ==
    \A i \in Slots : entities[i].raw \in {NoRaw, entities[i].val}

\* With unique handles the store is a plain map: an operation puts in, changes
\* or takes out one entity and leaves what every other handle leads to as it
\* was, or rewrites entities under their own handles, although removals move
\* slots about.
Map == INSTANCE EntityMap WITH map <- [h \in Live |-> Stored(h)]

ImplementsMap == Map!Spec

=============================================================================
