# A formal model of the CAD document core

The repository is a Rust library that reads, edits and writes CAD drawings
(DWG and DXF). Most of its 240 000 lines describe record layouts and geometry;
what every reader, editor and writer relies on is the in-memory document,
`CadDocument` (`src/document.rs`): a flat entity store with a derived index, a
handle allocator, symbol tables, an object map with its dictionaries, and the
hooks an editor builds undo on. This directory models that core in TLA+,
model-checks it with TLC, and proves with TLAPS, for every value of the
constants, the safety properties of its entity store, edit history, symbol
tables, object graph, sharded read and DWG loading.
Paths below are relative to the repository; `document.rs` is `src/document.rs`.

## 1. Inventory

### 1.1 Entity store (`document.rs`) — modelled and proved

* State: `entities` (a vector of shared entities), `entity_index` (handle to
  slot), each block record's `entity_handles`, the allocator (`next_handle` and
  the header's `handle_seed`), and an optional `EntityChangeRecorder`.
* Operations: `add_entity`, `add_entity_to_block` (behind
  `add_paper_space_entity` and `add_entity_to_layout`), `add_loaded_entity`,
  `get_entity_mut`, `entities_mut`, `replace_entity_arc`, `restore_entity_arc`,
  `remove_entity_arc`, `record_all_entities_for_transaction`, begin and end of
  recording.
* Interactions: every other component goes through it; the loader fills it, the
  recorder observes it, the tables' renames write to it.
* Hard: removal swaps the last slot into the hole and the index must follow;
  callers may bring handles of their own, equal to or above the counter, or
  even already in use; two counters (`next_handle`, HANDSEED) drift apart and
  both count; `raw_record`, the verbatim DWG bytes of an entity, must not
  survive a write; block membership is left alone by removal and restoration.
* Correct when: the index never lies, no slot is stranded, no allocated handle
  is one in use, the raw bytes match the data, and the whole is a map.

### 1.2 Edit history (`document.rs`) — modelled and proved

* State: the recorder's first-touch before images; structure snapshots.
* Operations: `begin_/end_entity_change_recording`, `take_before_images`,
  `snapshot_structure`, `swap_structure`, `align_added_entity_structure`.
* Interactions: an editor outside the crate calls them around the store's
  operations, and undoes with `remove_entity_arc`, `replace_entity_arc`,
  `restore_entity_arc` and `swap_structure`.
* Hard: images come back in an order unrelated to the edits; membership lists
  are part of the structure while entities are not; the alignment must tell an
  addition from a reorder; CLEAR replaces the document in the middle.
* Correct when: undo and redo restore the drawing exactly, before images are
  those of the transaction's start, the handle of an undone addition is not
  issued again.

### 1.3 Symbol tables (`tables/mod.rs`, `layer_state.rs`) — modelled (layers) and proved

* State: `Table<T>`, an insertion-ordered map keyed by the folded name an entry
  had when it was keyed; duplicates under suffixed keys; name references from
  entities, the header and saved layer states.
* Operations: `add`, `add_or_replace`, `add_allow_duplicate`, `remove`,
  in-place renames through `get_mut`, `rename_layer`, `resync_keys` and
  `resync_table_keys`, `assign_table_entry_handles`.
* Hard: a sequence of re-keyings while keys collide; deciding which name
  references follow; looking entries up by a name that is not unique.
* Correct when: no entry or handle is lost or doubled, references keep naming
  the entry they meant.

### 1.4 Dictionaries, extension dictionaries, groups (`document.rs`, `objects/`) — modelled and proved

* State: the public map `objects`, the header's dictionary handles, the
  extension dictionary of an entity kept twice (entity and `xdic_by_handle`),
  the membership of groups kept twice (group and the entities' reactors).
* Operations: `ensure_extension_dictionary`, `ensure_xrecord`,
  `ensure_named_objects_dictionary`, `ensure_subdictionary`,
  `remove_subdictionary`, `create_group`, `create_unnamed_group`,
  `add_entity_to_group`, `remove_entity_from_group`, `remove_group`.
* Hard: the two copies, handles that outlive what they name, free-number search.
* Correct when: what was ensured can be found, both copies agree, no group takes
  over the name of another unasked.

### 1.5 Sharded DWG read (`io/dwg/shard_plan.rs`, `io/dwg/dwg_reader.rs`) — modelled and proved

* State: `ShardState` (shared records, plan, index), the documents handed over.
* Operations: `plan_shards`, `plan_first`, `resume`, the loop of `read_sharded`.
* Hard: files whose owner chains are cyclic or whose entity list repeats or omits
  records; a failsafe read that never planned; the limit.
* Correct when: every entity is in exactly one document, with its owner, in list
  order, within the limit; the loop ends.

### 1.6 Loading a DWG (`io/dwg/dwg_document_builder.rs`, `io/dwg/parallel.rs`) — pass 2 modelled and proved

* State: the records of the file not yet taken; for each chunk of 512 records
  what a worker has made of it (`Pass2Chunk`: entities, objects, next-entity
  links, and vertices, attributes and SEQENDs pending for their parents); what
  the committed chunks left pending; the document's entities and block records.
* Operations: `map_chunks` over a batch, `process_pass2_record`, the cleanup of
  a failed record, the commit loop, `order_pending_vertices`, the attribute
  pass, `block_entity_chain`, `rebuild_block_membership`.
* Interactions: fills the entity store through `add_loaded_entity_batch`, or
  through a visitor that may refuse an entity.
* Hard: workers finish in any order; children and parents are in different
  chunks and batches; a record fails after it has added things; lists and links
  that are cyclic, branch, repeat, omit or lead through a failed record.
* Correct when: the document is a function of the records alone; each sound
  entity is stored once; children are with their parent in drawing order; a
  block lists what it names, in order, and no entity is listed twice.

### 1.7 Reference resolution, audit and repair (`document.rs`, `audit.rs`) — modelled for handles and proved

* State: the whole document as a set of identities (table entries, table
  controls, block records with their markers, entities with what is nested in
  them, objects) and the references between them.
* Operations: `synchronize_handle_allocator`, `resolve_references` with its
  passes, `audit`, `repair`.
* Interactions: the writers call `resolve_references` on their copy; an
  application calls `audit` and `repair`.
* Hard: each pass feeds the next, and decides by what earlier passes left; an
  object that moves is named from seven places.
* Correct when: a second repair has nothing to do, no issue is added, references
  follow what moved, the allocator ends above everything.

### 1.8 Layouts (`document.rs`, `io/dxf/reader.rs`, `io/dwg/dwg_document_builder.rs`) — modelled

* State: layout objects, the records of their spaces, the ACAD_LAYOUT dictionary
  and its entry in the root, the viewports with their ids.
* Operations: the end of a DXF read (`rewire_dangling_layout_block_records` and
  the end of `read_objects`), the end of a DWG read (missing spaces,
  `number_paper_space_viewports`), `ensure_model_layout`, `add_layout`,
  `add_entity_to_layout`.
* Hard: files of every age lack some of these parts; what is missing is rebuilt
  from what is there, in an order; several layouts compete for what is left.
* Correct when: layouts and records agree in both directions, the model layout
  hangs on the root, spaces keep their content, new layouts are usable.

### 1.9 Not modelled

| Component | Where | Why, or what is planned |
|---|---|---|
| Block graphs, nested copies | `document/block_graph.rs`, `nested_copy.rs` | planned: identity maps of a copy between drawings |
| Removal cascade over architecture anchors | `document.rs`, `classes` | planned |
| Scope of the recorder | `document.rs` 1503–1532 | address-keyed, thread-local registry: its faults (a moved or dropped document) are excluded by the borrow of the callers the crate has |
| Record catalog, tables of pass 1, name passes of the loader | `io/dwg/dwg_document_builder.rs` | sequential translation of fields |
| Read diagnostics, recovery | `io/read.rs`, `io/recover.rs`, `notification.rs` | capped lists; nothing depends on them but reports |
| DWG containers and compression | `io/dwg/file_headers`, `compression.rs`, … | byte codecs; a reduced LZ77 copy loop could follow as a pure algorithm |
| Release 11/12 DWG | `io/dwg/r12` | JUMP traversal could follow |
| Record codecs, DXF, importers | `io/dwg/dwg_stream_*`, `io/dxf`, `io/import` | two thirds of the source: stateless field layouts, which round-trip tests fit better |
| Entities, geometry, ACIS, architecture | `entities`, `classes` | floating point |
| MText, fields, counts, sheet sets, VBA | `entities/mtext_format`, `fields.rs`, … | queries over a finished document; the MText parser may follow |

Concurrency: the document is a plain value with `&mut` methods, so its
operations are sequential; there the hard behaviours are long sequences of legal
calls. Parallelism exists inside loading, and `DwgLoad` has its interleavings.

## 2. Modules

| Module | Models | Composes |
|---|---|---|
| `DocumentStore` | the entity store, one action per operation | — |
| `EntityMap` | what the store promises: a map | implemented by `DocumentStore` |
| `SequenceFilter` | `Kept(s, S)`: the elements of a sequence that are in a set, in order (`retain`, `filter`) | — |
| `EditHistory` | transactions, undo, redo, CLEAR | extends `DocumentStore`, `SequenceFilter` |
| `EditHistoryProofs` | theorems about the store, its refinement of the map, and the history | extends `EditHistory` |
| `SymbolTable`, `SymbolTableProofs` | a table, layer references; theorems | — |
| `ObjectGraph`, `ObjectGraphProofs` | object map, dictionaries, groups; theorems | — |
| `ShardedRead`, `ShardedReadProofs` | plan and loop of a sharded read; theorems | — |
| `DwgLoad`, `DwgLoadProofs` | pass 2 of a DWG read, up to block membership; theorems | extends `SequenceFilter` |
| `DataInduction` | lemmas: induction, recursion, `Kept`; no model | used by the proofs |
| `AuditRepair`, `AuditRepairProofs` | reference resolution, audit, repair; theorems | — |
| `Layouts`, `LayoutsProofs` | layouts at the end of a read and after it; theorems | extends `SequenceFilter` |
| `MC…` | small instances for TLC | one per module above |

### 2.1 DocumentStore

Variables are the fields of `CadDocument` the store uses, plus `recording` and
`before` for the attached recorder. An entity is a record of its handle, owner,
whether it is one of the sub-entity kinds no block lists (`sub`), its drawing
data `val` and the data its verbatim record encodes, `raw`. Operations with a
caller-supplied argument take it by `\E` over small sets (`AddAny`,
`RestoreAny`, …). `AllowDuplicates` says whether a caller may add under a handle
the store holds: the code does not refuse it, so one run allows it; the map
refinement needs its absence. `Blocks` are fixed: `*Model_Space` exists, as
`initialize_defaults` ensures. `add_entity_to_block` is called with existing
block names. `MaxHandle`, `MaxSlots`, `MaxListed` bound an instance (`Room`);
the proofs hold for every value of them.

`remove_entity` (without architecture anchors) is `RemoveEntityArc`. An entity
obtained through `get_entity_mut` is written at once (`GetEntityMut(h, v)`): the
mutable borrow admits nothing in between. `EntitiesMut(n, v)` is a pass of
`entities_mut` in which the caller takes the first n slots and writes them, which
records every slot and drops every verbatim record. `entities_mut_keep_raw`, which
keeps the records while the reader fills in derived fields, is left out.
HANDSEED, which a file brings and the reader takes over as it is, starts at any member
of `Seeds`, above `next_handle` or below it.

### 2.2 EditHistory

The document's calls are the crate's (`Begin` is
`begin_entity_change_recording` with a snapshot; `Commit` is `take_before_images`,
`align_added_entity_structure` and `end_entity_change_recording`; `PutBack` is one
of `remove_entity_arc`, `replace_entity_arc`, `restore_entity_arc`; `FinishUndo`
and `FinishRedo` are `swap_structure`). Their order is the editor's, taken from
the comments of those functions, as the editor is another program. Images go back
in every order. `Align` is applied to the snapshot a transaction began with.
CLEAR (`EditClear`) records everything and replaces the document by a new one; a
pass over every entity (`EditMutateAll`) is an edit where `Sweeps` allows it.

### 2.3 SymbolTable

A key is a pair of the folded name at keying time and a suffix; this stands for
the string `NAME\0suffix`. The code takes the first number whose text is free; for
pairs that is the first free suffix, and what is proved is proved of the pairs.
Folding is a constant function `Fold`. `RenameInPlace`
assigns a name through `get_mut`; keys go stale until `ResyncTableKeys`. One
layer name per entity, the header's current layer and one saved layer state
stand for the references. `Protected` are names `rename_layer` refuses and, in
our instances, no caller renames in place or removes. `RenameLayer` looks one entry
up by the old name (`source`) and renames the entry its own name leads to (`i`), as
the code does: for a stale entry that is another one.

### 2.4 ObjectGraph

A dictionary is a function from keys to handles, the objects a function from
handles to records. `Purge` is a caller taking an object out of the public map
and happens `MaxPurges` times; `ReuseNames` lets a caller create a group under
the name of another. New handles start at `FirstHandle`, above the entities and
the header's dictionaries. Entities come from outside; `RemoveEntity` leaves groups alone, as the
code does. `get_entity_mut`'s effects on raw records are the store's and not
repeated here.

### 2.5 ShardedRead

The file is chosen once: for each record its placement (shared, in model space,
loose, or owned by a named record, cycles included), the block record's entity
list, whether the file predates R2004. The owner of a record is a function, its
chain of owners a recursive one cut at `MaxOwnerDepth`. `Plan` follows
`plan_shards`, with a recursive function for each of its loops; the actions
are the loop. `DecodeNothing` is a failsafe read whose handles or objects section
cannot be read, `Fail` a strict one or an error of the callback.

### 2.6 DwgLoad

A file is chosen once out of `Files`: records in catalog order (members of
`Record`, each handle once, which `FilesAssumption` demands of every file), block
records with their lists or chain ends, the entities a visitor refuses, the version
and the mode of the read. `Start` splits the next records into the chunks of a batch, `Decode(i)` is
one record of one worker, `Commit` one turn of the commit loop, which begins when
the whole batch is decoded; `Assemble` is one polyline, `Attach` the attributes,
`Rebuild` the owners and memberships. A record that fails with a bad body is
decoded and then cleaned up (`Discarded`), as in the code; maps keyed by owner are
functions. The contents of records are left out, and so are the side tables keyed
by the record's own handle, which are cleaned alike. Records of one drawing have
handles of their own, as the handle map guarantees. The properties speak of the
places of records in the file: they know nothing of chunks, batches or workers.

### 2.7 AuditRepair

A document is one record; `Damage` overwrites one field with a value out of
`Values` (NULL, handles in use by other kinds of record, handles beyond the
allocator), and any number of `Resolve` and `Repair` steps follow or come between.
Two table controls stand for ten. `Issues` is what `audit` reports of identities,
references, owners, the index, the seed and cycles; the passes of
`resolve_references` are operators, applied in its order. A `tag` identifies an
object across changes of its handle. `Drawing` is the shape of a document: damage
changes any handle, also to NULL or to one in use, but the index leads to slots, as
it is private to the library. The drawing of the start is `Settled`: it is what the
library writes or repairs, so neither operation has anything to do in it.

### 2.8 Layouts

`Lack` takes a part out of a saved drawing, as files of some age or origin lack it;
`Read` ends a DXF or a DWG read; `Call` is an operation afterwards, or a caller
removing a layout or a record. Objects are a hash map in the code, and where the
code takes the first match `Picks` chooses any. Names of spaces are numbers. Names of
layouts and keys of dictionaries come from one set, `Titles`. `Saved` says what a
drawing is when it is saved; the run's drawing satisfies it, and every theorem starts
from it.

### 2.9 Faults

Operators whose comment begins with "Fault:" are plausible mistakes in the
definition that follows them (a dropped guard, a missing reset, a swapped
order). They are part of no specification; each one, put in the place of that
definition, makes TLC find a property violated (`PROJECT.json`, "mutants").
They document what the properties are able to notice.

## 3. Runs

| Run | Question | Bounds |
|---|---|---|
| `StoreUnique` | map refinement, no stranded slot, allocator above everything | 3 slots and 3 handles: one allocated, one brought from above the counter, one restored; HANDSEED starts above the counter; two blocks, a recorder |
| `HistoryUndo` | exact undo/redo, allocator, lists | 2 loaded entities, 2 transactions of 2 edits; HANDSEED starts above the counter |
| `HistoryReplaced` | CLEAR, passes over every entity and re-added handles; images, raw records; undo ends | 1 transaction of 3 edits; HANDSEED starts below the counter |
| `TableRenames` | entries, handles, references through renames and resyncs | 3 entries, 5 spellings of 4 names, one reference at a time away from the protected layer |
| `TableAssign` | finding: handle assignment by name | same |
| `TableResync` | finding: exchanged names | same |
| `GraphOperations` | groups, reactors, extension dictionaries, what was ensured | 2 entities, 3 new handles, one purge, reused group names |
| `ShardPlans` | every plan of a small file | 4 records, shards of at most 2 |
| `DwgLoads` | loads of one drawing with up to two failed records or one failed and one damaged link or list | 16 records, 4 chunks in 2 batches, both kinds of version |
| `Repairs` | resolution and repair of a drawing with two damaged handles | 2 damages out of 7 values in any field, repairs between them |
| `RepairRaw` | finding: verbatim records after a move | 1 damage |
| `Layouts` | reads of a drawing that lacks parts, then calls | 3 parts missing, 2 calls |

Why these bounds suffice: three slots are the least in which a swap-removal
moves a slot that is neither the removed one nor the only other one, and every
removal index (first, middle, last) differs. Two transactions of two edits make an
addition, a reorder and a second transaction over an undone one meet. Three table
entries let two exchange names while a third stands by, or one be stale under the old
name while its own name is another's key; five spellings include two
that fold together. `TableRenames` follows the entity, the saved layer state and the
header one at a time (`OneReferenceMoved`): no action reads one of them to change
another, so every behaviour of one of them occurs while the others name the protected
layer. Four records give owner chains up to depth three, cycles of
two and three with a tail, and two or more shards of size two. `MaxOwnerDepth` is 2
instead of the code's 8, so the limit itself is met by cycles but by no chain that
ends: a chain longer than the code follows is documented to be treated as broken.
In `DwgLoads` a polyline and its vertices, and an INSERT and its attributes, lie in
different chunks, and the polyline's vertices in different batches; drawing order,
handle order and file order all differ. Two damaged fields are what it takes for two
records to claim one handle while a third names it; the values are the handle of a
record of each kind, NULL and the first free number. A file that lacks three parts
can have lost every trace of one layout; two calls let a layout be removed and another
added. The state spaces of the passing runs have between 81 000 and 2.5 million
states and are explored in full.

Deadlock checking is off everywhere: an instance stops when its bounds are reached,
and the library has no duty to move.

### Fairness

`HistoryReplaced` assumes weak fairness of `PutBack`, `FinishUndo` and
`FinishRedo`: an undo is one synchronous call sequence of the editor. What the run
shows is that no put-back is ever refused for good. `ShardPlans` assumes weak
fairness of the reading loop (`Reading`), a plain `loop` in `read_sharded`; nothing
is assumed of the caller who starts it, and failure is never required.

## 4. Findings

Each of these is a run that TLC finds violated; `PROJECT.json` quotes the line that
says otherwise.

1. `assign_table_entry_handles` sets handles through a lookup by name; a
   duplicate entry stays NULL and the plain one's handle is overwritten
   (`TableAssign`).
2. `resync_keys` suffixes an entry whose new name is a key about to be given
   up; after an exchange of names a lookup misses the entry (`TableResync`).
3. `resolve_references` rewrites owners and extension dictionary handles and
   leaves `raw_record`, which the DWG writer emits, as it was (`RepairRaw`).

Seen while modelling and not made a run:

* `add_entity` and `add_entity_to_block` record "absent" as the before image even
  when the store holds the handle; the instances bring unique handles.
* `ensure_extension_dictionary` trusts the handle its owner names. After a caller took
  the dictionary out of the public map, `ensure_xrecord` makes an orphan record on each
  call; `AttachedBothWays` and, for records, `EnsuredFound` speak of drawings nothing
  was taken out of. `create_group` under an existing name orphans the
  older group; `remove_subdictionary` leaves the children it owned; `remove_group`
  drops the dictionary entry even when the object is no group.
* `rename_layer` looks an entry up by the old name and renames by the name of the
  entry it found. After in-place renames that entry may be stale and its name
  another's key: the other entry is renamed, which need not have been the one asked
  for, and a header that has the first entry's handle moves to it.
  `RenameKeepsReferences` speaks of a header that names one entry both by name and by
  handle.
* `resync_table_keys` leaves saved layer states alone while `rename_layer` updates
  them.
* `add_layout` names the new record by the number of paper spaces. Once their
  numbering has a gap the name may be taken; every further call then refuses and
  uses up four handles. After a layout was removed and its dictionary entry stayed,
  the entry is doubled.
* `ensure_model_layout` keeps a record's link to any layout, even one that names
  another record; a layout rewired at the end of a DXF read keeps an empty viewport
  list.
* Two entities and a marker that share one handle: when `resolve_references` moves
  the marker away it leads the index to the first of the two, wherever the index led
  before, so a list that has the handle once may own the other. It takes four damaged
  fields, and it is the reason why `MembershipDecides` asks `resolve_references` for
  the block of an entity only when the index is sound.
* Two block records that share a marker handle lose one marker to the other
  (`resolve_references`); object kinds without an arm in its remapping keep an owner
  that moved; `synchronize_handle_allocator` does not see the handles nested in an
  INSERT, which is why `NoWorse` and `SeedAbove` except them.
* Before R2004 a failed record ends its block's chain: the entities after it go by
  their own records, so those of a second sheet go to `*Paper_Space`.
  `BlocksHoldTheirEntities` speaks of what is reached through sound records.
* The comment on `order_pending_vertices` says that a list which does not cover
  every child leaves the order alone; code and tests put the named ones first, and
  so does `ChildrenInDrawingOrder`.
* When a space record is synthesized, membership is rebuilt a second time without
  the record order, and a block without a chain in an older file has its polylines
  last.
* After CLEAR and an addition in one transaction, `align_added_entity_structure`
  (`document.rs` 1556) gives the snapshot of the start the counter of the end, which
  is the lower one because the new document counts from its beginning. An undo then
  leaves the allocator below handles it has put back, and the next
  `allocate_handle` issues one of them again, where the comment at 2313 says that an
  object with a higher handle never has its handle issued again. TLC shows it on
  loaded handles 3 and 5, `FirstHandle` 6 and `NewNext` 3; the handles of
  `HistoryReplaced` leave no gap. No property excludes it: `HistoryBelowAllocator` is
  checked without CLEAR, `UndoRestores` compares drawings and leaves the allocator
  out, and the theorems about the history assume `~Clears`.

## 5. Proofs

All theorems hold for every value of the constants that satisfies the named
assumptions, and TLC evaluates those on every run. Each proof has the same shape: an
inductive invariant, one lemma for `Init`, one for each action, and a theorem that
draws the property from it.

### 5.1 Entity store (first part of `EditHistoryProofs`)

Assumed: block handles are below the first free handle; images a caller holds carry
a non-null handle and a raw record that matches their data, or none.

* `StoreCorrect`: `Spec => [](TypeOk /\ IndexSound /\ AllocatorAbove)`, and
  `StoreTyped` its first part. The inductive invariant is `StoreInv`, the
  conjunction of the three: the index needs types to speak of slots;
  `AllocatorAbove` needs `IndexSound` because removal records the image of the
  handle the index leads to.
* `RawNeverStale`: `Spec => []RawFaithful`, from the type invariant, for writes to one
  entity and for passes over all; images a caller puts back are faithful by assumption.
* `NoStrandedSlot`: `Spec => []SlotsReachable`. Inductive together with
  `StoreInv`: swap-removal keeps `index` a bijection between handles and slots
  only if it was one.
* `StoreImplementsMap`: with `~AllowDuplicates`, `Spec => ImplementsMap`, the
  refinement of `EntityMap` with `map <- [h \in Live |-> Stored(h)]`. Each
  operation is a `Put`, `Change`, `Take`, a `Rewrite` of some entities' data (a pass) or
  a stutter; removal is the hard case
  and uses `SlotsReachable` to show that the moved slot is what its handle leads to.

### 5.2 Edit history (`EditHistoryProofs`)

The theorems assume `~AllowDuplicates` and `~Clears`. An add under a handle in use
records that there was nothing (section 4), so undo cannot restore what was; CLEAR in
a transaction can take the allocator back (section 4). TLC explores CLEAR in
`HistoryReplaced`. No bound on edits, transactions or handles enters a proof.

* `UndoRestoresDrawing` (`UndoExact`): what undo and redo leave is the drawing the
  transaction started from, or ended in.
* `RecorderKeepsFirstImage` (`BeforeImagesFaithful`): while a transaction is open,
  each before image is the entity, or the absence of one, of its start; and every
  handle without an image, of an entity of then or of now, has what it had then.
* `UndoKeepsRawFaithful` (`RawFaithful` of the history's specification).
* `OwnersListTheirEntities` (`ListedByOwner`), assuming also `Explicit = {}`: between
  undos a block's list has an entity if and only if the entity is stored and owned by
  the block (sub-entities, which no list has, aside), and once. A
  caller who brings a removed handle back into another block leaves it in the first
  block's list, as membership is left alone by removal, which is why `Explicit` is
  empty.
* `AllocatorAboveHistory` (`HistoryBelowAllocator`): between transactions the allocator
  is above the stored handles, above what an undo of any transaction on the stack puts
  back and above what the next redo does; and the allocator each undo set aside, which
  the redo swaps in, is above what the redo after it puts back. Handles of later redos
  may lie above the present allocator: a new transaction that could take one of
  them drops those redos.

The inductive invariant `HistoryInv` has a part for each moment. `StoreGood` is what
the store's own proofs keep. `EntriesGood` says of each transaction that its images
tell its two drawings apart (`Tells`), and that its snapshot, swapped in over the
right entities, shows the right drawing with an allocator above all it names
(`Shows`). `Joined` links the two stacks: a transaction ends in the drawing the next
one starts from, and the present drawing is where the stacks meet; without it undo
twice says nothing. `OpenGood` compares the drawing with the one a transaction
started from, `UndoingGood` and `RedoingGood` say how far a sequence of put-backs is,
in whatever order they come. The steps of the store's operations are first summed up
in one shape (`Edits`: at most one handle touched, lists appended to or reversed), so
the history's proof does not repeat the store's. `AllocatorGood` is inductive over
it: each snapshot's counter is above all images that undo and redo may have put back
when it is swapped in, which is a statement about every pair of transactions. `Listing`
says that the lists fit both the present drawing and the one the transaction began
with (`WellListed`: no entity of another block and none twice; `Complete`: none
missing): removal leaves the list alone so that the entity's return finds its place.

### 5.3 Object graph (`ObjectGraphProofs`)

Assumed: the handles of the start differ and are below `FirstHandle`; `ACAD_GROUP` is
not the key of another sub-dictionary, and automatic names differ. The properties speak
of a drawing from whose public map no caller took an object (`Intact`).

* `ReactorsAreGroups` (`ReactorsMatchGroups`), `GroupsStayRegistered`
  (`GroupsRegistered`), `EntriesAlwaysResolve` (`EntriesResolve`),
  `ExtensionsAttachedBothWays` (`AttachedBothWays`), and the action property
  `CreatedIsFound` (`EnsuredFound`).

`GraphInv` describes the shape of the whole graph: `Shaped` (kinds and the
allocator), `Rooted` (the root leads to each sub-dictionary under one key), `Owned`
(every other dictionary is a sub-dictionary of groups or an extension dictionary of
records, which owns what it names), `Grouped`, `Attached` and `Reacting`. None is
inductive alone: that a removed group's reactors go needs the members, that a new
dictionary overwrites no extension needs owners, that a removed sub-dictionary is no
extension dictionary needs both.

### 5.4 Symbol tables (`SymbolTableProofs`)

* `TablesStayUnique` (`EntriesUnique`), and the action properties
  `ResyncLosesNothing` (`ResyncKeepsEntries`), `RenameTakesReferences`
  (`RenameKeepsReferences`), `ResyncTakesReferences` (`ReferencesFollow`).

`TableInv` is small; the work is in the two folds. `ResyncedTo(t, n)` is the
invariant of the re-keying loop after n places: keys still differ although re-keyed
and stale entries stand side by side, and a plain key goes to those whose name nobody
had or takes. That a free suffix always exists is the pigeonhole lemma
`FreeSuffixIsFree`. `AssignedTo` is the invariant of the handle assignment.

### 5.5 Sharded read (`ShardedReadProofs`)

Assumed: the limit and the depth are numbers, the records a set of numbers; owner
chains and entity lists are arbitrary.

* `EveryEntityOnce` (`ReadOnce`), `ChildrenWithOwners` (`ChildrenStay`),
  `ShardsBounded` (`Bounded`), `ShardsFollowList` (`ListOrderKept`).

`ListedOf`, `OrderGood` and `Grouped` are the invariants of the three folds of
`plan_shards`: the list without what it repeats, the order, the greedy grouping. From
them the plan is a partition in which each part is within the limit or one anchor
with its children. `ReadInv` then ties the loop to the plan: what was handed over are
the plan's first parts and what is left its others, although each part is moved out
of the state when it is read.

### 5.6 Loading (`DwgLoadProofs`)

Assumed: `FilesAssumption`, that each record and each block of a file has a handle of
its own, which the handle map guarantees; links, lists and chain ends are arbitrary.

* `RecordsAllAccounted` (`RecordsAccounted`): however the workers' steps interleave
  and whatever chunks and batches are, when the read ends each sound record has its
  entity, once and in record order with the polylines last, each object is stored
  and the rest are counted as skipped.
* `ChildrenKeepDrawingOrder` (`ChildrenInDrawingOrder`): a polyline or an INSERT has
  the sound vertices or attributes that name it, each once, in the order of its
  list, else of their links, else of their records.
* `BlocksHaveTheirEntities` (`BlocksHoldTheirEntities`): each entity is in the list of
  one block at most, the one it has as its owner, and once; that is a block that
  names it, if one does; what a block names comes first in its list, in its order.

`ReadInv` says that while the loop runs there are cuts c between the chunks, a
position d of each worker, and the places P of polylines that wait, such that each
chunk holds what its records up to d make, the rest of the file is still to be cut,
and the document holds what the committed records make. `ListOf` says what a list of
entities is of a set of places; the cleanup of a failed record, which cuts the list
back to its length before the record, keeps it. `MapsOf` says the same of the side
tables: a row of pending vertices or attributes lists the sound children of its owner
in the places from a to b (`RowsAre`), the links and lists are those of the sound
records there (`LinksAre`, `ListsAre`), and two such chunks joined are one
(`RowsJoin`). When the last chunk is in, each row is that of the whole file, and
`CompletedDrawn` shows that a polyline completed from it is what the property says.

The last pass reads the links of the sound records only. `ChainBegins` shows that the
chain along them is the part of the chain along all links that ends before the first
failed record, so the blocks name exactly what `Names` says (`NamedIs`); `MembersIs`
follows the filter and the sort. Stating this for every file showed that an entity
which a block's list repeats stands where the list names it *last*, as the code collects
the places into a hash map; the property was made to say so and `DwgLoads` has such a
list.

The first half of the module holds what this rests on, for lists and maps of any content: a stable
sort by rank is a permutation that puts lower ranks first and leaves ties as they
stood (`SortIs`), so ranks that are places restore an order (`SortAlong`); the code's
walk along the links gives the only order that visits every vertex, or none
(`ChainIs`), where a walk is followed past every cycle and branch it may meet
(`WalkIs`); and what one more child or one more chunk makes of a row (`RowGrows`,
`RowJoin`).

### 5.7 Audit and repair (`AuditRepairProofs`)

Assumed: `SoundAssumption`, that the drawing of the start was loaded without issues
and is settled; `TagAssumption`, that tags tell its objects apart; the damage is any
number of fields and any handles.

* `DrawingStaysSound` (`TypeOk`); `RepairIsStable` (`RepairStable`): repair is
  idempotent; `KindsStayApart` (`Apart`); `AllocatorEndsAbove` (`SeedAbove`);
  `ReferencesLeadOn` (`ReferencesFollow`); `BlocksDecide` (`MembershipDecides`).

The invariant is weak, as it must be when anything may be damaged: `Intact` says that
the document has the shape `Drawing` and is the drawing of the start while nothing is
damaged, `TagsApart` that no two objects share a tag. The work is in the two
operations, as functions from any document to another. Each pass has a lemma that
says what it leaves and what it touches; `ResolveIs` and `RepairedIs` put them
together. `Tidy` is what is true after `resolve_references`: handles below the
allocator, none missing in tables and objects, records of different kinds apart,
entities with owners and modes that agree. The later passes must not undo the earlier ones: the
number a marker is moved to must be no control's, no record's and no marker's placed
before or after it, and an object must not move onto any of them. `Tidy` with a sound
or rebuilt index is `Repairless`, and `RepairFix` shows for every pass that it leaves
such a document as it is, which makes repair idempotent. `Resolves` says what
`resolve_references` keeps of a document: slots, lists, the handles of all
entities but markers and of records that had one. For `BlocksDecide`, `OneBlock` shows that the first
block the index finds is the only one that lists the entity, and `ClaimedIs` that the
search `repair()` does beforehand claims for the same block. For `ReferencesLeadOn`,
the renumbering of objects is one-to-one and `FollowIs` shows that a reference leads
to the object with the same tag through it, in `repair()` after the object under the
NULL key has moved as well. The side table of extension dictionaries is re-keyed along
the same renumbering, which is one-to-one only below the allocator: the theorem asks
that its keys are handles the allocator takes into account. A key nobody has could
otherwise be the number a moved object is given.

Two properties were too strong when stated for every drawing. `MembershipDecides`
said of `resolve_references` what holds only for a sound index (section 4); no
drawing with two damaged fields shows it. `ReferencesFollow` spoke of the
references of all objects, but of the kinds modelled the remapping has arms for
dictionaries and extension records only, and entries that are NULL lead nowhere.

### 5.8 Layouts (`LayoutsProofs`)

Assumed: `SoundAssumption`, that the drawing was saved as `Saved` says (layouts and
records lead to each other, a record lists what it owns, handles are unique and below
HANDSEED); and that the names are titles. The number of missing parts, calls, records,
layouts and entities is not bounded.

* `LayoutsLeadBack` (`LinksAgree`), `NewLayoutsUsable` (`NewLayoutUsable`).

`LinksAgree` is false of a file and true of a document, so the inductive invariant
`LayoutInv` has two forms. Before the read, `FileGood`: handles are unique and below
the allocator (`Sited`), no two layouts name one record or one header space
(`OneEach`), a layout's viewports are owned by the space it names and in the list of
its record if there is one (`ViewsOwned`, `ViewsListed`), and a record's link leads to the layout
that names it, to itself or to no layout (`LinksWeak`). Owners are needed beside the
lists because a DWG read makes the lists anew from them, and they must speak of the
header's spaces, whose records may be missing, because `Synthesized` brings these
back, under another handle when an object has it. After the read, `Good` and
`LinksStrong`: no link is missing where a layout names the record. It is
`ensure_model_layout` at the end of both readers that makes weak links strong.

Each operation has a lemma that says what it leaves alone, in one of a few relations:
`Keeps` (only dictionaries change), `Relinked` (only links), `Lesser` (layouts,
records or entries are gone), `Moved` (a record has another handle), `Adds` (a layout
that leads to a record nobody had), `Renumbered` (only viewport ids), `Founds` and
`Joins` (what `add_layout` and `add_entity_to_layout` make); and each relation has one
that says it preserves the invariant. The DXF read gives every layout the viewports of its
record first (`Bare`: a layout without a record has none then), which is why rewiring
it to another record breaks nothing. `RewireOk` holds between the
steps of the rewiring: what is left is dangling, what is taken is marked, so no two
layouts get one record. `NewLayoutsUsable` rests on the freshness of the five handles
that `add_layout` allocates, and of the name it looks up before.

### 5.9 How induction is done

The library's induction theorems take an operator and cannot be used by the
installed provers. `DataInduction` states induction over naturals and sequences about
*sets* (`NatSetInduction`, `SeqSetInduction`) and proves them from the least element
of a set of naturals; `Recursion` gives a function defined by recursion over
`1 .. n` its equations. A definition `LET f[n \in 0 .. N] == …` is then used through
a predicate of its own (`Resyncs(f)`, `GroupsOf(f)`, …) and an existence proof.
`Kept`, with which the models state what a `retain` or a `filter` leaves, has its
lemmas there too.

### 5.10 Only model-checked

* `NoWorse` and `NoNewReference` of `AuditRepair`: they compare how many issues of
  each kind `audit` reports before and after. A proof needs an injection from the
  issues after to those before, for each kind, through every pass.
* `ModelChain` and `SpacesComplete` of `Layouts`: the first says that
  `ensure_model_layout` is idempotent and hangs a new model layout on the root by one
  entry each, the second how `number_paper_space_viewports` numbers and that spaces
  keep their content. Both need the contents of dictionaries or the ids of viewports
  in the invariant, which those proved do not.
* `UndoCompletes` and `ReadEnds`: liveness and ENABLED are out of the prover's reach.
* The history's theorems for documents with CLEAR (`HistoryReplaced`).

## 6. Plan

1. Proofs: `ModelChain` and `SpacesComplete` of the layouts; the counts of issues of
   `AuditRepair`.
2. Block graphs and nested copies: the identity map of a copy between drawings.
3. The removal cascade over architecture anchors, on top of the store.
4. Pure algorithms: an LZ77 copy loop, JUMP traversal of Release 12.
