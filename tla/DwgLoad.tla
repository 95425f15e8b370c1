------------------------------ MODULE DwgLoad -------------------------------
(***************************************************************************)
(* Pass 2 of a DWG read and what follows it (build in                       *)
(* src/io/dwg/dwg_document_builder.rs): the records of a file are decoded in *)
(* parallel, chunk by chunk, into chunks of their own; a batch of chunks is   *)
(* committed in order once every worker is through; then polylines get their *)
(* vertices, INSERTs their attributes and block records their entities.      *)
(*                                                                         *)
(* A record fails when it cannot be framed ("unread") or when its body does  *)
(* not decode ("payload"); in the second case what it had already added is    *)
(* taken back.  An object is one of a class, "auxiliary" one whose bytes are   *)
(* kept in every mode.  A file is a record: its records in catalog order, its *)
(* block records, the entities a visitor refuses and the mode of the read.    *)
(* The link Unlinked belongs to a record followed by the next handle.         *)
(***************************************************************************)
EXTENDS Integers, FiniteSets, Sequences, SequencesExt, SequenceFilter

CONSTANTS
    Files,          \* the files that are read
    ModelSpace,     \* block records of the header
    PaperSpace,
    ChunkSize,      \* records a worker takes at a time
    BatchChunks     \* chunks decoded before the next commit

Null == 0
Unlinked == -1
Nothing == << >>    \* the empty map

Whole == {"plain", "insert", "marker"}          \* entities of one record
Polylines == {"polyline", "polyface"}
Parts == {"vertex", "stray", "attrib", "seqend"}
Objects == {"object", "auxiliary"}

Record ==
    [handle : Nat, kind : Whole \cup Polylines \cup Parts \cup Objects,
     mode : {"model", "paper", "explicit"}, owner : Nat, next : Nat \cup {Unlinked},
     owned : Seq(Nat), fault : {"none", "unread", "payload"}, at : Nat]

\* A block record: the ends of its chain, or from R2004 on its list.
BlockRecord == [handle : Nat \ {Null}, first : Nat, last : Nat, list : Seq(Nat)]

\* The handle map of a file names a record once.
ASSUME FilesAssumption ==
    \A f \in Files :
        /\ f.records \in Seq(Record) /\ f.blocks \in Seq(BlockRecord)
        /\ \A k, l \in 1 .. Len(f.records) :
              f.records[k].handle = f.records[l].handle => k = l
        /\ \A k, l \in 1 .. Len(f.blocks) :
              f.blocks[k].handle = f.blocks[l].handle => k = l
ASSUME DwgLoadAssumption ==
    /\ ChunkSize \in Nat \ {0} /\ BatchChunks \in Nat \ {0}
    /\ ModelSpace # PaperSpace

VARIABLES
    file,       \* the file being read
    rest,       \* records no batch has taken yet
    batch,      \* chunks being decoded: what is left of each, what it made
    pending,    \* what the committed chunks made, in one chunk
    entities,   \* the document's entities, in the order of its arena
    members,    \* block record -> its entity handles
    phase       \* the part of build that runs next

vars == <<file, rest, batch, pending, entities, members, phase>>

-----------------------------------------------------------------------------
(* Chunks *)

Empty ==
    [ents |-> << >>, objects |-> {}, next |-> Nothing, verts |-> Nothing, polys |-> << >>,
     order |-> Nothing, atts |-> Nothing, ends |-> Nothing, skipped |-> 0]

Chunk(records) == [todo |-> records, made |-> Empty]

Blocks == {file.blocks[i].handle : i \in DOMAIN file.blocks}
IsObject(r) == r.kind \in Objects
Recorded(h) == CHOOSE r \in ToSet(file.records) : r.handle = h

\* HashMap::insert and extend: a later value takes the place of an earlier one.
Extended(map, later) ==
    [key \in DOMAIN map \cup DOMAIN later |->
        IF key \in DOMAIN later THEN later[key] ELSE map[key]]
With(map, key, value) == Extended(map, [k \in {key} |-> value])
Pushed(map, key, value) ==
    With(map, key, Append(IF key \in DOMAIN map THEN map[key] ELSE << >>, value))
Joined(map, later) ==
    [key \in DOMAIN map \cup DOMAIN later |->
        (IF key \in DOMAIN map THEN map[key] ELSE << >>)
            \o (IF key \in DOMAIN later THEN later[key] ELSE << >>)]
Without(map, h) == [key \in DOMAIN map |-> Kept(map[key], ToSet(map[key]) \ {h})]
Less(map, keys) == [key \in DOMAIN map \ keys |-> map[key]]

EntityOwner(r) ==
    CASE r.mode = "paper" -> PaperSpace
      [] r.mode = "model" -> ModelSpace
      [] OTHER -> r.owner

\* Entities before R2004 carry a link to the next one of their sequence.
LinkRead(made, r) ==
    IF file.r2004 THEN made
    ELSE [made EXCEPT !.next =
            With(@, r.handle, IF r.next = Unlinked THEN r.handle + 1 ELSE r.next)]

EntityOf(r) ==
    [handle |-> r.handle, kind |-> r.kind, mode |-> r.mode, owner |-> EntityOwner(r),
     kids |-> << >>, end |-> Null]

\* A record is decoded: an object, an entity, or a part of one yet to come.
Decoded(made, r) ==
    LET linked == LinkRead(made, r) IN
    CASE IsObject(r) -> [made EXCEPT !.objects = @ \cup {r.handle}]
      [] r.kind \in Polylines ->
            [linked EXCEPT !.order = With(@, r.handle, r.owned),
                           !.polys = Append(@, EntityOf(r))]
      [] r.kind \in {"vertex", "stray"} -> [linked EXCEPT !.verts = Pushed(@, r.owner, r.handle)]
      [] r.kind = "attrib" -> [linked EXCEPT !.atts = Pushed(@, r.owner, r.handle)]
      [] r.kind = "seqend" -> [linked EXCEPT !.ends = With(@, r.owner, r.handle)]
      [] OTHER -> [linked EXCEPT !.ents = Append(@, EntityOf(r))]

\* fault: the vertices and attributes of a record that failed stay.
DiscardedEntityOnly(made, r, start) ==
    [made EXCEPT !.ents = SubSeq(@, 1, start), !.objects = @ \ {r.handle},
                 !.polys = Kept(@, {e \in ToSet(@) : e.handle # r.handle})]

\* What a record that failed had added is taken out again.
Discarded(made, r, start) ==
    [made EXCEPT !.ents = SubSeq(@, 1, start),
                 !.objects = @ \ {r.handle},
                 !.next = Less(@, {r.handle}),
                 !.polys = Kept(@, {e \in ToSet(@) : e.handle # r.handle}),
                 !.verts = Without(@, r.handle),
                 !.atts = Without(@, r.handle),
                 !.ends = Less(@, {o \in DOMAIN @ : @[o] = r.handle})]

\* The raw bytes of an object whose own data was readable are kept.
Preserved(r) == r.kind = "auxiliary" \/ (file.failsafe /\ r.kind = "object")

Processed(made, r) ==
    CASE r.fault = "none" -> Decoded(made, r)
      [] r.fault = "unread" -> [made EXCEPT !.skipped = @ + 1]
      [] OTHER ->
            LET clean == Discarded(Decoded(made, r), r, Len(made.ents)) IN
            IF Preserved(r) THEN [clean EXCEPT !.objects = @ \cup {r.handle}]
                            ELSE [clean EXCEPT !.skipped = @ + 1]

\* A chunk joins what is pending; its entities went into the document.
Merged(all, made) ==
    [all EXCEPT !.objects = @ \cup made.objects,
                !.next = Extended(@, made.next),
                !.verts = Joined(@, made.verts),
                !.polys = @ \o made.polys,
                !.order = Extended(@, made.order),
                !.atts = Joined(@, made.atts),
                !.ends = Extended(@, made.ends),
                !.skipped = @ + made.skipped]

Accepted(ents) == Kept(ents, {e \in ToSet(ents) : e.handle \notin file.refused})

-----------------------------------------------------------------------------
(* Drawing order *)

\* A sequence in the order of its elements' ranks, equal ones as they were: the
\* element with n - 1 others before it comes at n.
StableSort(s, rank) ==
    LET Before(i, j) == rank[s[i]] < rank[s[j]] \/ (rank[s[i]] = rank[s[j]] /\ i < j)
        At(n) == CHOOSE i \in DOMAIN s :
                     Cardinality({j \in DOMAIN s : Before(j, i)}) = n - 1
    IN [n \in DOMAIN s |-> s[At(n)]]

FirstIn(list, x) ==
    IF \E i \in DOMAIN list : list[i] = x
    THEN CHOOSE i \in DOMAIN list : list[i] = x /\ \A j \in 1 .. i - 1 : list[j] # x
    ELSE Len(list) + 1
LastIn(list, x) ==
    IF \E i \in DOMAIN list : list[i] = x
    THEN CHOOSE i \in DOMAIN list : list[i] = x /\ \A j \in i + 1 .. Len(list) : list[j] # x
    ELSE Len(list) + 1

\* The handles from `first` on, each linked to the next one, until one comes
\* again, is not `within`, or the one before it is `stop` or has no link.
Walk(next, within, first, stop) ==
    LET After(path) ==
            IF path = << >> THEN {first}
            ELSE {next[h] : h \in ({Last(path)} \cap DOMAIN next) \ {stop}}
        walked[n \in 0 .. Cardinality(within)] ==
            IF n = 0 THEN << >>
            ELSE LET path == walked[n - 1]
                     to == (After(path) \cap within) \ ToSet(path)
                 IN IF to = {} THEN path ELSE Append(path, CHOOSE h \in to : TRUE)
    IN walked[Cardinality(within)]

\* The vertices along their links, or << >> when the links do not visit each
\* of them once from a single head.
VertexChain(verts, next) ==
    LET among == ToSet(verts)
        heads == among \ {next[v] : v \in among \cap DOMAIN next}
        chain == Walk(next, among, CHOOSE v \in heads : TRUE, Null)
    IN IF /\ DOMAIN next # {}
          /\ Null \notin among /\ Cardinality(among) = Len(verts)
          /\ Cardinality(heads) = 1
          /\ Len(chain) = Len(verts)
       THEN chain ELSE << >>

OrderedVertices(verts, owned, next) ==
    LET order == IF owned # << >> THEN owned ELSE VertexChain(verts, next)
    IN StableSort(verts, [v \in ToSet(verts) |-> FirstIn(order, v)])

BlockChain(first, last, next) ==
    IF first = Null \/ last = Null THEN << >>
    ELSE Walk(next, DOMAIN next \ {Null}, first, last)

\* The entities a block record names: its list, before R2004 its chain.
Canonical(block) ==
    IF file.r2004 THEN block.list ELSE BlockChain(block.first, block.last, pending.next)

\* The block record that names an entity; of several, the last.
BinaryOwner(h, otherwise) ==
    LET naming == {i \in DOMAIN file.blocks : h \in ToSet(Canonical(file.blocks[i]))} IN
    IF naming = {} THEN otherwise
    ELSE file.blocks[CHOOSE i \in naming : \A j \in naming : j <= i].handle

RebuiltOwner(e) ==
    LET owner == BinaryOwner(e.handle, e.owner) IN
    IF owner # Null THEN owner
    ELSE IF e.mode = "paper" /\ PaperSpace \in Blocks THEN PaperSpace
    ELSE ModelSpace

Handles(ents) == [i \in DOMAIN ents |-> ents[i].handle]

\* fault: a block's entities stay in the order of the arena.
MembersAsStored(block, ents) ==
    Handles(Kept(ents, {e \in ToSet(ents) : e.kind # "marker" /\ e.owner = block.handle}))

\* A block's entities in the order of its list or chain, else of their records.
MembersOf(block, ents) ==
    LET own == Handles(Kept(ents, {e \in ToSet(ents) : e.kind # "marker" /\ e.owner = block.handle}))
        canonical == Canonical(block)
    IN IF canonical # << >>
       THEN StableSort(own, [h \in ToSet(own) |-> LastIn(canonical, h)])
       ELSE IF file.r2004 THEN own
       ELSE StableSort(own, [h \in ToSet(own) |-> Recorded(h).at])

-----------------------------------------------------------------------------
(* The read *)

Init ==
    /\ file \in Files
    /\ rest = file.records
    /\ batch = << >>
    /\ pending = Empty
    /\ entities = << >>
    /\ members = Nothing
    /\ phase = "records"

\* The next records are split into the chunks of a batch.
Start ==
    LET size == ChunkSize * BatchChunks
        taken == SubSeq(rest, 1, IF size < Len(rest) THEN size ELSE Len(rest))
        ChunkAt(i) == SubSeq(taken, (i - 1) * ChunkSize + 1,
                             IF i * ChunkSize < Len(taken) THEN i * ChunkSize ELSE Len(taken))
    IN /\ phase = "records" /\ batch = << >> /\ rest # << >>
       /\ batch' = [i \in 1 .. (Len(taken) + ChunkSize - 1) \div ChunkSize |-> Chunk(ChunkAt(i))]
       /\ rest' = SubSeq(rest, Len(taken) + 1, Len(rest))
       /\ UNCHANGED <<file, pending, entities, members, phase>>

\* A worker decodes the next record of its chunk.
Decode(i) ==
    /\ batch[i].todo # << >>
    /\ batch' = [batch EXCEPT ![i] =
            [todo |-> Tail(@.todo), made |-> Processed(@.made, Head(@.todo))]]
    /\ UNCHANGED <<file, rest, pending, entities, members, phase>>

\* fault: chunks are committed as their workers finish.
CommitFinished ==
    /\ \E i \in DOMAIN batch :
        /\ batch[i].todo = << >>
        /\ entities' = entities \o Accepted(batch[i].made.ents)
        /\ pending' = Merged(pending, batch[i].made)
        /\ batch' = RemoveAt(batch, i)
    /\ UNCHANGED <<file, rest, members, phase>>

\* The first chunk of a batch that is decoded throughout goes into the document.
Commit ==
    /\ batch # << >> /\ \A i \in DOMAIN batch : batch[i].todo = << >>
    /\ entities' = entities \o Accepted(batch[1].made.ents)
    /\ pending' = Merged(pending, batch[1].made)
    /\ batch' = Tail(batch)
    /\ UNCHANGED <<file, rest, members, phase>>

\* A polyline with vertices gets them in drawing order.  Those of another kind
\* of polyline are left out; a polyface mesh keeps its SEQEND as well.
Completed(e) ==
    IF e.handle \notin DOMAIN pending.verts THEN e
    ELSE LET order == IF e.handle \in DOMAIN pending.order THEN pending.order[e.handle] ELSE << >>
             verts == OrderedVertices(pending.verts[e.handle], order, pending.next)
         IN [e EXCEPT !.kids = Kept(verts, {v \in ToSet(verts) : Recorded(v).kind = "vertex"}),
                      !.end = IF e.kind = "polyface" /\ e.handle \in DOMAIN pending.ends
                              THEN pending.ends[e.handle] ELSE @]

Assemble ==
    /\ phase = "records" /\ rest = << >> /\ batch = << >>
    /\ pending.polys # << >>
    /\ LET e == Head(pending.polys) IN
       /\ entities' = entities \o Accepted(<<Completed(e)>>)
       /\ pending' = [pending EXCEPT !.polys = Tail(@), !.verts = Less(@, {e.handle})]
    /\ UNCHANGED <<file, rest, batch, members, phase>>

\* INSERTs of the document get their attributes and their SEQEND.
WithAttributes(e) ==
    IF e.kind # "insert" THEN e
    ELSE [e EXCEPT !.kids = IF e.handle \in DOMAIN pending.atts THEN pending.atts[e.handle] ELSE @,
                   !.end = IF e.handle \in DOMAIN pending.ends THEN pending.ends[e.handle] ELSE @]

Attach ==
    /\ phase = "records" /\ rest = << >> /\ batch = << >> /\ pending.polys = << >>
    /\ entities' = IF DOMAIN pending.atts = {} THEN entities
                   ELSE [i \in DOMAIN entities |-> WithAttributes(entities[i])]
    /\ pending' = [pending EXCEPT
            !.atts = IF DOMAIN @ = {} THEN @
                     ELSE Less(@, {e.handle : e \in {x \in ToSet(entities) : x.kind = "insert"}})]
    /\ phase' = "blocks"
    /\ UNCHANGED <<file, rest, batch, members>>

\* Owners are corrected and block memberships rebuilt; a strict read that
\* skipped a record gives no document.
Rebuild ==
    /\ phase = "blocks"
    /\ entities' = [i \in DOMAIN entities |->
            IF entities[i].kind = "marker" THEN entities[i]
            ELSE [entities[i] EXCEPT !.owner = RebuiltOwner(entities[i])]]
    /\ members' = [b \in Blocks |->
            MembersOf(CHOOSE block \in ToSet(file.blocks) : block.handle = b, entities')]
    /\ phase' = IF ~file.failsafe /\ pending.skipped # 0 THEN "refused" ELSE "loaded"
    /\ UNCHANGED <<file, rest, batch, pending>>

Next ==
    \/ Start
    \/ \E i \in DOMAIN batch : Decode(i)
    \/ Commit
    \/ Assemble
    \/ Attach
    \/ Rebuild

Spec == Init /\ [][Next]_vars

-----------------------------------------------------------------------------
(* Properties: what the loaded document has to do with the records of its    *)
(* file, which know nothing of chunks, batches or workers.                   *)

Loaded == phase = "loaded"
Places == 1 .. Len(file.records)
Place(h) == CHOOSE k \in Places : file.records[k].handle = h
Sane(k) == file.records[k].fault = "none"
Delivered == {k \in Places : /\ Sane(k)
                             /\ file.records[k].kind \in Whole \cup Polylines
                             /\ file.records[k].handle \notin file.refused}
From(e, k) == e.handle = file.records[k].handle /\ e.kind = file.records[k].kind

\* Polylines, put together at the end, come after the other entities.
Rank(e) == IF e.kind \in Polylines THEN Len(file.records) + Place(e.handle)
           ELSE Place(e.handle)

\* However the chunks are decoded and committed, the document holds each sound
\* entity once: polylines after the others, both in record order.  A failed
\* record leaves no entity and no object, unless its bytes are preserved, and
\* is otherwise counted (map_chunks, discard_record, the commit in build).
RecordsAccounted ==
    Loaded =>
        /\ \A k \in Delivered : \E i \in DOMAIN entities : From(entities[i], k)
        /\ \A i \in DOMAIN entities : \E k \in Delivered : From(entities[i], k)
        /\ \A i, j \in DOMAIN entities : i < j => Rank(entities[i]) < Rank(entities[j])
        /\ LET kept == {k \in Places : file.records[k].handle \in pending.objects}
           IN /\ \A k \in Places : Sane(k) /\ IsObject(file.records[k]) => k \in kept
              /\ \A k \in kept : /\ IsObject(file.records[k])
                                  /\ file.records[k].fault # "unread"
              /\ pending.skipped = Cardinality({k \in Places \ kept : ~Sane(k)})

SaneRecords == Kept(file.records, {r \in ToSet(file.records) : r.fault = "none"})
RecordHandles(records) == [i \in DOMAIN records |-> records[i].handle]

ChildrenOf(e, kinds) ==
    RecordHandles(Kept(SaneRecords, {r \in ToSet(SaneRecords) : r.kind \in kinds /\ r.owner = e.handle}))

LinkOf(h) == LET r == Recorded(h) IN IF r.next = Unlinked THEN h + 1 ELSE r.next

\* All orders of some handles in which each one links to the one after it.
LinkedOrders(handles) ==
    {s \in [1 .. Cardinality(handles) -> handles] :
        /\ \A i, j \in DOMAIN s : s[i] = s[j] => i = j
        /\ \A i \in DOMAIN s : s[i] # Null
        /\ \A i \in 1 .. Len(s) - 1 : LinkOf(s[i]) = s[i + 1]}

Follows(s, list) ==
    \A i, j \in DOMAIN s :
        (i < j /\ s[j] \in ToSet(list)) =>
            s[i] \in ToSet(list) /\ FirstIn(list, s[i]) <= FirstIn(list, s[j])

\* A polyline or an INSERT has exactly the sound vertices or attributes that
\* name it, once each: in the order of the polyline's list, which precede the
\* ones it does not name; without a list in the one order their links give, and
\* in record order when they give none or several (order_pending_vertices,
\* vertex_chain_ranks, the attribute pass of build).
ChildrenInDrawingOrder ==
    Loaded => \A e \in ToSet(entities) :
        /\ e.kind = "insert" => e.kids = ChildrenOf(e, {"attrib"})
        /\ e.kind \in Polylines =>
            LET all == ChildrenOf(e, {"vertex", "stray"})
                list == Recorded(e.handle).owned
                orders == IF file.r2004 THEN {} ELSE LinkedOrders(ToSet(all))
                Fits(s) == Kept(s, {v \in ToSet(s) : Recorded(v).kind = "vertex"})
            IN /\ Len(e.kids) = Len(Fits(all)) /\ ToSet(e.kids) = ToSet(Fits(all))
               /\ list # << >> => Follows(e.kids, list)
               /\ list = << >> =>
                    e.kids = Fits(IF Cardinality(orders) = 1 THEN CHOOSE s \in orders : TRUE
                                  ELSE all)

\* The links of a file from one record to the next, whether sound or not.
WholeChain(block) ==
    LET linked == [h \in {r.handle : r \in {x \in ToSet(file.records) : ~IsObject(x)}} |-> LinkOf(h)]
    IN IF file.r2004 THEN block.list ELSE BlockChain(block.first, block.last, linked)

\* Names the entity a block lists, or reaches through sound records only.
Names(block, h) ==
    LET chain == WholeChain(block) IN
    \E i \in DOMAIN chain :
        /\ chain[i] = h
        /\ file.r2004 \/ \A j \in 1 .. i : Recorded(chain[j]).fault = "none"

FollowsLast(s, list) ==
    \A i, j \in DOMAIN s :
        (i < j /\ s[j] \in ToSet(list)) =>
            s[i] \in ToSet(list) /\ LastIn(list, s[i]) <= LastIn(list, s[j])

\* Every entity is in one block at most, the one it has as its owner.  That is
\* a block that names it when there is one (which may not be the one its own
\* record has), and a block has the entities it names in its order, ahead of
\* those it does not name; one that its list repeats stands where it is named
\* last (rebuild_block_membership, block_entity_chain).
BlocksHoldTheirEntities ==
    Loaded =>
        /\ \A e \in ToSet(entities) :
            LET holding == {b \in Blocks : e.handle \in ToSet(members[b])}
                naming == {b \in ToSet(file.blocks) : Names(b, e.handle)}
            IN /\ holding = IF e.kind = "marker" THEN {} ELSE {e.owner} \cap Blocks
               /\ e.kind # "marker" /\ naming # {} => e.owner \in {b.handle : b \in naming}
        /\ \A b \in ToSet(file.blocks) :
            LET held == members[b.handle]
                named == Kept(WholeChain(b), {h \in ToSet(WholeChain(b)) : Names(b, h)})
            IN /\ Cardinality(ToSet(held)) = Len(held)
               /\ FollowsLast(held, named)
=============================================================================
