----------------------------- MODULE ShardedRead -----------------------------
(***************************************************************************)
(* DwgReader::read_sharded (src/io/dwg/dwg_reader.rs) and its plan         *)
(* (src/io/dwg/shard_plan.rs): one drawing read as a sequence of documents *)
(* that each hold a bounded part of model space.                           *)
(*                                                                         *)
(* A record is its handle.  What the plan knows of it is its placement:    *)
(* Shared (every non-entity, BLOCK and ENDBLK), Model (an entity of model  *)
(* space), Loose (paper space, or unreadable), or the handle of the owner  *)
(* the record names.                                                       *)
(***************************************************************************)
EXTENDS Integers, Sequences, FiniteSets, SequencesExt

CONSTANTS
    Records,        \* handles of the file's records
    Lists,          \* entity lists the model space block record may have
    Shared, Model, Loose,
    NoList,         \* no readable model space block record
    MaxEntities,    \* the caller's limit
    MaxOwnerDepth,  \* MAX_OWNER_DEPTH
    MaxReads        \* bound: calls of read_sharded

ASSUME RecordsAssumption == Records \subseteq Nat /\ IsFiniteSet(Records)
ASSUME ListsAssumption == Lists \subseteq Seq(Nat) /\ NoList \notin Seq(Nat)
ASSUME PlacementAssumption == {Shared, Model, Loose} \cap Nat = {} /\ Shared # Model
ASSUME LimitsAssumption ==
    MaxEntities \in Nat /\ MaxOwnerDepth \in Nat /\ MaxReads \in Nat

VARIABLES
    file,       \* [placement, list, old]: what the file holds
    phase,      \* "idle", "reading", "handing" a document over, "done", "failed"
    planned,    \* has a shard of this call read the object section?
    shared,     \* ShardState.shared
    plan,       \* ShardState.plan: a set of records for each shard
    index,      \* ShardState.index, from 1
    document,   \* records of the document being handed to the callback
    documents,  \* records of the documents the callback accepted
    reads       \* calls of read_sharded so far

vars == <<file, phase, planned, shared, plan, index, document, documents, reads>>

Entities == {r \in Records : file.placement[r] # Shared}
ModelSpace == {r \in Records : file.placement[r] = Model}
Owned == {r \in Records : file.placement[r] \in Nat}
Owner(r) == file.placement[r]

\* The records of S, sorted.
Ascending(S) ==
    CHOOSE s \in [1 .. Cardinality(S) -> S] :
        /\ ToSet(s) = S
        /\ \A i, j \in DOMAIN s : i < j => s[i] < s[j]

-----------------------------------------------------------------------------
(* plan_shards.                                                            *)

\* The record at the top of an owner chain, followed at most MaxOwnerDepth
\* steps from the owner.
Top(r) ==
    LET climb[n \in 0 .. MaxOwnerDepth] ==
            IF n = 0 THEN Owner(r)
            ELSE IF climb[n - 1] \in Owned THEN Owner(climb[n - 1])
            ELSE climb[n - 1]
    IN climb[MaxOwnerDepth]

\* Fault: only what a model space entity owns directly goes with it.
IsDirectChild(r) == r \in Owned /\ Owner(r) \in ModelSpace

\* Child records, which go where the entity at the top goes.
IsChild(r) == r \in Owned /\ Owner(r) \in Entities /\ Top(r) \in ModelSpace
Children(m) == {r \in Owned : IsChild(r) /\ Top(r) = m}
Unit(m) == {m} \cup Children(m)

\* What only the first shard carries.
First == {r \in Entities \ ModelSpace : ~IsChild(r)}

\* Fault: repetitions in the list are kept.
OrderWithRepetitions ==
    LET listed == SelectSeq(file.list, LAMBDA r : r \in ModelSpace)
    IN listed \o Ascending(ModelSpace \ ToSet(listed))

\* The model space list without strangers and repetitions.
Listed ==
    LET first[n \in 0 .. Len(file.list)] ==
            IF n = 0 THEN << >>
            ELSE IF file.list[n] \in ModelSpace /\ ~Contains(first[n - 1], file.list[n])
            THEN Append(first[n - 1], file.list[n])
            ELSE first[n - 1]
    IN first[Len(file.list)]

\* Fault: what the list omits comes first.
OrderOmittedFirst == Ascending(ModelSpace \ ToSet(Listed)) \o Listed

\* The list, then what it omits.
Order ==
    LET listed == Listed
    IN listed \o Ascending(ModelSpace \ ToSet(listed))

\* max_entities.max(1)
Limit == IF MaxEntities = 0 THEN 1 ELSE MaxEntities

\* Fault: the entity itself is not counted.
PlaceChildrenOnly(acc, r) ==
    LET size == Cardinality(acc[Len(acc)])
    IN IF size > 0 /\ size + Cardinality(Children(r)) > Limit
       THEN Append(acc, Unit(r))
       ELSE [acc EXCEPT ![Len(acc)] = @ \cup Unit(r)]

\* One more entity with its children: in the last group, or in a new one when
\* that group holds something and would exceed the limit.
Place(acc, r) ==
    LET size == Cardinality(acc[Len(acc)])
    IN IF size > 0 /\ size + Cardinality(Unit(r)) > Limit
       THEN Append(acc, Unit(r))
       ELSE [acc EXCEPT ![Len(acc)] = @ \cup Unit(r)]

Groups ==
    LET order == Order
        groups[n \in 0 .. Len(order)] ==
            IF n = 0 THEN <<{}>> ELSE Place(groups[n - 1], order[n])
    IN groups[Len(order)]

\* One shard for the whole file, or the groups with the rest in the first.
Plan ==
    LET groups == IF file.old \/ file.list = NoList THEN <<{}>> ELSE Groups
    IN IF Len(groups) = 1
       THEN [shared |-> {}, plan |-> <<Records>>]
       ELSE [shared |-> Records \ Entities,
             plan |-> [groups EXCEPT ![1] = @ \cup First]]

-----------------------------------------------------------------------------
Placements == {Shared, Model, Loose} \cup Records

Init ==
    /\ file \in [placement : [Records -> Placements],
                 list : Lists \cup {NoList}, old : BOOLEAN]
    /\ phase = "idle"
    /\ planned = FALSE
    /\ shared = {}
    /\ plan = << >>
    /\ index = 1
    /\ document = {}
    /\ documents = << >>
    /\ reads = 0

\* read_sharded is called (again): a new ShardState.
Start ==
    /\ phase \in {"idle", "done", "failed"}
    /\ reads < MaxReads
    /\ phase' = "reading"
    /\ planned' = FALSE
    /\ shared' = {}
    /\ plan' = << >>
    /\ index' = 1
    /\ documents' = << >>
    /\ reads' = reads + 1
    /\ UNCHANGED <<file, document>>

\* The first shard reads the object section, plans, and narrows its own reader
\* to the first shard when there are several.
DecodeFirst ==
    /\ phase = "reading" /\ ~planned
    /\ planned' = TRUE
    /\ LET p == Plan
       IN /\ shared' = p.shared
          /\ IF Len(p.plan) > 1
             THEN /\ document' = p.shared \cup p.plan[1]
                  /\ plan' = [p.plan EXCEPT ![1] = {}]
             ELSE /\ document' = Records
                  /\ plan' = p.plan
    /\ phase' = "handing"
    /\ UNCHANGED <<file, index, documents, reads>>

\* Fault: the last shard is never decoded.
DecodeAllButLast ==
    /\ phase = "reading" /\ planned /\ index < Len(plan)
    /\ document' = shared \cup plan[index]
    /\ plan' = [plan EXCEPT ![index] = {}]
    /\ phase' = "handing"
    /\ UNCHANGED <<file, planned, shared, index, documents, reads>>

\* A later shard resumes: the shared records, and its own, which it takes.
DecodeNext ==
    /\ phase = "reading" /\ planned
    /\ document' = shared \cup plan[index]
    /\ plan' = [plan EXCEPT ![index] = {}]
    /\ phase' = "handing"
    /\ UNCHANGED <<file, planned, shared, index, documents, reads>>

\* The handle map or the object section cannot be read: in failsafe mode a
\* document without records, and nothing is planned.
DecodeNothing ==
    /\ phase = "reading" /\ ~planned
    /\ document' = {}
    /\ phase' = "handing"
    /\ UNCHANGED <<file, planned, shared, plan, index, documents, reads>>

\* A strict read that meets a bad record, or an error of the callback, stops
\* the call.
Fail ==
    /\ phase \in {"reading", "handing"}
    /\ phase' = "failed"
    /\ document' = {}
    /\ UNCHANGED <<file, planned, shared, plan, index, documents, reads>>

\* The callback accepted the document; the next shard, if the plan has one.
Accept ==
    /\ phase = "handing"
    /\ documents' = Append(documents, document)
    /\ document' = {}
    /\ IF index < Len(plan)
       THEN index' = index + 1 /\ phase' = "reading"
       ELSE phase' = "done" /\ UNCHANGED index
    /\ UNCHANGED <<file, planned, shared, plan, reads>>

Next == Start \/ DecodeFirst \/ DecodeNext \/ DecodeNothing \/ Fail \/ Accept

Spec == Init /\ [][Next]_vars

\* The reader's loop runs on its own thread of control once it is called.
Reading == Accept \/ DecodeNext \/ DecodeNothing \/ DecodeFirst
FairSpec == Spec /\ WF_vars(Reading)

-----------------------------------------------------------------------------
(* Properties.                                                             *)

Complete == phase = "done" /\ planned
Parts == 1 .. Len(documents)

\* A finished sharded read holds exactly the entities of a single read: every
\* entity record is in one document and no more, whatever owner chains, cycles
\* and entity lists the file has, and every other record is in all of them.
ReadOnce ==
    Complete =>
        /\ \A r \in Entities : Cardinality({i \in Parts : r \in documents[i]}) = 1
        /\ \A r \in Records \ Entities : \A i \in Parts : r \in documents[i]

\* A record owned by an entity is in the document of its owner, unless its
\* owner chain has no end the reader reaches (a cycle, or longer than
\* MaxOwnerDepth).
ChildrenStay ==
    \A i \in Parts : \A r \in documents[i] \cap Owned :
        Owner(r) \in Entities /\ Top(r) \notin Owned => Owner(r) \in documents[i]

\* A document has more model space records than the limit only when they are
\* one entity with its children, and none is without any.
Bounded ==
    Len(plan) > 1 =>
        \A i \in Parts :
            LET roots == documents[i] \cap ModelSpace
                records == roots \cup {r \in documents[i] : IsChild(r)}
            IN /\ roots # {}
               /\ Cardinality(records) > MaxEntities => Cardinality(roots) = 1

\* The documents follow the model space entity list: an entity listed before
\* another is not read after it.
ListOrderKept ==
    Complete /\ file.list # NoList =>
        \A i, j \in Parts : i < j =>
            \A a \in documents[i] \cap ModelSpace, b \in documents[j] \cap ModelSpace :
                Contains(file.list, b) =>
                    \E m \in DOMAIN file.list :
                        /\ file.list[m] = a
                        /\ \A n \in DOMAIN file.list : file.list[n] = b => m < n

\* A call that was started ends.
ReadEnds == phase = "reading" ~> phase \in {"done", "failed"}

=============================================================================
