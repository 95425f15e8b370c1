----------------------------- MODULE EditHistory -----------------------------
(***************************************************************************)
(* Transactions over the entity store: what an editor does with            *)
(* begin/end_entity_change_recording, take_before_images,                  *)
(* snapshot_structure, align_added_entity_structure and swap_structure.    *)
(* The document operations are the crate's; the order in which the editor  *)
(* calls them is the one their documentation prescribes (a transaction     *)
(* snapshots the structure and attaches a recorder, undo puts the recorded *)
(* before images back one by one and then swaps the structure in).         *)
(***************************************************************************)
EXTENDS DocumentStore, SequencesExt, SequenceFilter

CONSTANTS
    Loaded,     \* the entities of the drawing the editor opened
    NewNext,    \* next_handle of CadDocument::new()
    Clears,     \* may the user clear the drawing?
    Sweeps,     \* may the user run a pass over every entity?
    MaxEdits,   \* bound: operations in one transaction
    MaxHistory  \* bound: transactions ever committed

LoadedHandle(i) == Loaded[i].handle

ASSUME LoadedAssumption ==
    /\ Loaded \in Seq(Entity)
    /\ \A i, j \in 1 .. Len(Loaded) :
          LoadedHandle(i) < FirstHandle /\ (LoadedHandle(i) = LoadedHandle(j) => i = j)
    /\ \A i \in 1 .. Len(Loaded) : Loaded[i].raw \in {NoRaw, Loaded[i].val}
ASSUME HostAssumption ==
    /\ Clears \in BOOLEAN
    /\ Sweeps \in BOOLEAN
    /\ NewNext \in Nat
    /\ \A b \in Blocks : b < NewNext
ASSUME HistoryBoundsAssumption == MaxEdits \in Nat /\ MaxHistory \in Nat

VARIABLES
    phase,      \* "idle", "open", "undoing" or "redoing"
    edits,      \* operations made in the open transaction
    start,      \* snapshot taken when the transaction began
    undo, redo, \* committed and undone transactions, newest last
    work        \* images still to be put back, handle -> image

hostVars == <<phase, edits, start, undo, redo, work>>
vars == <<storeVars, hostVars>>

-----------------------------------------------------------------------------
(* The structural half of a snapshot, and what the user sees.              *)

\* snapshot_structure: everything but the flat entity store and its index.
Structure == [members |-> members, next |-> next, seed |-> seed]

\* swap_structure: the snapshot goes in, the displaced structure comes out.
SwapStructure(s) ==
    /\ members' = s.members
    /\ next' = s.next
    /\ seed' = s.seed
    /\ UNCHANGED <<entities, index>>

\* Fault: the snapshot is left as it was taken.
AlignNothing(s, after, added) == s

\* Fault: every list is taken from the after structure, reordered or not.
AlignEveryList(s, after, added) ==
    IF added = {} THEN s
    ELSE [members |-> after.members, next |-> after.next, seed |-> after.seed]

\* align_added_entity_structure(before, after, added): the allocator of the
\* after structure, and its handle list for every block whose list differs
\* only by added handles.
Align(s, after, added) ==
    LET old == Handles \ added
    IN IF added = {} THEN s
       ELSE [members |-> [b \in Blocks |->
                 IF Kept(s.members[b], old) = Kept(after.members[b], old)
                 THEN after.members[b] ELSE s.members[b]],
             next |-> after.next, seed |-> after.seed]

\* get_entity of every handle, and entities_in_block of every block: a listed
\* handle that is not stored is skipped.
Drawing ==
    [stored |-> [h \in Live |-> Stored(h)],
     blocks |-> [b \in Blocks |-> Kept(members[b], Live)]]

-----------------------------------------------------------------------------
\* A drawing as a reader leaves it: loaded entities, listed by their owners.
HistoryInit ==
    /\ entities = Loaded
    /\ index = [h \in {LoadedHandle(i) : i \in 1 .. Len(Loaded)} |->
                   CHOOSE i \in 1 .. Len(Loaded) : LoadedHandle(i) = h]
    /\ members = [b \in Blocks |->
                     LET owned == {e \in Range(Loaded) : e.owner = b /\ ~e.sub}
                         mine == Kept(Loaded, owned)
                     IN [i \in 1 .. Len(mine) |-> mine[i].handle]]
    /\ next = FirstHandle
    /\ seed \in Seeds
    /\ recording = FALSE
    /\ before = << >>
    /\ phase = "idle"
    /\ edits = 0
    /\ start = << >>
    /\ undo = << >>
    /\ redo = << >>
    /\ work = << >>

Begin ==
    /\ phase = "idle"
    /\ Len(undo) < MaxHistory
    /\ BeginRecording
    /\ phase' = "open"
    /\ edits' = 0
    /\ start' = [structure |-> Structure, drawing |-> Drawing]
    /\ UNCHANGED <<undo, redo, work>>

\* An operation of the user, between Begin and Commit.
Editing ==
    /\ phase = "open"
    /\ edits < MaxEdits
    /\ edits' = edits + 1
    /\ UNCHANGED <<phase, start, undo, redo, work>>

EditAdd == Editing /\ AddAny
EditAddToBlock == Editing /\ AddToBlockAny
EditMutate == Editing /\ MutateAny
EditMutateAll == Sweeps /\ Editing /\ EntitiesMutAny
EditRemove == Editing /\ RemoveAny

\* Structure the editor changes directly: the order of a block's entities.
EditReorder ==
    /\ Editing
    /\ \E b \in Blocks :
          /\ Len(members[b]) > 1
          /\ members' = [members EXCEPT ![b] = Reverse(@)]
    /\ UNCHANGED <<entities, index, next, seed, recording, before>>

\* Fault: the new document arrives before the entities are recorded.
EditClearUnrecorded ==
    /\ Clears
    /\ Editing
    /\ entities' = << >>
    /\ index' = << >>
    /\ members' = [b \in Blocks |-> << >>]
    /\ next' = NewNext
    /\ seed' = NewNext
    /\ UNCHANGED <<recording, before>>

\* CLEAR: every entity is recorded, then a new document takes the place of the
\* old one (its handles start over).
EditClear ==
    /\ Clears
    /\ Editing
    /\ RecordEverySlot
    /\ entities' = << >>
    /\ index' = << >>
    /\ members' = [b \in Blocks |-> << >>]
    /\ next' = NewNext
    /\ seed' = NewNext
    /\ UNCHANGED recording

\* take_before_images and the end of recording: the transaction keeps the
\* before and after image of each touched handle and the aligned snapshot.
Commit ==
    /\ phase = "open"
    /\ edits > 0
    /\ LET after == [h \in DOMAIN before |->
                        IF h \in Live THEN Stored(h) ELSE Absent]
           added == {h \in DOMAIN before : before[h] = Absent /\ after[h] # Absent}
           entry == [before |-> before, after |-> after,
                     structure |-> Align(start.structure, Structure, added),
                     was |-> start.drawing, becomes |-> Drawing]
       IN undo' = Append(undo, entry)
    /\ redo' = << >>
    /\ EndRecording
    /\ phase' = "idle"
    /\ edits' = 0
    /\ start' = << >>
    /\ UNCHANGED work

BeginUndo ==
    /\ phase = "idle"
    /\ undo # << >>
    /\ work' = Last(undo).before
    /\ phase' = "undoing"
    /\ UNCHANGED <<storeVars, edits, start, undo, redo>>

BeginRedo ==
    /\ phase = "idle"
    /\ redo # << >>
    /\ work' = Last(redo).after
    /\ phase' = "redoing"
    /\ UNCHANGED <<storeVars, edits, start, undo, redo>>

\* One image goes back: removed, replaced in its slot, or restored.
PutBack ==
    /\ phase \in {"undoing", "redoing"}
    /\ \E h \in DOMAIN work :
          /\ \/ work[h] = Absent /\ RemoveEntityArc(h)
             \/ work[h] = Absent /\ h \notin Live /\ UNCHANGED storeVars
             \/ work[h] # Absent /\ ReplaceEntityArc(h, work[h])
             \/ work[h] # Absent /\ RestoreEntityArc(work[h])
          /\ work' = [k \in DOMAIN work \ {h} |-> work[k]]
    /\ UNCHANGED <<phase, edits, start, undo, redo>>

\* All images are back: swap the structure and keep the displaced one for the
\* opposite direction.
FinishUndo ==
    /\ phase = "undoing"
    /\ work = << >>
    /\ SwapStructure(Last(undo).structure)
    /\ redo' = Append(redo, [Last(undo) EXCEPT !.structure = Structure])
    /\ undo' = Front(undo)
    /\ phase' = "idle"
    /\ UNCHANGED <<recording, before, edits, start, work>>

FinishRedo ==
    /\ phase = "redoing"
    /\ work = << >>
    /\ SwapStructure(Last(redo).structure)
    /\ undo' = Append(undo, [Last(redo) EXCEPT !.structure = Structure])
    /\ redo' = Front(redo)
    /\ phase' = "idle"
    /\ UNCHANGED <<recording, before, edits, start, work>>

HistoryNext ==
    \/ Begin
    \/ EditAdd
    \/ EditAddToBlock
    \/ EditMutate
    \/ EditMutateAll
    \/ EditRemove
    \/ EditReorder
    \/ EditClear
    \/ Commit
    \/ BeginUndo
    \/ BeginRedo
    \/ PutBack
    \/ FinishUndo
    \/ FinishRedo

HistorySpec == HistoryInit /\ [][HistoryNext]_vars

\* The editor finishes the undo or redo it started.
FairHistorySpec ==
    HistorySpec /\ WF_vars(PutBack) /\ WF_vars(FinishUndo) /\ WF_vars(FinishRedo)

-----------------------------------------------------------------------------
(* Properties.                                                             *)

\* Undo brings back exactly the drawing the transaction began with (entities,
\* verbatim records, and the order of every block), although removal never
\* unlists a handle and restoring never lists one; redo brings back what the
\* transaction had made of it.
UndoRestores ==
    [][/\ (phase = "undoing" /\ phase' = "idle") => Drawing' = Last(undo).was
       /\ (phase = "redoing" /\ phase' = "idle") => Drawing' = Last(redo).becomes
      ]_vars

\* The image of a handle in a map of entities: the entity, or that there is none.
ImageIn(stored, h) == IF h \in DOMAIN stored THEN stored[h] ELSE Absent

\* What the store held for a handle when the transaction began is what the
\* recorder has for it, however often it was touched since, and where the
\* recorder has nothing, what the store still holds: no change escapes it.
BeforeImagesFaithful ==
    phase = "open" =>
        LET then == start.drawing.stored
            now == [h \in Live |-> Stored(h)]
        IN \A h \in DOMAIN then \cup DOMAIN now \cup DOMAIN before :
              ImageIn(then, h) = IF h \in DOMAIN before THEN before[h]
                                 ELSE ImageIn(now, h)

\* The handle a structure would hand out next.
FreshOf(s) == MaxOf(s.next, s.seed)

\* While no transaction is open, the allocator is above the handles of the
\* stored entities, of every image an undo may put back and of those the next
\* redo puts back; and the allocator each undo set aside, which the redo before
\* the next one swaps in again, is above what that next one puts back.  So an
\* undone addition does not free its handle: the snapshot was aligned.
Returning(images) == {h \in DOMAIN images : images[h] # Absent}

HistoryBelowAllocator ==
    phase = "idle" =>
        /\ \A h \in Live : h < Fresh
        /\ \A i \in 1 .. Len(undo) : \A h \in Returning(undo[i].before) : h < Fresh
        /\ redo # << >> => \A h \in Returning(Last(redo).after) : h < Fresh
        /\ \A i \in 2 .. Len(redo) :
              \A h \in Returning(redo[i - 1].after) : h < FreshOf(redo[i].structure)

\* A block lists exactly the stored entities it owns, sub-entities aside, and
\* each of them once, whatever was removed, undone and redone: none is lost
\* from its block and none is doubled.
ListedByOwner ==
    phase \in {"idle", "open"} =>
        \A b \in Blocks :
            /\ \A i \in 1 .. Len(members[b]) :
                  LET h == members[b][i]
                  IN h \in Live =>
                        /\ Stored(h).owner = b
                        /\ \A j \in 1 .. Len(members[b]) : members[b][j] = h => j = i
            /\ \A h \in Live : ~Stored(h).sub /\ Stored(h).owner = b => h \in Listed(b)

\* An undo or redo that started runs to its end.
UndoCompletes == (phase \in {"undoing", "redoing"}) ~> (phase = "idle")

=============================================================================
