----------------------------- MODULE SymbolTable -----------------------------
(***************************************************************************)
(* A symbol table of the drawing (src/tables/mod.rs, Table<T>) and the     *)
(* name references to its entries that CadDocument keeps in step: the      *)
(* layer table, the layer names of the entities, the header's current      *)
(* layer and a saved layer state.                                          *)
(*                                                                         *)
(* A table is an IndexMap: a sequence of keyed entries.  A key is the      *)
(* folded name an entry had when it was keyed, and a suffix, NoSuffix for  *)
(* the entry that owns the plain key.  Suffixes are <<number, n>> for the  *)
(* text "\0number-n" (n = 0: no "-n"); every number in a checked instance  *)
(* is below ten, where the hexadecimal and decimal texts agree.            *)
(***************************************************************************)
EXTENDS Integers, Sequences, FiniteSets, SequencesExt

CONSTANTS
    Names,      \* spellings of names
    Fold,       \* normalize_name: spelling -> upper-cased spelling
    Protected,  \* folded names rename_layer refuses ("0", "Defpoints", xrefs)
    Ents,       \* entities, each on one layer
    NoSuffix,
    SwapsAllowed, \* may two entries be renamed in place before one resync?
    MaxHandle,  \* bound: the last handle allocated
    MaxEntries  \* bound: entries in the table

ASSUME FoldAssumption ==
    /\ Fold \in [Names -> Names]
    /\ \A n \in Names : Fold[Fold[n]] = Fold[n]
ASSUME SymbolTableAssumption ==
    /\ Protected \subseteq Names
    /\ SwapsAllowed \in BOOLEAN
    /\ MaxHandle \in Nat
    /\ MaxEntries \in Nat
    /\ NoSuffix \notin Nat \X Nat

VARIABLES
    table,      \* Seq of [base, suffix, name, handle]
    next,       \* the allocator's counter
    layerOf,    \* entity -> the layer name it carries
    current,    \* header: [name |-> current_layer_name, handle |-> its handle]
    state       \* the layer name recorded in a saved layer state

vars == <<table, next, layerOf, current, state>>

Null == 0
SuffixSet == (Nat \X Nat) \cup {NoSuffix}
Entry == [base : Names, suffix : SuffixSet, name : Names, handle : Nat]

Places == 1 .. Len(table)
KeyOf(e) == <<e.base, e.suffix>>
Keys(t) == {KeyOf(t[i]) : i \in 1 .. Len(t)}
PlainKey(n) == <<Fold[n], NoSuffix>>

\* get_index_of a plain key, 0 when the table does not contain it.
Find(t, n) ==
    IF PlainKey(n) \in Keys(t)
    THEN CHOOSE i \in 1 .. Len(t) : KeyOf(t[i]) = PlainKey(n) ELSE 0

\* key_matches: the key's base still is the entry's folded name.
Stale(e) == e.base # Fold[e.name]
HasStaleKeys == \E i \in Places : Stale(table[i])

Keyed(base, suffix, e) ==
    [base |-> base, suffix |-> suffix, name |-> e.name, handle |-> e.handle]

\* The first suffix of "\0first", "\0handle-1", "\0handle-2", ... that makes no
\* key in use.
FreeSuffix(keys, base, first, handle) ==
    LET Try(k) == IF k = 0 THEN <<first, 0>> ELSE <<handle, k>>
        n == CHOOSE k \in 0 .. Cardinality(keys) :
                 /\ <<base, Try(k)>> \notin keys
                 /\ \A j \in 0 .. k - 1 : <<base, Try(j)>> \in keys
    IN Try(n)

-----------------------------------------------------------------------------
(* The table's own operations.                                             *)

\* Whether an entry added now carries a handle (read from a file) or not.
NewHandles == IF next <= MaxHandle THEN {Null, next} ELSE {Null}
Bump(h) == next' = IF h = Null THEN next ELSE next + 1

\* add: refused when the folded name is taken.
Add(n, h) ==
    /\ Find(table, n) = 0
    /\ Len(table) < MaxEntries
    /\ table' = Append(table, [base |-> Fold[n], suffix |-> NoSuffix,
                               name |-> n, handle |-> h])
    /\ Bump(h)
    /\ UNCHANGED <<layerOf, current, state>>

\* add_or_replace: parsed data takes the place of a default entry.
AddOrReplace(n, h) ==
    LET i == Find(table, n)
        e == [base |-> Fold[n], suffix |-> NoSuffix, name |-> n, handle |-> h]
    IN /\ i # 0
       /\ table' = [table EXCEPT ![i] = e]
       /\ Bump(h)
       /\ UNCHANGED <<layerOf, current, state>>

\* add_allow_duplicate: a second entry of a name gets a suffixed key, numbered
\* by its handle or, without one, by the size of the table.
AddAllowDuplicate(n, h) ==
    LET number == IF h # Null THEN h ELSE Len(table)
    IN /\ Find(table, n) # 0
       /\ Len(table) < MaxEntries
       /\ table' = Append(table, [base |-> Fold[n],
                                  suffix |-> FreeSuffix(Keys(table), Fold[n], number, h),
                                  name |-> n, handle |-> h])
       /\ Bump(h)
       /\ UNCHANGED <<layerOf, current, state>>

\* remove: by plain key, later entries move up.
RemoveEntry(n) ==
    /\ Find(table, n) # 0
    /\ table' = RemoveAt(table, Find(table, n))
    /\ UNCHANGED <<next, layerOf, current, state>>

\* An entry's name assigned through get_mut or iter_mut: the key stays.
RenameInPlace(i, n) ==
    /\ SwapsAllowed \/ ~HasStaleKeys
    /\ Fold[table[i].name] \notin Protected
    /\ table' = [table EXCEPT ![i].name = n]
    /\ UNCHANGED <<next, layerOf, current, state>>

-----------------------------------------------------------------------------
(* CadDocument operations over the layer table.                            *)

\* Fault: a reference is compared by its exact spelling.
FollowLayerExactly(n, old, new) == IF n = old THEN new ELSE n

\* A layer name in an entity or a layer state follows the rename of `old`.
FollowLayer(n, old, new) == IF Fold[n] = Fold[old] THEN new ELSE n

\* rename_layer: an entry is looked up by its old name and decides whether the
\* rename is allowed; the entry keyed by that entry's own name, another one when
\* the first is stale, is renamed in its place and keeps its handle (a missing
\* one is allocated).  Every reference by that name follows, and the header also
\* when its handle is that of the entry looked up.
RenameLayer(old, new) ==
    LET at == Find(table, old)
        source == table[at]
        key == Fold[source.name]
        i == Find(table, source.name)
        h == IF table[i].handle = Null THEN next ELSE table[i].handle
    IN /\ old # new
       /\ at # 0
       /\ key \notin Protected
       /\ i # 0
       /\ Fold[new] = key \/ Find(table, new) = 0
       /\ table[i].handle = Null => next <= MaxHandle
       /\ table' = [table EXCEPT ![i] = [base |-> Fold[new], suffix |-> NoSuffix,
                                         name |-> new, handle |-> h]]
       /\ next' = IF table[i].handle = Null THEN next + 1 ELSE next
       /\ layerOf' = [x \in Ents |-> FollowLayer(layerOf[x], source.name, new)]
       /\ current' = IF \/ Fold[current.name] = key
                        \/ (source.handle # Null /\ current.handle = source.handle)
                     THEN [name |-> new, handle |-> h] ELSE current
       /\ state' = FollowLayer(state, source.name, new)

\* The key an entry gets among the others' keys: that of its present name.
Rekeyed(others, e) ==
    LET base == Fold[e.name]
        suffix == IF <<base, NoSuffix>> \in others
                  THEN FreeSuffix(others, base, e.handle, e.handle) ELSE NoSuffix
    IN Keyed(base, suffix, e)

\* Fault: the entry is put back at the end.
RekeyAtEnd(t, i) ==
    LET rest == RemoveAt(t, i)
    IN Append(rest, Rekeyed(Keys(rest), t[i]))

\* One step of resync_keys: the entry at a stale place is taken out and put
\* back at the same place under its new key.
OtherKeys(t, i) == {KeyOf(t[j]) : j \in (1 .. Len(t)) \ {i}}
Rekey(t, i) == [t EXCEPT ![i] = Rekeyed(OtherKeys(t, i), t[i])]

\* resync_keys: the places that are stale when it starts, in table order.
Resynced ==
    LET keyed[n \in 0 .. Len(table)] ==
            IF n = 0 THEN table
            ELSE IF Stale(table[n]) THEN Rekey(keyed[n - 1], n) ELSE keyed[n - 1]
    IN keyed[Len(table)]

\* Fault: references follow although another entry still has the old name.
FollowAlways(t, n) ==
    LET moved == {i \in Places : Stale(table[i]) /\ table[i].base = Fold[n]}
    IN IF moved = {} THEN n ELSE table[Max(moved)].name

\* apply_table_renames: a reference follows a rename when its old name no
\* longer resolves in the re-keyed table t; of two renames of one name the later
\* pair wins.
FollowRename(t, n) ==
    LET moved == {i \in Places : /\ Stale(table[i]) /\ table[i].base = Fold[n]
                                 /\ Find(t, table[i].base) = 0
                                 /\ Fold[table[i].name] # Fold[n]}
    IN IF moved = {} THEN n ELSE table[Max(moved)].name

\* resync_table_keys: the table, then the entities and the header; saved layer
\* states are left as they are.
ResyncTableKeys ==
    /\ HasStaleKeys
    /\ table' = Resynced
    /\ layerOf' = [x \in Ents |-> FollowRename(table', layerOf[x])]
    /\ current' = [current EXCEPT !.name = FollowRename(table', @)]
    /\ UNCHANGED <<next, state>>

\* Fault: one fresh handle for all.
AssignSameHandle(acc, n) ==
    LET i == Find(acc.table, n)
    IN [table |-> IF i = 0 THEN acc.table
                  ELSE [acc.table EXCEPT ![i].handle = acc.next],
        next |-> acc.next]

\* assign_table_entry_handles: for the name of each entry without a handle a
\* fresh one, set through a lookup by that name.
AssignOne(acc, n) ==
    LET i == Find(acc.table, n)
    IN [table |-> IF i = 0 THEN acc.table
                  ELSE [acc.table EXCEPT ![i].handle = acc.next],
        next |-> acc.next + 1]

Missing == {i \in Places : table[i].handle = Null}

Assigned ==
    LET assigned[n \in 0 .. Len(table)] ==
            IF n = 0 THEN [table |-> table, next |-> next]
            ELSE IF n \in Missing THEN AssignOne(assigned[n - 1], table[n].name)
            ELSE assigned[n - 1]
    IN assigned[Len(table)]

AssignTableEntryHandles ==
    /\ Missing # {}
    /\ next + Cardinality(Missing) <= MaxHandle + 1
    /\ LET done == Assigned
       IN /\ table' = done.table
          /\ next' = done.next
    /\ UNCHANGED <<layerOf, current, state>>

-----------------------------------------------------------------------------
\* A new drawing: the entry "0" (the first protected name), every entity and
\* the header on it.
Init ==
    /\ \E zero \in Protected :
          /\ table = <<[base |-> zero, suffix |-> NoSuffix, name |-> zero,
                        handle |-> 1]>>
          /\ layerOf = [x \in Ents |-> zero]
          /\ current = [name |-> zero, handle |-> 1]
          /\ state = zero
    /\ next = 2

\* An entity (or the header) is put on an existing layer; a layer state is
\* saved for one.
SetLayer(x, i) ==
    /\ layerOf' = [layerOf EXCEPT ![x] = table[i].name]
    /\ UNCHANGED <<table, next, current, state>>
SetCurrent(i) ==
    /\ current' = [name |-> table[i].name, handle |-> table[i].handle]
    /\ UNCHANGED <<table, next, layerOf, state>>
SaveState(i) ==
    /\ state' = table[i].name
    /\ UNCHANGED <<table, next, layerOf, current>>

Next ==
    \/ \E n \in Names, h \in NewHandles : Add(n, h)
    \/ \E n \in Names, h \in NewHandles : AddOrReplace(n, h)
    \/ \E n \in Names, h \in NewHandles : AddAllowDuplicate(n, h)
    \/ \E n \in Names : Fold[n] \notin Protected /\ RemoveEntry(n)
    \/ \E i \in Places, n \in Names : RenameInPlace(i, n)
    \/ \E old, new \in Names : RenameLayer(old, new)
    \/ ResyncTableKeys
    \/ AssignTableEntryHandles
    \/ \E x \in Ents, i \in Places : SetLayer(x, i)
    \/ \E i \in Places : SetCurrent(i)
    \/ \E i \in Places : SaveState(i)

Spec == Init /\ [][Next]_vars

-----------------------------------------------------------------------------
(* Properties.                                                             *)

\* No two entries share a key or a handle, and the allocator is above every
\* handle, whatever duplicates, renames, replacements, re-keyings and assignments
\* the table went through.
EntriesUnique ==
    /\ table \in Seq(Entry)
    /\ \A i, j \in Places :
          \/ KeyOf(table[i]) = KeyOf(table[j])
          \/ table[i].handle # Null /\ table[i].handle = table[j].handle
          => i = j
    /\ \A i \in Places : table[i].handle < next

\* resync_keys drops no entry and keeps the table order, and no stale key is
\* left, however many entries were renamed in place and collided.
ResyncKeepsEntries ==
    [][ResyncTableKeys =>
          /\ Len(table') = Len(table)
          /\ \A i \in Places : /\ table'[i].name = table[i].name
                               /\ table'[i].handle = table[i].handle
          /\ ~HasStaleKeys']_vars

\* The place an entity's layer name leads to, 0 when it is missed.
Resolves(n) == Find(table, n)

\* In-place renames to names no other entry has, or had, of entries whose old
\* names no other renamed entry shares or takes.
UnambiguousRenames ==
    \A i \in Places : Stale(table[i]) =>
        \A j \in Places \ {i} :
            /\ Fold[table[i].name] \notin {table[j].base, Fold[table[j].name]}
            /\ Stale(table[j]) =>
                  table[i].base \notin {table[j].base, Fold[table[j].name]}

\* Unambiguous in-place renames, once resynced, take the references to the
\* entries along: an entity or the header that named one still names it.
ReferencesFollow ==
    [][UnambiguousRenames /\ ResyncTableKeys
       => /\ \A x \in Ents : Resolves(layerOf[x]) # 0 =>
                Resolves(layerOf[x])' = Resolves(layerOf[x])
          /\ Resolves(current.name) # 0 =>
                Resolves(current.name)' = Resolves(current.name)]_vars

\* The header's current layer: the place its name leads to, when that entry is
\* not stale and has the handle the header has, else 0.
HeaderEntry ==
    LET i == Resolves(current.name)
    IN IF i # 0 /\ ~Stale(table[i]) /\ current.handle = table[i].handle THEN i ELSE 0

ReferencesKept ==
    /\ \A x \in Ents : Resolves(layerOf[x]) # 0 =>
          Resolves(layerOf[x])' = Resolves(layerOf[x])
    /\ Resolves(state) # 0 => Resolves(state)' = Resolves(state)
    /\ HeaderEntry # 0 => HeaderEntry' = HeaderEntry

\* rename_layer leaves every entity and the saved layer state on the entry they
\* named, and a header that named an entry by name and handle names it by both
\* still: also while entries wait for a resync, the entry looked up included.
\* (A step that loses a reference is no rename_layer.)
RenameKeepsReferences ==
    [][~ReferencesKept => ~ \E old, new \in Names : RenameLayer(old, new)]_vars

\* The documented effect of assign_table_entry_handles: every entry that still
\* carries a NULL handle gets a fresh one.
AssignsEvery ==
    [][AssignTableEntryHandles => \A i \in Places : table'[i].handle # Null]_vars

\* The documented effect of resync_keys: an entry renamed in place is
\* reachable under its own name again, unless another entry has that name.
ResyncedReachable ==
    [][ResyncTableKeys =>
          \A i \in Places :
             (/\ Stale(table[i])
              /\ \A j \in Places \ {i} : Fold[table[j].name] # Fold[table[i].name])
             => Find(table', table[i].name) = i]_vars

=============================================================================
