----------------------------- MODULE ObjectGraph -----------------------------
(***************************************************************************)
(* The object map of CadDocument (src/document.rs): the Named Objects      *)
(* Dictionary and its sub-dictionaries, extension dictionaries and their   *)
(* XRecords, groups and the reactors of the entities they hold.            *)
(*                                                                         *)
(* A dictionary is a function from keys to handles (its keys compare       *)
(* without case), a group a set of entities (add_entity keeps them apart). *)
(***************************************************************************)
EXTENDS Integers, FiniteSets

CONSTANTS
    Ents,       \* handles of the entities the drawing starts with
    RootDict,   \* header.named_objects_dict_handle of a new drawing
    GroupDict,  \* header.acad_group_dict_handle of a new drawing
    GroupKey,   \* "ACAD_GROUP"
    SubKeys,    \* other names of sub-dictionaries
    GroupNames, \* names a caller gives to groups
    AutoNames,  \* "*A1", "*A2", ...: a function on 1 .. n
    RecordKeys, \* names of XRecords
    NoXdic,     \* an entity's xdictionary_handle is None
    FirstHandle, \* the allocator's counter, above every handle of the drawing
    ReuseNames, \* may create_group be called with the name of a group?
    MaxPurges,  \* bound: objects a caller removes from the public object map
    MaxHandle   \* bound: the last handle allocated

Null == 0

ASSUME HandlesAssumption ==
    /\ Ents \subseteq Nat \ {Null}
    /\ {RootDict, GroupDict} \subseteq Nat \ (Ents \cup {Null})
    /\ RootDict # GroupDict
    /\ FirstHandle \in Nat
    /\ \A h \in Ents \cup {RootDict, GroupDict} : h < FirstHandle
    /\ NoXdic \notin Nat
    /\ MaxHandle \in Nat /\ MaxPurges \in Nat
ASSUME NamesAssumption ==
    /\ ReuseNames \in BOOLEAN
    /\ GroupKey \notin SubKeys
    /\ \A i, j \in DOMAIN AutoNames : AutoNames[i] = AutoNames[j] => i = j

VARIABLES
    objects,    \* handle -> object
    entities,   \* live entity -> [xdic, reactors]
    xdicOf,     \* xdic_by_handle: owner -> extension dictionary
    header,     \* [nod, groups]: named_objects_ and acad_group_dict_handle
    next,       \* the allocator's counter
    purges      \* history: objects a caller has removed from the map

vars == <<objects, entities, xdicOf, header, next, purges>>

Dictionary(owner, entries) ==
    [kind |-> "dictionary", owner |-> owner, entries |-> entries]
XRecord(owner) == [kind |-> "xrecord", owner |-> owner]
Group(owner, name, members) ==
    [kind |-> "group", owner |-> owner, name |-> name, members |-> members]

Is(objs, h, kind) == h \in DOMAIN objs /\ objs[h].kind = kind
Keys(objs, d) == DOMAIN objs[d].entries
Without(f, x) == [y \in DOMAIN f \ {x} |-> f[y]]
With(f, x, v) == [y \in DOMAIN f \cup {x} |-> IF y = x THEN v ELSE f[y]]

\* Fault: the new object is not entered.
EnterNothing(objs, d, key, h) == objs

\* Dictionary::insert: replaces the handle of a key it has.
Enter(objs, d, key, h) ==
    [objs EXCEPT ![d].entries = With(@, key, h)]

Init ==
    /\ objects = [h \in {RootDict, GroupDict} |->
                     IF h = RootDict
                     THEN Dictionary(Null, [key \in {GroupKey} |-> GroupDict])
                     ELSE Dictionary(RootDict, << >>)]
    /\ entities = [e \in Ents |-> [xdic |-> NoXdic, reactors |-> {}]]
    /\ xdicOf = << >>
    /\ header = [nod |-> RootDict, groups |-> GroupDict]
    /\ next = FirstHandle
    /\ purges = 0

-----------------------------------------------------------------------------
(* Extension dictionaries and XRecords.                                    *)

\* extension_dictionary_handle: the entity's own field, the side map, or a
\* dictionary some non-dictionary owner owns (the first one the hash map
\* yields).  The set of handles it may return, {Null} for None.
ExtensionDictionary(o) ==
    IF o \in DOMAIN entities /\ entities[o].xdic # NoXdic
    THEN {entities[o].xdic}
    ELSE IF o \in DOMAIN xdicOf THEN {xdicOf[o]}
    ELSE LET owned == {d \in DOMAIN objects :
                          Is(objects, d, "dictionary") /\ objects[d].owner = o}
         IN IF Is(objects, o, "dictionary") \/ owned = {} THEN {Null} ELSE owned

\* Fault: only the side map learns of the dictionary.
AttachAside(o, d) ==
    /\ xdicOf' = With(xdicOf, o, d)
    /\ UNCHANGED entities

\* ensure_extension_dictionary, when there is none: what it makes of the
\* objects, the entities and the side map.
Attach(o, d) ==
    /\ entities' = IF o \in DOMAIN entities
                   THEN [entities EXCEPT ![o].xdic = d] ELSE entities
    /\ xdicOf' = With(xdicOf, o, d)

EnsureExtensionDictionary(o) ==
    /\ ExtensionDictionary(o) = {Null}
    /\ next <= MaxHandle
    /\ objects' = With(objects, next, Dictionary(o, << >>))
    /\ Attach(o, next)
    /\ next' = next + 1
    /\ UNCHANGED header

\* xrecord(owner, key): the record found through dictionary d, if any.
RecordIn(objs, d, key) ==
    /\ Is(objs, d, "dictionary")
    /\ key \in Keys(objs, d)
    /\ Is(objs, objs[d].entries[key], "xrecord")

\* ensure_xrecord: the dictionary first, then the record, which is entered
\* only if the dictionary handle leads to a dictionary.
EnsureXrecord(o, key) ==
    \E found \in ExtensionDictionary(o) :
        LET d == IF found = Null THEN next ELSE found
            r == IF found = Null THEN next + 1 ELSE next
            base == IF found = Null THEN With(objects, d, Dictionary(o, << >>))
                    ELSE objects
            made == With(base, r, XRecord(d))
        IN IF RecordIn(base, d, key)
           THEN UNCHANGED vars
           ELSE /\ r <= MaxHandle
                /\ objects' = IF Is(base, d, "dictionary")
                              THEN Enter(made, d, key, r) ELSE made
                /\ next' = r + 1
                /\ IF found = Null THEN Attach(o, d)
                   ELSE UNCHANGED <<entities, xdicOf>>
                /\ UNCHANGED header

-----------------------------------------------------------------------------
(* Sub-dictionaries of the Named Objects Dictionary.                       *)

\* ensure_subdictionary(key): the root is made if it is missing, then the
\* sub-dictionary if the root's entry leads to no dictionary.  A record of
\* the objects, the root, the sub-dictionary and the allocator afterwards.
Subdictionary(key) ==
    LET rootOk == Is(objects, header.nod, "dictionary")
        root == IF rootOk THEN header.nod ELSE next
        base == IF rootOk THEN objects
                ELSE With(objects, root, Dictionary(Null, << >>))
        free == IF rootOk THEN next ELSE next + 1
        has == key \in Keys(base, root)
               /\ Is(base, base[root].entries[key], "dictionary")
    IN [root |-> root,
        sub |-> IF has THEN base[root].entries[key] ELSE free,
        objs |-> IF has THEN base
                 ELSE Enter(With(base, free, Dictionary(root, << >>)),
                            root, key, free),
        free |-> IF has THEN free ELSE free + 1]

EnsureSubdictionary(key) ==
    LET s == Subdictionary(key)
    IN /\ s.free <= MaxHandle + 1
       /\ objects' = s.objs
       /\ header' = [header EXCEPT !.nod = s.root]
       /\ next' = s.free
       /\ UNCHANGED <<entities, xdicOf>>

\* Fault: the entry in the root is forgotten.
RemoveSubdictionaryObject(key) ==
    /\ Is(objects, header.nod, "dictionary")
    /\ key \in Keys(objects, header.nod)
    /\ objects' = Without(objects, objects[header.nod].entries[key])
    /\ UNCHANGED <<entities, xdicOf, header, next>>

\* remove_subdictionary(key): the entry and the object; what the dictionary
\* owned stays in the object map.
RemoveSubdictionary(key) ==
    /\ Is(objects, header.nod, "dictionary")
    /\ key \in Keys(objects, header.nod)
    /\ LET sub == objects[header.nod].entries[key]
           root == [objects[header.nod] EXCEPT !.entries = Without(@, key)]
       IN objects' = Without(With(objects, header.nod, root), sub)
    /\ UNCHANGED <<entities, xdicOf, header, next>>

-----------------------------------------------------------------------------
(* Groups.                                                                 *)

\* The group dictionary create_group and create_unnamed_group work with: the
\* header's, or ACAD_GROUP when the header's handle leads to no dictionary.
GroupHome ==
    IF Is(objects, header.groups, "dictionary")
    THEN [root |-> header.nod, sub |-> header.groups, objs |-> objects,
          free |-> next]
    ELSE Subdictionary(GroupKey)

\* The common part: the group object, a reactor on each of its entities, the
\* dictionary entry.
MakeGroup(home, name, members) ==
    LET g == home.free
    IN /\ g <= MaxHandle
       /\ objects' = Enter(With(home.objs, g, Group(home.sub, name, members)),
                           home.sub, name, g)
       /\ entities' = [e \in DOMAIN entities |->
                         IF e \in members
                         THEN [entities[e] EXCEPT !.reactors = @ \cup {g}]
                         ELSE entities[e]]
       /\ header' = [nod |-> home.root, groups |-> home.sub]
       /\ next' = g + 1
       /\ UNCHANGED xdicOf

CreateGroup(name, members) ==
    LET home == GroupHome
    IN /\ ReuseNames \/ name \notin Keys(home.objs, home.sub)
       /\ MakeGroup(home, name, members)

\* Fault: the name is numbered by the groups there are.
CreateGroupByCount(members) ==
    LET home == GroupHome
    IN \E i \in DOMAIN AutoNames :
          /\ i = 1 + Cardinality(Keys(home.objs, home.sub)
                                   \cap {AutoNames[j] : j \in DOMAIN AutoNames})
          /\ MakeGroup(home, AutoNames[i], members)

\* create_unnamed_group: the first *A<n> the dictionary does not have.
CreateUnnamedGroup(members) ==
    LET home == GroupHome
    IN \E i \in DOMAIN AutoNames :
          /\ AutoNames[i] \notin Keys(home.objs, home.sub)
          /\ \A j \in 1 .. i - 1 : AutoNames[j] \in Keys(home.objs, home.sub)
          /\ MakeGroup(home, AutoNames[i], members)

\* What a name leads to in the header's group dictionary.
NamedIn(objs, groups, name) ==
    IF Is(objs, groups, "dictionary") /\ name \in Keys(objs, groups)
    THEN objs[groups].entries[name] ELSE Null

GroupNamed(name) == NamedIn(objects, header.groups, name)

\* Fault: the entity does not learn of the group.
AddToGroupOneSided(name, e) ==
    LET g == GroupNamed(name)
    IN /\ Is(objects, g, "group")
       /\ objects' = [objects EXCEPT ![g].members = @ \cup {e}]
       /\ UNCHANGED <<entities, xdicOf, header, next>>

AddEntityToGroup(name, e) ==
    LET g == GroupNamed(name)
    IN /\ Is(objects, g, "group")
       /\ objects' = [objects EXCEPT ![g].members = @ \cup {e}]
       /\ entities' = IF e \in DOMAIN entities
                      THEN [entities EXCEPT ![e].reactors = @ \cup {g}]
                      ELSE entities
       /\ UNCHANGED <<xdicOf, header, next>>

RemoveEntityFromGroup(name, e) ==
    LET g == GroupNamed(name)
    IN /\ Is(objects, g, "group")
       /\ objects' = [objects EXCEPT ![g].members = @ \ {e}]
       /\ entities' = IF e \in DOMAIN entities
                      THEN [entities EXCEPT ![e].reactors = @ \ {g}]
                      ELSE entities
       /\ UNCHANGED <<xdicOf, header, next>>

\* remove_group: the dictionary entry goes first, even when the object it
\* leads to is missing or no group.
RemoveGroup(name) ==
    LET g == GroupNamed(name)
        rest == [objects EXCEPT ![header.groups].entries = Without(@, name)]
    IN /\ g # Null
       /\ IF Is(objects, g, "group")
          THEN /\ objects' = Without(rest, g)
               /\ entities' = [e \in DOMAIN entities |->
                                 IF e \in objects[g].members
                                 THEN [entities[e] EXCEPT !.reactors = @ \ {g}]
                                 ELSE entities[e]]
          ELSE objects' = rest /\ UNCHANGED entities
       /\ UNCHANGED <<xdicOf, header, next>>

-----------------------------------------------------------------------------
(* Callers.                                                                *)

\* remove_entity of an entity that anchors nothing: groups and the object map
\* go on naming it.
RemoveEntity(e) ==
    /\ e \in DOMAIN entities
    /\ entities' = Without(entities, e)
    /\ UNCHANGED <<objects, xdicOf, header, next>>

\* `objects` is public: a caller may remove any object from it.
Purge(h) ==
    /\ purges < MaxPurges
    /\ h \in DOMAIN objects
    /\ objects' = Without(objects, h)
    /\ purges' = purges + 1
    /\ UNCHANGED <<entities, xdicOf, header, next>>

AllGroupNames == GroupNames \cup {AutoNames[i] : i \in DOMAIN AutoNames}

Operation ==
    \/ \E o \in Ents : EnsureExtensionDictionary(o)
    \/ \E o \in Ents, key \in RecordKeys : EnsureXrecord(o, key)
    \/ \E key \in SubKeys : EnsureSubdictionary(key)
    \/ \E key \in SubKeys \cup {GroupKey} : RemoveSubdictionary(key)
    \/ \E name \in GroupNames, m \in SUBSET Ents : CreateGroup(name, m)
    \/ \E m \in SUBSET Ents : CreateUnnamedGroup(m)
    \/ \E name \in AllGroupNames, e \in Ents : AddEntityToGroup(name, e)
    \/ \E name \in AllGroupNames, e \in Ents : RemoveEntityFromGroup(name, e)
    \/ \E name \in AllGroupNames : RemoveGroup(name)
    \/ \E e \in Ents : RemoveEntity(e)

Next ==
    \/ Operation /\ UNCHANGED purges
    \/ \E h \in DOMAIN objects : Purge(h)

Spec == Init /\ [][Next]_vars

-----------------------------------------------------------------------------
(* Properties.                                                             *)

\* The document API alone changed the object map.
Intact == purges = 0

\* A stored entity carries a group's reactor exactly while that group exists
\* and holds it, whatever groups were made, renamed over, emptied or removed.
ReactorsMatchGroups ==
    Intact => \A e \in DOMAIN entities :
        entities[e].reactors =
            {g \in DOMAIN objects : Is(objects, g, "group")
                                    /\ e \in objects[g].members}

\* As long as the group dictionary is in place, every group is registered in
\* it under its own name, unless a caller gave that name to another group: an
\* unnamed group never takes over the name of another.
GroupsRegistered ==
    Intact => \A g \in DOMAIN objects :
        /\ Is(objects, g, "group") /\ Is(objects, objects[g].owner, "dictionary")
        /\ ReuseNames => objects[g].name \notin GroupNames
        => GroupNamed(objects[g].name) = g

\* No dictionary entry is left pointing at an object that is gone.
EntriesResolve ==
    Intact => \A d \in DOMAIN objects : Is(objects, d, "dictionary") =>
        \A key \in Keys(objects, d) :
            objects[d].entries[key] \in DOMAIN objects

\* The extension dictionary of an entity is attached through both its own data
\* and the side map, and they name the same dictionary.
AttachedBothWays ==
    Intact => \A e \in DOMAIN entities :
        /\ entities[e].xdic # NoXdic <=> e \in DOMAIN xdicOf
        /\ e \in DOMAIN xdicOf =>
              /\ xdicOf[e] = entities[e].xdic
              /\ Is(objects, xdicOf[e], "dictionary")
              /\ objects[xdicOf[e]].owner = e

\* What was created or ensured can be found where the document looks for it.  The
\* group dictionary leads from a new group's name to it, and the root from the key
\* to the sub-dictionary, even when either had been removed from the public map; a
\* record is found by xrecord(owner, key) if the API alone changed that map.
EnsuredFound ==
    [][/\ \A g \in DOMAIN objects' \ DOMAIN objects :
             objects'[g].kind = "group" =>
                 NamedIn(objects', header'.groups, objects'[g].name) = g
       /\ \A key \in SubKeys : EnsureSubdictionary(key) =>
             /\ Is(objects', header'.nod, "dictionary")
             /\ key \in Keys(objects', header'.nod)
             /\ Is(objects', objects'[header'.nod].entries[key], "dictionary")
             /\ Subdictionary(key)'.free = next'
       /\ Intact => \A o \in Ents, key \in RecordKeys :
             EnsureXrecord(o, key) =>
                 \A d \in ExtensionDictionary(o)' : RecordIn(objects', d, key)]_vars

=============================================================================
