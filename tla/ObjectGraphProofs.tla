-------------------------- MODULE ObjectGraphProofs --------------------------
(***************************************************************************)
(* Proofs about the object map: the invariants of module ObjectGraph for   *)
(* every set of entities, names and keys, and what create_group,           *)
(* ensure_subdictionary and ensure_xrecord promise.                        *)
(***************************************************************************)
EXTENDS ObjectGraph, TLAPS

-----------------------------------------------------------------------------
(* The inductive invariant.  Shaped holds whatever a caller removes from    *)
(* the public map, the rest as long as none does.                           *)

\* Every handle in the map came from the allocator or from the start, and an
\* object is a dictionary, a record or a group.
Shaped(objs, free) ==
    \A h \in DOMAIN objs :
        /\ h \in Nat \ {Null} /\ h < free
        /\ \/ /\ objs[h].kind = "dictionary"
              /\ objs[h] = Dictionary(objs[h].owner, objs[h].entries)
           \/ /\ objs[h].kind = "xrecord"
              /\ objs[h] = XRecord(objs[h].owner)
           \/ /\ objs[h].kind = "group"
              /\ objs[h] = Group(objs[h].owner, objs[h].name, objs[h].members)
              /\ objs[h].owner \in Nat /\ objs[h].owner < free

\* The root dictionary is in place, and leads to each of its sub-dictionaries
\* under one key.
Rooted(objs) ==
    /\ Is(objs, RootDict, "dictionary")
    /\ objs[RootDict].owner = Null
    /\ \A key \in Keys(objs, RootDict) :
          /\ Is(objs, objs[RootDict].entries[key], "dictionary")
          /\ objs[objs[RootDict].entries[key]].owner = RootDict
    /\ \A k, l \in Keys(objs, RootDict) :
          objs[RootDict].entries[k] = objs[RootDict].entries[l] => k = l

\* Every other dictionary is a sub-dictionary, which holds groups of its own
\* under their names, or an extension dictionary, which holds its own records.
Owned(objs) ==
    \A d \in DOMAIN objs \ {RootDict} : Is(objs, d, "dictionary") =>
        \/ /\ objs[d].owner = RootDict
           /\ \A key \in Keys(objs, d) :
                 /\ Is(objs, objs[d].entries[key], "group")
                 /\ objs[objs[d].entries[key]].owner = d
                 /\ objs[objs[d].entries[key]].name = key
        \/ /\ objs[d].owner \in Ents
           /\ \A key \in Keys(objs, d) :
                 /\ Is(objs, objs[d].entries[key], "xrecord")
                 /\ objs[objs[d].entries[key]].owner = d

\* The group dictionary is the one the root has under ACAD_GROUP, and a group
\* whose dictionary still exists is registered in it.
Grouped(objs, root, groups, free) ==
    /\ root = RootDict
    /\ groups \in Nat /\ groups < free /\ groups # RootDict
    /\ Is(objs, groups, "dictionary") =>
          /\ objs[groups].owner = RootDict
          /\ GroupKey \in Keys(objs, RootDict)
    /\ GroupKey \in Keys(objs, RootDict) =>
          objs[RootDict].entries[GroupKey] = groups
    /\ \A g \in DOMAIN objs :
          /\ Is(objs, g, "group")
          /\ Is(objs, objs[g].owner, "dictionary")
          => /\ objs[g].owner = groups
             /\ (ReuseNames => objs[g].name \notin GroupNames) =>
                   NamedIn(objs, groups, objs[g].name) = g

Graph(objs, root, groups, free) ==
    /\ Shaped(objs, free)
    /\ Rooted(objs)
    /\ Owned(objs)
    /\ Grouped(objs, root, groups, free)

\* The extension dictionary of an owner, stored or removed since, is the only
\* dictionary it owns, and the entity names it too.
Attached(objs, ents, xs) ==
    /\ DOMAIN xs \subseteq Ents
    /\ \A o \in DOMAIN xs : Is(objs, xs[o], "dictionary") /\ objs[xs[o]].owner = o
    /\ \A d \in DOMAIN objs :
          Is(objs, d, "dictionary") /\ objs[d].owner \in Ents =>
              /\ objs[d].owner \in DOMAIN xs
              /\ xs[objs[d].owner] = d
    /\ \A e \in DOMAIN ents :
          ents[e].xdic = IF e \in DOMAIN xs THEN xs[e] ELSE NoXdic

Reacting(objs, ents) ==
    \A e \in DOMAIN ents :
        ents[e].reactors = {g \in DOMAIN objs : Is(objs, g, "group")
                                                /\ e \in objs[g].members}

EntitiesTyped(ents) ==
    /\ DOMAIN ents \subseteq Ents
    /\ ents = [e \in DOMAIN ents |->
                  [xdic |-> ents[e].xdic, reactors |-> ents[e].reactors]]

GraphInv ==
    /\ next \in Nat /\ FirstHandle <= next
    /\ purges \in Nat
    /\ Shaped(objects, next)
    /\ EntitiesTyped(entities)
    /\ Intact => /\ Graph(objects, header.nod, header.groups, next)
                 /\ Attached(objects, entities, xdicOf)
                 /\ Reacting(objects, entities)

-----------------------------------------------------------------------------
(* Lemmas about the operators on the object map.                           *)

\* The map `new` is `objs` with the object x under the fresh handle h, entered
\* as `key` in dictionary d.
Entered(new, objs, d, key, h, x) ==
    /\ DOMAIN new = DOMAIN objs \cup {h}
    /\ new[h] = x
    /\ new[d] = Dictionary(objs[d].owner, With(objs[d].entries, key, h))
    /\ \A y \in DOMAIN objs : y # d => new[y] = objs[y]

LEMMA EnterNew ==
    ASSUME NEW objs, NEW d \in DOMAIN objs, NEW key, NEW h, NEW x, NEW free,
           h \notin DOMAIN objs,
           Is(objs, d, "dictionary"), Shaped(objs, free)
    PROVE  Entered(Enter(With(objs, h, x), d, key, h), objs, d, key, h, x)
<1>. DEFINE made == With(objs, h, x)
            new == Enter(made, d, key, h)
            owner == objs[d].owner
            more == With(objs[d].entries, key, h)
<1>1. /\ DOMAIN made = DOMAIN objs \cup {h}
      /\ made[h] = x
      /\ \A y \in DOMAIN objs : made[y] = objs[y]
  BY DEF With
<1>2. new = [made EXCEPT ![d].entries = With(made[d].entries, key, h)]
  BY DEF Enter
<1>3. objs[d] = Dictionary(owner, objs[d].entries)
  BY DEF Shaped, Is
<1>. HIDE DEF made
<1>4. With(made[d].entries, key, h) = more
  BY <1>1
<1>. HIDE DEF more, owner
<1>5. [made[d] EXCEPT !.entries = more] = Dictionary(owner, more)
  BY <1>1, <1>3 DEF Dictionary
<1>. HIDE DEF new
<1>6. DOMAIN new = DOMAIN made
  BY <1>2
<1>7. \A y \in DOMAIN made : y # d => new[y] = made[y]
  BY <1>2
<1>8. new[d] = [made[d] EXCEPT !.entries = more]
  BY <1>1, <1>2, <1>4
<1>9. new[d] = Dictionary(objs[d].owner, With(objs[d].entries, key, h))
  BY <1>5, <1>8 DEF more, owner
<1>10. Entered(new, objs, d, key, h, x)
  BY <1>1, <1>6, <1>7, <1>9 DEF Entered
<1>. QED
  BY <1>10 DEF new, made

\* The map keeps its shape when a fresh dictionary is put into it.
LEMMA NewExtensionDictionary ==
    ASSUME NEW objs, NEW root, NEW groups, NEW free \in Nat \ {Null},
           NEW o \in Ents, NEW new, new = With(objs, free, Dictionary(o, << >>)),
           Graph(objs, root, groups, free)
    PROVE  Graph(new, root, groups, free + 1)
<1>. free \notin DOMAIN objs
  BY DEF Graph, Shaped
<1>. /\ DOMAIN new = DOMAIN objs \cup {free}
     /\ new[free] = Dictionary(o, << >>)
     /\ \A y \in DOMAIN objs : new[y] = objs[y]
  BY DEF With
<1>1. Shaped(new, free + 1)
  BY DEF Graph, Shaped, Dictionary
<1>2. Rooted(new)
  BY DEF Graph, Rooted, Is, Keys
<1>3. Owned(new)
  BY DEF Graph, Owned, Is, Keys, Dictionary
<1>4. Grouped(new, root, groups, free + 1)
  BY HandlesAssumption DEF Graph, Grouped, Shaped, Rooted, Is, Keys, Dictionary, NamedIn
<1>. QED
  BY <1>1, <1>2, <1>3, <1>4 DEF Graph

\* A new record, entered in an extension dictionary.
LEMMA NewRecord ==
    ASSUME NEW objs, NEW root, NEW groups, NEW free \in Nat \ {Null},
           NEW d \in DOMAIN objs, NEW key, NEW new,
           Entered(new, objs, d, key, free, XRecord(d)),
           Graph(objs, root, groups, free),
           Is(objs, d, "dictionary"), objs[d].owner \in Ents
    PROVE  Graph(new, root, groups, free + 1)
<1>. free \notin DOMAIN objs
  BY DEF Graph, Shaped
<1>. /\ DOMAIN new = DOMAIN objs \cup {free}
     /\ new[free] = XRecord(d)
     /\ new[d] = Dictionary(objs[d].owner, With(objs[d].entries, key, free))
     /\ \A y \in DOMAIN objs : y # d => new[y] = objs[y]
  BY DEF Entered
<1>. d # RootDict
  BY HandlesAssumption DEF Graph, Rooted
<1>0. /\ new[d].kind = "dictionary" /\ new[d].owner = objs[d].owner
      /\ new[d].entries = With(objs[d].entries, key, free)
      /\ new[free].kind = "xrecord" /\ new[free].owner = d
  BY DEF Dictionary, XRecord
<1>1. Shaped(new, free + 1)
  BY <1>0 DEF Graph, Shaped
<1>2. Rooted(new)
  BY <1>0 DEF Graph, Rooted, Is, Keys
<1>3. Owned(new)
  <2>1. ASSUME NEW y \in DOMAIN new \ {RootDict, d}, Is(new, y, "dictionary")
        PROVE  /\ y \in DOMAIN objs \ {RootDict} /\ Is(objs, y, "dictionary")
               /\ new[y] = objs[y]
    BY <1>0, <2>1 DEF Is
  <2>2. \A h \in DOMAIN objs : Is(objs, h, "group") \/ Is(objs, h, "xrecord") =>
           Is(new, h, objs[h].kind) /\ new[h] = objs[h]
    BY DEF Is
  <2>3. \A k \in Keys(new, d) :
           Is(new, new[d].entries[k], "xrecord") /\ new[new[d].entries[k]].owner = d
    <3>1. \A k \in Keys(objs, d) :
             Is(objs, objs[d].entries[k], "xrecord") /\ objs[objs[d].entries[k]].owner = d
      BY HandlesAssumption DEF Graph, Owned
    <3>. QED
      BY <1>0, <2>2, <3>1 DEF Keys, With, Is
  <2>. QED
    BY <1>0, <2>1, <2>2, <2>3 DEF Graph, Owned, Keys, Is
<1>4. Grouped(new, root, groups, free + 1)
  <2>1. groups # d
    BY HandlesAssumption DEF Graph, Grouped
  <2>. QED
    BY <1>0, <2>1 DEF Graph, Grouped, Shaped, Rooted, Is, Keys, NamedIn
<1>. QED
  BY <1>1, <1>2, <1>3, <1>4 DEF Graph

\* A new sub-dictionary, entered in the root under a key it did not have.
LEMMA NewSubdictionary ==
    ASSUME NEW objs, NEW groups, NEW free \in Nat \ {Null}, NEW key, NEW new,
           Entered(new, objs, RootDict, key, free, Dictionary(RootDict, << >>)),
           FirstHandle <= free,
           Graph(objs, RootDict, groups, free),
           key \notin Keys(objs, RootDict)
    PROVE  Graph(new, RootDict, IF key = GroupKey THEN free ELSE groups, free + 1)
<1>. free \notin DOMAIN objs /\ RootDict \in DOMAIN objs
  BY DEF Graph, Shaped, Rooted, Is
<1>. free # RootDict
  OBVIOUS
<1>. /\ DOMAIN new = DOMAIN objs \cup {free}
     /\ new[free] = Dictionary(RootDict, << >>)
     /\ new[RootDict] = Dictionary(objs[RootDict].owner, With(objs[RootDict].entries, key, free))
     /\ \A y \in DOMAIN objs : y # RootDict => new[y] = objs[y]
  BY DEF Entered
<1>0. /\ new[RootDict].kind = "dictionary" /\ new[RootDict].owner = objs[RootDict].owner
      /\ new[RootDict].entries = With(objs[RootDict].entries, key, free)
      /\ new[free].kind = "dictionary" /\ new[free].owner = RootDict
      /\ new[free].entries = << >>
  BY DEF Dictionary
<1>1. Shaped(new, free + 1)
  BY <1>0 DEF Graph, Shaped
<1>2. Rooted(new)
  BY <1>0 DEF Graph, Rooted, Is, Keys, With
<1>3. Owned(new)
  BY <1>0 DEF Graph, Owned, Rooted, Is, Keys
<1>4. CASE key = GroupKey
  <2>1. \A g \in DOMAIN objs : Is(objs, g, "group") =>
           objs[g].owner # free /\ objs[g].owner \in Nat
    BY DEF Graph, Shaped, Is, Dictionary, XRecord
  <2>2. ~Is(objs, groups, "dictionary")
    BY <1>4 DEF Graph, Grouped
  <2>3. Grouped(new, RootDict, free, free + 1)
    BY <1>0, <1>4, <2>1, <2>2, HandlesAssumption
    DEF Graph, Grouped, Rooted, Is, Keys, NamedIn, With
  <2>. QED
    BY <1>1, <1>2, <1>3, <1>4, <2>3 DEF Graph
<1>5. CASE key # GroupKey
  <2>1. Grouped(new, RootDict, groups, free + 1)
    BY <1>0, <1>5 DEF Graph, Grouped, Shaped, Rooted, Is, Keys, NamedIn, With
  <2>. QED
    BY <1>1, <1>2, <1>3, <1>5, <2>1 DEF Graph
<1>. QED
  BY <1>4, <1>5

\* A new group, entered in the group dictionary under a name it did not have
\* or that a caller reuses.
LEMMA NewGroup ==
    ASSUME NEW objs, NEW sub, NEW free \in Nat \ {Null}, NEW name, NEW members,
           NEW new,
           Entered(new, objs, sub, name, free, Group(sub, name, members)),
           Graph(objs, RootDict, sub, free),
           Is(objs, sub, "dictionary"),
           name \in Keys(objs, sub) => ReuseNames /\ name \in GroupNames
    PROVE  Graph(new, RootDict, sub, free + 1)
<1>. free \notin DOMAIN objs /\ sub \in DOMAIN objs /\ sub # RootDict
  BY DEF Graph, Shaped, Grouped, Is
<1>. /\ DOMAIN new = DOMAIN objs \cup {free}
     /\ new[free] = Group(sub, name, members)
     /\ new[sub] = Dictionary(objs[sub].owner, With(objs[sub].entries, name, free))
     /\ \A y \in DOMAIN objs : y # sub => new[y] = objs[y]
  BY DEF Entered
<1>. objs[sub].owner = RootDict /\ RootDict \notin Ents
  BY HandlesAssumption DEF Graph, Grouped
<1>0. /\ new[sub].kind = "dictionary" /\ new[sub].owner = RootDict
      /\ new[sub].entries = With(objs[sub].entries, name, free)
      /\ new[free].kind = "group" /\ new[free].owner = sub
      /\ new[free].name = name
  BY DEF Dictionary, Group
<1>1. Shaped(new, free + 1)
  BY <1>0 DEF Graph, Shaped, Group
<1>2. Rooted(new)
  BY <1>0 DEF Graph, Rooted, Is, Keys
<1>3. Owned(new)
  <2>1. ASSUME NEW y \in DOMAIN new \ {RootDict, sub}, Is(new, y, "dictionary")
        PROVE  /\ y \in DOMAIN objs \ {RootDict} /\ Is(objs, y, "dictionary")
               /\ new[y] = objs[y]
    BY <1>0, <2>1 DEF Is
  <2>2. \A h \in DOMAIN objs : Is(objs, h, "group") \/ Is(objs, h, "xrecord") =>
           Is(new, h, objs[h].kind) /\ new[h] = objs[h]
    BY DEF Is
  <2>3. \A k \in Keys(new, sub) :
           /\ Is(new, new[sub].entries[k], "group")
           /\ new[new[sub].entries[k]].owner = sub
           /\ new[new[sub].entries[k]].name = k
    <3>1. \A k \in Keys(objs, sub) :
             /\ Is(objs, objs[sub].entries[k], "group")
             /\ objs[objs[sub].entries[k]].owner = sub
             /\ objs[objs[sub].entries[k]].name = k
      BY DEF Graph, Owned
    <3>. QED
      BY <1>0, <2>2, <3>1 DEF Keys, With, Is
  <2>. QED
    BY <1>0, <2>1, <2>2, <2>3 DEF Graph, Owned, Keys, Is
<1>4. Grouped(new, RootDict, sub, free + 1)
  <2>1. /\ sub \in Nat /\ sub < free + 1
        /\ GroupKey \in Keys(new, RootDict)
        /\ new[RootDict].entries[GroupKey] = sub
    BY <1>0 DEF Graph, Grouped, Rooted, Is, Keys
  <2>2. ASSUME NEW g \in DOMAIN new, Is(new, g, "group"),
               Is(new, new[g].owner, "dictionary")
        PROVE  /\ new[g].owner = sub
               /\ (ReuseNames => new[g].name \notin GroupNames) =>
                     NamedIn(new, sub, new[g].name) = g
    <3>1. CASE g = free
      BY <1>0, <3>1 DEF NamedIn, Keys, With, Is
    <3>2. CASE g # free
      <4>1. g \in DOMAIN objs /\ g # Null /\ new[g] = objs[g] /\ Is(objs, g, "group")
        BY <1>0, <2>2, <3>2 DEF Is, Graph, Shaped
      <4>2. Is(objs, objs[g].owner, "dictionary")
        BY <1>0, <2>2, <4>1 DEF Is
      <4>3. /\ objs[g].owner = sub
            /\ (ReuseNames => objs[g].name \notin GroupNames) =>
                  NamedIn(objs, sub, objs[g].name) = g
        BY <4>1, <4>2 DEF Graph, Grouped
      <4>. QED
        BY <1>0, <4>1, <4>3 DEF NamedIn, Keys, With, Is
    <3>. QED
      BY <3>1, <3>2
  <2>. QED
    BY <1>0, <2>1, <2>2 DEF Grouped, Is, Graph
<1>. QED
  BY <1>1, <1>2, <1>3, <1>4 DEF Graph

\* The members of a group are no part of the graph.
LEMMA NewMembers ==
    ASSUME NEW objs, NEW root, NEW groups, NEW free \in Nat, NEW g \in DOMAIN objs,
           Is(objs, g, "group"), NEW members, NEW new,
           DOMAIN new = DOMAIN objs,
           new[g] = Group(objs[g].owner, objs[g].name, members),
           \A y \in DOMAIN objs : y # g => new[y] = objs[y],
           Graph(objs, root, groups, free)
    PROVE  Graph(new, root, groups, free)
<1>0. /\ new[g].kind = "group" /\ new[g].owner = objs[g].owner
      /\ new[g].name = objs[g].name /\ new[g].members = members
      /\ objs[g].kind = "group"
  BY DEF Group, Is
<1>1. \A h \in DOMAIN objs : new[h].kind = objs[h].kind
  BY <1>0
<1>2. \A h \in DOMAIN objs : new[h].owner = objs[h].owner
  BY <1>0
<1>3. Shaped(new, free)
  BY <1>0 DEF Graph, Shaped, Dictionary, XRecord
<1>4. Rooted(new)
  BY <1>0, <1>1, <1>2 DEF Graph, Rooted, Is, Keys
<1>5. Owned(new)
  BY <1>0, <1>1, <1>2 DEF Graph, Owned, Is, Keys
<1>6. Grouped(new, root, groups, free)
  BY <1>0, <1>1, <1>2 DEF Graph, Grouped, Rooted, Is, Keys, NamedIn
<1>. QED
  BY <1>3, <1>4, <1>5, <1>6 DEF Graph

\* A sub-dictionary taken out of the map and of the root.
LEMMA SubdictionaryRemoved ==
    ASSUME NEW objs, NEW groups, NEW free \in Nat, NEW key \in Keys(objs, RootDict),
           NEW sub, sub = objs[RootDict].entries[key], NEW new,
           DOMAIN new = DOMAIN objs \ {sub},
           new[RootDict] = Dictionary(objs[RootDict].owner,
                                      Without(objs[RootDict].entries, key)),
           \A y \in DOMAIN new : y # RootDict => new[y] = objs[y],
           Graph(objs, RootDict, groups, free)
    PROVE  Graph(new, RootDict, groups, free)
<1>1. /\ Is(objs, sub, "dictionary") /\ objs[sub].owner = RootDict
      /\ sub # RootDict
      /\ \A k \in Keys(objs, RootDict) : objs[RootDict].entries[k] = sub => k = key
  BY HandlesAssumption DEF Graph, Rooted
<1>0. /\ new[RootDict].kind = "dictionary" /\ new[RootDict].owner = objs[RootDict].owner
      /\ new[RootDict].entries = Without(objs[RootDict].entries, key)
      /\ RootDict \in DOMAIN new
  BY <1>1 DEF Dictionary, Graph, Rooted, Is
<1>2. Shaped(new, free)
  BY <1>0 DEF Graph, Shaped
<1>3. Rooted(new)
  BY <1>0, <1>1 DEF Graph, Rooted, Is, Keys, Without
<1>4. Owned(new)
  BY <1>0, <1>1 DEF Graph, Owned, Rooted, Is, Keys
<1>5. Grouped(new, RootDict, groups, free)
  BY <1>0, <1>1 DEF Graph, Grouped, Rooted, Is, Keys, NamedIn, Without
<1>. QED
  BY <1>2, <1>3, <1>4, <1>5 DEF Graph

\* A group taken out of the map and of its dictionary.
LEMMA GroupRemoved ==
    ASSUME NEW objs, NEW groups, NEW free \in Nat, Is(objs, groups, "dictionary"),
           NEW name \in Keys(objs, groups),
           NEW g, g = objs[groups].entries[name], NEW new,
           DOMAIN new = DOMAIN objs \ {g},
           new[groups] = Dictionary(objs[groups].owner,
                                    Without(objs[groups].entries, name)),
           \A y \in DOMAIN new : y # groups => new[y] = objs[y],
           Graph(objs, RootDict, groups, free)
    PROVE  Graph(new, RootDict, groups, free)
<1>1. /\ objs[groups].owner = RootDict /\ groups # RootDict /\ RootDict \notin Ents
      /\ groups \in DOMAIN objs
  BY HandlesAssumption DEF Graph, Grouped, Is
<1>2. \A k \in Keys(objs, groups) :
         /\ Is(objs, objs[groups].entries[k], "group")
         /\ objs[objs[groups].entries[k]].owner = groups
         /\ objs[objs[groups].entries[k]].name = k
  BY <1>1 DEF Graph, Owned
<1>3. Is(objs, g, "group") /\ objs[g].owner = groups /\ objs[g].name = name
  BY <1>2
<1>0. /\ new[groups].kind = "dictionary" /\ new[groups].owner = RootDict
      /\ new[groups].entries = Without(objs[groups].entries, name)
      /\ groups \in DOMAIN new
  BY <1>1, <1>3 DEF Dictionary, Is
<1>4. Shaped(new, free)
  BY <1>0, <1>1 DEF Graph, Shaped
<1>5. Rooted(new)
  BY <1>0, <1>1, <1>3 DEF Graph, Rooted, Is, Keys
<1>6. Owned(new)
  <2>1. \A y \in DOMAIN new \ {RootDict, groups} : Is(new, y, "dictionary") =>
           Is(objs, y, "dictionary") /\ new[y] = objs[y]
    BY DEF Is
  <2>2. \A k \in Keys(new, groups) :
           /\ Is(new, new[groups].entries[k], "group")
           /\ new[new[groups].entries[k]].owner = groups
           /\ new[new[groups].entries[k]].name = k
    BY <1>0, <1>1, <1>2, <1>3 DEF Keys, Without, Is
  <2>. QED
    BY <1>0, <1>1, <1>3, <2>1, <2>2 DEF Graph, Owned, Is, Keys
<1>7. Grouped(new, RootDict, groups, free)
  <2>1. ASSUME NEW h \in DOMAIN new, Is(new, h, "group"),
               Is(new, new[h].owner, "dictionary")
        PROVE  /\ new[h].owner = groups
               /\ (ReuseNames => new[h].name \notin GroupNames) =>
                     NamedIn(new, groups, new[h].name) = h
    <3>1. /\ h \in DOMAIN objs /\ h # g /\ h # Null /\ new[h] = objs[h]
          /\ Is(objs, h, "group") /\ Is(objs, objs[h].owner, "dictionary")
      BY <1>0, <1>1, <2>1 DEF Is, Graph, Shaped
    <3>2. /\ objs[h].owner = groups
          /\ (ReuseNames => objs[h].name \notin GroupNames) =>
                NamedIn(objs, groups, objs[h].name) = h
      BY <3>1 DEF Graph, Grouped
    <3>. QED
      BY <1>0, <1>3, <3>1, <3>2 DEF NamedIn, Keys, Without, Is
  <2>. QED
    BY <1>0, <1>1, <1>3, <2>1 DEF Graph, Grouped, Rooted, Is, Keys
<1>. QED
  BY <1>4, <1>5, <1>6, <1>7 DEF Graph

-----------------------------------------------------------------------------
(* What leaves extension dictionaries and groups as they are.              *)

SameExtensions(objs, new) ==
    \A d \in DOMAIN objs \cup DOMAIN new :
        \/ /\ Is(objs, d, "dictionary") /\ objs[d].owner \in Ents
           /\ Is(new, d, "dictionary") /\ new[d].owner = objs[d].owner
        \/ /\ ~(Is(objs, d, "dictionary") /\ objs[d].owner \in Ents)
           /\ ~(Is(new, d, "dictionary") /\ new[d].owner \in Ents)

SameGroups(objs, new) ==
    \A g \in DOMAIN objs \cup DOMAIN new :
        \/ Is(objs, g, "group") /\ Is(new, g, "group")
           /\ new[g].members = objs[g].members
        \/ ~Is(objs, g, "group") /\ ~Is(new, g, "group")

LEMMA AttachedKept ==
    ASSUME NEW objs, NEW new, NEW ents, NEW later, NEW xs,
           Attached(objs, ents, xs), SameExtensions(objs, new),
           DOMAIN later \subseteq DOMAIN ents,
           \A e \in DOMAIN later : later[e].xdic = ents[e].xdic
    PROVE  Attached(new, later, xs)
<1>1. \A o \in DOMAIN xs : Is(objs, xs[o], "dictionary") /\ objs[xs[o]].owner = o /\ o \in Ents
  BY DEF Attached
<1>2. \A o \in DOMAIN xs : Is(new, xs[o], "dictionary") /\ new[xs[o]].owner = o
  BY <1>1 DEF SameExtensions, Is
<1>3. \A d \in DOMAIN new :
         Is(new, d, "dictionary") /\ new[d].owner \in Ents =>
             new[d].owner \in DOMAIN xs /\ xs[new[d].owner] = d
  BY DEF Attached, SameExtensions, Is
<1>. QED
  BY <1>2, <1>3 DEF Attached

LEMMA ReactingKept ==
    ASSUME NEW objs, NEW new, NEW ents, NEW later,
           Reacting(objs, ents), SameGroups(objs, new),
           DOMAIN later \subseteq DOMAIN ents,
           \A e \in DOMAIN later : later[e].reactors = ents[e].reactors
    PROVE  Reacting(new, later)
<1>. SUFFICES ASSUME NEW e \in DOMAIN later
              PROVE  later[e].reactors =
                        {g \in DOMAIN new : Is(new, g, "group") /\ e \in new[g].members}
  BY DEF Reacting
<1>1. later[e].reactors =
         {g \in DOMAIN objs : Is(objs, g, "group") /\ e \in objs[g].members}
  BY DEF Reacting
<1>2. \A g : (g \in DOMAIN objs /\ Is(objs, g, "group") /\ e \in objs[g].members)
               <=> (g \in DOMAIN new /\ Is(new, g, "group") /\ e \in new[g].members)
  BY DEF SameGroups, Is
<1>. QED
  BY <1>1, <1>2

-----------------------------------------------------------------------------
(* ensure_subdictionary and the group dictionary.                          *)

\* Whatever a caller removed, the root and the sub-dictionary are in the map
\* afterwards and the root leads to the sub-dictionary.
LEMMA SubdictionaryFound ==
    ASSUME NEW key, Shaped(objects, next), next \in Nat \ {Null},
           NEW s, s = Subdictionary(key)
    PROVE  /\ Shaped(s.objs, s.free)
           /\ s.free \in Nat \ {Null} /\ next <= s.free
           /\ Is(s.objs, s.root, "dictionary")
           /\ key \in Keys(s.objs, s.root)
           /\ s.objs[s.root].entries[key] = s.sub
           /\ Is(s.objs, s.sub, "dictionary")
           /\ \A y \in DOMAIN s.objs \ DOMAIN objects : s.objs[y].kind = "dictionary"
<1>. DEFINE rootOk == Is(objects, header.nod, "dictionary")
            root == IF rootOk THEN header.nod ELSE next
            base == IF rootOk THEN objects
                    ELSE With(objects, root, Dictionary(Null, << >>))
            free == IF rootOk THEN next ELSE next + 1
            has == key \in Keys(base, root)
                   /\ Is(base, base[root].entries[key], "dictionary")
            made == Enter(With(base, free, Dictionary(root, << >>)), root, key, free)
<1>1. /\ s.root = root
      /\ s.sub = IF has THEN base[root].entries[key] ELSE free
      /\ s.objs = IF has THEN base ELSE made
      /\ s.free = IF has THEN free ELSE free + 1
  BY DEF Subdictionary
<1>2. /\ Shaped(base, free) /\ free \in Nat \ {Null} /\ next <= free
      /\ Is(base, root, "dictionary")
      /\ \A y \in DOMAIN base \ DOMAIN objects : base[y].kind = "dictionary"
  <2>1. CASE rootOk
    BY <2>1
  <2>2. CASE ~rootOk
    <3>1. /\ DOMAIN base = DOMAIN objects \cup {next}
          /\ base[next] = Dictionary(Null, << >>)
          /\ \A h \in DOMAIN objects : h # next => base[h] = objects[h]
      BY <2>2 DEF With
    <3>2. Shaped(base, next + 1)
      BY <3>1 DEF Shaped, Dictionary
    <3>. QED
      BY <2>2, <3>1, <3>2 DEF Is, Dictionary, Null
  <2>. QED
    BY <2>1, <2>2
<1>. HIDE DEF rootOk, root, base, free
<1>3. CASE has
  BY <1>1, <1>2, <1>3
<1>4. CASE ~has
  <2>1. free \notin DOMAIN base /\ root \in DOMAIN base
    BY <1>2 DEF Shaped, Is
  <2>2. Entered(made, base, root, key, free, Dictionary(root, << >>))
    BY <1>2, <2>1, EnterNew
  <2>. HIDE DEF made
  <2>3. Shaped(made, free + 1)
    BY <1>2, <2>2 DEF Shaped, Dictionary, Entered
  <2>4. /\ made[root].kind = "dictionary" /\ made[free].kind = "dictionary"
        /\ made[root].entries = With(base[root].entries, key, free)
    BY <2>2 DEF Dictionary, Entered
  <2>. QED
    BY <1>1, <1>2, <1>4, <2>2, <2>3, <2>4 DEF Is, Keys, With, Null, Entered
<1>. QED
  BY <1>3, <1>4

\* With the map intact, a sub-dictionary keeps the graph, and touches neither
\* extension dictionaries nor groups.
LEMMA SubdictionaryKeeps ==
    ASSUME NEW key, next \in Nat, FirstHandle <= next,
           Graph(objects, header.nod, header.groups, next),
           NEW s, s = Subdictionary(key)
    PROVE  /\ s.root = RootDict
           /\ Graph(s.objs, RootDict,
                    IF key = GroupKey THEN s.sub ELSE header.groups, s.free)
           /\ SameExtensions(objects, s.objs)
           /\ SameGroups(objects, s.objs)
<1>. DEFINE has == key \in Keys(objects, RootDict)
                   /\ Is(objects, objects[RootDict].entries[key], "dictionary")
            made == Enter(With(objects, next, Dictionary(RootDict, << >>)),
                          RootDict, key, next)
<1>1. /\ header.nod = RootDict /\ Is(objects, RootDict, "dictionary")
      /\ Shaped(objects, next) /\ RootDict \notin Ents
      /\ next \in Nat \ {Null} /\ next \notin DOMAIN objects /\ next # RootDict
  BY HandlesAssumption DEF Graph, Grouped, Rooted, Shaped, Null
<1>2. /\ s.root = RootDict
      /\ s.sub = IF has THEN objects[RootDict].entries[key] ELSE next
      /\ s.objs = IF has THEN objects ELSE made
      /\ s.free = IF has THEN next ELSE next + 1
  BY <1>1 DEF Subdictionary
<1>3. CASE has
  <2>1. key = GroupKey => s.sub = header.groups
    BY <1>1, <1>2, <1>3 DEF Graph, Grouped
  <2>2. SameExtensions(objects, objects) /\ SameGroups(objects, objects)
    BY DEF SameExtensions, SameGroups
  <2>3. s.objs = objects /\ s.free = next
    BY <1>2, <1>3
  <2>. HIDE DEF has
  <2>. QED
    BY <1>1, <1>2, <2>1, <2>2, <2>3
<1>4. CASE ~has
  <2>1. key \notin Keys(objects, RootDict)
    BY <1>4 DEF Graph, Rooted
  <2>2. Entered(made, objects, RootDict, key, next, Dictionary(RootDict, << >>))
    BY <1>1, EnterNew DEF Is
  <2>3. s.objs = made /\ s.free = next + 1 /\ s.sub = next
    BY <1>2, <1>4
  <2>. HIDE DEF made, has
  <2>4. Graph(made, RootDict, IF key = GroupKey THEN next ELSE header.groups, next + 1)
    BY <1>1, <2>1, <2>2, NewSubdictionary
  <2>5. /\ DOMAIN made = DOMAIN objects \cup {next}
        /\ made[next].kind = "dictionary" /\ made[next].owner = RootDict
        /\ made[RootDict].kind = "dictionary"
        /\ made[RootDict].owner = objects[RootDict].owner
        /\ \A y \in DOMAIN objects : y # RootDict => made[y] = objects[y]
    BY <2>2 DEF Entered, Dictionary
  <2>6. SameExtensions(objects, made)
    BY <1>1, <2>5 DEF SameExtensions, Is
  <2>7. SameGroups(objects, made)
    BY <1>1, <2>5 DEF SameGroups, Is
  <2>. QED
    BY <1>2, <2>3, <2>4, <2>6, <2>7
<1>. QED
  BY <1>3, <1>4

\* The group dictionary that create_group works with: in the map, whatever was
\* removed from it.
LEMMA HomeFound ==
    ASSUME Shaped(objects, next), next \in Nat \ {Null}
    PROVE  /\ Shaped(GroupHome.objs, GroupHome.free)
           /\ GroupHome.free \in Nat \ {Null} /\ next <= GroupHome.free
           /\ Is(GroupHome.objs, GroupHome.sub, "dictionary")
<1>1. CASE Is(objects, header.groups, "dictionary")
  BY <1>1 DEF GroupHome
<1>2. CASE ~Is(objects, header.groups, "dictionary")
  <2>1. GroupHome = Subdictionary(GroupKey)
    BY <1>2 DEF GroupHome
  <2>. QED
    BY <2>1, SubdictionaryFound
<1>. QED
  BY <1>1, <1>2

LEMMA HomeKeeps ==
    ASSUME next \in Nat, FirstHandle <= next,
           Graph(objects, header.nod, header.groups, next)
    PROVE  /\ GroupHome.root = RootDict
           /\ Graph(GroupHome.objs, RootDict, GroupHome.sub, GroupHome.free)
           /\ SameExtensions(objects, GroupHome.objs)
           /\ SameGroups(objects, GroupHome.objs)
<1>1. CASE Is(objects, header.groups, "dictionary")
  <2>1. header.nod = RootDict
    BY DEF Graph, Grouped
  <2>2. SameExtensions(objects, objects) /\ SameGroups(objects, objects)
    BY DEF SameExtensions, SameGroups
  <2>. QED
    BY <1>1, <2>1, <2>2 DEF GroupHome
<1>2. CASE ~Is(objects, header.groups, "dictionary")
  <2>1. GroupHome = Subdictionary(GroupKey)
    BY <1>2 DEF GroupHome
  <2>. QED
    BY <2>1, SubdictionaryKeeps
<1>. QED
  BY <1>1, <1>2

\* extension_dictionary_handle has one answer: what is attached.
LEMMA ExtensionAttached ==
    ASSUME Attached(objects, entities, xdicOf), Shaped(objects, next),
           NEW o \in Ents
    PROVE  ExtensionDictionary(o) = {IF o \in DOMAIN xdicOf THEN xdicOf[o] ELSE Null}
<1>1. o \in DOMAIN xdicOf => xdicOf[o] \in Nat
  BY DEF Attached, Is, Shaped
<1>2. \A d \in DOMAIN objects : Is(objects, d, "dictionary") /\ objects[d].owner = o =>
         o \in DOMAIN xdicOf
  BY DEF Attached
<1>. QED
  BY <1>1, <1>2, HandlesAssumption DEF ExtensionDictionary, Attached

-----------------------------------------------------------------------------
(* Every operation preserves the invariant.                                *)

LEMMA InitEstablishes == Init => GraphInv
<1>. SUFFICES ASSUME Init PROVE GraphInv
  OBVIOUS
<1>. DEFINE root == objects[RootDict]
<1>1. /\ DOMAIN objects = {RootDict, GroupDict}
      /\ root.kind = "dictionary" /\ root.owner = Null
      /\ root.entries = [key \in {GroupKey} |-> GroupDict]
      /\ root = Dictionary(Null, root.entries)
      /\ objects[GroupDict].kind = "dictionary"
      /\ objects[GroupDict].owner = RootDict
      /\ objects[GroupDict].entries = << >>
      /\ objects[GroupDict] = Dictionary(RootDict, << >>)
  BY HandlesAssumption DEF Init, Dictionary
<1>. HIDE DEF root
<1>2. Shaped(objects, next) /\ next \in Nat /\ FirstHandle <= next /\ purges \in Nat
  BY <1>1, HandlesAssumption DEF Init, Shaped, root
<1>3. EntitiesTyped(entities)
  BY DEF Init, EntitiesTyped
<1>4. Rooted(objects)
  BY <1>1, HandlesAssumption DEF Rooted, Is, Keys, root
<1>5. Owned(objects)
  BY <1>1 DEF Owned, Is, Keys
<1>6. Grouped(objects, header.nod, header.groups, next)
  BY <1>1, HandlesAssumption DEF Init, Grouped, Is, Keys, root
<1>7. Attached(objects, entities, xdicOf)
  <2>1. DOMAIN xdicOf = {} /\ \A e \in DOMAIN entities : entities[e].xdic = NoXdic
    BY DEF Init
  <2>2. \A d \in DOMAIN objects : objects[d].owner \notin Ents
    BY <1>1, HandlesAssumption DEF root
  <2>. QED
    BY <2>1, <2>2 DEF Attached
<1>8. Reacting(objects, entities)
  BY <1>1 DEF Init, Reacting, Is, root
<1>. QED
  BY <1>2, <1>3, <1>4, <1>5, <1>6, <1>7, <1>8 DEF GraphInv, Graph

\* What entering an object leaves alone.
LEMMA EnteredKeeps ==
    ASSUME NEW objs, NEW new, NEW d, NEW key, NEW h, NEW x,
           Entered(new, objs, d, key, h, x), Is(objs, d, "dictionary"),
           h \notin DOMAIN objs
    PROVE  /\ x.kind # "dictionary" => SameExtensions(objs, new)
           /\ x.kind # "group" => SameGroups(objs, new)
<1>1. /\ DOMAIN new = DOMAIN objs \cup {h} /\ new[h] = x
      /\ new[d].kind = "dictionary" /\ new[d].owner = objs[d].owner
      /\ \A y \in DOMAIN objs : y # d => new[y] = objs[y]
  BY DEF Entered, Dictionary
<1>. QED
  BY <1>1 DEF SameExtensions, SameGroups, Is

LEMMA EnteredShaped ==
    ASSUME NEW objs, NEW new, NEW d, NEW key, NEW free \in Nat \ {Null}, NEW x,
           Entered(new, objs, d, key, free, x), Shaped(objs, free),
           \/ \E o : x = XRecord(o)
           \/ \E n, m : x = Group(d, n, m),
           Is(objs, d, "dictionary")
    PROVE  Shaped(new, free + 1)
<1>1. /\ DOMAIN new = DOMAIN objs \cup {free} /\ new[free] = x
      /\ new[d] = Dictionary(objs[d].owner, With(objs[d].entries, key, free))
      /\ \A y \in DOMAIN objs : y # d => new[y] = objs[y]
  BY DEF Entered
<1>2. /\ new[d].kind = "dictionary"
      /\ new[d] = Dictionary(new[d].owner, new[d].entries)
      /\ d \in Nat \ {Null} /\ d < free
  BY <1>1 DEF Dictionary, Shaped, Is
<1>3. \/ x.kind = "xrecord" /\ x = XRecord(x.owner)
      \/ /\ x.kind = "group" /\ x = Group(x.owner, x.name, x.members)
         /\ x.owner \in Nat /\ x.owner < free
  BY <1>2 DEF XRecord, Group
<1>. QED
  BY <1>1, <1>2, <1>3 DEF Shaped

LEMMA ExtensionShaped ==
    ASSUME NEW objs, NEW free \in Nat \ {Null}, Shaped(objs, free), NEW o
    PROVE  Shaped(With(objs, free, Dictionary(o, << >>)), free + 1)
BY DEF Shaped, With, Dictionary

\* A new extension dictionary is attached to an owner that had none.
LEMMA AttachAttaches ==
    ASSUME NEW o \in Ents, NEW d \in Nat, o \notin DOMAIN xdicOf,
           d \notin DOMAIN objects, Attach(o, d),
           NEW new, new = With(objects, d, Dictionary(o, << >>)),
           EntitiesTyped(entities), Attached(objects, entities, xdicOf),
           Reacting(objects, entities)
    PROVE  Attached(new, entities', xdicOf') /\ Reacting(new, entities')
<1>1. /\ DOMAIN new = DOMAIN objects \cup {d}
      /\ new[d].kind = "dictionary" /\ new[d].owner = o
      /\ \A y \in DOMAIN objects : new[y] = objects[y]
  BY DEF With, Dictionary
<1>2. /\ DOMAIN xdicOf' = DOMAIN xdicOf \cup {o}
      /\ xdicOf'[o] = d
      /\ \A y \in DOMAIN xdicOf : xdicOf'[y] = xdicOf[y]
  BY DEF Attach, With
<1>3. /\ DOMAIN entities' = DOMAIN entities
      /\ \A e \in DOMAIN entities :
            /\ entities'[e].xdic = IF e = o THEN d ELSE entities[e].xdic
            /\ entities'[e].reactors = entities[e].reactors
  BY DEF Attach, EntitiesTyped
<1>4. Attached(new, entities', xdicOf')
  BY <1>1, <1>2, <1>3 DEF Attached, Is
<1>5. SameGroups(objects, new)
  BY <1>1 DEF SameGroups, Is
<1>6. Reacting(new, entities')
  BY <1>3, <1>5, ReactingKept
<1>. QED
  BY <1>4, <1>6

LEMMA AttachTyped ==
    ASSUME NEW o, NEW d, Attach(o, d), EntitiesTyped(entities)
    PROVE  EntitiesTyped(entities')
BY DEF Attach, EntitiesTyped

LEMMA ExtensionDictionaryPreserves ==
    ASSUME GraphInv, NEW o \in Ents, EnsureExtensionDictionary(o), UNCHANGED purges
    PROVE  GraphInv'
<1>1. /\ next \in Nat \ {Null} /\ FirstHandle <= next /\ next' = next + 1
      /\ objects' = With(objects, next, Dictionary(o, << >>))
      /\ Attach(o, next) /\ header' = header
      /\ next \notin DOMAIN objects
  BY HandlesAssumption DEF GraphInv, EnsureExtensionDictionary, Shaped, Null
<1>2. Shaped(objects', next') /\ EntitiesTyped(entities')
  BY <1>1, ExtensionShaped, AttachTyped DEF GraphInv
<1>3. ASSUME Intact
      PROVE  /\ Graph(objects', header'.nod, header'.groups, next')
             /\ Attached(objects', entities', xdicOf')
             /\ Reacting(objects', entities')
  <2>1. o \notin DOMAIN xdicOf
    <3>1. o \in DOMAIN xdicOf => xdicOf[o] # Null
      BY <1>3 DEF GraphInv, Attached, Is, Shaped
    <3>. QED
      BY <1>3, <3>1, ExtensionAttached DEF GraphInv, EnsureExtensionDictionary
  <2>2. Graph(objects', header'.nod, header'.groups, next')
    BY <1>1, <1>3, NewExtensionDictionary DEF GraphInv
  <2>. QED
    BY <1>1, <1>3, <2>1, <2>2, AttachAttaches DEF GraphInv
<1>. QED
  BY <1>1, <1>2, <1>3, HandlesAssumption DEF GraphInv, Intact

\* ensure_xrecord by the cases of what it finds.
LEMMA XrecordPreserves ==
    ASSUME GraphInv, NEW o \in Ents, NEW key, EnsureXrecord(o, key), UNCHANGED purges
    PROVE  /\ GraphInv'
           /\ Intact => \A d \in ExtensionDictionary(o)' : RecordIn(objects', d, key)
           /\ \A g \in DOMAIN objects' \ DOMAIN objects : objects'[g].kind # "group"
<1>0. next \in Nat \ {Null} /\ FirstHandle <= next /\ next \notin DOMAIN objects
  BY HandlesAssumption DEF GraphInv, Shaped, Null
<1>1. PICK found \in ExtensionDictionary(o) :
        LET d == IF found = Null THEN next ELSE found
            r == IF found = Null THEN next + 1 ELSE next
            base == IF found = Null THEN With(objects, d, Dictionary(o, << >>))
                    ELSE objects
            made == With(base, r, XRecord(d))
        IN IF RecordIn(base, d, key)
           THEN UNCHANGED vars
           ELSE /\ r <= MaxHandle
                /\ objects' = IF Is(base, d, "dictionary")
                              THEN Enter(made, d, key, r) ELSE made
                /\ next' = r + 1
                /\ IF found = Null THEN Attach(o, d)
                   ELSE UNCHANGED <<entities, xdicOf>>
                /\ UNCHANGED header
  BY DEF EnsureXrecord
<1>. DEFINE d == IF found = Null THEN next ELSE found
            r == IF found = Null THEN next + 1 ELSE next
            base == IF found = Null THEN With(objects, d, Dictionary(o, << >>))
                    ELSE objects
            made == With(base, r, XRecord(d))
\* The map with the dictionary, and what is attached in it.
<1>2. r \in Nat \ {Null} /\ FirstHandle <= r /\ next <= r /\ r \notin DOMAIN base
      /\ Shaped(base, r)
  <2>1. CASE found = Null
    <3>1. Shaped(base, next + 1)
      BY <1>0, <2>1, ExtensionShaped DEF GraphInv
    <3>. QED
      BY <1>0, <2>1, <3>1, HandlesAssumption DEF Shaped, Null
  <2>2. CASE found # Null
    BY <1>0, <2>2 DEF GraphInv
  <2>. QED
    BY <2>1, <2>2
<1>3. ASSUME Intact
      PROVE  found = IF o \in DOMAIN xdicOf THEN xdicOf[o] ELSE Null
  BY <1>1, <1>3, ExtensionAttached DEF GraphInv
<1>4. ASSUME Intact
      PROVE  /\ Graph(base, header.nod, header.groups, r)
             /\ Is(base, d, "dictionary") /\ base[d].owner = o
             /\ found = Null => o \notin DOMAIN xdicOf
  <2>1. CASE found = Null
    <3>1. Graph(base, header.nod, header.groups, next + 1)
      BY <1>0, <1>4, <2>1, NewExtensionDictionary DEF GraphInv
    <3>2. DOMAIN base = DOMAIN objects \cup {next} /\ base[next] = Dictionary(o, << >>)
      BY <2>1 DEF With
    <3>3. o \in DOMAIN xdicOf => xdicOf[o] # Null
      BY <1>4 DEF GraphInv, Attached, Is, Shaped
    <3>. QED
      BY <1>3, <1>4, <2>1, <3>1, <3>2, <3>3 DEF Is, Dictionary
  <2>2. CASE found # Null
    <3>1. found = xdicOf[o] /\ o \in DOMAIN xdicOf
      BY <1>3, <1>4, <2>2
    <3>2. Is(objects, xdicOf[o], "dictionary") /\ objects[xdicOf[o]].owner = o
      BY <1>4, <3>1 DEF GraphInv, Attached
    <3>. QED
      BY <1>4, <2>2, <3>1, <3>2 DEF GraphInv
  <2>. QED
    BY <2>1, <2>2
<1>5. CASE RecordIn(base, d, key)
  <2>1. UNCHANGED vars
    BY <1>1, <1>5
  <2>2. GraphInv'
    BY <2>1 DEF vars, GraphInv, Intact, Graph, Shaped, Rooted, Owned, Grouped,
                Attached, Reacting, EntitiesTyped, Is, Keys, NamedIn
  <2>3. ASSUME Intact PROVE \A x \in ExtensionDictionary(o)' : RecordIn(objects', x, key)
    <3>1. ExtensionDictionary(o)' = ExtensionDictionary(o) /\ objects' = objects
      BY <2>1 DEF vars, ExtensionDictionary, Is
    <3>2. ExtensionDictionary(o) = {found}
      BY <1>3, <2>3, ExtensionAttached DEF GraphInv
    <3>3. found # Null
      <4>1. ASSUME found = Null PROVE FALSE
        <5>1. base[d].entries = << >>
          BY <1>0, <4>1 DEF With, Dictionary
        <5>. QED
          BY <1>5, <5>1 DEF RecordIn, Keys
      <4>. QED
        BY <4>1
    <3>. QED
      BY <1>5, <3>1, <3>2, <3>3
  <2>. QED
    BY <2>1, <2>2, <2>3 DEF vars
<1>6. CASE ~RecordIn(base, d, key)
  <2>1. /\ objects' = IF Is(base, d, "dictionary") THEN Enter(made, d, key, r) ELSE made
        /\ next' = r + 1
        /\ IF found = Null THEN Attach(o, d) ELSE UNCHANGED <<entities, xdicOf>>
        /\ UNCHANGED header
    BY <1>1, <1>6
  <2>2. EntitiesTyped(entities')
    BY <2>1, AttachTyped DEF GraphInv
  <2>3. Is(base, d, "dictionary") => Entered(objects', base, d, key, r, XRecord(d))
    <3>1. d \in DOMAIN base => r \notin DOMAIN base
      BY <1>2
    <3>. HIDE DEF base, d, r
    <3>. QED
      BY <1>2, <2>1, <3>1, EnterNew DEF Is, made
  <2>4. Shaped(objects', next')
    <3>1. CASE Is(base, d, "dictionary")
      <4>. HIDE DEF base, d, r, made
      <4>. QED
        BY <1>2, <2>1, <2>3, <3>1, EnteredShaped
    <3>2. CASE ~Is(base, d, "dictionary")
      <4>1. objects' = With(base, r, XRecord(d))
        BY <2>1, <3>2
      <4>. HIDE DEF base, d, r, made
      <4>2. XRecord(d).kind = "xrecord" /\ XRecord(d) = XRecord(XRecord(d).owner)
        BY DEF XRecord
      <4>. QED
        BY <1>2, <2>1, <4>1, <4>2 DEF Shaped, With
    <3>. QED
      BY <3>1, <3>2
  <2>5. ASSUME Intact
        PROVE  /\ Graph(objects', header'.nod, header'.groups, next')
               /\ Attached(objects', entities', xdicOf')
               /\ Reacting(objects', entities')
               /\ \A x \in ExtensionDictionary(o)' : RecordIn(objects', x, key)
    <3>1. Attached(base, entities', xdicOf') /\ Reacting(base, entities')
      BY <1>0, <1>4, <2>1, <2>5, AttachAttaches DEF GraphInv
    <3>2. d \in DOMAIN base /\ Entered(objects', base, d, key, r, XRecord(d))
      BY <1>4, <2>3, <2>5 DEF Is
    <3>. HIDE DEF base, d, r, made
    <3>3. Graph(objects', header'.nod, header'.groups, next')
      BY <1>2, <1>4, <2>1, <2>5, <3>2, NewRecord
    <3>4. XRecord(d).kind = "xrecord"
      BY DEF XRecord
    <3>5. SameExtensions(base, objects') /\ SameGroups(base, objects')
      BY <1>2, <1>4, <2>5, <3>2, <3>4, EnteredKeeps
    <3>6. Attached(objects', entities', xdicOf') /\ Reacting(objects', entities')
      BY <3>1, <3>5, AttachedKept, ReactingKept
    <3>7. ExtensionDictionary(o)' = {d}
      <4>1. o \in DOMAIN xdicOf' /\ xdicOf'[o] = d /\ d \in Nat
        BY <1>3, <2>1, <2>5, <1>0, <1>2, <3>2 DEF d, Attach, With, Shaped
      <4>. QED
        BY <3>6, <4>1, HandlesAssumption DEF ExtensionDictionary, Attached
    <3>8. RecordIn(objects', d, key)
      BY <1>2, <3>2 DEF Entered, RecordIn, Is, Keys, With, Dictionary, XRecord
    <3>. QED
      BY <3>3, <3>6, <3>7, <3>8
  <2>6. next' \in Nat /\ FirstHandle <= next'
    BY <1>2, <2>1, HandlesAssumption
  <2>7. \A g \in DOMAIN objects' \ DOMAIN objects : objects'[g].kind # "group"
    <3>1. \A y \in DOMAIN base \ DOMAIN objects : base[y].kind = "dictionary"
      <4>1. CASE found = Null
        BY <4>1 DEF With, Dictionary
      <4>2. CASE found # Null
        BY <4>2
      <4>. QED
        BY <4>1, <4>2
    <3>. HIDE DEF base, d, r, made
    <3>2. CASE Is(base, d, "dictionary")
      BY <2>3, <3>1, <3>2 DEF Entered, Dictionary, XRecord
    <3>3. CASE ~Is(base, d, "dictionary")
      BY <2>1, <3>1, <3>3 DEF made, With, XRecord
    <3>. QED
      BY <3>2, <3>3
  <2>. QED
    BY <2>2, <2>4, <2>5, <2>6, <2>7 DEF GraphInv, Intact
<1>. QED
  BY <1>5, <1>6

LEMMA SubdictionaryPreserves ==
    ASSUME GraphInv, NEW key \in SubKeys, EnsureSubdictionary(key), UNCHANGED purges
    PROVE  GraphInv'
<1>. DEFINE s == Subdictionary(key)
<1>1. /\ objects' = s.objs /\ header' = [header EXCEPT !.nod = s.root]
      /\ next' = s.free /\ entities' = entities /\ xdicOf' = xdicOf
      /\ next \in Nat \ {Null} /\ key # GroupKey
  BY HandlesAssumption, NamesAssumption DEF EnsureSubdictionary, GraphInv, Null
<1>. HIDE DEF s
<1>2. Shaped(objects', next') /\ next' \in Nat /\ next <= next'
  BY <1>1, SubdictionaryFound DEF GraphInv, s
<1>3. ASSUME Intact
      PROVE  /\ Graph(objects', header'.nod, header'.groups, next')
             /\ Attached(objects', entities', xdicOf')
             /\ Reacting(objects', entities')
  <2>1. /\ s.root = RootDict
        /\ Graph(s.objs, RootDict, IF key = GroupKey THEN s.sub ELSE header.groups, s.free)
        /\ SameExtensions(objects, s.objs)
        /\ SameGroups(objects, s.objs)
    BY <1>3, SubdictionaryKeeps DEF GraphInv, s
  <2>2. header.nod = RootDict
    BY <1>3 DEF GraphInv, Graph, Grouped
  <2>3. header'.nod = header.nod /\ header'.groups = header.groups
    BY <1>1, <2>1, <2>2
  <2>. QED
    BY <1>1, <1>3, <2>1, <2>2, <2>3, AttachedKept, ReactingKept DEF GraphInv
<1>. QED
  BY <1>1, <1>2, <1>3, HandlesAssumption DEF GraphInv, Intact

LEMMA RemoveSubdictionaryPreserves ==
    ASSUME GraphInv, NEW key, RemoveSubdictionary(key), UNCHANGED purges
    PROVE  GraphInv'
<1>. DEFINE nod == header.nod
            sub == objects[nod].entries[key]
            entries == Without(objects[nod].entries, key)
            root == [objects[nod] EXCEPT !.entries = Without(@, key)]
<1>1. /\ Is(objects, nod, "dictionary") /\ key \in Keys(objects, nod)
      /\ objects' = Without(With(objects, nod, root), sub)
      /\ UNCHANGED <<entities, xdicOf, header, next>>
  BY DEF RemoveSubdictionary
<1>2. root = Dictionary(objects[nod].owner, entries)
  <2>1. objects[nod] = Dictionary(objects[nod].owner, objects[nod].entries)
    BY <1>1 DEF GraphInv, Shaped, Is
  <2>. QED
    BY <2>1 DEF Dictionary
<1>. HIDE DEF root, sub
<1>3. /\ DOMAIN objects' = DOMAIN objects \ {sub}
      /\ \A y \in DOMAIN objects' : objects'[y] = IF y = nod THEN root ELSE objects[y]
  BY <1>1 DEF Without, With, Is
<1>4. Shaped(objects', next')
  <2>1. root.kind = "dictionary" /\ root = Dictionary(root.owner, root.entries)
    BY <1>2 DEF Dictionary
  <2>. QED
    BY <1>1, <1>3, <2>1 DEF GraphInv, Shaped
<1>5. ASSUME Intact
      PROVE  /\ Graph(objects', header'.nod, header'.groups, next')
             /\ Attached(objects', entities', xdicOf')
             /\ Reacting(objects', entities')
  <2>1. nod = RootDict /\ RootDict \notin Ents /\ Null \notin Ents
    BY <1>5, HandlesAssumption DEF GraphInv, Graph, Grouped
  <2>2. /\ Is(objects, sub, "dictionary") /\ objects[sub].owner = RootDict
        /\ objects[RootDict].owner = Null /\ RootDict # Null
    BY <1>1, <1>5, <2>1, HandlesAssumption DEF GraphInv, Graph, Rooted, sub
  <2>3. sub # RootDict
    BY <2>2
  <2>4. /\ key \in Keys(objects, RootDict) /\ sub = objects[RootDict].entries[key]
        /\ objects'[RootDict] = Dictionary(objects[RootDict].owner,
                                           Without(objects[RootDict].entries, key))
        /\ \A y \in DOMAIN objects' : y # RootDict => objects'[y] = objects[y]
    BY <1>1, <1>2, <1>3, <2>1, <2>3 DEF sub, Is
  <2>5. Graph(objects', RootDict, header.groups, next)
    <3>1. Graph(objects, RootDict, header.groups, next) /\ next \in Nat
      BY <1>5, <2>1 DEF GraphInv
    <3>. QED
      BY <1>3, <2>4, <3>1, SubdictionaryRemoved
  <2>6. /\ objects'[RootDict].kind = "dictionary"
        /\ objects'[RootDict].owner = Null
    BY <2>2, <2>4 DEF Dictionary
  <2>7. SameExtensions(objects, objects') /\ SameGroups(objects, objects')
    BY <1>1, <1>3, <2>1, <2>2, <2>4, <2>6 DEF SameExtensions, SameGroups, Is
  <2>. QED
    BY <1>1, <1>5, <2>1, <2>5, <2>7, AttachedKept, ReactingKept DEF GraphInv
<1>. QED
  BY <1>1, <1>4, <1>5 DEF GraphInv, Intact

\* The new group, whichever of the two operations makes it.
LEMMA GroupPreserves ==
    ASSUME GraphInv, NEW name, NEW members,
           MakeGroup(GroupHome, name, members), UNCHANGED purges,
           name \in Keys(GroupHome.objs, GroupHome.sub) =>
               ReuseNames /\ name \in GroupNames
    PROVE  /\ GraphInv'
           /\ NamedIn(objects', header'.groups, name) = GroupHome.free
           /\ objects'[GroupHome.free].name = name
           /\ \A g \in DOMAIN objects' \ DOMAIN objects :
                 objects'[g].kind = "group" => g = GroupHome.free
<1>. DEFINE sub == GroupHome.sub
            objs == GroupHome.objs
            g == GroupHome.free
            x == Group(sub, name, members)
<1>1. /\ objects' = Enter(With(objs, g, x), sub, name, g)
      /\ entities' = [e \in DOMAIN entities |->
                         IF e \in members
                         THEN [entities[e] EXCEPT !.reactors = @ \cup {g}]
                         ELSE entities[e]]
      /\ header' = [nod |-> GroupHome.root, groups |-> sub]
      /\ next' = g + 1 /\ xdicOf' = xdicOf
  BY DEF MakeGroup
<1>2. /\ Shaped(objs, g) /\ g \in Nat \ {Null} /\ next <= g /\ next \in Nat \ {Null}
      /\ Is(objs, sub, "dictionary") /\ sub \in DOMAIN objs /\ g \notin DOMAIN objs
  BY HomeFound, HandlesAssumption DEF GraphInv, Shaped, Is, Null
<1>. HIDE DEF sub, objs, g
<1>3. Entered(objects', objs, sub, name, g, x)
  BY <1>1, <1>2, EnterNew
<1>4. Shaped(objects', next')
  BY <1>1, <1>2, <1>3, EnteredShaped
<1>5. EntitiesTyped(entities')
  <2>1. ASSUME NEW e \in DOMAIN entities
        PROVE  entities'[e] = [xdic |-> entities'[e].xdic,
                               reactors |-> entities'[e].reactors]
    <3>1. entities[e] = [xdic |-> entities[e].xdic, reactors |-> entities[e].reactors]
      BY DEF GraphInv, EntitiesTyped
    <3>. QED
      BY <1>1, <3>1
  <2>. QED
    BY <1>1, <2>1 DEF GraphInv, EntitiesTyped
<1>6. /\ DOMAIN objects' = DOMAIN objs \cup {g} /\ objects'[g] = x
      /\ \A y \in DOMAIN objs : objects'[y].kind = objs[y].kind
      /\ \A y \in DOMAIN objs : Is(objs, y, "group") => objects'[y] = objs[y]
      /\ x.kind = "group" /\ x.name = name /\ x.members = members
  BY <1>2, <1>3 DEF Entered, Dictionary, Group, Is
<1>7. ASSUME Intact
      PROVE  /\ Graph(objects', header'.nod, header'.groups, next')
             /\ Attached(objects', entities', xdicOf')
             /\ Reacting(objects', entities')
  <2>1. /\ GroupHome.root = RootDict /\ Graph(objs, RootDict, sub, g)
        /\ SameExtensions(objects, objs) /\ SameGroups(objects, objs)
    BY <1>7, HomeKeeps DEF GraphInv, sub, objs, g
  <2>2. Graph(objects', RootDict, sub, g + 1)
    BY <1>2, <1>3, <2>1, NewGroup DEF sub, objs
  <2>3. SameExtensions(objs, objects')
    <3>1. x.kind # "dictionary"
      BY <1>6
    <3>. QED
      BY <1>2, <1>3, <3>1, EnteredKeeps
  <2>4. Attached(objects', entities', xdicOf')
    <3>1. /\ DOMAIN entities' = DOMAIN entities
          /\ \A e \in DOMAIN entities : entities'[e].xdic = entities[e].xdic
      BY <1>1 DEF GraphInv, EntitiesTyped
    <3>2. Attached(objs, entities, xdicOf)
      BY <1>7, <2>1, AttachedKept DEF GraphInv
    <3>. QED
      BY <1>1, <2>3, <3>1, <3>2, AttachedKept
  <2>5. Reacting(objects', entities')
    <3>. SUFFICES ASSUME NEW e \in DOMAIN entities
                  PROVE  entities'[e].reactors =
                           {h \in DOMAIN objects' : Is(objects', h, "group")
                                                    /\ e \in objects'[h].members}
      BY <1>1 DEF Reacting
    <3>1. Reacting(objs, entities)
      BY <1>7, <2>1, ReactingKept DEF GraphInv
    <3>2. entities[e].reactors =
             {h \in DOMAIN objs : Is(objs, h, "group") /\ e \in objs[h].members}
      BY <3>1 DEF Reacting
    <3>3. entities'[e].reactors = IF e \in members THEN entities[e].reactors \cup {g}
                                  ELSE entities[e].reactors
      BY <1>1 DEF GraphInv, EntitiesTyped
    <3>4. \A h \in DOMAIN objs :
             /\ Is(objects', h, "group") <=> Is(objs, h, "group")
             /\ Is(objs, h, "group") => objects'[h].members = objs[h].members
      BY <1>6 DEF Is
    <3>5. Is(objects', g, "group") /\ objects'[g].members = members
      BY <1>6 DEF Is
    <3>. QED
      BY <1>6, <1>2, <3>2, <3>3, <3>4, <3>5
  <2>. QED
    BY <1>1, <2>1, <2>2, <2>4, <2>5
<1>8. NamedIn(objects', header'.groups, name) = g /\ objects'[g].name = name
  <2>1. /\ objects'[sub].kind = "dictionary" /\ sub \in DOMAIN objects'
        /\ objects'[sub].entries = With(objs[sub].entries, name, g)
    BY <1>2, <1>3 DEF Entered, Dictionary
  <2>. QED
    BY <1>1, <1>6, <2>1 DEF NamedIn, Is, Keys, With
<1>9. ASSUME NEW h \in DOMAIN objects' \ DOMAIN objects, objects'[h].kind = "group"
      PROVE  h = g
  <2>1. CASE Is(objects, header.groups, "dictionary")
    <3>1. objs = objects
      BY <2>1 DEF GroupHome, objs
    <3>. QED
      BY <1>6, <1>9, <3>1
  <2>2. CASE ~Is(objects, header.groups, "dictionary")
    <3>1. GroupHome = Subdictionary(GroupKey)
      BY <2>2 DEF GroupHome
    <3>. DEFINE s == Subdictionary(GroupKey)
    <3>2. \A y \in DOMAIN s.objs \ DOMAIN objects : s.objs[y].kind = "dictionary"
      BY SubdictionaryFound, HandlesAssumption DEF GraphInv, Null
    <3>. QED
      BY <1>6, <1>9, <3>1, <3>2 DEF objs
  <2>. QED
    BY <2>1, <2>2
<1>. QED
  BY <1>1, <1>2, <1>4, <1>5, <1>7, <1>8, <1>9, HandlesAssumption
  DEF GraphInv, Intact, g

\* What a name leads to in the group dictionary is a group, as long as the map
\* is intact.
LEMMA NamedIsGroup ==
    ASSUME NEW objs, NEW free, NEW groups, NEW name,
           Graph(objs, RootDict, groups, free), NamedIn(objs, groups, name) # Null
    PROVE  /\ Is(objs, groups, "dictionary") /\ name \in Keys(objs, groups)
           /\ NamedIn(objs, groups, name) = objs[groups].entries[name]
           /\ Is(objs, NamedIn(objs, groups, name), "group")
<1>1. /\ Is(objs, groups, "dictionary") /\ name \in Keys(objs, groups)
      /\ NamedIn(objs, groups, name) = objs[groups].entries[name]
  BY DEF NamedIn
<1>2. groups # RootDict /\ objs[groups].owner = RootDict /\ RootDict \notin Ents
  BY <1>1, HandlesAssumption DEF Graph, Grouped
<1>. QED
  BY <1>1, <1>2 DEF Graph, Owned, Is

\* The members of a group and the reactors of their entities change together.
LEMMA MembersPreserve ==
    ASSUME GraphInv, NEW g, Is(objects, g, "group"), NEW e, NEW members,
           members \subseteq objects[g].members \cup {e},
           objects[g].members \ {e} \subseteq members,
           objects' = [objects EXCEPT ![g].members = members],
           entities' = IF e \in DOMAIN entities
                       THEN [entities EXCEPT ![e].reactors =
                                IF e \in members THEN @ \cup {g} ELSE @ \ {g}]
                       ELSE entities,
           UNCHANGED <<xdicOf, header, next, purges>>
    PROVE  GraphInv'
<1>. DEFINE x == Group(objects[g].owner, objects[g].name, members)
<1>1. g \in DOMAIN objects /\ objects[g].kind = "group" /\ next \in Nat
  BY DEF Is, GraphInv
<1>2. /\ DOMAIN objects' = DOMAIN objects
      /\ \A y \in DOMAIN objects : y # g => objects'[y] = objects[y]
      /\ objects'[g] = [objects[g] EXCEPT !.members = members]
  BY <1>1
<1>3. objects[g] = Group(objects[g].owner, objects[g].name, objects[g].members)
  BY <1>1 DEF GraphInv, Shaped
<1>4. [objects[g] EXCEPT !.members = members] = x
  BY <1>3 DEF Group
<1>5. /\ objects'[g] = x /\ x.kind = "group" /\ x.members = members
      /\ x.owner = objects[g].owner /\ x = Group(x.owner, x.name, x.members)
  BY <1>2, <1>4 DEF Group
<1>. HIDE DEF x
<1>6. Shaped(objects', next')
  BY <1>1, <1>2, <1>5 DEF GraphInv, Shaped
<1>7. /\ DOMAIN entities' = DOMAIN entities
      /\ \A f \in DOMAIN entities :
            /\ entities'[f].xdic = entities[f].xdic
            /\ entities'[f].reactors =
                  IF f # e THEN entities[f].reactors
                  ELSE IF e \in members THEN entities[f].reactors \cup {g}
                  ELSE entities[f].reactors \ {g}
            /\ entities'[f] = [xdic |-> entities'[f].xdic,
                               reactors |-> entities'[f].reactors]
  <2>1. \A f \in DOMAIN entities :
           entities[f] = [xdic |-> entities[f].xdic, reactors |-> entities[f].reactors]
    BY DEF GraphInv, EntitiesTyped
  <2>2. CASE e \in DOMAIN entities
    <3>. DEFINE R == IF e \in members THEN entities[e].reactors \cup {g}
                     ELSE entities[e].reactors \ {g}
    <3>1. /\ DOMAIN entities' = DOMAIN entities
          /\ \A f \in DOMAIN entities : f # e => entities'[f] = entities[f]
          /\ entities'[e] = [entities[e] EXCEPT !.reactors = R]
      BY <2>2
    <3>2. [entities[e] EXCEPT !.reactors = R] = [xdic |-> entities[e].xdic, reactors |-> R]
      <4>. HIDE DEF R
      <4>. QED
        BY <2>1, <2>2
    <3>. QED
      BY <2>1, <3>1, <3>2
  <2>3. CASE e \notin DOMAIN entities
    BY <2>1, <2>3
  <2>. QED
    BY <2>2, <2>3
<1>8. EntitiesTyped(entities')
  <2>1. entities' = [f \in DOMAIN entities' |-> entities'[f]]
    <3>1. entities = [f \in DOMAIN entities |-> entities[f]]
      BY DEF GraphInv, EntitiesTyped
    <3>. QED
      BY <3>1
  <2>. QED
    BY <1>7, <2>1 DEF GraphInv, EntitiesTyped
<1>9. ASSUME Intact
      PROVE  /\ Graph(objects', header'.nod, header'.groups, next')
             /\ Attached(objects', entities', xdicOf')
             /\ Reacting(objects', entities')
  <2>1. Graph(objects', header.nod, header.groups, next)
    BY <1>1, <1>2, <1>5, <1>9, NewMembers DEF GraphInv, x
  <2>2. SameExtensions(objects, objects')
    BY <1>1, <1>2, <1>5 DEF SameExtensions, Is
  <2>3. Attached(objects', entities', xdicOf')
    <3>1. /\ DOMAIN entities' \subseteq DOMAIN entities
          /\ \A f \in DOMAIN entities' : entities'[f].xdic = entities[f].xdic
      BY <1>7
    <3>2. Attached(objects, entities, xdicOf')
      BY <1>9 DEF GraphInv
    <3>. QED
      BY <2>2, <3>1, <3>2 DEF Attached, SameExtensions, Is
  <2>4. Reacting(objects', entities')
    <3>. SUFFICES ASSUME NEW f \in DOMAIN entities
                  PROVE  entities'[f].reactors =
                           {h \in DOMAIN objects' : Is(objects', h, "group")
                                                    /\ f \in objects'[h].members}
      BY <1>7 DEF Reacting
    <3>1. entities[f].reactors =
             {h \in DOMAIN objects : Is(objects, h, "group") /\ f \in objects[h].members}
      BY <1>9 DEF GraphInv, Reacting
    <3>2. \A h \in DOMAIN objects : h # g =>
             /\ Is(objects', h, "group") <=> Is(objects, h, "group")
             /\ Is(objects, h, "group") => objects'[h].members = objects[h].members
      BY <1>2 DEF Is
    <3>3. Is(objects', g, "group") /\ objects'[g].members = members
      BY <1>1, <1>2, <1>5 DEF Is
    <3>. DEFINE before == {h \in DOMAIN objects : Is(objects, h, "group")
                                                 /\ f \in objects[h].members}
                after == {h \in DOMAIN objects' : Is(objects', h, "group")
                                                 /\ f \in objects'[h].members}
    <3>4. /\ \A h : h # g => (h \in after <=> h \in before)
          /\ g \in after <=> f \in members
          /\ g \in before <=> f \in objects[g].members
      BY <1>1, <1>2, <3>2, <3>3 DEF Is
    <3>5. f # e => (f \in members <=> f \in objects[g].members)
      OBVIOUS
    <3>6. entities'[f].reactors = IF f # e THEN before
                                  ELSE IF e \in members THEN before \cup {g}
                                  ELSE before \ {g}
      BY <1>7, <3>1
    <3>. HIDE DEF before, after
    <3>7. entities'[f].reactors = after
      BY <3>4, <3>5, <3>6
    <3>. QED
      BY <3>7 DEF after
  <2>. QED
    BY <2>1, <2>3, <2>4
<1>. QED
  BY <1>6, <1>8, <1>9 DEF GraphInv, Intact

LEMMA AddToGroupPreserves ==
    ASSUME GraphInv, NEW name, NEW e, AddEntityToGroup(name, e), UNCHANGED purges
    PROVE  GraphInv'
<1>. DEFINE g == GroupNamed(name)
            members == objects[g].members \cup {e}
<1>1. /\ Is(objects, g, "group")
      /\ objects' = [objects EXCEPT ![g].members = members]
      /\ entities' = IF e \in DOMAIN entities
                     THEN [entities EXCEPT ![e].reactors = @ \cup {g}]
                     ELSE entities
      /\ UNCHANGED <<xdicOf, header, next>>
  BY DEF AddEntityToGroup
<1>2. /\ members \subseteq objects[g].members \cup {e}
      /\ objects[g].members \ {e} \subseteq members /\ e \in members
  OBVIOUS
<1>. HIDE DEF g, members
<1>. QED
  BY <1>1, <1>2, MembersPreserve

LEMMA RemoveFromGroupPreserves ==
    ASSUME GraphInv, NEW name, NEW e, RemoveEntityFromGroup(name, e), UNCHANGED purges
    PROVE  GraphInv'
<1>. DEFINE g == GroupNamed(name)
            members == objects[g].members \ {e}
<1>1. /\ Is(objects, g, "group")
      /\ objects' = [objects EXCEPT ![g].members = members]
      /\ entities' = IF e \in DOMAIN entities
                     THEN [entities EXCEPT ![e].reactors = @ \ {g}]
                     ELSE entities
      /\ UNCHANGED <<xdicOf, header, next>>
  BY DEF RemoveEntityFromGroup
<1>2. /\ members \subseteq objects[g].members \cup {e}
      /\ objects[g].members \ {e} \subseteq members /\ e \notin members
  OBVIOUS
<1>. HIDE DEF g, members
<1>. QED
  BY <1>1, <1>2, MembersPreserve

\* The two operations make a group under a name the dictionary did not have, or
\* that a caller reuses.
LEMMA CreateGroupMakes ==
    ASSUME NEW name \in GroupNames, NEW m, CreateGroup(name, m)
    PROVE  /\ MakeGroup(GroupHome, name, m)
           /\ name \in Keys(GroupHome.objs, GroupHome.sub) =>
                  ReuseNames /\ name \in GroupNames
BY DEF CreateGroup

LEMMA CreateUnnamedGroupMakes ==
    ASSUME NEW m, CreateUnnamedGroup(m)
    PROVE  \E name : /\ MakeGroup(GroupHome, name, m)
                     /\ name \in Keys(GroupHome.objs, GroupHome.sub) =>
                            ReuseNames /\ name \in GroupNames
BY DEF CreateUnnamedGroup

\* remove_group by what the name leads to.
LEMMA RemoveGroupPreserves ==
    ASSUME GraphInv, NEW name, RemoveGroup(name), UNCHANGED purges
    PROVE  GraphInv'
<1>. DEFINE groups == header.groups
            g == GroupNamed(name)
            rest == [objects EXCEPT ![groups].entries = Without(@, name)]
            home == Dictionary(objects[groups].owner,
                               Without(objects[groups].entries, name))
<1>1. /\ g # Null /\ UNCHANGED <<xdicOf, header, next>>
      /\ IF Is(objects, g, "group")
         THEN /\ objects' = Without(rest, g)
              /\ entities' = [e \in DOMAIN entities |->
                                IF e \in objects[g].members
                                THEN [entities[e] EXCEPT !.reactors = @ \ {g}]
                                ELSE entities[e]]
         ELSE objects' = rest /\ UNCHANGED entities
  BY DEF RemoveGroup
<1>2. /\ Is(objects, groups, "dictionary") /\ name \in Keys(objects, groups)
      /\ g = objects[groups].entries[name]
  BY <1>1 DEF GroupNamed, NamedIn
<1>3. /\ DOMAIN rest = DOMAIN objects /\ rest[groups] = home
      /\ \A y \in DOMAIN objects : y # groups => rest[y] = objects[y]
  <2>1. objects[groups] = Dictionary(objects[groups].owner, objects[groups].entries)
    BY <1>2 DEF GraphInv, Shaped, Is
  <2>. DEFINE v == Without(objects[groups].entries, name)
  <2>2. rest = [objects EXCEPT ![groups] = [objects[groups] EXCEPT !.entries = v]]
    BY <1>2 DEF Is
  <2>. HIDE DEF v, rest
  <2>3. [objects[groups] EXCEPT !.entries = v] = Dictionary(objects[groups].owner, v)
    BY <2>1 DEF Dictionary
  <2>. QED
    BY <1>2, <2>2, <2>3 DEF Is, v
<1>. HIDE DEF rest
<1>4. /\ DOMAIN objects' = DOMAIN objects \ (IF Is(objects, g, "group") THEN {g} ELSE {})
      /\ \A y \in DOMAIN objects' :
            objects'[y] = IF y = groups THEN home ELSE objects[y]
  BY <1>1, <1>2, <1>3 DEF Without
<1>5. home.kind = "dictionary" /\ home = Dictionary(home.owner, home.entries)
      /\ home.owner = objects[groups].owner
  BY DEF Dictionary
<1>. HIDE DEF home
<1>6. Shaped(objects', next')
  BY <1>1, <1>4, <1>5 DEF GraphInv, Shaped
<1>7. /\ DOMAIN entities' = DOMAIN entities
      /\ \A e \in DOMAIN entities :
            /\ entities'[e].xdic = entities[e].xdic
            /\ entities'[e].reactors =
                  IF Is(objects, g, "group") /\ e \in objects[g].members
                  THEN entities[e].reactors \ {g} ELSE entities[e].reactors
            /\ entities'[e] = [xdic |-> entities'[e].xdic,
                               reactors |-> entities'[e].reactors]
  <2>1. \A e \in DOMAIN entities :
           entities[e] = [xdic |-> entities[e].xdic, reactors |-> entities[e].reactors]
    BY DEF GraphInv, EntitiesTyped
  <2>. HIDE DEF g
  <2>. QED
    BY <1>1, <2>1
<1>8. EntitiesTyped(entities')
  <2>1. entities = [e \in DOMAIN entities |-> entities[e]]
    BY DEF GraphInv, EntitiesTyped
  <2>2. entities' = [e \in DOMAIN entities' |-> entities'[e]]
    BY <1>1, <2>1
  <2>. QED
    BY <1>7, <2>2 DEF GraphInv, EntitiesTyped
<1>9. ASSUME Intact
      PROVE  /\ Graph(objects', header'.nod, header'.groups, next')
             /\ Attached(objects', entities', xdicOf')
             /\ Reacting(objects', entities')
  <2>1. header.nod = RootDict /\ Graph(objects, RootDict, groups, next)
    BY <1>9 DEF GraphInv, Graph, Grouped
  <2>2. Is(objects, g, "group") /\ g = NamedIn(objects, groups, name)
    BY <1>1, <2>1, NamedIsGroup DEF GroupNamed
  <2>3. g # groups
    BY <1>2, <2>2 DEF Is
  <2>4. /\ DOMAIN objects' = DOMAIN objects \ {g}
        /\ objects'[groups] = home
        /\ \A y \in DOMAIN objects' : y # groups => objects'[y] = objects[y]
    BY <1>2, <1>4, <2>2, <2>3 DEF Is
  <2>5. Graph(objects', RootDict, groups, next)
    <3>1. /\ name \in Keys(objects, groups) /\ Is(objects, groups, "dictionary")
          /\ g = objects[groups].entries[name]
          /\ DOMAIN objects' = DOMAIN objects \ {g}
          /\ objects'[groups] = Dictionary(objects[groups].owner,
                                           Without(objects[groups].entries, name))
          /\ \A y \in DOMAIN objects' : y # groups => objects'[y] = objects[y]
      BY <1>2, <2>4 DEF home
    <3>. HIDE DEF groups, g
    <3>2. Graph(objects, RootDict, groups, next) /\ next \in Nat
      BY <2>1 DEF GraphInv
    <3>. QED
      BY <3>1, <3>2, GroupRemoved
  <2>6. SameExtensions(objects, objects')
    BY <1>2, <1>5, <2>2, <2>4 DEF SameExtensions, Is
  <2>7. Attached(objects', entities', xdicOf')
    <3>1. /\ DOMAIN entities' = DOMAIN entities
          /\ \A e \in DOMAIN entities : entities'[e].xdic = entities[e].xdic
      BY <1>7
    <3>2. Attached(objects, entities, xdicOf')
      BY <1>1, <1>9 DEF GraphInv
    <3>. QED
      BY <2>6, <3>1, <3>2 DEF Attached, SameExtensions, Is
  <2>8. Reacting(objects', entities')
    <3>. SUFFICES ASSUME NEW e \in DOMAIN entities
                  PROVE  entities'[e].reactors =
                           {h \in DOMAIN objects' : Is(objects', h, "group")
                                                    /\ e \in objects'[h].members}
      BY <1>7 DEF Reacting
    <3>. DEFINE before == {h \in DOMAIN objects : Is(objects, h, "group")
                                                 /\ e \in objects[h].members}
                after == {h \in DOMAIN objects' : Is(objects', h, "group")
                                                 /\ e \in objects'[h].members}
    <3>1. entities[e].reactors = before
      BY <1>9 DEF GraphInv, Reacting
    <3>2. g \in before <=> e \in objects[g].members
      BY <2>2 DEF Is
    <3>3. after = before \ {g}
      BY <1>2, <1>5, <2>4 DEF Is
    <3>. HIDE DEF before, after
    <3>4. entities'[e].reactors = after
      BY <1>7, <2>2, <3>1, <3>2, <3>3
    <3>. QED
      BY <3>4 DEF after
  <2>. QED
    BY <1>1, <2>1, <2>5, <2>7, <2>8
<1>. QED
  BY <1>1, <1>6, <1>8, <1>9 DEF GraphInv, Intact

LEMMA RemoveEntityPreserves ==
    ASSUME GraphInv, NEW e \in Ents, RemoveEntity(e), UNCHANGED purges
    PROVE  GraphInv'
<1>1. /\ entities' = Without(entities, e)
      /\ UNCHANGED <<objects, xdicOf, header, next>>
  BY DEF RemoveEntity
<1>2. /\ DOMAIN entities' = DOMAIN entities \ {e}
      /\ \A f \in DOMAIN entities' : entities'[f] = entities[f]
      /\ entities' = [f \in DOMAIN entities' |-> entities'[f]]
  BY <1>1 DEF Without
<1>3. EntitiesTyped(entities')
  BY <1>2 DEF GraphInv, EntitiesTyped
<1>4. Intact => Attached(objects', entities', xdicOf') /\ Reacting(objects', entities')
  BY <1>1, <1>2 DEF GraphInv, Attached, Reacting
<1>. QED
  BY <1>1, <1>3, <1>4 DEF GraphInv, Intact

\* A caller's removal leaves the shape of what remains.
LEMMA PurgePreserves ==
    ASSUME GraphInv, NEW h \in DOMAIN objects, Purge(h)
    PROVE  GraphInv'
<1>1. /\ objects' = Without(objects, h) /\ purges' = purges + 1 /\ purges \in Nat
      /\ UNCHANGED <<entities, xdicOf, header, next>>
  BY DEF Purge, GraphInv
<1>2. Shaped(objects', next')
  BY <1>1 DEF GraphInv, Shaped, Without
<1>3. ~Intact'
  BY <1>1 DEF Intact
<1>. QED
  BY <1>1, <1>2, <1>3 DEF GraphInv

LEMMA NextPreserves == GraphInv /\ [Next]_vars => GraphInv'
<1>. SUFFICES ASSUME GraphInv, [Next]_vars PROVE GraphInv'
  OBVIOUS
<1>1. ASSUME Operation, UNCHANGED purges PROVE GraphInv'
  <2>1. CASE \E o \in Ents : EnsureExtensionDictionary(o)
    BY <1>1, <2>1, ExtensionDictionaryPreserves
  <2>2. CASE \E o \in Ents, key \in RecordKeys : EnsureXrecord(o, key)
    BY <1>1, <2>2, XrecordPreserves
  <2>3. CASE \E key \in SubKeys : EnsureSubdictionary(key)
    BY <1>1, <2>3, SubdictionaryPreserves
  <2>4. CASE \E key \in SubKeys \cup {GroupKey} : RemoveSubdictionary(key)
    BY <1>1, <2>4, RemoveSubdictionaryPreserves
  <2>5. CASE \E name \in GroupNames, m \in SUBSET Ents : CreateGroup(name, m)
    BY <1>1, <2>5, CreateGroupMakes, GroupPreserves
  <2>6. CASE \E m \in SUBSET Ents : CreateUnnamedGroup(m)
    BY <1>1, <2>6, CreateUnnamedGroupMakes, GroupPreserves
  <2>7. CASE \E name \in AllGroupNames, e \in Ents : AddEntityToGroup(name, e)
    BY <1>1, <2>7, AddToGroupPreserves
  <2>8. CASE \E name \in AllGroupNames, e \in Ents : RemoveEntityFromGroup(name, e)
    BY <1>1, <2>8, RemoveFromGroupPreserves
  <2>9. CASE \E name \in AllGroupNames : RemoveGroup(name)
    BY <1>1, <2>9, RemoveGroupPreserves
  <2>10. CASE \E e \in Ents : RemoveEntity(e)
    BY <1>1, <2>10, RemoveEntityPreserves
  <2>. QED
    BY <1>1, <2>1, <2>2, <2>3, <2>4, <2>5, <2>6, <2>7, <2>8, <2>9, <2>10 DEF Operation
<1>2. ASSUME NEW h \in DOMAIN objects, Purge(h) PROVE GraphInv'
  BY <1>2, PurgePreserves
<1>3. CASE UNCHANGED vars
  BY <1>3 DEF vars, GraphInv, Intact, Graph, Shaped, Rooted, Owned, Grouped,
              Attached, Reacting, EntitiesTyped, Is, Keys, NamedIn
<1>. QED
  BY <1>1, <1>2, <1>3 DEF Next

LEMMA Inductive == Spec => []GraphInv
<1>. QED
  BY InitEstablishes, NextPreserves, PTL DEF Spec

-----------------------------------------------------------------------------
(* The properties.                                                         *)

\* Whatever groups are made, named over, emptied or removed, a stored entity
\* carries a group's reactor exactly while the group exists and holds it
\* (create_group, add_entity_to_group, remove_entity_from_group, remove_group).
THEOREM ReactorsAreGroups == Spec => []ReactorsMatchGroups
<1>1. GraphInv => ReactorsMatchGroups
  BY DEF GraphInv, ReactorsMatchGroups, Reacting
<1>. QED
  BY <1>1, Inductive, PTL

\* A group whose dictionary exists is registered in the header's group
\* dictionary under its name: the first free *A<n> of create_unnamed_group never
\* takes over the name of another group.
THEOREM GroupsStayRegistered == Spec => []GroupsRegistered
<1>1. GraphInv => GroupsRegistered
  BY DEF GraphInv, GroupsRegistered, Graph, Grouped, GroupNamed
<1>. QED
  BY <1>1, Inductive, PTL

\* The document's own operations leave no entry of any dictionary pointing at an
\* object that is gone: remove_subdictionary and remove_group take the entry
\* together with the object.
THEOREM EntriesAlwaysResolve == Spec => []EntriesResolve
<1>1. GraphInv => EntriesResolve
  <2>. SUFFICES ASSUME GraphInv, Intact, NEW d \in DOMAIN objects,
                       Is(objects, d, "dictionary"), NEW key \in Keys(objects, d)
                PROVE  objects[d].entries[key] \in DOMAIN objects
    BY DEF EntriesResolve
  <2>1. Rooted(objects) /\ Owned(objects)
    BY DEF GraphInv, Graph
  <2>2. CASE d = RootDict
    BY <2>1, <2>2 DEF Rooted, Is
  <2>3. CASE d # RootDict
    BY <2>1, <2>3 DEF Owned, Is
  <2>. QED
    BY <2>2, <2>3
<1>. QED
  BY <1>1, Inductive, PTL

\* The entity's own field and xdic_by_handle name the same dictionary, which
\* exists and is owned by the entity, however it was made (ensure_xrecord,
\* ensure_extension_dictionary).
THEOREM ExtensionsAttachedBothWays == Spec => []AttachedBothWays
<1>1. GraphInv => AttachedBothWays
  <2>. SUFFICES ASSUME GraphInv, Intact
                PROVE  \A e \in DOMAIN entities :
                          /\ entities[e].xdic # NoXdic <=> e \in DOMAIN xdicOf
                          /\ e \in DOMAIN xdicOf =>
                                /\ xdicOf[e] = entities[e].xdic
                                /\ Is(objects, xdicOf[e], "dictionary")
                                /\ objects[xdicOf[e]].owner = e
    BY DEF AttachedBothWays
  <2>1. Attached(objects, entities, xdicOf) /\ Shaped(objects, next)
    BY DEF GraphInv
  <2>2. \A o \in DOMAIN xdicOf : xdicOf[o] # NoXdic
    BY <2>1, HandlesAssumption DEF Attached, Shaped, Is
  <2>. QED
    BY <2>1, <2>2 DEF Attached
<1>. QED
  BY <1>1, Inductive, PTL

HeaderTyped == header = [nod |-> header.nod, groups |-> header.groups]

LEMMA HeaderStaysTyped == Spec => []HeaderTyped
<1>1. Init => HeaderTyped
  BY DEF Init, HeaderTyped
<1>2. ASSUME HeaderTyped, [Next]_vars PROVE HeaderTyped'
  <2>1. ASSUME NEW key, EnsureSubdictionary(key) PROVE HeaderTyped'
    BY <1>2, <2>1 DEF EnsureSubdictionary, HeaderTyped
  <2>2. ASSUME NEW home, NEW name, NEW m, MakeGroup(home, name, m) PROVE HeaderTyped'
    BY <2>2 DEF MakeGroup, HeaderTyped
  <2>3. ASSUME NEW o, NEW key, EnsureXrecord(o, key) PROVE header' = header
    BY <2>3 DEF EnsureXrecord, vars
  <2>4. ASSUME header' = header PROVE HeaderTyped'
    BY <1>2, <2>4 DEF HeaderTyped
  <2>. QED
    BY <1>2, <2>1, <2>2, <2>3, <2>4
    DEF Next, Operation, vars, EnsureExtensionDictionary, RemoveSubdictionary,
        CreateGroup, CreateUnnamedGroup, AddEntityToGroup, RemoveEntityFromGroup,
        RemoveGroup, RemoveEntity, Purge
<1>. QED
  BY <1>1, <1>2, PTL DEF Spec

\* No operation but the two that create a group brings a group into the map.
LEMMA NoOtherGroup ==
    ASSUME GraphInv, Operation, UNCHANGED purges,
           ~\E name \in GroupNames, m \in SUBSET Ents : CreateGroup(name, m),
           ~\E m \in SUBSET Ents : CreateUnnamedGroup(m)
    PROVE  \A g \in DOMAIN objects' \ DOMAIN objects : objects'[g].kind # "group"
<1>0. next \in Nat \ {Null} /\ Shaped(objects, next)
  BY HandlesAssumption DEF GraphInv, Null
<1>1. ASSUME NEW o \in Ents, EnsureExtensionDictionary(o)
      PROVE  \A g \in DOMAIN objects' \ DOMAIN objects : objects'[g].kind # "group"
  BY <1>1 DEF EnsureExtensionDictionary, With, Dictionary
<1>2. ASSUME NEW o \in Ents, NEW key \in RecordKeys, EnsureXrecord(o, key)
      PROVE  \A g \in DOMAIN objects' \ DOMAIN objects : objects'[g].kind # "group"
  BY <1>2, XrecordPreserves
<1>3. ASSUME NEW key \in SubKeys, EnsureSubdictionary(key)
      PROVE  \A g \in DOMAIN objects' \ DOMAIN objects : objects'[g].kind # "group"
  <2>. DEFINE s == Subdictionary(key)
  <2>1. objects' = s.objs
    BY <1>3 DEF EnsureSubdictionary
  <2>2. \A g \in DOMAIN s.objs \ DOMAIN objects : s.objs[g].kind = "dictionary"
    BY <1>0, SubdictionaryFound
  <2>. HIDE DEF s
  <2>. QED
    BY <2>1, <2>2
<1>4. ASSUME NEW key, RemoveSubdictionary(key)
      PROVE  DOMAIN objects' \subseteq DOMAIN objects
  BY <1>4 DEF RemoveSubdictionary, Without, With, Is
<1>5. ASSUME NEW name, NEW e, AddEntityToGroup(name, e)
      PROVE  DOMAIN objects' \subseteq DOMAIN objects
  BY <1>5 DEF AddEntityToGroup
<1>6. ASSUME NEW name, NEW e, RemoveEntityFromGroup(name, e)
      PROVE  DOMAIN objects' \subseteq DOMAIN objects
  BY <1>6 DEF RemoveEntityFromGroup
<1>7. ASSUME NEW name, RemoveGroup(name)
      PROVE  DOMAIN objects' \subseteq DOMAIN objects
  BY <1>7 DEF RemoveGroup, Without
<1>8. ASSUME NEW e, RemoveEntity(e)
      PROVE  DOMAIN objects' \subseteq DOMAIN objects
  BY <1>8 DEF RemoveEntity
<1>. QED
  BY <1>1, <1>2, <1>3, <1>4, <1>5, <1>6, <1>7, <1>8 DEF Operation

\* A new group is found under its name in the header's group dictionary, an
\* ensured sub-dictionary from the root, even after a caller removed either
\* from the map; an ensured record is found by xrecord(owner, key).
THEOREM CreatedIsFound == Spec => EnsuredFound
<1>. DEFINE found ==
              /\ \A g \in DOMAIN objects' \ DOMAIN objects :
                    objects'[g].kind = "group" =>
                        NamedIn(objects', header'.groups, objects'[g].name) = g
              /\ \A key \in SubKeys : EnsureSubdictionary(key) =>
                    /\ Is(objects', header'.nod, "dictionary")
                    /\ key \in Keys(objects', header'.nod)
                    /\ Is(objects', objects'[header'.nod].entries[key], "dictionary")
                    /\ Subdictionary(key)'.free = next'
              /\ Intact => \A o \in Ents, key \in RecordKeys :
                    EnsureXrecord(o, key) =>
                        \A d \in ExtensionDictionary(o)' : RecordIn(objects', d, key)
<1>1. ASSUME GraphInv, HeaderTyped, Next PROVE found
  <2>0. next \in Nat \ {Null} /\ Shaped(objects, next)
    BY <1>1, HandlesAssumption DEF GraphInv, Null
  <2>1. \A g \in DOMAIN objects' \ DOMAIN objects :
           objects'[g].kind = "group" =>
               NamedIn(objects', header'.groups, objects'[g].name) = g
    <3>1. ASSUME NEW name, NEW members, MakeGroup(GroupHome, name, members),
                 UNCHANGED purges,
                 name \in Keys(GroupHome.objs, GroupHome.sub) =>
                     ReuseNames /\ name \in GroupNames,
                 NEW g \in DOMAIN objects' \ DOMAIN objects,
                 objects'[g].kind = "group"
          PROVE  NamedIn(objects', header'.groups, objects'[g].name) = g
      BY <1>1, <3>1, GroupPreserves
    <3>2. ASSUME NEW h \in DOMAIN objects, Purge(h)
          PROVE  DOMAIN objects' \subseteq DOMAIN objects
      BY <3>2 DEF Purge, Without
    <3>3. CASE Operation /\ UNCHANGED purges
      <4>1. CASE \E name \in GroupNames, m \in SUBSET Ents : CreateGroup(name, m)
        BY <3>1, <3>3, <4>1, CreateGroupMakes
      <4>2. CASE \E m \in SUBSET Ents : CreateUnnamedGroup(m)
        BY <3>1, <3>3, <4>2, CreateUnnamedGroupMakes
      <4>. QED
        BY <1>1, <3>3, <4>1, <4>2, NoOtherGroup
    <3>. QED
      BY <1>1, <3>2, <3>3 DEF Next
  <2>2. ASSUME NEW key \in SubKeys, EnsureSubdictionary(key)
        PROVE  /\ Is(objects', header'.nod, "dictionary")
               /\ key \in Keys(objects', header'.nod)
               /\ Is(objects', objects'[header'.nod].entries[key], "dictionary")
               /\ Subdictionary(key)'.free = next'
    <3>. DEFINE s == Subdictionary(key)
    <3>1. /\ objects' = s.objs /\ header' = [header EXCEPT !.nod = s.root]
          /\ next' = s.free
      BY <2>2 DEF EnsureSubdictionary
    <3>2. /\ Is(s.objs, s.root, "dictionary") /\ key \in Keys(s.objs, s.root)
          /\ s.objs[s.root].entries[key] = s.sub /\ Is(s.objs, s.sub, "dictionary")
      BY <2>0, SubdictionaryFound
    <3>. HIDE DEF s
    <3>3. header'.nod = s.root
      BY <1>1, <3>1 DEF HeaderTyped
    <3>4. /\ Is(objects', header'.nod, "dictionary")
          /\ key \in Keys(objects', header'.nod)
          /\ Is(objects', objects'[header'.nod].entries[key], "dictionary")
      BY <3>1, <3>2, <3>3
    <3>5. Subdictionary(key)'.free = next'
      BY <3>4 DEF Subdictionary
    <3>. QED
      BY <3>4, <3>5
  <2>3. ASSUME Intact, NEW o \in Ents, NEW key \in RecordKeys, EnsureXrecord(o, key)
        PROVE  \A d \in ExtensionDictionary(o)' : RecordIn(objects', d, key)
    <3>1. UNCHANGED purges
      <4>1. next' # next \/ UNCHANGED vars
        BY <2>0, <2>3 DEF EnsureXrecord
      <4>2. ASSUME NEW h \in DOMAIN objects, Purge(h) PROVE next' = next /\ purges' # purges
        BY <1>1, <4>2 DEF Purge, GraphInv
      <4>. QED
        BY <1>1, <4>1, <4>2 DEF Next, vars
    <3>. QED
      BY <1>1, <2>3, <3>1, XrecordPreserves
  <2>. QED
    BY <2>1, <2>2, <2>3
<1>2. GraphInv /\ HeaderTyped /\ [Next]_vars => [found]_vars
  BY <1>1
<1>. QED
  BY <1>2, Inductive, HeaderStaysTyped, PTL DEF Spec, EnsuredFound
=============================================================================
