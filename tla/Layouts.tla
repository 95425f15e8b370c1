------------------------------ MODULE Layouts -------------------------------
(***************************************************************************)
(* Layouts, the block records of their spaces, the ACAD_LAYOUT dictionary    *)
(* and the viewports: what the DXF and the DWG reader complete at the end of *)
(* a read (src/io/dxf/reader.rs, src/io/dwg/dwg_document_builder.rs), and    *)
(* what the document offers afterwards (src/document.rs).                   *)
(*                                                                         *)
(* A document is a record.  The name of a space is a number: 0 is           *)
(* *Model_Space, 1 is *Paper_Space, n + 2 is *Paper_Space<n>.  Objects are   *)
(* layouts and dictionaries; `objects` is a hash map, so whatever the code   *)
(* takes from the first match in it is chosen freely.  Allocation, verbatim  *)
(* records and explicit handles are in DocumentStore.                       *)
(***************************************************************************)
EXTENDS Integers, FiniteSets, Sequences, SequencesExt, SequenceFilter

CONSTANTS
    Sound,      \* the drawing as it was saved
    Elsewhere,  \* a handle of a record the drawing lost
    Titles,     \* names of layouts, keys of dictionaries
    Names,      \* layout names a caller uses
    MaxFaults,  \* bound: parts a file lacks
    MaxCalls    \* bound: calls after the read

Null == 0
Root == "ACAD_LAYOUT"

ASSUME LayoutsAssumption ==
    /\ MaxFaults \in Nat /\ MaxCalls \in Nat
    /\ {Root, "Model"} \subseteq Titles /\ Names \subseteq Titles \ {"Model"}

VARIABLES
    doc,        \* the document
    phase,      \* "file", then "dwg" or "dxf": which reader opened it
    faults,     \* parts the file lacks
    calls,      \* calls since the read
    last        \* history: the operation just done, and a caller's argument

vars == <<doc, phase, faults, calls, last>>

Highest(S) == CHOOSE x \in S : \A y \in S : y <= x
Lowest(S) == CHOOSE x \in S : \A y \in S : x <= y
\* A map with one more entry, or another value for a key it has.
With(map, key, value) ==
    [x \in DOMAIN map \cup {key} |-> IF x = key THEN value ELSE map[x]]

-----------------------------------------------------------------------------
(* The record of a document.                                               *)

Layout(name, owner, record, active, views, tab) ==
    [kind |-> "layout", name |-> name, owner |-> owner, record |-> record,
     active |-> active, views |-> views, tab |-> tab]
Dictionary(owner, entries) == [kind |-> "dictionary", owner |-> owner, entries |-> entries]

BlockRecord == [name : Nat, handle : Nat, layout : Nat, listed : Seq(Nat)]
EntityRecord == [handle : Nat, kind : {"line", "viewport"}, owner : Nat, id : Nat]
LayoutObject ==
    [kind : {"layout"}, name : Titles, owner : Nat, record : Nat, active : Nat,
     views : Seq(Nat), tab : Nat]
DictionaryObject == [kind : {"dictionary"}, owner : Nat, entries : Seq(Titles \X Nat)]

Drawing(d) ==
    /\ d = [blocks |-> d.blocks, objects |-> d.objects, ents |-> d.ents, nod |-> d.nod,
            layoutDict |-> d.layoutDict, model |-> d.model, paper |-> d.paper,
            next |-> d.next]
    /\ d.blocks \in Seq(BlockRecord) /\ d.ents \in Seq(EntityRecord)
    /\ d.objects = [h \in DOMAIN d.objects |-> d.objects[h]]
    /\ IsFiniteSet(DOMAIN d.objects) /\ DOMAIN d.objects \subseteq Nat \ {Null}
    /\ \A h \in DOMAIN d.objects : d.objects[h] \in LayoutObject \cup DictionaryObject
    /\ {d.nod, d.layoutDict, d.model, d.paper, d.next} \subseteq Nat

Is(d, h, kind) == h \in DOMAIN d.objects /\ d.objects[h].kind = kind
LayoutsOf(d) == {h \in DOMAIN d.objects : Is(d, h, "layout")}
Dictionaries(d) == {h \in DOMAIN d.objects : Is(d, h, "dictionary")}
Records(d) == {d.blocks[i].handle : i \in DOMAIN d.blocks}
BlockNames(d) == {d.blocks[i].name : i \in DOMAIN d.blocks}
Naming(d, record) == {l \in LayoutsOf(d) : d.objects[l].record = record}
Entries(d, dict, key) ==
    Kept(d.objects[dict].entries, {e \in ToSet(d.objects[dict].entries) : e[1] = key})
Entity(d, h) == CHOOSE e \in ToSet(d.ents) : e.handle = h
Owned(d, record) == {e \in ToSet(d.ents) : e.owner = record}
HandlesOf(entities) == {e.handle : e \in entities}
Viewports(d, block) ==
    Kept(block.listed, HandlesOf({e \in ToSet(d.ents) : e.kind = "viewport"}))
PaperSpaces(d) == {i \in DOMAIN d.blocks : d.blocks[i].name # 0}

Enter(d, dict, key, h) ==
    [d EXCEPT !.objects[dict].entries = Append(@, <<key, h>>)]
Store(d, h, object) == [d EXCEPT !.objects = With(@, h, object)]
Take(d, n) == [d EXCEPT !.next = @ + n]

-----------------------------------------------------------------------------
(* ensure_model_layout.                                                    *)

\* Dictionaries that hold layouts, by the layouts' owners.
LayoutOwners(d) == {d.objects[l].owner : l \in LayoutsOf(d)} \cap Dictionaries(d)
RootedFirst(d, owners) ==
    LET rooted == {o \in owners : d.objects[o].owner = d.nod}
    IN IF rooted # {} THEN Lowest(rooted)
       ELSE IF owners # {} THEN Lowest(owners) ELSE Null

\* ensure_layout_dictionary_registration.
Registered(d) ==
    LET dict == IF Is(d, d.layoutDict, "dictionary") THEN d.layoutDict
                ELSE RootedFirst(d, LayoutOwners(d))
        owned == [d EXCEPT !.objects[dict].owner = IF @ = Null THEN d.nod ELSE @]
    IN IF \/ ~Is(d, d.nod, "dictionary")
          \/ Entries(d, d.nod, Root) # << >>
          \/ dict = Null
       THEN d
       ELSE [Enter(owned, d.nod, Root, dict) EXCEPT !.layoutDict = dict]

\* One layout for every record that some layout names.
Picks(d) ==
    LET named == {r \in Records(d) : Naming(d, r) # {}}
    IN {p \in [named -> LayoutsOf(d)] : \A r \in named : p[r] \in Naming(d, r)}

\* A record whose link leads to no layout takes it from the layout that names
\* it; a link to itself is left alone.
BackLinked(d, pick) ==
    LET Link(b) ==
            IF b.layout = b.handle \/ Is(d, b.layout, "layout") THEN b.layout
            ELSE IF b.handle \in DOMAIN pick THEN pick[b.handle] ELSE Null
    IN [d EXCEPT !.blocks = [i \in DOMAIN @ |-> [@[i] EXCEPT !.layout = Link(d.blocks[i])]]]

ModelRecords(d) == {i \in DOMAIN d.blocks : d.blocks[i].name = 0}
Ownerless(d) == {h \in Dictionaries(d) : d.objects[h].owner = Null}
RootIsClear(d) == d.nod \in Ownerless(d) \/ Cardinality(Ownerless(d)) <= 1

\* The dictionary the model layout belongs to: the root, made if there is none.
Rooted(d) ==
    IF d.nod \in Ownerless(d) THEN d
    ELSE IF Ownerless(d) # {} THEN [d EXCEPT !.nod = Lowest(Ownerless(d))]
    ELSE [Store(Take(d, 1), d.next, Dictionary(Null, << >>)) EXCEPT !.nod = d.next]

EntryIsClear(d) ==
    LET entries == Entries(d, d.nod, Root)
    IN \/ entries = << >>
       \/ /\ Len(entries) = 1
          /\ entries[1][2] # d.nod
          /\ Is(d, entries[1][2], "dictionary")
          /\ d.objects[entries[1][2]].owner \in {d.nod, Null}

\* The layout dictionary under the root, made if the root has no entry for it.
WithDictionary(d) ==
    LET entries == Entries(d, d.nod, Root)
        made == Store(Enter(Take(d, 1), d.nod, Root, d.next),
                      d.next, Dictionary(d.nod, << >>))
    IN IF entries = << >> THEN [made EXCEPT !.layoutDict = d.next]
       ELSE [d EXCEPT !.objects[entries[1][2]].owner = d.nod,
                      !.layoutDict = entries[1][2]]

\* Fault: the record is left without its link.
AddModelUnlinked(d, i) ==
    Store(Enter(Take(d, 1), d.layoutDict, "Model", d.next), d.next,
          Layout("Model", d.layoutDict, d.blocks[i].handle, Null, << >>, 0))

AddModel(d, i) ==
    [Store(Enter(Take(d, 1), d.layoutDict, "Model", d.next), d.next,
           Layout("Model", d.layoutDict, d.blocks[i].handle, Null, << >>, 0))
       EXCEPT !.blocks[i].layout = d.next]

\* A drawing whose model space no layout names gets the Model layout, unless
\* its root or its layout dictionary is ambiguous.
WithModelLayout(d) ==
    IF \/ ModelRecords(d) = {}
       \/ Naming(d, d.blocks[Lowest(ModelRecords(d))].handle) # {}
       \/ ~RootIsClear(d)
    THEN d
    ELSE IF EntryIsClear(Rooted(d))
    THEN AddModel(WithDictionary(Rooted(d)), Lowest(ModelRecords(d)))
    ELSE Rooted(d)

\* The outcomes of ensure_model_layout.
Ensured(d) ==
    LET registered == Registered(d)
    IN {WithModelLayout(BackLinked(registered, p)) : p \in Picks(registered)}

-----------------------------------------------------------------------------
(* The end of a DXF read.                                                  *)

\* The root is the ownerless dictionary with most entries, the highest of them.
DxfRoot(d) ==
    LET size(h) == Len(d.objects[h].entries)
        full == {h \in Ownerless(d) : \A g \in Ownerless(d) : size(g) <= size(h)}
    IN IF d.nod \in Ownerless(d) \/ Ownerless(d) = {} THEN d
       ELSE [d EXCEPT !.nod = Highest(full)]

DxfLayoutDict(d) ==
    [d EXCEPT !.layoutDict =
        IF /\ Is(d, d.nod, "dictionary")
           /\ Entries(d, d.nod, Root) # << >> /\ EntryIsClear(d)
        THEN Entries(d, d.nod, Root)[1][2] ELSE Null]

\* The file has no viewport lists: a layout gets those its record lists.
DxfViewports(d) ==
    LET views(o) == LET b == {i \in DOMAIN d.blocks : d.blocks[i].handle = o.record}
                    IN IF b = {} THEN << >> ELSE Viewports(d, d.blocks[Highest(b)])
    IN [d EXCEPT !.objects = [h \in DOMAIN @ |->
          IF h \in LayoutsOf(d) THEN [@[h] EXCEPT !.views = views(d.objects[h])] ELSE @[h]]]

\* The layouts whose record is missing; the foremost is the one with the first tab.
Dangling(d) == {l \in LayoutsOf(d) : d.objects[l].record \notin Records(d)}
Foremost(d, layouts) ==
    CHOOSE l \in layouts : \A k \in layouts :
        \/ d.objects[l].tab < d.objects[k].tab
        \/ d.objects[l].tab = d.objects[k].tab /\ l <= k

\* Fault: what is taken is not marked.
RewireOneShared(acc) ==
    LET d == acc.d
        l == Foremost(d, acc.left)
        free == {i \in PaperSpaces(d) : d.blocks[i].handle \notin acc.owned}
        i == CHOOSE x \in free : \A y \in free : d.blocks[x].name <= d.blocks[y].name
    IN IF d.objects[l].name = "Model" \/ free = {} THEN [acc EXCEPT !.left = @ \ {l}]
       ELSE [acc EXCEPT !.d.objects[l].record = d.blocks[i].handle,
                        !.d.blocks[i].layout = l,
                        !.left = @ \ {l}]

\* One dangling layout: Model takes the model record, another the first paper
\* space nobody has, *Paper_Space before the numbered ones.
RewireOne(acc) ==
    LET d == acc.d
        l == Foremost(d, acc.left)
        free == {i \in DOMAIN d.blocks :
                    /\ d.blocks[i].handle \notin acc.owned
                    /\ IF d.objects[l].name = "Model"
                       THEN d.blocks[i].handle = d.model
                       ELSE d.blocks[i].name # 0}
        i == CHOOSE x \in free : \A y \in free : d.blocks[x].name <= d.blocks[y].name
    IN IF free = {} THEN [acc EXCEPT !.left = @ \ {l}]
       ELSE [d |-> [d EXCEPT !.objects[l].record = d.blocks[i].handle,
                             !.blocks[i].layout = l],
             owned |-> acc.owned \cup {d.blocks[i].handle},
             left |-> acc.left \ {l}]

\* rewire_dangling_layout_block_records.
Rewired(d) ==
    LET owned == {d.objects[l].record : l \in LayoutsOf(d)} \cap Records(d)
        rewired[n \in 0 .. Cardinality(Dangling(d))] ==
            IF n = 0 THEN [d |-> d, owned |-> owned, left |-> Dangling(d)]
            ELSE RewireOne(rewired[n - 1])
    IN rewired[Cardinality(Dangling(d))].d

DxfEnd(d) == Ensured(Rewired(DxfLayoutDict(DxfRoot(DxfViewports(d)))))

-----------------------------------------------------------------------------
(* The end of a DWG read.                                                  *)

\* Every record lists the entities it owns, in the order of the entities.
Membership(d) ==
    [d EXCEPT !.blocks = [i \in DOMAIN @ |->
        [@[i] EXCEPT !.listed =
            LET own == Kept(d.ents, Owned(d, d.blocks[i].handle))
            IN [j \in DOMAIN own |-> own[j].handle]]]]

\* Everything that named a handle in use by another record names a fresh one.
Repointed(d, space) ==
    LET old == d[space]
        new == d.next
    IN [Take(d, 1) EXCEPT ![space] = new,
          !.objects = [h \in DOMAIN @ |->
              IF h \in LayoutsOf(d) /\ @[h].record = old
              THEN [@[h] EXCEPT !.record = new] ELSE @[h]],
          !.ents = [i \in DOMAIN @ |->
              IF @[i].owner = old THEN [@[i] EXCEPT !.owner = new] ELSE @[i]]]

\* A space the header names without a record gets one; the handle is changed
\* if an object or an entity has it.
Synthesized(d, space) ==
    LET collides == \/ d[space] \in DOMAIN d.objects
                    \/ \E e \in ToSet(d.ents) : e.handle = d[space]
        e == IF collides THEN Repointed(d, space) ELSE d
        naming == Naming(e, e[space])
        record == [name |-> IF space = "model" THEN 0 ELSE 1, handle |-> e[space],
                   layout |-> IF naming = {} THEN Null ELSE Lowest(naming),
                   listed |-> << >>]
    IN IF d[space] = Null \/ d[space] \in Records(d) THEN d
       ELSE [Take(e, 2) EXCEPT !.blocks =
               IF record.name \in BlockNames(d) THEN @ ELSE Append(@, record)]

WithSpaces(d) ==
    LET both == Synthesized(Synthesized(d, "model"), "paper")
    IN IF both = d THEN d ELSE Membership(both)

\* Fault: entity order decides, not the layout.
OverallFirst(d, viewports, layout) == Head(viewports)

\* The overall viewport: the head of the layout's list, else the layout's
\* active one, else the first.
Overall(d, viewports, layout) ==
    LET views == d.objects[layout].views
        active == <<d.objects[layout].active>>
        named == IF layout = Null THEN << >>
                 ELSE Kept(IF views = << >> THEN active ELSE <<Head(views)>> \o active,
                           ToSet(viewports))
    IN IF named # << >> THEN Head(named) ELSE Head(viewports)

\* An entity without an id gets the lowest that no viewport of the space has or
\* had at first.
Given(d, viewports, used, h) ==
    LET taken == used \cup {Entity(d, v).id : v \in ToSet(viewports)}
        id == Lowest(1 .. Len(viewports) + Cardinality(used) \ taken)
    IN IF Entity(d, h).id # 0 THEN d
       ELSE [d EXCEPT !.ents = [j \in DOMAIN @ |->
                IF @[j].handle = h THEN [@[j] EXCEPT !.id = id] ELSE @[j]]]

\* number_paper_space_viewports in one paper space.
Numbered(d, i, layout) ==
    LET viewports == Viewports(d, d.blocks[i])
        overall == Overall(d, viewports, layout)
        order == <<overall>> \o Kept(viewports, ToSet(viewports) \ {overall})
        used == {Entity(d, h).id : h \in ToSet(viewports)} \ {0}
        given[n \in 0 .. Len(order)] ==
            IF n = 0 THEN d ELSE Given(given[n - 1], viewports, used, order[n])
    IN IF viewports = << >> THEN d ELSE given[Len(order)]

AllNumbered(d, pick) ==
    LET layout(i) == IF d.blocks[i].handle \in DOMAIN pick
                     THEN pick[d.blocks[i].handle] ELSE Null
        numbered[i \in 0 .. Len(d.blocks)] ==
            IF i = 0 THEN d
            ELSE IF i \in PaperSpaces(d) THEN Numbered(numbered[i - 1], i, layout(i))
            ELSE numbered[i - 1]
    IN numbered[Len(d.blocks)]

DwgEnd(d) ==
    LET complete == WithSpaces(d)
    IN UNION {Ensured(AllNumbered(complete, p)) : p \in Picks(complete)}

-----------------------------------------------------------------------------
(* The document's operations.                                              *)

\* The layout, its record and its overall viewport (id 1).
NewLayout(name) ==
    LET block == Cardinality(PaperSpaces(doc)) + 1
        record == doc.next
        layout == doc.next + 3
        overall == doc.next + 4
    IN [Store(Take(doc, 5), layout,
              Layout(name, doc.layoutDict, record, overall, <<overall>>, block))
          EXCEPT !.blocks = Append(@, [name |-> block, handle |-> record,
                                       layout |-> layout, listed |-> <<overall>>]),
                 !.ents = Append(@, [handle |-> overall, kind |-> "viewport",
                                     owner |-> record, id |-> 1])]

\* Fault: the name is not looked up among the records.
AddLayoutUnchecked(name) ==
    doc' = IF \E l \in LayoutsOf(doc) : doc.objects[l].name = name THEN doc
           ELSE IF Is(doc, doc.layoutDict, "dictionary")
           THEN Enter(NewLayout(name), doc.layoutDict, name, doc.next + 3)
           ELSE NewLayout(name)

\* add_layout: the record is named by the number of paper spaces there are; when
\* that name is taken the handles allocated so far stay used.
AddLayout(name) ==
    doc' = IF \E l \in LayoutsOf(doc) : doc.objects[l].name = name THEN doc
           ELSE IF Cardinality(PaperSpaces(doc)) + 1 \in BlockNames(doc) THEN Take(doc, 4)
           ELSE IF Is(doc, doc.layoutDict, "dictionary")
           THEN Enter(NewLayout(name), doc.layoutDict, name, doc.next + 3)
           ELSE NewLayout(name)

\* add_entity_to_layout, for an entity without a handle.
AddEntityToLayout(kind, l) ==
    LET at == {i \in DOMAIN doc.blocks : doc.blocks[i].handle = doc.objects[l].record}
        i == Lowest(at)
        h == doc.next
        added == [Take(doc, 1) EXCEPT
             !.blocks[i].listed = Append(@, h),
             !.ents = Append(@, [handle |-> h, kind |-> kind,
                                 owner |-> doc.blocks[i].handle, id |-> 0])]
    IN /\ at # {}
       /\ doc' = IF kind # "viewport" THEN added
                 ELSE [added EXCEPT !.objects[l].views = Append(@, h),
                                    !.objects[l].active = IF @ = Null THEN h ELSE @]

EnsureModelLayout == doc' \in Ensured(doc)

\* A caller takes a layout, with or without its entry, or a record away.
Unentered(o, l) == [o EXCEPT !.entries = Kept(@, {e \in ToSet(@) : e[2] # l})]
Forget(l) ==
    \/ doc' = [doc EXCEPT !.objects = [h \in DOMAIN @ \ {l} |-> @[h]]]
    \/ doc' = [doc EXCEPT !.objects = [h \in DOMAIN @ \ {l} |->
          IF @[h].kind = "dictionary" THEN Unentered(@[h], l) ELSE @[h]]]
ForgetRecord(i) == doc' = [doc EXCEPT !.blocks = RemoveAt(@, i)]

-----------------------------------------------------------------------------
(* A file that lacks parts, then one read, then calls.                     *)

\* A layout whose record the file does not name, or names by a handle that
\* leads nowhere.
Dangle == \E l \in LayoutsOf(doc), h \in {Null, Elsewhere} :
    doc' = [doc EXCEPT !.objects[l].record = h]
\* R13 and R14: no entry in the root, no handle in the header.
StripEntry ==
    /\ Is(doc, doc.nod, "dictionary")
    /\ \E dict \in {Null, doc.layoutDict} :
          doc' = [doc EXCEPT !.objects[doc.nod].entries =
                                 Kept(@, {e \in ToSet(@) : e[1] # Root}),
                             !.layoutDict = dict]
\* No link from the records, or from one to itself (an external reference).
StripLinks ==
    \/ doc' = [doc EXCEPT !.blocks = [i \in DOMAIN @ |-> [@[i] EXCEPT !.layout = Null]]]
    \/ \E i \in DOMAIN doc.blocks :
          doc' = [doc EXCEPT !.blocks[i].layout = doc.blocks[i].handle]
\* Before R2004: no viewport lists.
StripViews ==
    doc' = [doc EXCEPT !.objects = [h \in DOMAIN @ |->
        IF @[h].kind = "layout" THEN [@[h] EXCEPT !.views = << >>] ELSE @[h]]]
DropObject == \E h \in DOMAIN doc.objects : Forget(h)
DropRecord == \E i \in DOMAIN doc.blocks : ForgetRecord(i)
\* A space, its layout and its entities know the record, which is missing, by a
\* handle some object has (DWG: a DXF file names no handles of the spaces).
Poison ==
    \E i \in DOMAIN doc.blocks, space \in {"model", "paper"}, h \in Dictionaries(doc) :
        /\ doc.blocks[i].handle = doc[space] /\ h \notin {doc.model, doc.paper}
        /\ doc' = [doc EXCEPT ![space] = h,
              !.blocks = RemoveAt(@, i),
              !.objects = [o \in DOMAIN @ |->
                  IF @[o].kind = "layout" /\ @[o].record = doc[space]
                  THEN [@[o] EXCEPT !.record = h] ELSE @[o]],
              !.ents = [j \in DOMAIN @ |->
                  IF @[j].owner = doc[space] THEN [@[j] EXCEPT !.owner = h] ELSE @[j]]]

Lack ==
    /\ phase = "file" /\ faults < MaxFaults
    /\ \/ Dangle \/ StripEntry \/ StripLinks \/ StripViews
       \/ DropObject \/ DropRecord \/ Poison
    /\ faults' = faults + 1
    /\ last' = "lack"
    /\ UNCHANGED <<phase, calls>>

Read ==
    /\ phase = "file"
    /\ \/ phase' = "dwg" /\ doc' \in DwgEnd(doc)
       \/ /\ {doc.model, doc.paper} \cap DOMAIN doc.objects = {}
          /\ phase' = "dxf" /\ doc' \in DxfEnd(doc)
    /\ last' = "read"
    /\ UNCHANGED <<faults, calls>>

Call ==
    /\ phase # "file" /\ calls < MaxCalls
    /\ \/ \E name \in Names : AddLayout(name) /\ last' = "add"
       \/ \E l \in LayoutsOf(doc), kind \in {"viewport", "line"} :
             AddEntityToLayout(kind, l) /\ last' = "entity"
       \/ EnsureModelLayout /\ last' = "ensure"
       \/ (\/ \E l \in LayoutsOf(doc) : Forget(l)
           \/ \E i \in DOMAIN doc.blocks : ForgetRecord(i)) /\ last' = "forget"
    /\ calls' = calls + 1
    /\ UNCHANGED <<phase, faults>>

\* A drawing as it is saved: layouts and records lead to each other, a record lists
\* what it owns, every handle is below HANDSEED, and the lost one is no other's.
Saved(d) ==
    LET entities == HandlesOf(ToSet(d.ents))
    IN /\ Drawing(d)
       /\ \A i, j \in DOMAIN d.blocks : d.blocks[i].handle = d.blocks[j].handle => i = j
       /\ \A i, j \in DOMAIN d.ents : d.ents[i].handle = d.ents[j].handle => i = j
       /\ Records(d) \cap DOMAIN d.objects = {}
       /\ entities \cap (Records(d) \cup DOMAIN d.objects) = {}
       /\ {d.model, d.paper} \subseteq Records(d)
       /\ \A l \in LayoutsOf(d) :
             d.objects[l].record \in Records(d) /\ Naming(d, d.objects[l].record) = {l}
       /\ \A i \in DOMAIN d.blocks :
             LET b == d.blocks[i]
             IN /\ \/ b.layout \in Naming(d, b.handle)
                   \/ b.layout = Null /\ Naming(d, b.handle) = {}
                /\ ToSet(b.listed) = HandlesOf(Owned(d, b.handle))
                /\ \A l \in Naming(d, b.handle) : ToSet(d.objects[l].views) \subseteq ToSet(b.listed)
       /\ \A h \in Records(d) \cup DOMAIN d.objects \cup entities \cup {Elsewhere} :
             h \in 1 .. d.next - 1
       /\ Elsewhere \notin Records(d) \cup DOMAIN d.objects \cup entities
ASSUME SoundAssumption == Saved(Sound)

Init == doc = Sound /\ phase = "file" /\ faults = 0 /\ calls = 0 /\ last = "save"
Next == Lack \/ Read \/ Call
Spec == Init /\ [][Next]_vars

-----------------------------------------------------------------------------
(* Properties.                                                             *)

\* Once a drawing is read, a record that a layout names leads back to it or to
\* itself, no two layouts share a record, and a layout's viewports are entities of
\* its record.
LinksAgree ==
    phase # "file" =>
        \A i \in DOMAIN doc.blocks :
            LET b == doc.blocks[i]
                naming == Naming(doc, b.handle)
            IN naming # {} =>
                  /\ Cardinality(naming) = 1
                  /\ b.layout \in naming \cup {b.handle}
                  /\ \A l \in naming :
                        ToSet(doc.objects[l].views) \subseteq ToSet(b.listed)

\* After ensure_model_layout some layout names the model record, unless the root
\* or its layout dictionary is ambiguous; a layout it made hangs on the root by
\* one ACAD_LAYOUT and one Model entry; and calling it again changes nothing.
ModelChain ==
    [][last' \in {"read", "ensure"} =>
        LET models == {doc'.blocks[i].handle : i \in ModelRecords(doc')}
        IN /\ \/ models = {}
              \/ \E m \in models : Naming(doc', m) # {}
              \/ ~RootIsClear(doc') \/ ~EntryIsClear(doc')
           /\ \A l \in LayoutsOf(doc') \ LayoutsOf(doc) :
                 LET dict == doc'.layoutDict
                 IN /\ doc'.objects[doc'.nod].owner = Null
                    /\ Entries(doc', doc'.nod, Root) = <<<<Root, dict>>>>
                    /\ doc'.objects[dict].owner = doc'.nod
                    /\ doc'.objects[l].owner = dict
                    /\ Kept(doc'.objects[dict].entries, {<<"Model", l>>}) = <<<<"Model", l>>>>
                    /\ \E i \in ModelRecords(doc') :
                          /\ doc'.blocks[i].handle = doc'.objects[l].record
                          /\ doc'.blocks[i].layout \in {l, doc'.blocks[i].handle}
           /\ Ensured(doc') = {doc'}]_vars

Overalls == {Sound.objects[l].views[1] :
                l \in {x \in LayoutsOf(Sound) : Sound.objects[x].views # << >>}}

\* After a DWG read the header's spaces have their records with their entities
\* and their layouts, whatever handle they end with, and the viewports of every
\* paper space are numbered from 1, which is the overall one's number if the
\* layout still has its list.
SpacesComplete ==
    [][last' = "read" /\ phase' = "dwg" =>
        /\ \A space \in {"model", "paper"} :
              LET at == {i \in DOMAIN doc'.blocks : doc'.blocks[i].handle = doc'[space]}
              IN /\ at # {}
                 /\ \A e \in ToSet(doc.ents) : e.owner = doc[space] =>
                       \A i \in at : e.handle \in ToSet(doc'.blocks[i].listed)
                 /\ \A l \in Naming(doc, doc[space]) :
                       doc'.objects[l].record = doc'[space]
        /\ \A i \in PaperSpaces(doc') :
              LET b == doc'.blocks[i]
                  viewports == ToSet(Viewports(doc', b))
                  id(h) == Entity(doc', h).id
              IN /\ {id(h) : h \in viewports} = 1 .. Cardinality(viewports)
                 /\ \A l \in Naming(doc', b.handle) :
                       doc'.objects[l].views # << >> =>
                           \A h \in viewports \cap Overalls : id(h) = 1]_vars

\* add_layout gives a layout with a record and an overall viewport of its own,
\* which the layout dictionary leads to unless an entry of that name was left
\* behind; it fails for a new name only where the paper spaces have a gap.
NewLayoutUsable ==
    [][last' = "add" =>
        /\ doc'.objects = doc.objects /\ doc'.next # doc.next =>
              {doc.blocks[i].name : i \in PaperSpaces(doc)}
                  # 1 .. Cardinality(PaperSpaces(doc))
        /\ \A l \in LayoutsOf(doc') \ LayoutsOf(doc) :
              LET new == doc'.objects[l]
                  at == {i \in DOMAIN doc'.blocks : doc'.blocks[i].handle = new.record}
              IN /\ Cardinality(at) = 1 /\ Naming(doc', new.record) = {l}
                 /\ \A i \in at :
                       /\ doc'.blocks[i].layout = l
                       /\ Viewports(doc', doc'.blocks[i]) = new.views
                       /\ \A j \in DOMAIN doc'.blocks :
                             doc'.blocks[i].name = doc'.blocks[j].name => i = j
                 /\ Entity(doc', new.active).id = 1
                 /\ /\ Is(doc, doc.layoutDict, "dictionary")
                    /\ Entries(doc, doc.layoutDict, new.name) = << >>
                    => Entries(doc', doc'.layoutDict, new.name) = <<<<new.name, l>>>>]_vars

=============================================================================
