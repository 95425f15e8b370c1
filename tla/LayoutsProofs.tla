----------------------------- MODULE LayoutsProofs -----------------------------
(***************************************************************************)
(* Theorems about layouts and the records of their spaces, for every saved *)
(* drawing, whatever parts a file lacks and whatever is called afterwards. *)
(***************************************************************************)
EXTENDS Layouts, DataInduction, FiniteSetTheorems

-----------------------------------------------------------------------------
(* The inductive invariant.                                                *)

EntityHandles(d) == {d.ents[i].handle : i \in DOMAIN d.ents}

\* A document whose handles are all below the allocator, the lost one too.
Sited(d) ==
    /\ Drawing(d)
    /\ \A i, j \in DOMAIN d.blocks : d.blocks[i].handle = d.blocks[j].handle => i = j
    /\ \A h \in Records(d) \cup DOMAIN d.objects \cup EntityHandles(d) : h \in 1 .. d.next - 1
    /\ \A l \in LayoutsOf(d) : d.objects[l].record < d.next
    /\ Elsewhere \in 1 .. d.next - 1

\* No two layouts name one of the records.
OneEach(d, records) ==
    \A l, k \in LayoutsOf(d) :
        d.objects[l].record = d.objects[k].record /\ d.objects[l].record \in records => l = k

\* The viewports of a layout are listed by its record.
ViewsListed(d) ==
    \A i \in DOMAIN d.blocks : \A l \in LayoutsOf(d) :
        d.objects[l].record = d.blocks[i].handle =>
            ToSet(d.objects[l].views) \subseteq ToSet(d.blocks[i].listed)

\* The link of a record that a layout names leads there, to itself or nowhere.
LinksWeak(d) ==
    \A i \in DOMAIN d.blocks :
        Naming(d, d.blocks[i].handle) # {} /\ d.blocks[i].layout \in LayoutsOf(d) =>
            d.blocks[i].layout \in Naming(d, d.blocks[i].handle) \cup {d.blocks[i].handle}

\* It leads there or to itself.
LinksStrong(d) ==
    \A i \in DOMAIN d.blocks :
        Naming(d, d.blocks[i].handle) # {} =>
            d.blocks[i].layout \in Naming(d, d.blocks[i].handle) \cup {d.blocks[i].handle}

\* Where layouts may be: the records, and the spaces the header names.
Spaces(d) == Records(d) \cup {d.model, d.paper}

\* A layout's viewports belong to its space.
Belongs(d, h, record) ==
    \E i \in DOMAIN d.ents : d.ents[i].handle = h /\ d.ents[i].owner = record
ViewsOwned(d) ==
    \A l \in LayoutsOf(d) : d.objects[l].record \in Spaces(d) =>
        \A h \in ToSet(d.objects[l].views) : Belongs(d, h, d.objects[l].record)

\* A document that still may get records for its spaces.
Spacious(d) ==
    /\ Sited(d) /\ OneEach(d, Spaces(d)) /\ ViewsOwned(d) /\ LinksWeak(d)
    /\ d.model < d.next /\ d.paper < d.next /\ {Null, Elsewhere} \cap Spaces(d) = {}

FileGood(d) ==
    /\ Spacious(d) /\ ViewsListed(d)
    /\ Records(d) \cap DOMAIN d.objects = {} /\ Elsewhere \notin DOMAIN d.objects
    /\ \A l \in LayoutsOf(d) :
          d.objects[l].record \in DOMAIN d.objects => d.objects[l].record \in {d.model, d.paper}

Good(d) == Sited(d) /\ OneEach(d, Records(d)) /\ ViewsListed(d) /\ LinksWeak(d)

LayoutInv ==
    IF phase = "file" THEN FileGood(doc) ELSE Good(doc) /\ LinksStrong(doc)

-----------------------------------------------------------------------------
(* Documents field by field.                                               *)

LEMMA SeqIs ==
    ASSUME NEW T, NEW n \in Nat, NEW f, f = [j \in 1 .. n |-> f[j]], \A j \in 1 .. n : f[j] \in T
    PROVE  f \in Seq(T)
OBVIOUS

Fields(d) ==
    d = [blocks |-> d.blocks, objects |-> d.objects, ents |-> d.ents, nod |-> d.nod,
         layoutDict |-> d.layoutDict, model |-> d.model, paper |-> d.paper,
         next |-> d.next]

LEMMA DrawingIs ==
    ASSUME NEW d, Drawing(d)
    PROVE  /\ Fields(d)
           /\ d.objects = [h \in DOMAIN d.objects |-> d.objects[h]]
           /\ DOMAIN d.objects \subseteq Nat \ {Null}
           /\ DOMAIN d.blocks = 1 .. Len(d.blocks) /\ Len(d.blocks) \in Nat
           /\ DOMAIN d.ents = 1 .. Len(d.ents) /\ Len(d.ents) \in Nat
           /\ \A i \in DOMAIN d.blocks : d.blocks[i] \in BlockRecord
           /\ \A i \in DOMAIN d.ents : d.ents[i] \in EntityRecord
           /\ d.nod \in Nat /\ d.layoutDict \in Nat /\ d.model \in Nat /\ d.paper \in Nat
           /\ d.next \in Nat
BY DEF Drawing, Fields

LEMMA LayoutIs ==
    ASSUME NEW d, Drawing(d), NEW l \in LayoutsOf(d)
    PROVE  /\ l \in DOMAIN d.objects /\ l \in Nat \ {Null}
           /\ d.objects[l] \in LayoutObject /\ d.objects[l].kind = "layout"
           /\ d.objects[l].record \in Nat /\ d.objects[l].views \in Seq(Nat)
BY DEF Drawing, LayoutsOf, Is, LayoutObject, DictionaryObject

LEMMA DictionaryIs ==
    ASSUME NEW d, Drawing(d), NEW o \in Dictionaries(d)
    PROVE  /\ o \in DOMAIN d.objects /\ o \in Nat \ {Null} /\ o \notin LayoutsOf(d)
           /\ d.objects[o] \in DictionaryObject /\ d.objects[o].kind = "dictionary"
           /\ d.objects[o].owner \in Nat /\ d.objects[o].entries \in Seq(Titles \X Nat)
BY DEF Drawing, Dictionaries, LayoutsOf, Is, LayoutObject, DictionaryObject

\* e is d but for dictionaries, the handles of the root and the layout dictionary,
\* and handles the allocator gave.
Keeps(e, d) ==
    /\ Drawing(e)
    /\ e.blocks = d.blocks /\ e.ents = d.ents /\ e.model = d.model /\ e.paper = d.paper
    /\ e.next >= d.next
    /\ LayoutsOf(e) = LayoutsOf(d)
    /\ \A l \in LayoutsOf(d) : e.objects[l] = d.objects[l]
    /\ \A h \in DOMAIN e.objects : h \in DOMAIN d.objects \/ h \in d.next .. e.next - 1

LEMMA KeepsSelf ==
    ASSUME NEW d, Drawing(d)
    PROVE  Keeps(d, d)
<1>1. d.next \in Nat
  BY DrawingIs
<1>. QED
  BY <1>1 DEF Keeps

LEMMA KeepsKept ==
    ASSUME NEW d, NEW e, NEW f, Drawing(d), Keeps(e, d), Keeps(f, e)
    PROVE  Keeps(f, d)
<1>1. d.next \in Nat /\ e.next \in Nat /\ f.next \in Nat
  BY DrawingIs DEF Keeps
<1>2. /\ Drawing(f) /\ f.blocks = d.blocks /\ f.ents = d.ents
      /\ f.model = d.model /\ f.paper = d.paper
      /\ LayoutsOf(f) = LayoutsOf(d) /\ \A l \in LayoutsOf(d) : f.objects[l] = d.objects[l]
  BY DEF Keeps
<1>3. e.next >= d.next /\ f.next >= e.next /\ f.next >= d.next
  BY <1>1 DEF Keeps
<1>4. ASSUME NEW h \in DOMAIN f.objects
      PROVE  h \in DOMAIN d.objects \/ h \in d.next .. f.next - 1
  <2>1. h \in DOMAIN e.objects \/ h \in e.next .. f.next - 1
    BY DEF Keeps
  <2>2. h \in DOMAIN e.objects => h \in DOMAIN d.objects \/ h \in d.next .. e.next - 1
    BY DEF Keeps
  <2>. QED
    BY <1>1, <1>3, <2>1, <2>2
<1>. QED
  BY <1>2, <1>3, <1>4 DEF Keeps

\* The building blocks of the operations.
LEMMA TakeIs ==
    ASSUME NEW d, Drawing(d), NEW n \in Nat
    PROVE  Keeps(Take(d, n), d) /\ Take(d, n).objects = d.objects /\ Take(d, n).next = d.next + n
           /\ Take(d, n).nod = d.nod /\ Take(d, n).layoutDict = d.layoutDict
<1>. DEFINE e == [d EXCEPT !.next = @ + n]
<1>1. Fields(d) /\ d.next \in Nat
  BY DrawingIs
<1>2. e = [d EXCEPT !.next = @ + n] /\ Take(d, n) = e
  BY DEF Take
<1>. HIDE DEF e
<1>3. /\ e.blocks = d.blocks /\ e.objects = d.objects /\ e.ents = d.ents /\ e.nod = d.nod
      /\ e.layoutDict = d.layoutDict /\ e.model = d.model /\ e.paper = d.paper
      /\ e.next = d.next + n /\ Fields(e)
  BY <1>1, <1>2 DEF Fields
<1>4. Drawing(e)
  BY <1>1, <1>3 DEF Drawing, Fields
<1>5. Keeps(e, d)
  BY <1>1, <1>3, <1>4 DEF Keeps, LayoutsOf, Is
<1>. QED
  BY <1>2, <1>3, <1>5

\* A dictionary in the place of one, or under a handle of its own.
Puts(e, d, h, o) ==
    /\ Fields(e) /\ e.objects = With(d.objects, h, o)
    /\ e.blocks = d.blocks /\ e.ents = d.ents /\ e.model = d.model /\ e.paper = d.paper
    /\ e.nod \in Nat /\ e.layoutDict \in Nat /\ e.next \in Nat /\ e.next >= d.next
    /\ h \in Nat \ {Null} /\ h \notin LayoutsOf(d)
    /\ h \in Dictionaries(d) \/ (h = d.next /\ e.next > d.next)
    /\ o \in DictionaryObject

LEMMA DictionaryKeeps ==
    ASSUME NEW d, NEW e, NEW h, NEW o, Drawing(d), Puts(e, d, h, o)
    PROVE  Keeps(e, d) /\ DOMAIN e.objects = DOMAIN d.objects \cup {h} /\ e.objects[h] = o
           /\ \A k \in DOMAIN d.objects \ {h} : e.objects[k] = d.objects[k]
<1>. /\ Fields(e) /\ e.objects = With(d.objects, h, o)
     /\ e.blocks = d.blocks /\ e.ents = d.ents /\ e.model = d.model /\ e.paper = d.paper
     /\ e.nod \in Nat /\ e.layoutDict \in Nat /\ e.next \in Nat /\ e.next >= d.next
     /\ h \in Nat \ {Null} /\ h \notin LayoutsOf(d)
     /\ h \in Dictionaries(d) \/ (h = d.next /\ e.next > d.next)
     /\ o \in DictionaryObject
  BY DEF Puts
<1>1. /\ DOMAIN d.objects \subseteq Nat \ {Null} /\ IsFiniteSet(DOMAIN d.objects)
      /\ \A k \in DOMAIN d.objects : d.objects[k] \in LayoutObject \cup DictionaryObject
      /\ d.next \in Nat
  BY DEF Drawing
<1>2. /\ DOMAIN e.objects = DOMAIN d.objects \cup {h} /\ e.objects[h] = o
      /\ \A k \in DOMAIN d.objects \ {h} : e.objects[k] = d.objects[k]
      /\ e.objects = [k \in DOMAIN e.objects |-> e.objects[k]]
  BY DEF With
<1>3. h # Null
  OBVIOUS
<1>4. IsFiniteSet(DOMAIN e.objects)
  BY <1>1, <1>2, FS_AddElement
<1>5. Drawing(e)
  <2>1. d.blocks \in Seq(BlockRecord) /\ d.ents \in Seq(EntityRecord)
        /\ d.model \in Nat /\ d.paper \in Nat
    BY DEF Drawing
  <2>. QED
    BY <1>1, <1>2, <1>3, <1>4, <2>1 DEF Drawing, Fields
<1>6. o.kind = "dictionary"
  BY DEF DictionaryObject
<1>7. LayoutsOf(e) = LayoutsOf(d)
  BY <1>2, <1>6 DEF LayoutsOf, Is
<1>8. \A l \in LayoutsOf(d) : e.objects[l] = d.objects[l]
  BY <1>2 DEF LayoutsOf, Is
<1>9. \A k \in DOMAIN e.objects : k \in DOMAIN d.objects \/ k \in d.next .. e.next - 1
  BY <1>1, <1>2 DEF Dictionaries, Is
<1>. QED
  BY <1>2, <1>5, <1>7, <1>8, <1>9 DEF Keeps

LEMMA LowestIs ==
    ASSUME NEW S \in SUBSET Nat, S # {}
    PROVE  Lowest(S) \in S /\ \A x \in S : Lowest(S) <= x
BY NatLeast DEF Lowest

LEMMA DictionaryStays ==
    ASSUME NEW d, NEW e, Drawing(d), NEW h, NEW o \in DictionaryObject,
           DOMAIN e.objects = DOMAIN d.objects \cup {h}, e.objects[h] = o,
           \A k \in DOMAIN d.objects \ {h} : e.objects[k] = d.objects[k]
    PROVE  Dictionaries(e) = Dictionaries(d) \cup {h}
<1>1. o.kind = "dictionary"
  BY DEF DictionaryObject
<1>. QED
  BY <1>1 DEF Dictionaries, Is

\* A dictionary gets another owner.
Owning(d, o, owner) == [d EXCEPT !.objects[o].owner = owner]

LEMMA OwningIs ==
    ASSUME NEW d, Drawing(d), NEW o \in Dictionaries(d), NEW owner \in Nat
    PROVE  LET e == Owning(d, o, owner)
           IN /\ Keeps(e, d) /\ Dictionaries(e) = Dictionaries(d)
              /\ e.nod = d.nod /\ e.layoutDict = d.layoutDict /\ e.next = d.next
              /\ DOMAIN e.objects = DOMAIN d.objects
              /\ \A k \in DOMAIN d.objects \ {o} : e.objects[k] = d.objects[k]
              /\ e.objects[o].owner = owner /\ e.objects[o].entries = d.objects[o].entries
<1>. DEFINE e == [d EXCEPT !.objects[o].owner = owner]
            new == [d.objects[o] EXCEPT !.owner = owner]
<1>1. Fields(d) /\ d.objects = [h \in DOMAIN d.objects |-> d.objects[h]]
      /\ d.nod \in Nat /\ d.layoutDict \in Nat /\ d.next \in Nat
  BY DrawingIs
<1>2. o \in DOMAIN d.objects /\ o \in Nat /\ o \notin LayoutsOf(d) /\ d.objects[o] \in DictionaryObject
  BY DictionaryIs
<1>3. new \in DictionaryObject /\ new.owner = owner /\ new.entries = d.objects[o].entries
  BY <1>2 DEF DictionaryObject
<1>4. e = [d EXCEPT !.objects[o].owner = owner] /\ Owning(d, o, owner) = e
  BY DEF Owning
<1>5. new = [d.objects[o] EXCEPT !.owner = owner]
  OBVIOUS
<1>. HIDE DEF e, new
<1>6. /\ e.blocks = d.blocks /\ e.objects = [d.objects EXCEPT ![o] = new] /\ e.ents = d.ents
      /\ e.nod = d.nod /\ e.layoutDict = d.layoutDict /\ e.model = d.model
      /\ e.paper = d.paper /\ e.next = d.next /\ Fields(e)
  BY <1>1, <1>4, <1>5 DEF Fields
<1>7. e.objects = With(d.objects, o, new)
  BY <1>1, <1>2, <1>6 DEF With
<1>8. /\ Keeps(e, d) /\ DOMAIN e.objects = DOMAIN d.objects \cup {o} /\ e.objects[o] = new
      /\ \A k \in DOMAIN d.objects \ {o} : e.objects[k] = d.objects[k]
  <2>1. o \in Nat \ {Null} /\ e.nod \in Nat /\ e.layoutDict \in Nat /\ e.next \in Nat
        /\ e.next >= d.next
    BY <1>1, <1>6, DictionaryIs
  <2>. QED
    <3>1. Puts(e, d, o, new)
      BY <1>2, <1>3, <1>6, <1>7, <2>1 DEF Puts
    <3>. QED
      BY <3>1, DictionaryKeeps
<1>9. Dictionaries(e) = Dictionaries(d)
  BY <1>2, <1>3, <1>8, DictionaryStays, SMTT(30)
<1>. QED
  BY <1>2, <1>3, <1>4, <1>6, <1>8, <1>9

LEMMA EnterIs ==
    ASSUME NEW d, Drawing(d), NEW o \in Dictionaries(d), NEW key \in Titles, NEW h \in Nat
    PROVE  LET e == Enter(d, o, key, h)
           IN /\ Keeps(e, d) /\ Dictionaries(e) = Dictionaries(d)
              /\ e.nod = d.nod /\ e.layoutDict = d.layoutDict /\ e.next = d.next
              /\ DOMAIN e.objects = DOMAIN d.objects
              /\ \A k \in DOMAIN d.objects \ {o} : e.objects[k] = d.objects[k]
              /\ e.objects[o].owner = d.objects[o].owner
              /\ e.objects[o].entries = Append(d.objects[o].entries, <<key, h>>)
<1>. DEFINE entries == Append(d.objects[o].entries, <<key, h>>)
            e == [d EXCEPT !.objects[o].entries = Append(@, <<key, h>>)]
            new == [d.objects[o] EXCEPT !.entries = entries]
<1>1. Fields(d) /\ d.objects = [k \in DOMAIN d.objects |-> d.objects[k]]
      /\ d.nod \in Nat /\ d.layoutDict \in Nat /\ d.next \in Nat
  BY DrawingIs
<1>2. o \in DOMAIN d.objects /\ o \in Nat \ {Null} /\ o \notin LayoutsOf(d)
      /\ d.objects[o] \in DictionaryObject /\ d.objects[o].entries \in Seq(Titles \X Nat)
  BY DictionaryIs
<1>3. entries \in Seq(Titles \X Nat)
  BY <1>2
<1>4. e = [d EXCEPT !.objects[o].entries = entries] /\ Enter(d, o, key, h) = e
  BY <1>1, <1>2 DEF Enter, Fields
<1>5. new = [d.objects[o] EXCEPT !.entries = entries]
  OBVIOUS
<1>. HIDE DEF e, new, entries
<1>6. new \in DictionaryObject /\ new.entries = entries /\ new.owner = d.objects[o].owner
  BY <1>2, <1>3, <1>5 DEF DictionaryObject
<1>7. /\ e.blocks = d.blocks /\ e.objects = [d.objects EXCEPT ![o] = new] /\ e.ents = d.ents
      /\ e.nod = d.nod /\ e.layoutDict = d.layoutDict /\ e.model = d.model
      /\ e.paper = d.paper /\ e.next = d.next /\ Fields(e)
  BY <1>1, <1>4, <1>5 DEF Fields
<1>8. e.objects = With(d.objects, o, new)
  BY <1>1, <1>2, <1>7 DEF With
<1>9. /\ Keeps(e, d) /\ DOMAIN e.objects = DOMAIN d.objects \cup {o} /\ e.objects[o] = new
      /\ \A k \in DOMAIN d.objects \ {o} : e.objects[k] = d.objects[k]
  <2>1. e.nod \in Nat /\ e.layoutDict \in Nat /\ e.next \in Nat /\ e.next >= d.next
    BY <1>1, <1>7
  <2>. QED
    <3>1. Puts(e, d, o, new)
      BY <1>2, <1>6, <1>7, <1>8, <2>1 DEF Puts
    <3>. QED
      BY <3>1, DictionaryKeeps
<1>10. Dictionaries(e) = Dictionaries(d)
  <2>1. Dictionaries(e) = Dictionaries(d) \cup {o}
    BY <1>6, <1>9, DictionaryStays
  <2>. QED
    BY <2>1
<1>. QED
  BY <1>2, <1>4, <1>6, <1>7, <1>9, <1>10 DEF entries

\* A dictionary nobody has yet, under the next handle.
LEMMA MadeIs ==
    ASSUME NEW d, Drawing(d), d.next \notin DOMAIN d.objects, d.next # Null,
           NEW owner \in Nat
    PROVE  LET e == Store(Take(d, 1), d.next, Dictionary(owner, << >>))
           IN /\ Keeps(e, d) /\ Dictionaries(e) = Dictionaries(d) \cup {d.next}
              /\ e.nod = d.nod /\ e.layoutDict = d.layoutDict /\ e.next = d.next + 1
              /\ DOMAIN e.objects = DOMAIN d.objects \cup {d.next}
              /\ \A k \in DOMAIN d.objects : e.objects[k] = d.objects[k]
              /\ e.objects[d.next] = Dictionary(owner, << >>)
<1>. DEFINE t == Take(d, 1)
            o == Dictionary(owner, << >>)
            e == [t EXCEPT !.objects = With(@, d.next, o)]
<1>1. /\ Keeps(t, d) /\ t.objects = d.objects /\ t.next = d.next + 1
      /\ t.nod = d.nod /\ t.layoutDict = d.layoutDict
  BY TakeIs
<1>2. Fields(t) /\ d.next \in Nat /\ d.nod \in Nat /\ d.layoutDict \in Nat
  <2>1. Drawing(t)
    BY <1>1 DEF Keeps
  <2>. QED
    BY <2>1, DrawingIs
<1>3. o \in DictionaryObject
  BY DEF Dictionary, DictionaryObject
<1>4. e = [t EXCEPT !.objects = With(t.objects, d.next, o)]
      /\ Store(Take(d, 1), d.next, Dictionary(owner, << >>)) = e
  BY <1>2 DEF Store, Fields
<1>. HIDE DEF t, o, e
<1>5. /\ e.blocks = t.blocks /\ e.objects = With(t.objects, d.next, o) /\ e.ents = t.ents
      /\ e.nod = t.nod /\ e.layoutDict = t.layoutDict /\ e.model = t.model
      /\ e.paper = t.paper /\ e.next = t.next /\ Fields(e)
  BY <1>2, <1>4 DEF Fields
<1>6. d.next \notin LayoutsOf(d)
  BY DEF LayoutsOf, Is
<1>7. /\ Keeps(e, d) /\ DOMAIN e.objects = DOMAIN d.objects \cup {d.next} /\ e.objects[d.next] = o
      /\ \A k \in DOMAIN d.objects \ {d.next} : e.objects[k] = d.objects[k]
  <2>1. /\ d.next \in Nat \ {Null} /\ e.nod \in Nat /\ e.layoutDict \in Nat /\ e.next \in Nat
        /\ e.next > d.next /\ e.next >= d.next
    BY <1>1, <1>2, <1>5
  <2>2. /\ e.objects = With(d.objects, d.next, o) /\ e.blocks = d.blocks /\ e.ents = d.ents
        /\ e.model = d.model /\ e.paper = d.paper
    BY <1>1, <1>5 DEF Keeps
  <2>. QED
    <3>1. Puts(e, d, d.next, o)
      BY <1>3, <1>5, <1>6, <2>1, <2>2 DEF Puts
    <3>. QED
      BY <3>1, DictionaryKeeps
<1>8. Dictionaries(e) = Dictionaries(d) \cup {d.next}
  BY <1>3, <1>7, DictionaryStays
<1>. QED
  BY <1>1, <1>4, <1>5, <1>7, <1>8 DEF o

-----------------------------------------------------------------------------
(* What stays true of a document when only dictionaries change.            *)

LEMMA KeepsNames ==
    ASSUME NEW d, NEW e, Keeps(e, d)
    PROVE  /\ Records(e) = Records(d) /\ Spaces(e) = Spaces(d)
           /\ EntityHandles(e) = EntityHandles(d)
           /\ \A r : Naming(e, r) = Naming(d, r)
BY DEF Keeps, Records, Spaces, EntityHandles, Naming

LEMMA KeepsSited ==
    ASSUME NEW d, NEW e, Sited(d), Keeps(e, d)
    PROVE  Sited(e)
<1>1. Drawing(d) /\ Drawing(e) /\ e.next >= d.next
  BY DEF Sited, Keeps
<1>2. d.next \in Nat /\ e.next \in Nat
  BY <1>1, DrawingIs
<1>3. ASSUME NEW h \in Records(e) \cup DOMAIN e.objects \cup EntityHandles(e)
      PROVE  h \in 1 .. e.next - 1
  <2>1. CASE h \in Records(d) \cup DOMAIN d.objects \cup EntityHandles(d)
    <3>1. h \in 1 .. d.next - 1
      BY <2>1 DEF Sited
    <3>. QED
      BY <1>1, <1>2, <3>1
  <2>2. CASE h \in DOMAIN e.objects /\ h \in d.next .. e.next - 1
    <3>1. h # Null
      BY <1>1, <2>2, DrawingIs
    <3>. QED
      BY <1>2, <2>2, <3>1 DEF Null
  <2>3. h \in DOMAIN e.objects => h \in DOMAIN d.objects \/ h \in d.next .. e.next - 1
    BY DEF Keeps
  <2>. QED
    BY <2>1, <2>2, <2>3, KeepsNames
<1>4. \A i, j \in DOMAIN e.blocks : e.blocks[i].handle = e.blocks[j].handle => i = j
  BY DEF Keeps, Sited
<1>5. \A l \in LayoutsOf(e) : e.objects[l].record < e.next
  <2>. SUFFICES ASSUME NEW l \in LayoutsOf(e) PROVE e.objects[l].record < e.next
    OBVIOUS
  <2>1. l \in LayoutsOf(d) /\ e.objects[l].record = d.objects[l].record
        /\ d.objects[l].record < d.next
    BY DEF Keeps, Sited
  <2>2. d.objects[l].record \in Nat
    BY <1>1, <2>1, LayoutIs
  <2>. QED
    BY <1>1, <1>2, <2>1, <2>2
<1>6. Elsewhere \in 1 .. e.next - 1
  BY <1>1, <1>2 DEF Sited
<1>. QED
  BY <1>1, <1>3, <1>4, <1>5, <1>6 DEF Sited

LEMMA KeepsLinks ==
    ASSUME NEW d, NEW e, Keeps(e, d)
    PROVE  /\ \A S : OneEach(e, S) <=> OneEach(d, S)
           /\ ViewsListed(e) <=> ViewsListed(d)
           /\ LinksWeak(e) <=> LinksWeak(d)
           /\ LinksStrong(e) <=> LinksStrong(d)
           /\ ViewsOwned(e) <=> ViewsOwned(d)
<1>1. /\ e.blocks = d.blocks /\ e.ents = d.ents
      /\ LayoutsOf(e) = LayoutsOf(d) /\ \A l \in LayoutsOf(d) : e.objects[l] = d.objects[l]
  BY DEF Keeps
<1>2. Spaces(e) = Spaces(d) /\ \A r : Naming(e, r) = Naming(d, r)
  BY KeepsNames
<1>3. \A S : OneEach(e, S) <=> OneEach(d, S)
  BY <1>1 DEF OneEach
<1>4. ViewsListed(e) <=> ViewsListed(d)
  BY <1>1 DEF ViewsListed
<1>5. (LinksWeak(e) <=> LinksWeak(d)) /\ (LinksStrong(e) <=> LinksStrong(d))
  BY <1>1, <1>2 DEF LinksWeak, LinksStrong
<1>6. ViewsOwned(e) <=> ViewsOwned(d)
  <2>1. \A h, r : Belongs(e, h, r) <=> Belongs(d, h, r)
    BY <1>1 DEF Belongs
  <2>. QED
    BY <1>1, <1>2, <2>1 DEF ViewsOwned
<1>. QED
  BY <1>3, <1>4, <1>5, <1>6

LEMMA KeepsGood ==
    ASSUME NEW d, NEW e, Good(d), Keeps(e, d)
    PROVE  Good(e) /\ (LinksStrong(d) => LinksStrong(e))
<1>1. Sited(d) /\ OneEach(d, Records(d)) /\ ViewsListed(d) /\ LinksWeak(d)
  BY DEF Good
<1>2. Sited(e)
  BY <1>1, KeepsSited
<1>3. Records(e) = Records(d)
  BY KeepsNames
<1>. QED
  BY <1>1, <1>2, <1>3, KeepsLinks DEF Good

-----------------------------------------------------------------------------
(* ensure_model_layout.                                                    *)

\* e is d with other handles of the root and the layout dictionary.
LEMMA HeaderKeeps ==
    ASSUME NEW d, NEW e, Drawing(d), Fields(e), e.blocks = d.blocks, e.objects = d.objects,
           e.ents = d.ents, e.nod \in Nat, e.layoutDict \in Nat, e.model = d.model,
           e.paper = d.paper, e.next = d.next
    PROVE  Keeps(e, d) /\ Dictionaries(e) = Dictionaries(d)
<1>1. Drawing(e)
  BY DEF Drawing, Fields
<1>2. d.next \in Nat
  BY DrawingIs
<1>. QED
  BY <1>1, <1>2 DEF Keeps, LayoutsOf, Dictionaries, Is

LEMMA EntriesIs ==
    ASSUME NEW d, Drawing(d), NEW o \in Dictionaries(d), NEW key
    PROVE  Entries(d, o, key) \in Seq(Titles \X Nat)
BY DictionaryIs, KeptTyped DEF Entries

LEMMA FirstIs ==
    ASSUME NEW d, Drawing(d), NEW owners, owners \subseteq Dictionaries(d)
    PROVE  RootedFirst(d, owners) = Null \/ RootedFirst(d, owners) \in owners
<1>1. Dictionaries(d) \subseteq Nat
  BY DictionaryIs
<1>. DEFINE rooted == {o \in owners : d.objects[o].owner = d.nod}
<1>2. rooted \in SUBSET Nat /\ owners \in SUBSET Nat /\ rooted \subseteq owners
  BY <1>1
<1>3. RootedFirst(d, owners) = IF rooted # {} THEN Lowest(rooted)
                               ELSE IF owners # {} THEN Lowest(owners) ELSE Null
  BY DEF RootedFirst
<1>. HIDE DEF rooted
<1>4. rooted # {} => Lowest(rooted) \in rooted
  BY <1>2, LowestIs
<1>5. owners # {} => Lowest(owners) \in owners
  BY <1>2, LowestIs
<1>. QED
  BY <1>2, <1>3, <1>4, <1>5

LEMMA RegisteredIs ==
    ASSUME NEW d, Drawing(d)
    PROVE  Keeps(Registered(d), d)
<1>. DEFINE dict == IF Is(d, d.layoutDict, "dictionary") THEN d.layoutDict
                    ELSE RootedFirst(d, LayoutOwners(d))
            owner == IF d.objects[dict].owner = Null THEN d.nod ELSE d.objects[dict].owner
            owned == Owning(d, dict, owner)
            entered == Enter(owned, d.nod, Root, dict)
            e == [entered EXCEPT !.layoutDict = dict]
            same == \/ ~Is(d, d.nod, "dictionary")
                    \/ Entries(d, d.nod, Root) # << >>
                    \/ dict = Null
<1>1. Registered(d) = IF same THEN d ELSE e
  <2>1. Fields(d)
    BY DrawingIs
  <2>2. CASE same
    BY <2>2 DEF Registered
  <2>3. CASE ~same
    <3>1. Is(d, d.nod, "dictionary") /\ dict # Null
      BY <2>3
    <3>2. dict \in Dictionaries(d)
      BY <3>1, FirstIs DEF LayoutOwners, Dictionaries, Is
    <3>3. [d EXCEPT !.objects[dict].owner = IF @ = Null THEN d.nod ELSE @] = owned
      BY <2>1, <3>2 DEF Owning, Fields
    <3>. QED
      BY <2>3, <3>3, Zenon DEF Registered
  <2>. QED
    BY <2>2, <2>3
<1>2. CASE same
  BY <1>1, <1>2, KeepsSelf
<1>3. CASE ~same
  <2>1. d.nod \in Dictionaries(d) /\ dict \in Dictionaries(d)
    BY <1>3, FirstIs DEF LayoutOwners, Dictionaries, Is
  <2>2. dict \in Nat /\ owner \in Nat
    BY <2>1, DrawingIs, DictionaryIs
  <2>. HIDE DEF dict, owner
  <2>3. Keeps(owned, d) /\ Dictionaries(owned) = Dictionaries(d)
    BY <2>1, <2>2, OwningIs
  <2>. HIDE DEF owned
  <2>4. Drawing(owned) /\ d.nod \in Dictionaries(owned) /\ Root \in Titles
    <3>1. Root \in Titles
      BY LayoutsAssumption
    <3>. QED
      BY <2>1, <2>3, <3>1 DEF Keeps
  <2>5. Keeps(entered, owned)
    BY <2>2, <2>4, EnterIs
  <2>6. Drawing(entered)
    BY <2>5 DEF Keeps
  <2>. HIDE DEF entered
  <2>7. Fields(entered) /\ entered.nod \in Nat
    BY <2>6, DrawingIs
  <2>8. e = [entered EXCEPT !.layoutDict = dict]
    OBVIOUS
  <2>. HIDE DEF e
  <2>9. /\ e.blocks = entered.blocks /\ e.objects = entered.objects /\ e.ents = entered.ents
        /\ e.nod = entered.nod /\ e.layoutDict = dict /\ e.model = entered.model
        /\ e.paper = entered.paper /\ e.next = entered.next /\ Fields(e)
    BY <2>7, <2>8 DEF Fields
  <2>10. Keeps(e, entered)
    BY <2>2, <2>6, <2>7, <2>9, HeaderKeeps
  <2>11. Keeps(e, owned)
    BY <2>4, <2>5, <2>10, KeepsKept
  <2>. QED
    BY <1>1, <1>3, <2>3, <2>11, KeepsKept
<1>. QED
  BY <1>2, <1>3

LEMMA NextFree ==
    ASSUME NEW d, Sited(d)
    PROVE  d.next \notin DOMAIN d.objects /\ d.next \notin Records(d) /\ d.next \in Nat \ {Null}
<1>1. d.next \in Nat
  BY DrawingIs DEF Sited
<1>. QED
  BY <1>1 DEF Sited, Null

\* The root the model layout hangs on.
LEMMA RootedIs ==
    ASSUME NEW d, Sited(d)
    PROVE  Keeps(Rooted(d), d) /\ Rooted(d).nod \in Dictionaries(Rooted(d))
<1>1. Drawing(d)
  BY DEF Sited
<1>2. CASE d.nod \in Ownerless(d)
  BY <1>1, <1>2, KeepsSelf DEF Rooted, Ownerless
<1>3. CASE d.nod \notin Ownerless(d) /\ Ownerless(d) # {}
  <2>. DEFINE nod == Lowest(Ownerless(d))
              e == [d EXCEPT !.nod = nod]
  <2>1. Fields(d) /\ d.layoutDict \in Nat
    BY <1>1, DrawingIs
  <2>2. Ownerless(d) \in SUBSET Nat /\ Ownerless(d) \subseteq Dictionaries(d)
    BY <1>1, DictionaryIs DEF Ownerless
  <2>3. nod \in Ownerless(d)
    BY <1>3, <2>2, LowestIs
  <2>4. nod \in Dictionaries(d) /\ nod \in Nat
    BY <2>2, <2>3
  <2>5. e = [d EXCEPT !.nod = nod] /\ Rooted(d) = e
    BY <1>3 DEF Rooted
  <2>. HIDE DEF e, nod
  <2>6. /\ e.blocks = d.blocks /\ e.objects = d.objects /\ e.ents = d.ents
        /\ e.nod = nod /\ e.layoutDict = d.layoutDict /\ e.model = d.model
        /\ e.paper = d.paper /\ e.next = d.next /\ Fields(e)
    BY <2>1, <2>5 DEF Fields
  <2>7. Keeps(e, d) /\ Dictionaries(e) = Dictionaries(d)
    BY <1>1, <2>1, <2>4, <2>6, HeaderKeeps
  <2>. QED
    BY <2>4, <2>5, <2>6, <2>7
<1>4. CASE d.nod \notin Ownerless(d) /\ Ownerless(d) = {}
  <2>. DEFINE m == Store(Take(d, 1), d.next, Dictionary(Null, << >>))
              e == [m EXCEPT !.nod = d.next]
  <2>1. d.next \notin DOMAIN d.objects /\ d.next \in Nat \ {Null} /\ Null \in Nat
    BY NextFree DEF Null
  <2>2. Keeps(m, d) /\ Dictionaries(m) = Dictionaries(d) \cup {d.next}
    BY <1>1, <2>1, MadeIs
  <2>3. e = [m EXCEPT !.nod = d.next] /\ Rooted(d) = e
    BY <1>4 DEF Rooted
  <2>. HIDE DEF e, m
  <2>4. Drawing(m)
    BY <2>2 DEF Keeps
  <2>5. Fields(m) /\ m.layoutDict \in Nat
    BY <2>4, DrawingIs
  <2>6. /\ e.blocks = m.blocks /\ e.objects = m.objects /\ e.ents = m.ents
        /\ e.nod = d.next /\ e.layoutDict = m.layoutDict /\ e.model = m.model
        /\ e.paper = m.paper /\ e.next = m.next /\ Fields(e)
    BY <2>3, <2>5 DEF Fields
  <2>7. Keeps(e, m) /\ Dictionaries(e) = Dictionaries(m)
    BY <2>1, <2>4, <2>5, <2>6, HeaderKeeps
  <2>8. Keeps(e, d)
    BY <1>1, <2>2, <2>7, KeepsKept
  <2>. QED
    BY <2>2, <2>3, <2>6, <2>7, <2>8
<1>. QED
  BY <1>2, <1>3, <1>4

\* The layout dictionary under it.
LEMMA WithDictionaryIs ==
    ASSUME NEW d, Sited(d), d.nod \in Dictionaries(d), EntryIsClear(d)
    PROVE  /\ Keeps(WithDictionary(d), d)
           /\ WithDictionary(d).layoutDict \in Dictionaries(WithDictionary(d))
<1>. DEFINE entries == Entries(d, d.nod, Root)
<1>1. Drawing(d) /\ Root \in Titles
  BY LayoutsAssumption DEF Sited
<1>2. CASE entries = << >>
  <2>. DEFINE t == Take(d, 1)
              n == Enter(t, d.nod, Root, d.next)
              made == Store(n, d.next, Dictionary(d.nod, << >>))
              e == [made EXCEPT !.layoutDict = d.next]
              o == Dictionary(d.nod, << >>)
  <2>1. d.next \notin DOMAIN d.objects /\ d.next \in Nat \ {Null} /\ d.nod \in Nat
    BY <1>1, NextFree, DrawingIs
  <2>2. /\ Keeps(t, d) /\ t.objects = d.objects /\ t.next = d.next + 1
    BY <1>1, TakeIs
  <2>3. d.nod \in Dictionaries(t) /\ Drawing(t)
    BY <2>2 DEF Keeps, Dictionaries, Is
  <2>. HIDE DEF t
  <2>4. Keeps(n, t) /\ n.next = t.next /\ DOMAIN n.objects = DOMAIN t.objects
    BY <1>1, <2>1, <2>3, EnterIs
  <2>5. Keeps(n, d)
    BY <1>1, <2>2, <2>4, KeepsKept
  <2>6. Drawing(n)
    BY <2>5 DEF Keeps
  <2>. HIDE DEF n
  <2>7. Fields(n) /\ n.nod \in Nat
    BY <2>6, DrawingIs
  <2>8. o \in DictionaryObject
    BY <2>1 DEF Dictionary, DictionaryObject
  <2>9. made = [n EXCEPT !.objects = With(n.objects, d.next, o)]
    BY <2>7 DEF Store, Fields
  <2>10. e = [made EXCEPT !.layoutDict = d.next] /\ WithDictionary(d) = e
    BY <1>2 DEF WithDictionary, n, t
  <2>. HIDE DEF e, o, made
  <2>11. /\ made.blocks = n.blocks /\ made.objects = With(n.objects, d.next, o)
         /\ made.ents = n.ents /\ made.nod = n.nod /\ made.layoutDict = n.layoutDict
         /\ made.model = n.model /\ made.paper = n.paper /\ made.next = n.next /\ Fields(made)
    BY <2>7, <2>9 DEF Fields
  <2>12. /\ e.blocks = n.blocks /\ e.objects = With(n.objects, d.next, o)
         /\ e.ents = n.ents /\ e.nod = n.nod /\ e.layoutDict = d.next
         /\ e.model = n.model /\ e.paper = n.paper /\ e.next = n.next /\ Fields(e)
    BY <2>10, <2>11 DEF Fields
  <2>13. d.next \notin DOMAIN n.objects /\ n.next = d.next + 1
    BY <2>1, <2>2, <2>4
  <2>14. /\ DOMAIN e.objects = DOMAIN n.objects \cup {d.next} /\ e.objects[d.next] = o
         /\ \A k \in DOMAIN n.objects \ {d.next} : e.objects[k] = n.objects[k]
         /\ e.objects = [k \in DOMAIN e.objects |-> e.objects[k]]
    BY <2>12 DEF With
  <2>15. Drawing(e)
    <3>1. IsFiniteSet(DOMAIN n.objects)
      BY <2>6 DEF Drawing
    <3>2. IsFiniteSet(DOMAIN e.objects)
      BY <2>14, <3>1, FS_AddElement
    <3>. QED
      BY <2>1, <2>6, <2>7, <2>8, <2>12, <2>14, <3>2 DEF Drawing, Fields
  <2>16. o.kind = "dictionary"
    BY <2>8 DEF DictionaryObject
  <2>17. LayoutsOf(e) = LayoutsOf(n) /\ \A l \in LayoutsOf(n) : e.objects[l] = n.objects[l]
    BY <2>13, <2>14, <2>16 DEF LayoutsOf, Is
  <2>18. d.next \in Dictionaries(e)
    BY <2>14, <2>16 DEF Dictionaries, Is
  <2>19. Keeps(e, d)
    <3>1. \A h \in DOMAIN e.objects : h \in DOMAIN d.objects \/ h \in d.next .. e.next - 1
      BY <2>1, <2>2, <2>4, <2>12, <2>14
    <3>2. /\ e.blocks = d.blocks /\ e.ents = d.ents /\ e.model = d.model /\ e.paper = d.paper
          /\ e.next >= d.next
      BY <2>5, <2>12 DEF Keeps
    <3>3. LayoutsOf(e) = LayoutsOf(d) /\ \A l \in LayoutsOf(d) : e.objects[l] = d.objects[l]
      BY <2>5, <2>17 DEF Keeps
    <3>. QED
      BY <2>15, <3>1, <3>2, <3>3 DEF Keeps
  <2>. QED
    BY <2>10, <2>12, <2>18, <2>19
<1>3. CASE entries # << >>
  <2>. DEFINE dict == entries[1][2]
              f == Owning(d, dict, d.nod)
              e == [f EXCEPT !.layoutDict = dict]
  <2>1. Is(d, dict, "dictionary")
    BY <1>3 DEF EntryIsClear
  <2>2. dict \in Dictionaries(d) /\ d.nod \in Nat
    BY <1>1, <2>1, DrawingIs DEF Dictionaries, Is
  <2>3. dict \in Nat
    BY <1>1, <2>2, DictionaryIs
  <2>4. WithDictionary(d) = [d EXCEPT !.objects[dict].owner = d.nod, !.layoutDict = dict]
    BY <1>3, Zenon DEF WithDictionary
  <2>. HIDE DEF dict
  <2>5. Keeps(f, d) /\ Dictionaries(f) = Dictionaries(d)
    BY <1>1, <2>2, OwningIs
  <2>6. WithDictionary(d) = e
    <3>1. Fields(d)
      BY <1>1, DrawingIs
    <3>. QED
      BY <2>4, <3>1 DEF Owning, Fields
  <2>. HIDE DEF f
  <2>7. e = [f EXCEPT !.layoutDict = dict] /\ Drawing(f)
    BY <2>5 DEF Keeps
  <2>8. Fields(f) /\ f.nod \in Nat
    BY <2>7, DrawingIs
  <2>. HIDE DEF e
  <2>9. /\ e.blocks = f.blocks /\ e.objects = f.objects /\ e.ents = f.ents
        /\ e.nod = f.nod /\ e.layoutDict = dict /\ e.model = f.model
        /\ e.paper = f.paper /\ e.next = f.next /\ Fields(e)
    BY <2>7, <2>8 DEF Fields
  <2>10. Keeps(e, f) /\ Dictionaries(e) = Dictionaries(f)
    BY <2>3, <2>7, <2>8, <2>9, HeaderKeeps
  <2>11. Keeps(e, d)
    BY <1>1, <2>5, <2>10, KeepsKept
  <2>. QED
    BY <2>2, <2>5, <2>6, <2>9, <2>10, <2>11
<1>. QED
  BY <1>2, <1>3

\* e is d with other links from its records.
Relinked(e, d) ==
    /\ Fields(e) /\ e.objects = d.objects /\ e.ents = d.ents /\ e.nod = d.nod
    /\ e.layoutDict = d.layoutDict /\ e.model = d.model /\ e.paper = d.paper /\ e.next = d.next
    /\ e.blocks \in Seq(BlockRecord) /\ DOMAIN e.blocks = DOMAIN d.blocks
    /\ \A i \in DOMAIN d.blocks :
          /\ e.blocks[i].name = d.blocks[i].name /\ e.blocks[i].handle = d.blocks[i].handle
          /\ e.blocks[i].listed = d.blocks[i].listed

LEMMA RelinkedNames ==
    ASSUME NEW d, NEW e, Relinked(e, d)
    PROVE  /\ Records(e) = Records(d) /\ LayoutsOf(e) = LayoutsOf(d)
           /\ EntityHandles(e) = EntityHandles(d) /\ Spaces(e) = Spaces(d)
           /\ Dictionaries(e) = Dictionaries(d) /\ BlockNames(e) = BlockNames(d)
           /\ \A r : Naming(e, r) = Naming(d, r)
<1>1. /\ e.objects = d.objects /\ e.ents = d.ents /\ DOMAIN e.blocks = DOMAIN d.blocks
      /\ e.model = d.model /\ e.paper = d.paper
      /\ \A i \in DOMAIN d.blocks :
            e.blocks[i].name = d.blocks[i].name /\ e.blocks[i].handle = d.blocks[i].handle
  BY DEF Relinked
<1>2. Records(e) = Records(d) /\ BlockNames(e) = BlockNames(d)
  BY <1>1 DEF Records, BlockNames
<1>. QED
  BY <1>1, <1>2 DEF LayoutsOf, EntityHandles, Spaces, Dictionaries, Naming, Is

LEMMA RelinkedIs ==
    ASSUME NEW d, NEW e, Sited(d), Relinked(e, d)
    PROVE  /\ Sited(e) /\ \A S : OneEach(e, S) <=> OneEach(d, S)
           /\ ViewsListed(e) <=> ViewsListed(d)
<1>1. /\ Drawing(d) /\ e.objects = d.objects /\ e.ents = d.ents /\ e.next = d.next
      /\ DOMAIN e.blocks = DOMAIN d.blocks
      /\ \A i \in DOMAIN d.blocks :
            e.blocks[i].handle = d.blocks[i].handle /\ e.blocks[i].listed = d.blocks[i].listed
  BY DEF Sited, Relinked
<1>2. Drawing(e)
  BY <1>1 DEF Drawing, Relinked, Fields
<1>3. Sited(e)
  <2>1. /\ Records(e) = Records(d) /\ LayoutsOf(e) = LayoutsOf(d)
        /\ EntityHandles(e) = EntityHandles(d)
    BY RelinkedNames
  <2>2. \A i, j \in DOMAIN e.blocks : e.blocks[i].handle = e.blocks[j].handle => i = j
    BY <1>1 DEF Sited
  <2>3. \A h \in Records(e) \cup DOMAIN e.objects \cup EntityHandles(e) : h \in 1 .. e.next - 1
    BY <1>1, <2>1 DEF Sited
  <2>4. (\A l \in LayoutsOf(e) : e.objects[l].record < e.next) /\ Elsewhere \in 1 .. e.next - 1
    BY <1>1, <2>1 DEF Sited
  <2>. QED
    BY <1>2, <2>2, <2>3, <2>4 DEF Sited
<1>4. LayoutsOf(e) = LayoutsOf(d)
  BY RelinkedNames
<1>. QED
  BY <1>1, <1>3, <1>4 DEF OneEach, ViewsListed

LEMMA BackLinkedIs ==
    ASSUME NEW d, Good(d), NEW pick \in Picks(d)
    PROVE  LET e == BackLinked(d, pick)
           IN Relinked(e, d) /\ Good(e) /\ LinksStrong(e)
<1>. DEFINE Link(b) ==
                IF b.layout = b.handle \/ Is(d, b.layout, "layout") THEN b.layout
                ELSE IF b.handle \in DOMAIN pick THEN pick[b.handle] ELSE Null
            blocks == [i \in DOMAIN d.blocks |-> [d.blocks[i] EXCEPT !.layout = Link(d.blocks[i])]]
            e == [d EXCEPT !.blocks = blocks]
            named == {r \in Records(d) : Naming(d, r) # {}}
<1>1. Sited(d) /\ Drawing(d) /\ OneEach(d, Records(d)) /\ ViewsListed(d) /\ LinksWeak(d)
  BY DEF Good, Sited
<1>2. /\ Fields(d) /\ DOMAIN d.blocks = 1 .. Len(d.blocks) /\ Len(d.blocks) \in Nat
      /\ \A i \in DOMAIN d.blocks : d.blocks[i] \in BlockRecord
  BY <1>1, DrawingIs
<1>3. DOMAIN pick = named /\ \A r \in named : pick[r] \in Naming(d, r)
  BY DEF Picks
<1>4. \A r : Naming(d, r) \subseteq LayoutsOf(d)
  BY DEF Naming
<1>5. LayoutsOf(d) \subseteq Nat
  BY <1>1, LayoutIs
<1>6. ASSUME NEW i \in DOMAIN d.blocks PROVE Link(d.blocks[i]) \in Nat
  <2>1. d.blocks[i].layout \in Nat
    BY <1>2 DEF BlockRecord
  <2>. QED
    BY <1>3, <1>4, <1>5, <2>1 DEF Null
<1>7. BackLinked(d, pick) = e
  BY <1>2 DEF BackLinked, Fields
<1>8. /\ DOMAIN blocks = DOMAIN d.blocks
      /\ \A i \in DOMAIN d.blocks : blocks[i] = [d.blocks[i] EXCEPT !.layout = Link(d.blocks[i])]
  OBVIOUS
<1>. HIDE DEF blocks
<1>9. \A i \in DOMAIN d.blocks :
        /\ blocks[i] \in BlockRecord /\ blocks[i].layout = Link(d.blocks[i])
        /\ blocks[i].name = d.blocks[i].name /\ blocks[i].handle = d.blocks[i].handle
        /\ blocks[i].listed = d.blocks[i].listed
  <2>. SUFFICES ASSUME NEW i \in DOMAIN d.blocks
                PROVE  /\ blocks[i] \in BlockRecord /\ blocks[i].layout = Link(d.blocks[i])
                       /\ blocks[i].name = d.blocks[i].name /\ blocks[i].handle = d.blocks[i].handle
                       /\ blocks[i].listed = d.blocks[i].listed
    OBVIOUS
  <2>. DEFINE link == Link(d.blocks[i])
  <2>1. d.blocks[i] \in BlockRecord /\ link \in Nat /\ blocks[i] = [d.blocks[i] EXCEPT !.layout = link]
    BY <1>2, <1>6, <1>8
  <2>. HIDE DEF link
  <2>2. /\ blocks[i] \in BlockRecord /\ blocks[i].layout = link
        /\ blocks[i].name = d.blocks[i].name /\ blocks[i].handle = d.blocks[i].handle
        /\ blocks[i].listed = d.blocks[i].listed
    BY <2>1 DEF BlockRecord
  <2>. QED
    BY <2>2, Zenon DEF link
<1>10. blocks \in Seq(BlockRecord)
  <2>1. blocks = [i \in 1 .. Len(d.blocks) |-> blocks[i]]
    BY <1>2 DEF blocks
  <2>. QED
    <3>1. \A i \in 1 .. Len(d.blocks) : blocks[i] \in BlockRecord
      BY <1>2, <1>9
    <3>2. Len(d.blocks) \in Nat
      BY <1>2
    <3>. QED
      BY <2>1, <3>1, <3>2, SeqIs
<1>11. e = [d EXCEPT !.blocks = blocks]
  OBVIOUS
<1>. HIDE DEF e, Link
<1>12. /\ e.blocks = blocks /\ e.objects = d.objects /\ e.ents = d.ents
       /\ e.nod = d.nod /\ e.layoutDict = d.layoutDict /\ e.model = d.model
       /\ e.paper = d.paper /\ e.next = d.next /\ Fields(e)
  BY <1>2, <1>11 DEF Fields
<1>13. Relinked(e, d)
  BY <1>8, <1>9, <1>10, <1>12 DEF Relinked
<1>14. /\ Records(e) = Records(d) /\ LayoutsOf(e) = LayoutsOf(d)
       /\ \A r : Naming(e, r) = Naming(d, r)
  BY <1>13, RelinkedNames
<1>15. LinksStrong(e)
  <2>. SUFFICES ASSUME NEW i \in DOMAIN d.blocks, Naming(d, d.blocks[i].handle) # {}
                PROVE  Link(d.blocks[i]) \in Naming(d, d.blocks[i].handle) \cup {d.blocks[i].handle}
    BY <1>8, <1>9, <1>12, <1>14 DEF LinksStrong
  <2>1. d.blocks[i].handle \in named
    BY DEF Records
  <2>2. CASE d.blocks[i].layout = d.blocks[i].handle
    BY <2>2 DEF Link
  <2>3. CASE d.blocks[i].layout # d.blocks[i].handle /\ Is(d, d.blocks[i].layout, "layout")
    <3>1. d.blocks[i].layout \in LayoutsOf(d)
      BY <2>3 DEF LayoutsOf, Is
    <3>. QED
      BY <1>1, <2>3, <3>1 DEF Link, LinksWeak
  <2>4. CASE d.blocks[i].layout # d.blocks[i].handle /\ ~Is(d, d.blocks[i].layout, "layout")
    BY <1>3, <2>1, <2>4 DEF Link
  <2>. QED
    BY <2>2, <2>3, <2>4
<1>16. LinksWeak(e)
  BY <1>15 DEF LinksWeak, LinksStrong
<1>17. Sited(e) /\ OneEach(e, Records(e)) /\ ViewsListed(e)
  BY <1>1, <1>13, <1>14, RelinkedIs
<1>. QED
  BY <1>7, <1>13, <1>15, <1>16, <1>17 DEF Good

\* e is n with a layout more, of a record that no layout names.
Adds(e, n, l, i, o) ==
    /\ Fields(e) /\ e.objects = With(n.objects, l, o) /\ e.ents = n.ents
    /\ e.nod \in Nat /\ e.layoutDict \in Nat
    /\ e.model = n.model /\ e.paper = n.paper /\ e.next = n.next
    /\ l \in 1 .. n.next - 1 /\ l \notin DOMAIN n.objects
    /\ o \in LayoutObject /\ i \in DOMAIN n.blocks
    /\ o.record = n.blocks[i].handle /\ Naming(n, n.blocks[i].handle) = {}
    /\ ToSet(o.views) \subseteq ToSet(n.blocks[i].listed)
    /\ e.blocks \in Seq(BlockRecord) /\ DOMAIN e.blocks = DOMAIN n.blocks
    /\ \A j \in DOMAIN n.blocks :
          /\ e.blocks[j].name = n.blocks[j].name /\ e.blocks[j].handle = n.blocks[j].handle
          /\ e.blocks[j].listed = n.blocks[j].listed
          /\ e.blocks[j].layout = IF j = i THEN l ELSE n.blocks[j].layout

LEMMA AddsLayout ==
    ASSUME NEW e, NEW n, NEW l, NEW i, NEW o, Drawing(n), Adds(e, n, l, i, o)
    PROVE  /\ DOMAIN e.objects = DOMAIN n.objects \cup {l} /\ e.objects[l] = o
           /\ \A k \in DOMAIN n.objects : e.objects[k] = n.objects[k]
           /\ LayoutsOf(e) = LayoutsOf(n) \cup {l} /\ l \notin LayoutsOf(n)
           /\ Naming(e, n.blocks[i].handle) = {l}
           /\ \A r : r # n.blocks[i].handle => Naming(e, r) = Naming(n, r)
           /\ Records(e) = Records(n) /\ EntityHandles(e) = EntityHandles(n)
           /\ BlockNames(e) = BlockNames(n)
<1>1. /\ e.objects = With(n.objects, l, o) /\ l \notin DOMAIN n.objects
      /\ o \in LayoutObject /\ o.record = n.blocks[i].handle
      /\ Naming(n, n.blocks[i].handle) = {} /\ e.ents = n.ents
      /\ DOMAIN e.blocks = DOMAIN n.blocks
      /\ \A j \in DOMAIN n.blocks :
            e.blocks[j].name = n.blocks[j].name /\ e.blocks[j].handle = n.blocks[j].handle
  BY DEF Adds
<1>2. /\ DOMAIN e.objects = DOMAIN n.objects \cup {l} /\ e.objects[l] = o
      /\ \A k \in DOMAIN n.objects : e.objects[k] = n.objects[k]
  BY <1>1 DEF With
<1>3. o.kind = "layout"
  BY <1>1 DEF LayoutObject
<1>4. LayoutsOf(e) = LayoutsOf(n) \cup {l} /\ l \notin LayoutsOf(n)
  BY <1>1, <1>2, <1>3 DEF LayoutsOf, Is
<1>5. LayoutsOf(n) \subseteq DOMAIN n.objects
  BY DEF LayoutsOf
<1>6. /\ Naming(e, n.blocks[i].handle) = {l}
      /\ \A r : r # n.blocks[i].handle => Naming(e, r) = Naming(n, r)
  BY <1>1, <1>2, <1>4, <1>5 DEF Naming
<1>7. Records(e) = Records(n) /\ EntityHandles(e) = EntityHandles(n) /\ BlockNames(e) = BlockNames(n)
  BY <1>1 DEF Records, EntityHandles, BlockNames
<1>. QED
  BY <1>2, <1>4, <1>6, <1>7

LEMMA AddsGood ==
    ASSUME NEW e, NEW n, NEW l, NEW i, NEW o, Good(n), LinksStrong(n), Adds(e, n, l, i, o)
    PROVE  Good(e) /\ LinksStrong(e)
<1>1. Sited(n) /\ Drawing(n) /\ OneEach(n, Records(n)) /\ ViewsListed(n)
  BY DEF Good, Sited
<1>2. /\ DOMAIN e.objects = DOMAIN n.objects \cup {l} /\ e.objects[l] = o
      /\ \A k \in DOMAIN n.objects : e.objects[k] = n.objects[k]
      /\ LayoutsOf(e) = LayoutsOf(n) \cup {l} /\ l \notin LayoutsOf(n)
      /\ Naming(e, n.blocks[i].handle) = {l}
      /\ \A r : r # n.blocks[i].handle => Naming(e, r) = Naming(n, r)
      /\ Records(e) = Records(n) /\ EntityHandles(e) = EntityHandles(n)
  BY <1>1, AddsLayout
<1>3. /\ Fields(e) /\ e.ents = n.ents /\ e.nod \in Nat /\ e.layoutDict \in Nat
      /\ e.model = n.model /\ e.paper = n.paper /\ e.next = n.next
      /\ l \in 1 .. n.next - 1 /\ l \notin DOMAIN n.objects
      /\ o \in LayoutObject /\ i \in DOMAIN n.blocks /\ o.record = n.blocks[i].handle
      /\ Naming(n, n.blocks[i].handle) = {}
      /\ ToSet(o.views) \subseteq ToSet(n.blocks[i].listed)
      /\ e.blocks \in Seq(BlockRecord) /\ DOMAIN e.blocks = DOMAIN n.blocks
      /\ \A j \in DOMAIN n.blocks :
          /\ e.blocks[j].handle = n.blocks[j].handle /\ e.blocks[j].listed = n.blocks[j].listed
          /\ e.blocks[j].layout = IF j = i THEN l ELSE n.blocks[j].layout
  BY DEF Adds
<1>4. LayoutsOf(n) \subseteq DOMAIN n.objects /\ n.next \in Nat
  BY <1>1, DrawingIs DEF LayoutsOf
<1>5. Drawing(e)
  <2>1. IsFiniteSet(DOMAIN e.objects)
    <3>1. IsFiniteSet(DOMAIN n.objects)
      BY <1>1 DEF Drawing
    <3>. QED
      BY <1>2, <3>1, FS_AddElement
  <2>2. DOMAIN e.objects \subseteq Nat \ {Null}
    <3>1. DOMAIN n.objects \subseteq Nat \ {Null}
      BY <1>1, DrawingIs
    <3>2. l \in Nat \ {Null}
      BY <1>3, <1>4 DEF Null
    <3>. QED
      BY <1>2, <3>1, <3>2
  <2>3. \A h \in DOMAIN e.objects : e.objects[h] \in LayoutObject \cup DictionaryObject
    BY <1>1, <1>2, <1>3 DEF Drawing
  <2>4. e.objects = [h \in DOMAIN e.objects |-> e.objects[h]]
    BY DEF Adds, With
  <2>5. e.ents \in Seq(EntityRecord) /\ {e.model, e.paper, e.next} \subseteq Nat
    BY <1>1, <1>3 DEF Drawing
  <2>. QED
    BY <1>3, <2>1, <2>2, <2>3, <2>4, <2>5 DEF Drawing, Fields
<1>6. Sited(e)
  <2>1. \A j, k \in DOMAIN e.blocks : e.blocks[j].handle = e.blocks[k].handle => j = k
    BY <1>1, <1>3 DEF Sited
  <2>2. \A h \in Records(e) \cup DOMAIN e.objects \cup EntityHandles(e) : h \in 1 .. e.next - 1
    BY <1>1, <1>2, <1>3 DEF Sited
  <2>3. n.blocks[i].handle < n.next
    <3>1. n.blocks[i].handle \in Records(n)
      BY <1>3 DEF Records
    <3>2. n.blocks[i].handle \in 1 .. n.next - 1
      BY <1>1, <3>1 DEF Sited
    <3>. QED
      BY <1>4, <3>2
  <2>4. \A k \in LayoutsOf(e) : e.objects[k].record < e.next
    BY <1>1, <1>2, <1>3, <1>4, <2>3 DEF Sited
  <2>. QED
    BY <1>1, <1>3, <1>5, <2>1, <2>2, <2>4 DEF Sited
<1>7. OneEach(e, Records(e))
  BY <1>1, <1>2, <1>3, <1>4 DEF OneEach, Naming
<1>8. ViewsListed(e)
  <2>. SUFFICES ASSUME NEW j \in DOMAIN n.blocks, NEW k \in LayoutsOf(e),
                       e.objects[k].record = n.blocks[j].handle
                PROVE  ToSet(e.objects[k].views) \subseteq ToSet(n.blocks[j].listed)
    BY <1>3 DEF ViewsListed
  <2>1. CASE k = l
    <3>1. j = i
      BY <1>1, <1>2, <1>3, <2>1 DEF Sited
    <3>. QED
      BY <1>2, <1>3, <2>1, <3>1
  <2>2. CASE k # l
    BY <1>1, <1>2, <1>4, <2>2 DEF ViewsListed
  <2>. QED
    BY <2>1, <2>2
<1>9. LinksStrong(e)
  <2>. SUFFICES ASSUME NEW j \in DOMAIN n.blocks, Naming(e, n.blocks[j].handle) # {}
                PROVE  e.blocks[j].layout \in Naming(e, n.blocks[j].handle) \cup {n.blocks[j].handle}
    BY <1>3 DEF LinksStrong
  <2>1. CASE j = i
    BY <1>2, <1>3, <2>1
  <2>2. CASE j # i
    <3>1. n.blocks[j].handle # n.blocks[i].handle
      BY <1>1, <1>3, <2>2 DEF Sited
    <3>2. Naming(e, n.blocks[j].handle) = Naming(n, n.blocks[j].handle)
      BY <1>2, <3>1
    <3>3. e.blocks[j].layout = n.blocks[j].layout
      BY <1>3, <2>2
    <3>. QED
      BY <3>2, <3>3 DEF LinksStrong
  <2>. QED
    BY <2>1, <2>2
<1>10. LinksWeak(e)
  BY <1>9 DEF LinksWeak, LinksStrong
<1>. QED
  BY <1>6, <1>7, <1>8, <1>9, <1>10 DEF Good

LEMMA AddModelIs ==
    ASSUME NEW d, Good(d), LinksStrong(d), d.layoutDict \in Dictionaries(d),
           NEW i \in DOMAIN d.blocks, Naming(d, d.blocks[i].handle) = {}
    PROVE  LET n == Enter(Take(d, 1), d.layoutDict, "Model", d.next)
               o == Layout("Model", d.layoutDict, d.blocks[i].handle, Null, << >>, 0)
           IN Keeps(n, d) /\ n.next = d.next + 1 /\ Adds(AddModel(d, i), n, d.next, i, o)
<1>. DEFINE t == Take(d, 1)
            n == Enter(t, d.layoutDict, "Model", d.next)
            o == Layout("Model", d.layoutDict, d.blocks[i].handle, Null, << >>, 0)
            s == Store(n, d.next, o)
            e == [s EXCEPT !.blocks[i].layout = d.next]
<1>1. Sited(d) /\ Drawing(d)
  BY DEF Good, Sited
<1>2. d.next \notin DOMAIN d.objects /\ d.next \in Nat \ {Null} /\ "Model" \in Titles
  BY <1>1, NextFree, LayoutsAssumption
<1>3. Keeps(t, d) /\ t.objects = d.objects /\ t.next = d.next + 1 /\ t.layoutDict = d.layoutDict
  BY <1>1, TakeIs
<1>4. d.layoutDict \in Dictionaries(t) /\ Drawing(t)
  BY <1>3 DEF Keeps, Dictionaries, Is
<1>. HIDE DEF t
<1>5. Keeps(n, t) /\ n.next = t.next /\ DOMAIN n.objects = DOMAIN t.objects
      /\ n.layoutDict = t.layoutDict
  BY <1>2, <1>4, EnterIs
<1>6. Keeps(n, d)
  BY <1>1, <1>3, <1>5, KeepsKept
<1>7. Drawing(n)
  BY <1>6 DEF Keeps
<1>8. s = [n EXCEPT !.objects = With(@, d.next, o)] /\ AddModel(d, i) = e
  BY DEF Store, AddModel, n, t
<1>. HIDE DEF n
<1>9. /\ Fields(n) /\ n.nod \in Nat /\ n.layoutDict \in Nat
      /\ DOMAIN n.blocks = 1 .. Len(n.blocks) /\ Len(n.blocks) \in Nat
      /\ \A j \in DOMAIN n.blocks : n.blocks[j] \in BlockRecord
  BY <1>7, DrawingIs
<1>10. n.blocks = d.blocks /\ n.ents = d.ents /\ n.model = d.model /\ n.paper = d.paper
  BY <1>6 DEF Keeps
<1>11. n.blocks[i].handle \in Nat /\ d.layoutDict \in Nat
  BY <1>1, <1>9, <1>10, DrawingIs DEF BlockRecord
<1>12. /\ o.record = n.blocks[i].handle /\ o.views = << >>
       /\ o \in LayoutObject
  BY <1>2, <1>10, <1>11 DEF Layout, LayoutObject, Null
<1>. HIDE DEF o
<1>13. s = [n EXCEPT !.objects = With(n.objects, d.next, o)]
  BY <1>8, <1>9 DEF Fields
<1>. HIDE DEF s
<1>14. /\ s.blocks = n.blocks /\ s.objects = With(n.objects, d.next, o) /\ s.ents = n.ents
       /\ s.nod = n.nod /\ s.layoutDict = n.layoutDict /\ s.model = n.model
       /\ s.paper = n.paper /\ s.next = n.next /\ Fields(s)
  BY <1>9, <1>13 DEF Fields
<1>. DEFINE blocks == [n.blocks EXCEPT ![i] = [n.blocks[i] EXCEPT !.layout = d.next]]
<1>15. e = [s EXCEPT !.blocks = blocks]
  BY <1>14 DEF Fields
<1>16. /\ blocks \in Seq(BlockRecord) /\ DOMAIN blocks = DOMAIN n.blocks
       /\ \A j \in DOMAIN n.blocks :
            /\ blocks[j].name = n.blocks[j].name /\ blocks[j].handle = n.blocks[j].handle
            /\ blocks[j].listed = n.blocks[j].listed
            /\ blocks[j].layout = IF j = i THEN d.next ELSE n.blocks[j].layout
  <2>. DEFINE b == [n.blocks[i] EXCEPT !.layout = d.next]
  <2>1. /\ b \in BlockRecord /\ b.name = n.blocks[i].name /\ b.handle = n.blocks[i].handle
        /\ b.listed = n.blocks[i].listed /\ b.layout = d.next
    BY <1>2, <1>9, <1>10 DEF BlockRecord
  <2>2. blocks = [n.blocks EXCEPT ![i] = b]
    OBVIOUS
  <2>. HIDE DEF b, blocks
  <2>3. /\ DOMAIN blocks = DOMAIN n.blocks
        /\ \A j \in DOMAIN n.blocks : blocks[j] = IF j = i THEN b ELSE n.blocks[j]
    BY <1>10, <2>2
  <2>4. blocks \in Seq(BlockRecord)
    <3>1. n.blocks \in Seq(BlockRecord)
      BY <1>7 DEF Drawing
    <3>. QED
      BY <1>10, <2>1, <2>2, <3>1
  <2>. QED
    BY <2>1, <2>3, <2>4
<1>. HIDE DEF e, blocks
<1>17. /\ e.blocks = blocks /\ e.objects = With(n.objects, d.next, o) /\ e.ents = n.ents
       /\ e.nod = n.nod /\ e.layoutDict = n.layoutDict /\ e.model = n.model
       /\ e.paper = n.paper /\ e.next = n.next /\ Fields(e)
  BY <1>14, <1>15 DEF Fields
<1>18. d.next \in 1 .. n.next - 1 /\ n.next = d.next + 1 /\ d.next \notin DOMAIN n.objects
  BY <1>2, <1>3, <1>5 DEF Null
<1>19. Naming(n, n.blocks[i].handle) = {} /\ i \in DOMAIN n.blocks
  BY <1>6, <1>10, KeepsNames
<1>20. ToSet(o.views) \subseteq ToSet(n.blocks[i].listed)
  BY <1>12 DEF ToSet
<1>21. Adds(e, n, d.next, i, o)
  BY <1>9, <1>12, <1>16, <1>17, <1>18, <1>19, <1>20 DEF Adds
<1>. QED
  BY <1>6, <1>8, <1>18, <1>21 DEF n, t, o

LEMMA WithModelIs ==
    ASSUME NEW d, Good(d), LinksStrong(d)
    PROVE  Good(WithModelLayout(d)) /\ LinksStrong(WithModelLayout(d))
<1>. DEFINE i == Lowest(ModelRecords(d))
            r == Rooted(d)
            w == WithDictionary(r)
<1>1. Sited(d) /\ Drawing(d)
  BY DEF Good, Sited
<1>2. Keeps(r, d) /\ r.nod \in Dictionaries(r)
  BY <1>1, RootedIs
<1>3. Good(r) /\ LinksStrong(r)
  BY <1>2, KeepsGood
<1>4. CASE ModelRecords(d) = {} \/ Naming(d, d.blocks[i].handle) # {} \/ ~RootIsClear(d)
  BY <1>4 DEF WithModelLayout
<1>5. CASE /\ ~(ModelRecords(d) = {} \/ Naming(d, d.blocks[i].handle) # {} \/ ~RootIsClear(d))
           /\ ~EntryIsClear(r)
  BY <1>3, <1>5 DEF WithModelLayout
<1>6. CASE /\ ~(ModelRecords(d) = {} \/ Naming(d, d.blocks[i].handle) # {} \/ ~RootIsClear(d))
           /\ EntryIsClear(r)
  <2>1. ModelRecords(d) \in SUBSET Nat /\ ModelRecords(d) # {}
    <3>1. DOMAIN d.blocks = 1 .. Len(d.blocks) /\ Len(d.blocks) \in Nat
      BY <1>1, DrawingIs
    <3>. QED
      BY <1>6, <3>1 DEF ModelRecords
  <2>2. i \in DOMAIN d.blocks
    BY <2>1, LowestIs DEF ModelRecords
  <2>3. Sited(r) /\ Drawing(r)
    BY <1>3 DEF Good, Sited
  <2>4. WithModelLayout(d) = AddModel(w, i) /\ Naming(d, d.blocks[i].handle) = {}
    BY <1>6 DEF WithModelLayout
  <2>. HIDE DEF i, r
  <2>5. Keeps(w, r) /\ w.layoutDict \in Dictionaries(w)
    BY <1>2, <1>6, <2>3, WithDictionaryIs
  <2>. HIDE DEF w
  <2>6. Keeps(w, d)
    BY <1>1, <1>2, <2>5, KeepsKept
  <2>7. Good(w) /\ LinksStrong(w) /\ w.blocks = d.blocks
    BY <2>6, KeepsGood DEF Keeps
  <2>8. Naming(w, w.blocks[i].handle) = {} /\ i \in DOMAIN w.blocks
    BY <2>2, <2>4, <2>6, <2>7, KeepsNames
  <2>9. PICK n, o : Keeps(n, w) /\ Adds(AddModel(w, i), n, w.next, i, o)
    BY <2>5, <2>7, <2>8, AddModelIs
  <2>10. Good(n) /\ LinksStrong(n)
    BY <2>7, <2>9, KeepsGood
  <2>. QED
    BY <2>4, <2>9, <2>10, AddsGood
<1>. QED
  BY <1>4, <1>5, <1>6

\* ensure_model_layout leaves every record with its link.
LEMMA EnsuredIs ==
    ASSUME NEW d, Good(d), NEW e \in Ensured(d)
    PROVE  Good(e) /\ LinksStrong(e)
<1>1. Drawing(d)
  BY DEF Good, Sited
<1>2. Good(Registered(d))
  BY <1>1, RegisteredIs, KeepsGood
<1>3. PICK p \in Picks(Registered(d)) : e = WithModelLayout(BackLinked(Registered(d), p))
  BY DEF Ensured
<1>4. Good(BackLinked(Registered(d), p)) /\ LinksStrong(BackLinked(Registered(d), p))
  BY <1>2, BackLinkedIs
<1>. QED
  BY <1>3, <1>4, WithModelIs

-----------------------------------------------------------------------------
(* A document that loses layouts, records, viewports or links.              *)

\* e is d without some of them; a layout that stays may have one of the `gone`
\* records in the place of its own.
Lesser(e, d, gone) ==
    /\ Drawing(e) /\ e.ents = d.ents /\ e.next = d.next
    /\ DOMAIN e.objects \subseteq DOMAIN d.objects
    /\ LayoutsOf(e) \subseteq LayoutsOf(d)
    /\ \A l \in LayoutsOf(e) :
          /\ ToSet(e.objects[l].views) \subseteq ToSet(d.objects[l].views)
          /\ e.objects[l].record \in gone \cup {d.objects[l].record}
    /\ \A j \in DOMAIN e.blocks : \E k \in DOMAIN d.blocks :
          /\ e.blocks[j].handle = d.blocks[k].handle /\ e.blocks[j].listed = d.blocks[k].listed
          /\ e.blocks[j].layout \in {Null, d.blocks[k].handle, d.blocks[k].layout}
    /\ \A i, j \in DOMAIN e.blocks : e.blocks[i].handle = e.blocks[j].handle => i = j

\* All its links are those of d.
SameLinks(e, d) ==
    \A j \in DOMAIN e.blocks : \E k \in DOMAIN d.blocks :
        e.blocks[j].handle = d.blocks[k].handle /\ e.blocks[j].layout = d.blocks[k].layout

LEMMA LesserNaming ==
    ASSUME NEW d, NEW e, NEW gone, Lesser(e, d, gone)
    PROVE  /\ \A r : r \notin gone => Naming(e, r) \subseteq Naming(d, r)
           /\ Records(e) \subseteq Records(d)
<1>1. /\ LayoutsOf(e) \subseteq LayoutsOf(d)
      /\ \A l \in LayoutsOf(e) : e.objects[l].record \in gone \cup {d.objects[l].record}
      /\ \A j \in DOMAIN e.blocks : \E k \in DOMAIN d.blocks :
            e.blocks[j].handle = d.blocks[k].handle
  BY DEF Lesser
<1>. QED
  BY <1>1 DEF Naming, Records

LEMMA LesserSited ==
    ASSUME NEW d, NEW e, NEW gone, Sited(d), Lesser(e, d, gone),
           \A g \in gone : g \in 0 .. d.next - 1
    PROVE  Sited(e)
<1>1. /\ Drawing(e) /\ e.ents = d.ents /\ e.next = d.next
      /\ DOMAIN e.objects \subseteq DOMAIN d.objects
      /\ LayoutsOf(e) \subseteq LayoutsOf(d)
      /\ \A l \in LayoutsOf(e) : e.objects[l].record \in gone \cup {d.objects[l].record}
      /\ \A i, j \in DOMAIN e.blocks : e.blocks[i].handle = e.blocks[j].handle => i = j
  BY DEF Lesser
<1>2. Records(e) \subseteq Records(d)
  BY LesserNaming
<1>3. EntityHandles(e) = EntityHandles(d)
  BY <1>1 DEF EntityHandles
<1>4. \A h \in Records(e) \cup DOMAIN e.objects \cup EntityHandles(e) : h \in 1 .. e.next - 1
  BY <1>1, <1>2, <1>3 DEF Sited
<1>5. \A l \in LayoutsOf(e) : e.objects[l].record < e.next
  <2>1. d.next \in Nat
    BY DrawingIs DEF Sited
  <2>. QED
    BY <1>1, <2>1 DEF Sited
<1>. QED
  BY <1>1, <1>4, <1>5 DEF Sited

LEMMA LesserOne ==
    ASSUME NEW d, NEW e, NEW gone, Lesser(e, d, gone), NEW S, OneEach(d, S), gone \cap S = {}
    PROVE  OneEach(e, S)
<1>1. /\ LayoutsOf(e) \subseteq LayoutsOf(d)
      /\ \A l \in LayoutsOf(e) : e.objects[l].record \in gone \cup {d.objects[l].record}
  BY DEF Lesser
<1>. QED
  BY <1>1 DEF OneEach

LEMMA LesserGood ==
    ASSUME NEW d, NEW e, NEW gone, Good(d), Lesser(e, d, gone), gone \cap Records(d) = {},
           \A g \in gone : g \in 0 .. d.next - 1
    PROVE  Good(e) /\ (LinksStrong(d) /\ SameLinks(e, d) => LinksStrong(e))
<1>1. Sited(d) /\ Drawing(d) /\ OneEach(d, Records(d)) /\ ViewsListed(d) /\ LinksWeak(d)
  BY DEF Good, Sited
<1>2. Sited(e) /\ OneEach(e, Records(d))
  BY <1>1, LesserSited, LesserOne
<1>3. /\ \A r : r \notin gone => Naming(e, r) \subseteq Naming(d, r)
      /\ Records(e) \subseteq Records(d)
  BY LesserNaming
<1>4. OneEach(e, Records(e))
  BY <1>2, <1>3 DEF OneEach
<1>5. /\ LayoutsOf(e) \subseteq LayoutsOf(d)
      /\ \A l \in LayoutsOf(e) :
            /\ ToSet(e.objects[l].views) \subseteq ToSet(d.objects[l].views)
            /\ e.objects[l].record \in gone \cup {d.objects[l].record}
  BY DEF Lesser
<1>6. \A j \in DOMAIN e.blocks : \E k \in DOMAIN d.blocks :
        /\ e.blocks[j].handle = d.blocks[k].handle /\ e.blocks[j].listed = d.blocks[k].listed
        /\ e.blocks[j].layout \in {Null, d.blocks[k].handle, d.blocks[k].layout}
  BY DEF Lesser
<1>7. \A k \in DOMAIN d.blocks : d.blocks[k].handle \in Records(d) /\ d.blocks[k].handle \notin gone
  BY DEF Records
<1>8. ViewsListed(e)
  <2>. SUFFICES ASSUME NEW j \in DOMAIN e.blocks, NEW l \in LayoutsOf(e),
                       e.objects[l].record = e.blocks[j].handle
                PROVE  ToSet(e.objects[l].views) \subseteq ToSet(e.blocks[j].listed)
    BY DEF ViewsListed
  <2>1. PICK k \in DOMAIN d.blocks :
          e.blocks[j].handle = d.blocks[k].handle /\ e.blocks[j].listed = d.blocks[k].listed
    BY <1>6
  <2>2. l \in LayoutsOf(d) /\ d.objects[l].record = d.blocks[k].handle
    BY <1>5, <1>7, <2>1
  <2>3. ToSet(d.objects[l].views) \subseteq ToSet(d.blocks[k].listed)
    BY <1>1, <2>2 DEF ViewsListed
  <2>. QED
    BY <1>5, <2>1, <2>3
<1>9. ASSUME NEW k \in DOMAIN d.blocks, NEW j \in DOMAIN e.blocks,
             e.blocks[j].handle = d.blocks[k].handle, Naming(e, d.blocks[k].handle) # {},
             NEW x \in Naming(d, d.blocks[k].handle)
      PROVE  x \in Naming(e, d.blocks[k].handle)
  <2>1. PICK y \in Naming(e, d.blocks[k].handle) : TRUE
    BY <1>9
  <2>2. y \in Naming(d, d.blocks[k].handle)
    BY <1>3, <1>7, <2>1
  <2>3. x = y
    BY <1>1, <1>7, <2>2 DEF OneEach, Naming
  <2>. QED
    BY <2>1, <2>3
<1>10. LinksWeak(e)
  <2>. SUFFICES ASSUME NEW j \in DOMAIN e.blocks, Naming(e, e.blocks[j].handle) # {},
                       e.blocks[j].layout \in LayoutsOf(e)
                PROVE  e.blocks[j].layout \in Naming(e, e.blocks[j].handle) \cup {e.blocks[j].handle}
    BY DEF LinksWeak
  <2>1. PICK k \in DOMAIN d.blocks :
          /\ e.blocks[j].handle = d.blocks[k].handle
          /\ e.blocks[j].layout \in {Null, d.blocks[k].handle, d.blocks[k].layout}
    BY <1>6
  <2>2. e.blocks[j].layout # Null
    <3>1. e.blocks[j].layout \in LayoutsOf(d)
      BY <1>5
    <3>. QED
      BY <1>1, <3>1, LayoutIs
  <2>3. CASE e.blocks[j].layout = d.blocks[k].handle
    BY <2>1, <2>3
  <2>4. CASE e.blocks[j].layout = d.blocks[k].layout
    <3>1. Naming(d, d.blocks[k].handle) # {} /\ d.blocks[k].layout \in LayoutsOf(d)
      BY <1>3, <1>5, <1>7, <2>1, <2>4
    <3>2. d.blocks[k].layout \in Naming(d, d.blocks[k].handle) \cup {d.blocks[k].handle}
      BY <1>1, <3>1 DEF LinksWeak
    <3>. QED
      BY <1>9, <2>1, <2>4, <3>2
  <2>. QED
    BY <2>1, <2>2, <2>3, <2>4
<1>11. ASSUME LinksStrong(d), SameLinks(e, d) PROVE LinksStrong(e)
  <2>. SUFFICES ASSUME NEW j \in DOMAIN e.blocks, Naming(e, e.blocks[j].handle) # {}
                PROVE  e.blocks[j].layout \in Naming(e, e.blocks[j].handle) \cup {e.blocks[j].handle}
    BY DEF LinksStrong
  <2>1. PICK k \in DOMAIN d.blocks :
          e.blocks[j].handle = d.blocks[k].handle /\ e.blocks[j].layout = d.blocks[k].layout
    BY <1>11 DEF SameLinks
  <2>2. Naming(d, d.blocks[k].handle) # {}
    BY <1>3, <1>7, <2>1
  <2>3. d.blocks[k].layout \in Naming(d, d.blocks[k].handle) \cup {d.blocks[k].handle}
    BY <1>11, <2>2 DEF LinksStrong
  <2>. QED
    BY <1>9, <2>1, <2>3
<1>. QED
  BY <1>2, <1>4, <1>8, <1>10, <1>11 DEF Good

\* A file that lost them is still one.
LEMMA LesserFile ==
    ASSUME NEW d, NEW e, FileGood(d), Lesser(e, d, {Null, Elsewhere}),
           e.model = d.model, e.paper = d.paper
    PROVE  FileGood(e)
<1>. DEFINE gone == {Null, Elsewhere}
<1>1. /\ Sited(d) /\ OneEach(d, Spaces(d)) /\ ViewsOwned(d) /\ LinksWeak(d)
      /\ d.model < d.next /\ d.paper < d.next /\ {Null, Elsewhere} \cap Spaces(d) = {}
      /\ ViewsListed(d)
      /\ Records(d) \cap DOMAIN d.objects = {} /\ Elsewhere \notin DOMAIN d.objects
      /\ \A l \in LayoutsOf(d) :
          d.objects[l].record \in DOMAIN d.objects => d.objects[l].record \in {d.model, d.paper}
  BY DEF FileGood, Spacious
<1>2. Drawing(d) /\ d.next \in Nat /\ Elsewhere \in 1 .. d.next - 1
  BY <1>1, DrawingIs DEF Sited
<1>3. \A g \in gone : g \in 0 .. d.next - 1
  BY <1>2 DEF Null
<1>4. Records(d) \subseteq Spaces(d)
  BY DEF Spaces
<1>5. Good(d) /\ gone \cap Records(d) = {} /\ gone \cap Spaces(d) = {}
  BY <1>1, <1>4 DEF Good, OneEach
<1>6. Good(e)
  BY <1>3, <1>5, LesserGood
<1>7. Records(e) \subseteq Records(d) /\ Spaces(e) \subseteq Spaces(d)
  BY LesserNaming DEF Spaces
<1>8. OneEach(e, Spaces(e))
  <2>1. OneEach(e, Spaces(d))
    BY <1>1, <1>5, LesserOne
  <2>. QED
    BY <1>7, <2>1 DEF OneEach
<1>9. /\ e.ents = d.ents /\ e.next = d.next
      /\ DOMAIN e.objects \subseteq DOMAIN d.objects
      /\ LayoutsOf(e) \subseteq LayoutsOf(d)
      /\ \A l \in LayoutsOf(e) :
          /\ ToSet(e.objects[l].views) \subseteq ToSet(d.objects[l].views)
          /\ e.objects[l].record \in gone \cup {d.objects[l].record}
  BY DEF Lesser
<1>10. ViewsOwned(e)
  <2>. SUFFICES ASSUME NEW l \in LayoutsOf(e), e.objects[l].record \in Spaces(e),
                       NEW h \in ToSet(e.objects[l].views)
                PROVE  Belongs(e, h, e.objects[l].record)
    BY DEF ViewsOwned
  <2>1. l \in LayoutsOf(d) /\ d.objects[l].record = e.objects[l].record
        /\ d.objects[l].record \in Spaces(d) /\ h \in ToSet(d.objects[l].views)
    BY <1>5, <1>7, <1>9
  <2>2. Belongs(d, h, d.objects[l].record)
    BY <1>1, <2>1 DEF ViewsOwned
  <2>. QED
    BY <1>9, <2>1, <2>2 DEF Belongs
<1>11. Spacious(e)
  BY <1>1, <1>6, <1>7, <1>8, <1>9, <1>10 DEF Spacious, Good
<1>12. Records(e) \cap DOMAIN e.objects = {} /\ Elsewhere \notin DOMAIN e.objects
  BY <1>1, <1>7, <1>9
<1>13. \A l \in LayoutsOf(e) :
          e.objects[l].record \in DOMAIN e.objects => e.objects[l].record \in {e.model, e.paper}
  <2>1. Null \notin DOMAIN d.objects
    BY <1>2, DrawingIs
  <2>. QED
    BY <1>1, <1>9, <2>1
<1>. QED
  BY <1>6, <1>11, <1>12, <1>13 DEF FileGood, Good

\* e is d with other objects.
Reworked(e, d, objects) ==
    /\ Fields(e) /\ e.objects = objects /\ e.blocks = d.blocks /\ e.ents = d.ents
    /\ e.nod = d.nod /\ e.layoutDict = d.layoutDict
    /\ e.model = d.model /\ e.paper = d.paper /\ e.next = d.next

LEMMA ReworkedIs ==
    ASSUME NEW d, Drawing(d), NEW objects
    PROVE  Reworked([d EXCEPT !.objects = objects], d, objects)
<1>. DEFINE e == [d EXCEPT !.objects = objects]
<1>1. Fields(d)
  BY DrawingIs
<1>2. e = [d EXCEPT !.objects = objects]
  OBVIOUS
<1>. HIDE DEF e
<1>3. /\ e.blocks = d.blocks /\ e.objects = objects /\ e.ents = d.ents /\ e.nod = d.nod
      /\ e.layoutDict = d.layoutDict /\ e.model = d.model /\ e.paper = d.paper
      /\ e.next = d.next /\ Fields(e)
  BY <1>1, <1>2 DEF Fields
<1>4. Reworked(e, d, objects)
  BY <1>3 DEF Reworked
<1>. QED
  BY <1>2, <1>4

LEMMA ReworkedDrawing ==
    ASSUME NEW d, Drawing(d), NEW e, NEW objects, Reworked(e, d, objects),
           objects = [h \in DOMAIN objects |-> objects[h]],
           DOMAIN objects \subseteq DOMAIN d.objects,
           \A h \in DOMAIN objects : objects[h] \in LayoutObject \cup DictionaryObject
    PROVE  Drawing(e)
<1>1. IsFiniteSet(DOMAIN objects) /\ DOMAIN objects \subseteq Nat \ {Null}
  <2>1. IsFiniteSet(DOMAIN d.objects) /\ DOMAIN d.objects \subseteq Nat \ {Null}
    BY DEF Drawing
  <2>. QED
    BY <2>1, FS_Subset
<1>. QED
  BY <1>1 DEF Drawing, Reworked, Fields

\* Objects that are those of a document, but for the entries of dictionaries and
\* a few fields of layouts.
LEMMA ReworkedLesser ==
    ASSUME NEW d, Sited(d), NEW e, NEW objects, NEW gone, Reworked(e, d, objects),
           objects = [h \in DOMAIN objects |-> objects[h]],
           DOMAIN objects \subseteq DOMAIN d.objects,
           \A h \in DOMAIN objects :
              IF d.objects[h].kind = "layout"
              THEN /\ objects[h] \in LayoutObject
                   /\ ToSet(objects[h].views) \subseteq ToSet(d.objects[h].views)
                   /\ objects[h].record \in gone \cup {d.objects[h].record}
              ELSE objects[h] \in DictionaryObject
    PROVE  Lesser(e, d, gone) /\ SameLinks(e, d)
<1>1. Drawing(d) /\ \A i, j \in DOMAIN d.blocks : d.blocks[i].handle = d.blocks[j].handle => i = j
  BY DEF Sited
<1>2. Drawing(e)
  <2>1. \A h \in DOMAIN objects : objects[h] \in LayoutObject \cup DictionaryObject
    OBVIOUS
  <2>. QED
    BY <1>1, <2>1, ReworkedDrawing
<1>3. e.objects = objects /\ e.blocks = d.blocks /\ e.ents = d.ents /\ e.next = d.next
  BY DEF Reworked
<1>4. \A h \in DOMAIN objects : objects[h].kind = "layout" => d.objects[h].kind = "layout"
  BY DEF DictionaryObject
<1>5. LayoutsOf(e) \subseteq LayoutsOf(d)
  BY <1>3, <1>4 DEF LayoutsOf, Is
<1>6. ASSUME NEW l \in LayoutsOf(e)
      PROVE  /\ ToSet(e.objects[l].views) \subseteq ToSet(d.objects[l].views)
             /\ e.objects[l].record \in gone \cup {d.objects[l].record}
  <2>1. l \in DOMAIN objects /\ d.objects[l].kind = "layout"
    BY <1>3, <1>5 DEF LayoutsOf, Is
  <2>. QED
    BY <1>3, <2>1
<1>7. \A j \in DOMAIN e.blocks : \E k \in DOMAIN d.blocks :
          /\ e.blocks[j].handle = d.blocks[k].handle /\ e.blocks[j].listed = d.blocks[k].listed
          /\ e.blocks[j].layout \in {Null, d.blocks[k].handle, d.blocks[k].layout}
  BY <1>3
<1>8. SameLinks(e, d)
  BY <1>3 DEF SameLinks
<1>. QED
  BY <1>1, <1>2, <1>3, <1>5, <1>6, <1>7, <1>8 DEF Lesser

\* A document of a layout whose record is not the one it had.
LEMMA DangledIs ==
    ASSUME NEW d, Sited(d), NEW l \in LayoutsOf(d), NEW h \in Nat
    PROVE  LET e == [d EXCEPT !.objects[l].record = h]
           IN Lesser(e, d, {h}) /\ e.model = d.model /\ e.paper = d.paper
<1>. DEFINE new == [d.objects[l] EXCEPT !.record = h]
            objects == [d.objects EXCEPT ![l] = new]
            e == [d EXCEPT !.objects = objects]
<1>1. Drawing(d)
  BY DEF Sited
<1>2. l \in DOMAIN d.objects /\ d.objects[l] \in LayoutObject /\ d.objects[l].kind = "layout"
      /\ Fields(d) /\ d.objects = [k \in DOMAIN d.objects |-> d.objects[k]]
  BY <1>1, LayoutIs, DrawingIs
<1>3. new \in LayoutObject /\ new.views = d.objects[l].views /\ new.record = h
  BY <1>2 DEF LayoutObject
<1>4. e = [d EXCEPT !.objects[l].record = h]
  BY <1>2 DEF Fields
<1>5. objects = [d.objects EXCEPT ![l] = new]
  OBVIOUS
<1>6. Reworked(e, d, objects)
  BY <1>1, ReworkedIs
<1>. HIDE DEF e, new, objects
<1>7. /\ DOMAIN objects = DOMAIN d.objects /\ objects = [k \in DOMAIN objects |-> objects[k]]
      /\ \A k \in DOMAIN objects : objects[k] = IF k = l THEN new ELSE d.objects[k]
  BY <1>2, <1>5
<1>8. \A k \in DOMAIN d.objects : d.objects[k] \in
        IF d.objects[k].kind = "layout" THEN LayoutObject ELSE DictionaryObject
  BY <1>1 DEF Drawing, LayoutObject, DictionaryObject
<1>9. \A k \in DOMAIN objects :
              IF d.objects[k].kind = "layout"
              THEN /\ objects[k] \in LayoutObject
                   /\ ToSet(objects[k].views) \subseteq ToSet(d.objects[k].views)
                   /\ objects[k].record \in {h} \cup {d.objects[k].record}
              ELSE objects[k] \in DictionaryObject
  BY <1>2, <1>3, <1>7, <1>8
<1>10. Lesser(e, d, {h})
  BY <1>6, <1>7, <1>9, ReworkedLesser
<1>. QED
  BY <1>4, <1>6, <1>10 DEF Reworked

LEMMA KindOf ==
    ASSUME NEW d, Drawing(d), NEW h \in DOMAIN d.objects
    PROVE  IF d.objects[h].kind = "layout" THEN d.objects[h] \in LayoutObject
           ELSE d.objects[h] \in DictionaryObject /\ d.objects[h].kind = "dictionary"
BY DEF Drawing, LayoutObject, DictionaryObject

\* The viewport lists gone.
LEMMA StripViewsIs ==
    ASSUME NEW d, Sited(d)
    PROVE  LET e == [d EXCEPT !.objects = [h \in DOMAIN @ |->
                        IF @[h].kind = "layout" THEN [@[h] EXCEPT !.views = << >>] ELSE @[h]]]
           IN Lesser(e, d, {}) /\ e.model = d.model /\ e.paper = d.paper
<1>. DEFINE objects == [h \in DOMAIN d.objects |->
                          IF d.objects[h].kind = "layout" THEN [d.objects[h] EXCEPT !.views = << >>]
                          ELSE d.objects[h]]
            e == [d EXCEPT !.objects = objects]
<1>1. Drawing(d)
  BY DEF Sited
<1>2. Fields(d)
  BY <1>1, DrawingIs
<1>3. e = [d EXCEPT !.objects = [h \in DOMAIN @ |->
             IF @[h].kind = "layout" THEN [@[h] EXCEPT !.views = << >>] ELSE @[h]]]
  BY <1>2 DEF Fields
<1>4. Reworked(e, d, objects)
  BY <1>1, ReworkedIs
<1>. HIDE DEF e
<1>5. DOMAIN objects = DOMAIN d.objects /\ objects = [k \in DOMAIN objects |-> objects[k]]
  OBVIOUS
<1>6. ASSUME NEW k \in DOMAIN objects
      PROVE  IF d.objects[k].kind = "layout"
             THEN /\ objects[k] \in LayoutObject
                  /\ ToSet(objects[k].views) \subseteq ToSet(d.objects[k].views)
                  /\ objects[k].record \in {} \cup {d.objects[k].record}
             ELSE objects[k] \in DictionaryObject
  <2>1. CASE d.objects[k].kind = "layout"
    <3>1. d.objects[k] \in LayoutObject
      BY <1>1, <2>1, KindOf
    <3>2. objects[k] = [d.objects[k] EXCEPT !.views = << >>]
      BY <2>1
    <3>3. << >> \in Seq(Nat)
      OBVIOUS
    <3>. HIDE DEF objects
    <3>4. objects[k] \in LayoutObject /\ objects[k].views = << >>
          /\ objects[k].record = d.objects[k].record
      BY <3>1, <3>2, <3>3 DEF LayoutObject
    <3>. QED
      BY <2>1, <3>4 DEF ToSet
  <2>2. CASE d.objects[k].kind # "layout"
    BY <1>1, <2>2, KindOf
  <2>. QED
    BY <2>1, <2>2
<1>. HIDE DEF objects
<1>7. Lesser(e, d, {})
  BY <1>4, <1>5, <1>6, ReworkedLesser
<1>. QED
  BY <1>3, <1>4, <1>7 DEF Reworked

\* An object gone, its entries left or dropped.
Without(d, l) == [h \in DOMAIN d.objects \ {l} |-> d.objects[h]]
Removed(d, l) ==
    [h \in DOMAIN d.objects \ {l} |->
        IF d.objects[h].kind = "dictionary" THEN Unentered(d.objects[h], l) ELSE d.objects[h]]

LEMMA WithoutIs ==
    ASSUME NEW d, Sited(d), NEW l
    PROVE  LET e == [d EXCEPT !.objects = Without(d, l)]
           IN Lesser(e, d, {}) /\ SameLinks(e, d) /\ e.model = d.model /\ e.paper = d.paper
<1>. DEFINE objects == Without(d, l)
            e == [d EXCEPT !.objects = objects]
<1>1. Drawing(d)
  BY DEF Sited
<1>2. Reworked(e, d, objects)
  BY <1>1, ReworkedIs
<1>. HIDE DEF e
<1>3. /\ objects = [k \in DOMAIN objects |-> objects[k]] /\ DOMAIN objects \subseteq DOMAIN d.objects
      /\ \A k \in DOMAIN objects : objects[k] = d.objects[k]
  BY DEF Without
<1>. HIDE DEF objects
<1>4. \A k \in DOMAIN objects :
          IF d.objects[k].kind = "layout"
          THEN /\ objects[k] \in LayoutObject
               /\ ToSet(objects[k].views) \subseteq ToSet(d.objects[k].views)
               /\ objects[k].record \in {} \cup {d.objects[k].record}
          ELSE objects[k] \in DictionaryObject
  BY <1>1, <1>3, KindOf
<1>5. Lesser(e, d, {}) /\ SameLinks(e, d)
  BY <1>2, <1>3, <1>4, ReworkedLesser
<1>6. e.model = d.model /\ e.paper = d.paper
  BY <1>2 DEF Reworked
<1>. QED
  BY <1>5, <1>6 DEF e, objects

LEMMA RemovedObjectIs ==
    ASSUME NEW d, Sited(d), NEW l
    PROVE  LET e == [d EXCEPT !.objects = Removed(d, l)]
           IN Lesser(e, d, {}) /\ SameLinks(e, d) /\ e.model = d.model /\ e.paper = d.paper
<1>. DEFINE objects == Removed(d, l)
            e == [d EXCEPT !.objects = objects]
<1>1. Drawing(d)
  BY DEF Sited
<1>2. Reworked(e, d, objects)
  BY <1>1, ReworkedIs
<1>. HIDE DEF e
<1>3. /\ objects = [k \in DOMAIN objects |-> objects[k]] /\ DOMAIN objects \subseteq DOMAIN d.objects
  BY DEF Removed
<1>4. ASSUME NEW k \in DOMAIN objects
      PROVE  IF d.objects[k].kind = "layout"
             THEN /\ objects[k] \in LayoutObject
                  /\ ToSet(objects[k].views) \subseteq ToSet(d.objects[k].views)
                  /\ objects[k].record \in {} \cup {d.objects[k].record}
             ELSE objects[k] \in DictionaryObject
  <2>1. k \in DOMAIN d.objects /\ k \in DOMAIN d.objects \ {l}
    BY DEF Removed
  <2>2. CASE d.objects[k].kind = "layout"
    <3>1. objects[k] = d.objects[k]
      BY <2>1, <2>2 DEF Removed
    <3>. QED
      BY <1>1, <2>1, <2>2, <3>1, KindOf
  <2>3. CASE d.objects[k].kind # "layout"
    <3>. DEFINE entries == Kept(d.objects[k].entries, {x \in ToSet(d.objects[k].entries) : x[2] # l})
    <3>1. d.objects[k] \in DictionaryObject /\ d.objects[k].kind = "dictionary"
      BY <1>1, <2>1, <2>3, KindOf
    <3>2. objects[k] = [d.objects[k] EXCEPT !.entries = entries]
      <4>1. objects[k] = Unentered(d.objects[k], l)
        BY <2>1, <3>1 DEF Removed
      <4>. QED
        BY <3>1, <4>1 DEF Unentered, DictionaryObject
    <3>3. d.objects[k].entries \in Seq(Titles \X Nat)
      BY <3>1 DEF DictionaryObject
    <3>4. entries \in Seq(Titles \X Nat)
      BY <3>3, KeptTyped
    <3>. HIDE DEF entries, objects
    <3>5. objects[k] \in DictionaryObject
      BY <3>1, <3>2, <3>4 DEF DictionaryObject
    <3>. QED
      BY <2>3, <3>5
  <2>. QED
    BY <2>2, <2>3
<1>. HIDE DEF objects
<1>5. Lesser(e, d, {}) /\ SameLinks(e, d)
  BY <1>2, <1>3, <1>4, ReworkedLesser
<1>6. e.model = d.model /\ e.paper = d.paper
  BY <1>2 DEF Reworked
<1>. QED
  BY <1>5, <1>6 DEF e, objects

LEMMA ForgetIs ==
    ASSUME Sited(doc), NEW l, Forget(l)
    PROVE  /\ Lesser(doc', doc, {}) /\ SameLinks(doc', doc)
           /\ doc'.model = doc.model /\ doc'.paper = doc.paper
<1>1. Fields(doc)
  BY DrawingIs DEF Sited
<1>2. CASE doc' = [doc EXCEPT !.objects = [h \in DOMAIN @ \ {l} |-> @[h]]]
  <2>1. doc' = [doc EXCEPT !.objects = Without(doc, l)]
    BY <1>1, <1>2 DEF Fields, Without
  <2>. QED
    BY <2>1, WithoutIs
<1>3. CASE doc' = [doc EXCEPT !.objects = [h \in DOMAIN @ \ {l} |->
             IF @[h].kind = "dictionary" THEN Unentered(@[h], l) ELSE @[h]]]
  <2>1. doc' = [doc EXCEPT !.objects = Removed(doc, l)]
    BY <1>1, <1>3 DEF Fields, Removed
  <2>. QED
    BY <2>1, RemovedObjectIs
<1>. QED
  BY <1>2, <1>3 DEF Forget

\* e is d with other records.
Refiled(e, d, blocks) ==
    /\ Fields(e) /\ e.blocks = blocks /\ e.objects = d.objects /\ e.ents = d.ents
    /\ e.nod = d.nod /\ e.layoutDict = d.layoutDict
    /\ e.model = d.model /\ e.paper = d.paper /\ e.next = d.next

LEMMA RefiledIs ==
    ASSUME NEW d, Drawing(d), NEW blocks
    PROVE  Refiled([d EXCEPT !.blocks = blocks], d, blocks)
<1>. DEFINE e == [d EXCEPT !.blocks = blocks]
<1>1. Fields(d)
  BY DrawingIs
<1>2. e = [d EXCEPT !.blocks = blocks]
  OBVIOUS
<1>. HIDE DEF e
<1>3. /\ e.blocks = blocks /\ e.objects = d.objects /\ e.ents = d.ents /\ e.nod = d.nod
      /\ e.layoutDict = d.layoutDict /\ e.model = d.model /\ e.paper = d.paper
      /\ e.next = d.next /\ Fields(e)
  BY <1>1, <1>2 DEF Fields
<1>4. Refiled(e, d, blocks)
  BY <1>3 DEF Refiled
<1>. QED
  BY <1>2, <1>4

LEMMA RefiledDrawing ==
    ASSUME NEW d, Drawing(d), NEW e, NEW blocks \in Seq(BlockRecord), Refiled(e, d, blocks)
    PROVE  Drawing(e) /\ LayoutsOf(e) = LayoutsOf(d)
BY DEF Drawing, Refiled, Fields, LayoutsOf, Is

\* A list of records without one of them.
LEMMA RemovedIs ==
    ASSUME NEW T, NEW s \in Seq(T), NEW i \in 1 .. Len(s)
    PROVE  LET t == RemoveAt(s, i)
           IN /\ t \in Seq(T) /\ Len(t) = Len(s) - 1
              /\ \A j \in 1 .. Len(t) : t[j] = s[IF j < i THEN j ELSE j + 1]
<1>. DEFINE a == SubSeq(s, 1, i - 1)
            b == SubSeq(s, i + 1, Len(s))
<1>1. /\ Len(s) \in Nat /\ i \in Nat /\ \A j \in 1 .. Len(s) : s[j] \in T
  OBVIOUS
<1>2. /\ a \in Seq(T) /\ Len(a) = i - 1 /\ \A j \in 1 .. i - 1 : a[j] = s[j]
  BY <1>1
<1>3. /\ b \in Seq(T) /\ Len(b) = Len(s) - i /\ \A j \in 1 .. Len(s) - i : b[j] = s[j + i]
  BY <1>1
<1>4. RemoveAt(s, i) = a \o b
  BY DEF RemoveAt
<1>. HIDE DEF a, b
<1>5. a \o b \in Seq(T) /\ Len(a \o b) = Len(s) - 1
  <2>1. a \in Seq(T) /\ b \in Seq(T)
    BY <1>2, <1>3
  <2>2. a \o b \in Seq(T) /\ Len(a \o b) = Len(a) + Len(b)
    BY <2>1
  <2>. QED
    BY <1>1, <1>2, <1>3, <2>2
<1>6. \A j \in 1 .. Len(s) - 1 : (a \o b)[j] = IF j <= i - 1 THEN a[j] ELSE b[j - (i - 1)]
  BY <1>1, <1>2, <1>3
<1>7. ASSUME NEW j \in 1 .. Len(s) - 1 PROVE (a \o b)[j] = s[IF j < i THEN j ELSE j + 1]
  <2>1. CASE j < i
    BY <1>1, <1>2, <1>6, <2>1
  <2>2. CASE ~(j < i)
    <3>1. j - (i - 1) \in 1 .. Len(s) - i /\ (j - (i - 1)) + i = j + 1
      BY <1>1, <2>2
    <3>2. ~(j <= i - 1)
      BY <1>1, <2>2
    <3>3. (a \o b)[j] = b[j - (i - 1)]
      BY <1>6, <3>2
    <3>4. b[j - (i - 1)] = s[j + 1]
      BY <1>3, <3>1
    <3>. QED
      BY <2>2, <3>3, <3>4
  <2>. QED
    BY <2>1, <2>2
<1>. QED
  BY <1>4, <1>5, <1>7

LEMMA RefiledLesser ==
    ASSUME NEW d, Sited(d), NEW e, NEW blocks \in Seq(BlockRecord), Refiled(e, d, blocks),
           \A j \in DOMAIN blocks : \E k \in DOMAIN d.blocks :
              /\ blocks[j].handle = d.blocks[k].handle /\ blocks[j].listed = d.blocks[k].listed
              /\ blocks[j].layout \in {Null, d.blocks[k].handle, d.blocks[k].layout},
           \A i, j \in DOMAIN blocks : blocks[i].handle = blocks[j].handle => i = j
    PROVE  Lesser(e, d, {})
<1>1. Drawing(e) /\ LayoutsOf(e) = LayoutsOf(d)
  BY RefiledDrawing DEF Sited
<1>2. e.blocks = blocks /\ e.objects = d.objects /\ e.ents = d.ents /\ e.next = d.next
  BY DEF Refiled
<1>. QED
  BY <1>1, <1>2 DEF Lesser

LEMMA ForgetRecordIs ==
    ASSUME Sited(doc), NEW i \in DOMAIN doc.blocks, ForgetRecord(i)
    PROVE  /\ Lesser(doc', doc, {}) /\ SameLinks(doc', doc)
           /\ doc'.model = doc.model /\ doc'.paper = doc.paper
<1>. DEFINE blocks == RemoveAt(doc.blocks, i)
<1>1. Drawing(doc) /\ Fields(doc) /\ doc.blocks \in Seq(BlockRecord)
      /\ DOMAIN doc.blocks = 1 .. Len(doc.blocks) /\ Len(doc.blocks) \in Nat
      /\ \A j, k \in DOMAIN doc.blocks : doc.blocks[j].handle = doc.blocks[k].handle => j = k
  BY DrawingIs DEF Sited, Drawing
<1>2. doc' = [doc EXCEPT !.blocks = blocks]
  BY <1>1 DEF ForgetRecord, Fields
<1>3. Refiled(doc', doc, blocks)
  BY <1>1, <1>2, RefiledIs
<1>4. /\ blocks \in Seq(BlockRecord) /\ Len(blocks) = Len(doc.blocks) - 1
      /\ \A j \in 1 .. Len(blocks) : blocks[j] = doc.blocks[IF j < i THEN j ELSE j + 1]
  BY <1>1, RemovedIs
<1>. HIDE DEF blocks
<1>5. DOMAIN blocks = 1 .. Len(blocks)
  BY <1>4
<1>6. ASSUME NEW j \in DOMAIN blocks
      PROVE  \E k \in DOMAIN doc.blocks : blocks[j] = doc.blocks[k]
  <2>1. (IF j < i THEN j ELSE j + 1) \in DOMAIN doc.blocks
    BY <1>1, <1>4, <1>5
  <2>2. blocks[j] = doc.blocks[IF j < i THEN j ELSE j + 1]
    BY <1>4, <1>5
  <2>. QED
    BY <2>1, <2>2
<1>7. ASSUME NEW j \in DOMAIN blocks, NEW k \in DOMAIN blocks, blocks[j].handle = blocks[k].handle
      PROVE  j = k
  <2>. DEFINE at(x) == IF x < i THEN x ELSE x + 1
  <2>1. at(j) \in DOMAIN doc.blocks /\ at(k) \in DOMAIN doc.blocks /\ j \in Nat /\ k \in Nat /\ i \in Nat
    BY <1>1, <1>4, <1>5
  <2>2. doc.blocks[at(j)].handle = doc.blocks[at(k)].handle
    BY <1>4, <1>5, <1>7
  <2>3. at(j) = at(k)
    BY <1>1, <2>1, <2>2
  <2>. QED
    BY <2>1, <2>3
<1>8. Lesser(doc', doc, {})
  BY <1>3, <1>4, <1>6, <1>7, RefiledLesser
<1>9. SameLinks(doc', doc)
  BY <1>3, <1>6 DEF SameLinks, Refiled
<1>. QED
  BY <1>3, <1>8, <1>9 DEF Refiled

LEMMA StripLinksIs ==
    ASSUME Sited(doc), StripLinks
    PROVE  Lesser(doc', doc, {}) /\ doc'.model = doc.model /\ doc'.paper = doc.paper
<1>1. /\ Drawing(doc) /\ Fields(doc) /\ doc.blocks \in Seq(BlockRecord)
      /\ DOMAIN doc.blocks = 1 .. Len(doc.blocks) /\ Len(doc.blocks) \in Nat
      /\ \A j \in DOMAIN doc.blocks : doc.blocks[j] \in BlockRecord
      /\ \A j, k \in DOMAIN doc.blocks : doc.blocks[j].handle = doc.blocks[k].handle => j = k
  BY DrawingIs DEF Sited, Drawing
<1>2. CASE doc' = [doc EXCEPT !.blocks = [i \in DOMAIN @ |-> [@[i] EXCEPT !.layout = Null]]]
  <2>. DEFINE blocks == [i \in DOMAIN doc.blocks |-> [doc.blocks[i] EXCEPT !.layout = Null]]
  <2>1. doc' = [doc EXCEPT !.blocks = blocks]
    BY <1>1, <1>2 DEF Fields
  <2>2. Refiled(doc', doc, blocks)
    BY <1>1, <2>1, RefiledIs
  <2>3. ASSUME NEW j \in DOMAIN doc.blocks
        PROVE  /\ blocks[j] \in BlockRecord /\ blocks[j].layout = Null
               /\ blocks[j].handle = doc.blocks[j].handle /\ blocks[j].listed = doc.blocks[j].listed
    BY <1>1 DEF BlockRecord, Null
  <2>4. DOMAIN blocks = DOMAIN doc.blocks /\ blocks = [j \in 1 .. Len(doc.blocks) |-> blocks[j]]
    BY <1>1
  <2>. HIDE DEF blocks
  <2>5. \A j \in DOMAIN doc.blocks :
           /\ blocks[j] \in BlockRecord /\ blocks[j].layout = Null
           /\ blocks[j].handle = doc.blocks[j].handle /\ blocks[j].listed = doc.blocks[j].listed
    BY <2>3
  <2>6. blocks \in Seq(BlockRecord)
    <3>1. \A j \in 1 .. Len(doc.blocks) : blocks[j] \in BlockRecord
      BY <1>1, <2>5
    <3>. QED
      BY <1>1, <2>4, <3>1, SeqIs
  <2>7. \A j \in DOMAIN blocks : \E k \in DOMAIN doc.blocks :
           /\ blocks[j].handle = doc.blocks[k].handle /\ blocks[j].listed = doc.blocks[k].listed
           /\ blocks[j].layout \in {Null, doc.blocks[k].handle, doc.blocks[k].layout}
    BY <2>4, <2>5
  <2>8. \A j, k \in DOMAIN blocks : blocks[j].handle = blocks[k].handle => j = k
    BY <1>1, <2>4, <2>5
  <2>9. Lesser(doc', doc, {})
    BY <2>2, <2>6, <2>7, <2>8, RefiledLesser
  <2>. QED
    BY <2>2, <2>9 DEF Refiled
<1>3. ASSUME NEW i \in DOMAIN doc.blocks,
             doc' = [doc EXCEPT !.blocks[i].layout = doc.blocks[i].handle]
      PROVE  Lesser(doc', doc, {}) /\ doc'.model = doc.model /\ doc'.paper = doc.paper
  <2>. DEFINE b == [doc.blocks[i] EXCEPT !.layout = doc.blocks[i].handle]
              blocks == [doc.blocks EXCEPT ![i] = b]
  <2>1. doc' = [doc EXCEPT !.blocks = blocks]
    BY <1>1, <1>3 DEF Fields
  <2>2. Refiled(doc', doc, blocks)
    BY <1>1, <2>1, RefiledIs
  <2>3. /\ b \in BlockRecord /\ b.layout = doc.blocks[i].handle
        /\ b.handle = doc.blocks[i].handle /\ b.listed = doc.blocks[i].listed
    BY <1>1 DEF BlockRecord
  <2>4. blocks = [doc.blocks EXCEPT ![i] = b]
    OBVIOUS
  <2>. HIDE DEF blocks, b
  <2>5. blocks \in Seq(BlockRecord) /\ DOMAIN blocks = DOMAIN doc.blocks
    BY <1>1, <2>3, <2>4
  <2>6. \A j \in DOMAIN blocks : blocks[j] = IF j = i THEN b ELSE doc.blocks[j]
    BY <1>1, <2>4
  <2>7. \A j \in DOMAIN blocks :
           /\ blocks[j].handle = doc.blocks[j].handle /\ blocks[j].listed = doc.blocks[j].listed
           /\ blocks[j].layout \in {Null, doc.blocks[j].handle, doc.blocks[j].layout}
    BY <2>3, <2>5, <2>6
  <2>8. Lesser(doc', doc, {})
    BY <1>1, <2>2, <2>5, <2>7, RefiledLesser, SMTT(30)
  <2>. QED
    BY <2>2, <2>8 DEF Refiled
<1>. QED
  BY <1>2, <1>3 DEF StripLinks

LEMMA KeepsFile ==
    ASSUME NEW d, NEW e, FileGood(d), Keeps(e, d), DOMAIN e.objects = DOMAIN d.objects
    PROVE  FileGood(e)
<1>1. Sited(d) /\ Drawing(d) /\ Drawing(e)
  BY DEF FileGood, Spacious, Sited, Keeps
<1>2. Sited(e)
  BY <1>1, KeepsSited
<1>3. /\ OneEach(d, Spaces(d)) /\ ViewsOwned(d) /\ LinksWeak(d) /\ ViewsListed(d)
      /\ d.model < d.next /\ d.paper < d.next /\ {Null, Elsewhere} \cap Spaces(d) = {}
      /\ Records(d) \cap DOMAIN d.objects = {} /\ Elsewhere \notin DOMAIN d.objects
      /\ \A l \in LayoutsOf(d) :
          d.objects[l].record \in DOMAIN d.objects => d.objects[l].record \in {d.model, d.paper}
  BY DEF FileGood, Spacious
<1>4. Records(e) = Records(d) /\ Spaces(e) = Spaces(d)
  BY KeepsNames
<1>5. OneEach(e, Spaces(e)) /\ ViewsOwned(e) /\ LinksWeak(e) /\ ViewsListed(e)
  BY <1>3, <1>4, KeepsLinks
<1>6. e.model < e.next /\ e.paper < e.next
  <2>1. /\ e.model = d.model /\ e.paper = d.paper /\ e.next >= d.next
        /\ d.model \in Nat /\ d.paper \in Nat /\ d.next \in Nat /\ e.next \in Nat
    BY <1>1, DrawingIs DEF Keeps
  <2>. QED
    BY <1>3, <2>1
<1>7. \A l \in LayoutsOf(e) :
          e.objects[l].record \in DOMAIN e.objects => e.objects[l].record \in {e.model, e.paper}
  BY <1>3 DEF Keeps
<1>. QED
  BY <1>2, <1>3, <1>4, <1>5, <1>6, <1>7 DEF FileGood, Spacious

LEMMA StripEntryIs ==
    ASSUME FileGood(doc), StripEntry
    PROVE  FileGood(doc')
<1>1. Drawing(doc) /\ Fields(doc) /\ doc.nod \in Nat /\ doc.layoutDict \in Nat /\ doc.next \in Nat
      /\ doc.objects = [k \in DOMAIN doc.objects |-> doc.objects[k]]
  BY DrawingIs DEF FileGood, Spacious, Sited
<1>. DEFINE entries == Kept(doc.objects[doc.nod].entries,
                            {e \in ToSet(doc.objects[doc.nod].entries) : e[1] # Root})
<1>2. doc.nod \in Dictionaries(doc) /\ doc.nod \in DOMAIN doc.objects
  BY DEF StripEntry, Dictionaries, Is
<1>3. PICK dict \in {Null, doc.layoutDict} :
        doc' = [doc EXCEPT !.objects[doc.nod].entries = entries, !.layoutDict = dict]
  BY <1>1, <1>2 DEF StripEntry, Fields
<1>4. /\ doc.objects[doc.nod] \in DictionaryObject /\ doc.nod \notin LayoutsOf(doc)
      /\ doc.objects[doc.nod].entries \in Seq(Titles \X Nat) /\ doc.nod \in Nat \ {Null}
  BY <1>1, <1>2, DictionaryIs
<1>5. entries \in Seq(Titles \X Nat)
  BY <1>4, KeptTyped
<1>. HIDE DEF entries
<1>. DEFINE new == [doc.objects[doc.nod] EXCEPT !.entries = entries]
<1>6. new \in DictionaryObject
  BY <1>4, <1>5 DEF DictionaryObject
<1>7. new = [doc.objects[doc.nod] EXCEPT !.entries = entries] /\ dict \in Nat
  BY <1>1 DEF Null
<1>. HIDE DEF new
<1>8. /\ doc'.blocks = doc.blocks /\ doc'.objects = [doc.objects EXCEPT ![doc.nod] = new]
      /\ doc'.ents = doc.ents /\ doc'.nod = doc.nod /\ doc'.layoutDict = dict
      /\ doc'.model = doc.model /\ doc'.paper = doc.paper /\ doc'.next = doc.next /\ Fields(doc')
  BY <1>1, <1>3, <1>7 DEF Fields
<1>9. doc'.objects = With(doc.objects, doc.nod, new)
  BY <1>1, <1>2, <1>8 DEF With
<1>10. Puts(doc', doc, doc.nod, new)
  BY <1>1, <1>2, <1>4, <1>6, <1>7, <1>8, <1>9 DEF Puts
<1>11. Keeps(doc', doc) /\ DOMAIN doc'.objects = DOMAIN doc.objects \cup {doc.nod}
  BY <1>1, <1>10, DictionaryKeeps
<1>. QED
  BY <1>2, <1>11, KeepsFile

\* e is d with the new record in the place of the old one, which no record has.
Moved(e, d, old, new) ==
    /\ Drawing(e) /\ e.next >= d.next /\ new \in 1 .. e.next - 1
    /\ new \notin Spaces(d) \cup {Elsewhere}
    /\ old \in {d.model, d.paper} /\ {e.model, e.paper} \subseteq {d.model, d.paper, new}
    /\ DOMAIN e.objects = DOMAIN d.objects /\ LayoutsOf(e) = LayoutsOf(d)
    /\ \A l \in LayoutsOf(d) :
          /\ d.objects[l].record # new /\ e.objects[l].views = d.objects[l].views
          /\ e.objects[l].record = IF d.objects[l].record = old THEN new ELSE d.objects[l].record
    /\ DOMAIN e.ents = DOMAIN d.ents
    /\ \A i \in DOMAIN d.ents :
          /\ e.ents[i].handle = d.ents[i].handle
          /\ e.ents[i].owner = IF d.ents[i].owner = old THEN new ELSE d.ents[i].owner
    /\ \A j \in DOMAIN e.blocks : \E k \in DOMAIN d.blocks :
          e.blocks[j] = d.blocks[k] /\ d.blocks[k].handle # old
    /\ \A i, j \in DOMAIN e.blocks : e.blocks[i].handle = e.blocks[j].handle => i = j

LEMMA MovedNaming ==
    ASSUME NEW d, NEW e, NEW old, NEW new, Moved(e, d, old, new)
    PROVE  /\ \A r : r \notin {old, new} => Naming(e, r) = Naming(d, r)
           /\ Naming(e, new) = Naming(d, old) /\ Records(e) \subseteq Records(d) \ {old}
           /\ Spaces(e) \subseteq Spaces(d) \cup {new} /\ EntityHandles(e) = EntityHandles(d)
<1>1. /\ LayoutsOf(e) = LayoutsOf(d)
      /\ \A l \in LayoutsOf(d) :
          /\ d.objects[l].record # new
          /\ e.objects[l].record = IF d.objects[l].record = old THEN new ELSE d.objects[l].record
      /\ DOMAIN e.ents = DOMAIN d.ents
      /\ \A i \in DOMAIN d.ents : e.ents[i].handle = d.ents[i].handle
      /\ \A j \in DOMAIN e.blocks : \E k \in DOMAIN d.blocks :
            e.blocks[j] = d.blocks[k] /\ d.blocks[k].handle # old
      /\ {e.model, e.paper} \subseteq {d.model, d.paper, new}
  BY DEF Moved
<1>2. \A r : r \notin {old, new} => Naming(e, r) = Naming(d, r)
  BY <1>1 DEF Naming
<1>3. Naming(e, new) = Naming(d, old)
  BY <1>1 DEF Naming
<1>4. Records(e) \subseteq Records(d) \ {old}
  BY <1>1 DEF Records
<1>5. EntityHandles(e) = EntityHandles(d)
  BY <1>1 DEF EntityHandles
<1>. QED
  BY <1>1, <1>2, <1>3, <1>4, <1>5 DEF Spaces

LEMMA MovedSpacious ==
    ASSUME NEW d, NEW e, NEW old, NEW new, Spacious(d), Moved(e, d, old, new)
    PROVE  Spacious(e)
<1>1. /\ Sited(d) /\ OneEach(d, Spaces(d)) /\ ViewsOwned(d) /\ LinksWeak(d)
      /\ d.model < d.next /\ d.paper < d.next /\ {Null, Elsewhere} \cap Spaces(d) = {}
  BY DEF Spacious
<1>2. /\ Drawing(e) /\ e.next >= d.next /\ new \in 1 .. e.next - 1
      /\ new \notin Spaces(d) \cup {Elsewhere}
      /\ old \in {d.model, d.paper} /\ {e.model, e.paper} \subseteq {d.model, d.paper, new}
      /\ DOMAIN e.objects = DOMAIN d.objects /\ LayoutsOf(e) = LayoutsOf(d)
      /\ \A l \in LayoutsOf(d) :
          /\ d.objects[l].record # new /\ e.objects[l].views = d.objects[l].views
          /\ e.objects[l].record = IF d.objects[l].record = old THEN new ELSE d.objects[l].record
  BY DEF Moved
<1>3. /\ DOMAIN e.ents = DOMAIN d.ents
      /\ \A i \in DOMAIN d.ents :
          /\ e.ents[i].handle = d.ents[i].handle
          /\ e.ents[i].owner = IF d.ents[i].owner = old THEN new ELSE d.ents[i].owner
      /\ \A j \in DOMAIN e.blocks : \E k \in DOMAIN d.blocks :
          e.blocks[j] = d.blocks[k] /\ d.blocks[k].handle # old
      /\ \A i, j \in DOMAIN e.blocks : e.blocks[i].handle = e.blocks[j].handle => i = j
  BY DEF Moved
<1>4. /\ \A r : r \notin {old, new} => Naming(e, r) = Naming(d, r)
      /\ Naming(e, new) = Naming(d, old) /\ Records(e) \subseteq Records(d) \ {old}
      /\ Spaces(e) \subseteq Spaces(d) \cup {new} /\ EntityHandles(e) = EntityHandles(d)
  BY MovedNaming
<1>5. /\ Drawing(d) /\ d.next \in Nat /\ e.next \in Nat /\ d.model \in Nat /\ d.paper \in Nat
      /\ old \in Spaces(d)
  BY <1>1, <1>2, DrawingIs DEF Sited, Spaces
<1>6. Sited(e)
  <2>1. \A h \in Records(e) \cup DOMAIN e.objects \cup EntityHandles(e) : h \in 1 .. e.next - 1
    <3>1. \A h \in Records(d) \cup DOMAIN d.objects \cup EntityHandles(d) : h \in 1 .. d.next - 1
      BY <1>1 DEF Sited
    <3>. QED
      BY <1>2, <1>4, <1>5, <3>1
  <2>2. \A l \in LayoutsOf(e) : e.objects[l].record < e.next
    <3>1. ASSUME NEW l \in LayoutsOf(d) PROVE d.objects[l].record \in Nat /\ d.objects[l].record < d.next
      BY <1>1, <1>5, LayoutIs DEF Sited
    <3>. QED
      BY <1>2, <1>5, <3>1
  <2>3. Elsewhere \in 1 .. e.next - 1
    BY <1>1, <1>2, <1>5 DEF Sited
  <2>. QED
    BY <1>2, <1>3, <2>1, <2>2, <2>3 DEF Sited
<1>7. OneEach(e, Spaces(e))
  <2>. SUFFICES ASSUME NEW l \in LayoutsOf(d), NEW k \in LayoutsOf(d),
                       e.objects[l].record = e.objects[k].record, e.objects[l].record \in Spaces(e)
                PROVE  l = k
    BY <1>2 DEF OneEach
  <2>1. d.objects[l].record = d.objects[k].record
    BY <1>2
  <2>2. d.objects[l].record \in Spaces(d)
    BY <1>2, <1>4, <1>5
  <2>. QED
    BY <1>1, <2>1, <2>2 DEF OneEach
<1>8. ViewsOwned(e)
  <2>. SUFFICES ASSUME NEW l \in LayoutsOf(d), e.objects[l].record \in Spaces(e),
                       NEW h \in ToSet(d.objects[l].views)
                PROVE  Belongs(e, h, e.objects[l].record)
    BY <1>2 DEF ViewsOwned
  <2>1. d.objects[l].record \in Spaces(d)
    BY <1>2, <1>4, <1>5
  <2>2. Belongs(d, h, d.objects[l].record)
    BY <1>1, <2>1 DEF ViewsOwned
  <2>3. PICK i \in DOMAIN d.ents : d.ents[i].handle = h /\ d.ents[i].owner = d.objects[l].record
    BY <2>2 DEF Belongs
  <2>. QED
    BY <1>2, <1>3, <2>3 DEF Belongs
<1>9. LinksWeak(e)
  <2>. SUFFICES ASSUME NEW j \in DOMAIN e.blocks, Naming(e, e.blocks[j].handle) # {},
                       e.blocks[j].layout \in LayoutsOf(e)
                PROVE  e.blocks[j].layout \in Naming(e, e.blocks[j].handle) \cup {e.blocks[j].handle}
    BY DEF LinksWeak
  <2>1. PICK k \in DOMAIN d.blocks : e.blocks[j] = d.blocks[k] /\ d.blocks[k].handle # old
    BY <1>3
  <2>2. d.blocks[k].handle \in Spaces(d)
    BY DEF Spaces, Records
  <2>3. Naming(e, d.blocks[k].handle) = Naming(d, d.blocks[k].handle)
    BY <1>2, <1>4, <2>1, <2>2
  <2>. QED
    BY <1>1, <1>2, <2>1, <2>3 DEF LinksWeak
<1>10. e.model < e.next /\ e.paper < e.next
  BY <1>1, <1>2, <1>5
<1>11. {Null, Elsewhere} \cap Spaces(e) = {}
  BY <1>1, <1>2, <1>4 DEF Null
<1>. QED
  BY <1>6, <1>7, <1>8, <1>9, <1>10, <1>11 DEF Spacious

\* What named the old record names the new one.
Rerecorded(d, old, new) ==
    [h \in DOMAIN d.objects |->
        IF d.objects[h].kind = "layout" /\ d.objects[h].record = old
        THEN [d.objects[h] EXCEPT !.record = new] ELSE d.objects[h]]
Reowned(d, old, new) ==
    [i \in DOMAIN d.ents |->
        IF d.ents[i].owner = old THEN [d.ents[i] EXCEPT !.owner = new] ELSE d.ents[i]]

LEMMA RerecordedIs ==
    ASSUME NEW d, Drawing(d), NEW old, NEW new \in Nat
    PROVE  LET objects == Rerecorded(d, old, new)
           IN /\ DOMAIN objects = DOMAIN d.objects /\ objects = [h \in DOMAIN objects |-> objects[h]]
              /\ \A h \in DOMAIN d.objects :
                    IF d.objects[h].kind = "layout"
                    THEN /\ objects[h] \in LayoutObject /\ objects[h].views = d.objects[h].views
                         /\ objects[h].record = IF d.objects[h].record = old THEN new
                                                ELSE d.objects[h].record
                    ELSE objects[h] \in DictionaryObject
<1>. DEFINE objects == Rerecorded(d, old, new)
<1>1. DOMAIN objects = DOMAIN d.objects /\ objects = [h \in DOMAIN objects |-> objects[h]]
  BY DEF Rerecorded
<1>2. ASSUME NEW h \in DOMAIN d.objects
      PROVE  IF d.objects[h].kind = "layout"
             THEN /\ objects[h] \in LayoutObject /\ objects[h].views = d.objects[h].views
                  /\ objects[h].record = IF d.objects[h].record = old THEN new
                                         ELSE d.objects[h].record
             ELSE objects[h] \in DictionaryObject
  <2>1. IF d.objects[h].kind = "layout" THEN d.objects[h] \in LayoutObject
        ELSE d.objects[h] \in DictionaryObject /\ d.objects[h].kind = "dictionary"
    BY KindOf
  <2>2. objects[h] = IF d.objects[h].kind = "layout" /\ d.objects[h].record = old
                     THEN [d.objects[h] EXCEPT !.record = new] ELSE d.objects[h]
    BY DEF Rerecorded
  <2>. HIDE DEF objects
  <2>3. CASE d.objects[h].kind = "layout" /\ d.objects[h].record = old
    <3>1. objects[h] = [d.objects[h] EXCEPT !.record = new] /\ d.objects[h] \in LayoutObject
      BY <2>1, <2>2, <2>3
    <3>2. objects[h] \in LayoutObject /\ objects[h].views = d.objects[h].views
          /\ objects[h].record = new
      BY <3>1 DEF LayoutObject
    <3>. QED
      BY <2>3, <3>2
  <2>4. CASE ~(d.objects[h].kind = "layout" /\ d.objects[h].record = old)
    BY <2>1, <2>2, <2>4
  <2>. QED
    BY <2>3, <2>4
<1>. QED
  BY <1>1, <1>2

LEMMA ReownedIs ==
    ASSUME NEW d, Drawing(d), NEW old, NEW new \in Nat
    PROVE  LET ents == Reowned(d, old, new)
           IN /\ ents \in Seq(EntityRecord) /\ DOMAIN ents = DOMAIN d.ents
              /\ \A i \in DOMAIN d.ents :
                    /\ ents[i].handle = d.ents[i].handle /\ ents[i].kind = d.ents[i].kind
                    /\ ents[i].owner = IF d.ents[i].owner = old THEN new ELSE d.ents[i].owner
<1>. DEFINE ents == Reowned(d, old, new)
<1>1. /\ DOMAIN d.ents = 1 .. Len(d.ents) /\ Len(d.ents) \in Nat
      /\ \A i \in DOMAIN d.ents : d.ents[i] \in EntityRecord
  BY DrawingIs
<1>2. DOMAIN ents = DOMAIN d.ents /\ ents = [i \in 1 .. Len(d.ents) |-> ents[i]]
  BY <1>1 DEF Reowned
<1>3. ASSUME NEW i \in DOMAIN d.ents
      PROVE  /\ ents[i] \in EntityRecord
             /\ ents[i].handle = d.ents[i].handle /\ ents[i].kind = d.ents[i].kind
             /\ ents[i].owner = IF d.ents[i].owner = old THEN new ELSE d.ents[i].owner
  <2>1. ents[i] = IF d.ents[i].owner = old THEN [d.ents[i] EXCEPT !.owner = new] ELSE d.ents[i]
    BY DEF Reowned
  <2>2. d.ents[i] \in EntityRecord
    BY <1>1
  <2>. HIDE DEF ents
  <2>. QED
    BY <2>1, <2>2 DEF EntityRecord
<1>. HIDE DEF ents
<1>4. ents \in Seq(EntityRecord)
  <2>1. \A i \in 1 .. Len(d.ents) : ents[i] \in EntityRecord
    BY <1>1, <1>3
  <2>. QED
    BY <1>1, <1>2, <2>1, SeqIs
<1>. QED
  BY <1>2, <1>3, <1>4 DEF ents

\* e is d so moved, with some of its records.
Moves(e, d, old, new, blocks) ==
    /\ Fields(e) /\ e.blocks = blocks /\ e.objects = Rerecorded(d, old, new)
    /\ e.ents = Reowned(d, old, new) /\ e.nod = d.nod /\ e.layoutDict = d.layoutDict
    /\ old \in {d.model, d.paper} /\ {e.model, e.paper} \subseteq {d.model, d.paper, new}
    /\ e.next \in Nat /\ e.next >= d.next
    /\ new \in 1 .. e.next - 1 /\ new \notin Spaces(d) \cup {Elsewhere}
    /\ \A l \in LayoutsOf(d) : d.objects[l].record # new
    /\ blocks \in Seq(BlockRecord)
    /\ \A j \in DOMAIN blocks : \E k \in DOMAIN d.blocks :
          blocks[j] = d.blocks[k] /\ d.blocks[k].handle # old
    /\ \A i, j \in DOMAIN blocks : blocks[i].handle = blocks[j].handle => i = j

LEMMA MovesIs ==
    ASSUME NEW d, Drawing(d), NEW e, NEW old, NEW new, NEW blocks, Moves(e, d, old, new, blocks)
    PROVE  Moved(e, d, old, new)
<1>1. /\ Fields(e) /\ e.blocks = blocks /\ e.objects = Rerecorded(d, old, new)
      /\ e.ents = Reowned(d, old, new) /\ e.nod = d.nod /\ e.layoutDict = d.layoutDict
      /\ {e.model, e.paper} \subseteq {d.model, d.paper, new}
      /\ e.next \in Nat /\ new \in 1 .. e.next - 1
      /\ blocks \in Seq(BlockRecord)
  BY DEF Moves
<1>2. /\ DOMAIN e.objects = DOMAIN d.objects /\ e.objects = [h \in DOMAIN e.objects |-> e.objects[h]]
      /\ \A h \in DOMAIN d.objects :
            IF d.objects[h].kind = "layout"
            THEN /\ e.objects[h] \in LayoutObject /\ e.objects[h].views = d.objects[h].views
                 /\ e.objects[h].record = IF d.objects[h].record = old THEN new
                                          ELSE d.objects[h].record
            ELSE e.objects[h] \in DictionaryObject
  BY <1>1, RerecordedIs
<1>3. /\ e.ents \in Seq(EntityRecord) /\ DOMAIN e.ents = DOMAIN d.ents
      /\ \A i \in DOMAIN d.ents :
            /\ e.ents[i].handle = d.ents[i].handle /\ e.ents[i].kind = d.ents[i].kind
            /\ e.ents[i].owner = IF d.ents[i].owner = old THEN new ELSE d.ents[i].owner
  BY <1>1, ReownedIs
<1>4. /\ IsFiniteSet(DOMAIN d.objects) /\ DOMAIN d.objects \subseteq Nat \ {Null}
      /\ d.nod \in Nat /\ d.layoutDict \in Nat /\ d.model \in Nat /\ d.paper \in Nat
  BY DEF Drawing
<1>5. \A h \in DOMAIN e.objects : e.objects[h] \in LayoutObject \cup DictionaryObject
  BY <1>2
<1>6. Drawing(e)
  <2>1. e.model \in Nat /\ e.paper \in Nat
    BY <1>1, <1>4
  <2>. QED
    BY <1>1, <1>2, <1>3, <1>4, <1>5, <2>1 DEF Drawing, Fields
<1>7. LayoutsOf(e) = LayoutsOf(d)
  <2>1. \A h \in DOMAIN d.objects : e.objects[h].kind = "layout" <=> d.objects[h].kind = "layout"
    BY <1>2 DEF LayoutObject, DictionaryObject
  <2>. QED
    BY <1>2, <2>1 DEF LayoutsOf, Is
<1>8. \A l \in LayoutsOf(d) :
          /\ e.objects[l].views = d.objects[l].views
          /\ e.objects[l].record = IF d.objects[l].record = old THEN new ELSE d.objects[l].record
  BY <1>2 DEF LayoutsOf, Is
<1>. QED
  BY <1>1, <1>2, <1>3, <1>6, <1>7, <1>8 DEF Moves, Moved

LEMMA PoisonIs ==
    ASSUME FileGood(doc), Poison
    PROVE  FileGood(doc')
<1>1. PICK i \in DOMAIN doc.blocks, space \in {"model", "paper"}, h \in Dictionaries(doc) :
        /\ doc.blocks[i].handle = doc[space] /\ h \notin {doc.model, doc.paper}
        /\ doc' = [doc EXCEPT ![space] = h,
              !.blocks = RemoveAt(@, i),
              !.objects = [o \in DOMAIN @ |->
                  IF @[o].kind = "layout" /\ @[o].record = doc[space]
                  THEN [@[o] EXCEPT !.record = h] ELSE @[o]],
              !.ents = [j \in DOMAIN @ |->
                  IF @[j].owner = doc[space] THEN [@[j] EXCEPT !.owner = h] ELSE @[j]]]
  BY DEF Poison
<1>. DEFINE old == doc[space]
            blocks == RemoveAt(doc.blocks, i)
            objects == Rerecorded(doc, old, h)
            ents == Reowned(doc, old, h)
<1>2. /\ Sited(doc) /\ OneEach(doc, Spaces(doc)) /\ ViewsOwned(doc) /\ LinksWeak(doc)
      /\ doc.model < doc.next /\ doc.paper < doc.next /\ {Null, Elsewhere} \cap Spaces(doc) = {}
      /\ ViewsListed(doc) /\ Spacious(doc)
      /\ Records(doc) \cap DOMAIN doc.objects = {} /\ Elsewhere \notin DOMAIN doc.objects
      /\ \A l \in LayoutsOf(doc) : doc.objects[l].record \in DOMAIN doc.objects =>
            doc.objects[l].record \in {doc.model, doc.paper}
  BY DEF FileGood, Spacious
<1>3. /\ Drawing(doc) /\ Fields(doc) /\ doc.blocks \in Seq(BlockRecord)
      /\ DOMAIN doc.blocks = 1 .. Len(doc.blocks) /\ Len(doc.blocks) \in Nat
      /\ doc.next \in Nat
      /\ \A j, k \in DOMAIN doc.blocks : doc.blocks[j].handle = doc.blocks[k].handle => j = k
  BY <1>2, DrawingIs DEF Sited, Drawing
<1>4. /\ doc' = [doc EXCEPT ![space] = h, !.blocks = blocks, !.objects = objects, !.ents = ents]
  BY <1>1, <1>3 DEF Fields, Rerecorded, Reowned
<1>5. h \in DOMAIN doc.objects /\ h \in 1 .. doc.next - 1
  BY <1>2 DEF Dictionaries, Is, Sited
<1>6. /\ blocks \in Seq(BlockRecord) /\ Len(blocks) = Len(doc.blocks) - 1
      /\ \A j \in 1 .. Len(blocks) : blocks[j] = doc.blocks[IF j < i THEN j ELSE j + 1]
  BY <1>3, RemovedIs
<1>. HIDE DEF blocks, objects, ents
<1>7. old \in {doc.model, doc.paper} /\ old = doc.blocks[i].handle
  BY <1>1, <1>3 DEF Fields
<1>8. /\ doc'.blocks = blocks /\ doc'.objects = objects /\ doc'.ents = ents
      /\ doc'.nod = doc.nod /\ doc'.layoutDict = doc.layoutDict /\ doc'.next = doc.next
      /\ {doc'.model, doc'.paper} \subseteq {doc.model, doc.paper, h} /\ Fields(doc')
      /\ h \in {doc'.model, doc'.paper}
      /\ {doc.model, doc.paper} \subseteq {doc'.model, doc'.paper, old}
  <2>1. CASE space = "model"
    BY <1>3, <1>4, <2>1 DEF Fields
  <2>2. CASE space = "paper"
    BY <1>3, <1>4, <2>2 DEF Fields
  <2>. QED
    BY <2>1, <2>2
<1>. HIDE DEF old
<1>9. DOMAIN blocks = 1 .. Len(blocks)
  BY <1>6
<1>. DEFINE at(x) == IF x < i THEN x ELSE x + 1
<1>10. \A j \in DOMAIN blocks : at(j) \in DOMAIN doc.blocks /\ at(j) # i /\ blocks[j] = doc.blocks[at(j)]
  BY <1>3, <1>6, <1>9
<1>11. \A j, k \in DOMAIN blocks : at(j) = at(k) => j = k
  BY <1>3, <1>6, <1>9
<1>. HIDE DEF at
<1>12. /\ \A j \in DOMAIN blocks : \E k \in DOMAIN doc.blocks :
             blocks[j] = doc.blocks[k] /\ doc.blocks[k].handle # old
       /\ \A j, k \in DOMAIN blocks : blocks[j].handle = blocks[k].handle => j = k
  BY <1>3, <1>7, <1>10, <1>11
<1>13. h \notin Spaces(doc) \cup {Elsewhere} /\ \A l \in LayoutsOf(doc) : doc.objects[l].record # h
  BY <1>1, <1>2, <1>5 DEF Spaces
<1>14. Moves(doc', doc, old, h, blocks)
  <2>1. doc'.next \in Nat /\ doc'.next >= doc.next /\ h \in 1 .. doc'.next - 1
    BY <1>3, <1>5, <1>8
  <2>. QED
    BY <1>6, <1>7, <1>8, <1>12, <1>13, <2>1 DEF Moves, objects, ents
<1>15. Moved(doc', doc, old, h)
  BY <1>3, <1>14, MovesIs
<1>16. Spacious(doc')
  BY <1>2, <1>15, MovedSpacious
<1>17. /\ Records(doc') \subseteq Records(doc) \ {old}
       /\ \A r : r \notin {old, h} => Naming(doc', r) = Naming(doc, r)
  BY <1>15, MovedNaming
<1>18. /\ DOMAIN doc'.objects = DOMAIN doc.objects /\ LayoutsOf(doc') = LayoutsOf(doc)
       /\ \A l \in LayoutsOf(doc) :
            /\ doc'.objects[l].views = doc.objects[l].views
            /\ doc'.objects[l].record = IF doc.objects[l].record = old THEN h
                                        ELSE doc.objects[l].record
  BY <1>15 DEF Moved
<1>19. ViewsListed(doc')
  <2>. SUFFICES ASSUME NEW j \in DOMAIN doc'.blocks, NEW l \in LayoutsOf(doc),
                       doc'.objects[l].record = doc'.blocks[j].handle
                PROVE  ToSet(doc.objects[l].views) \subseteq ToSet(doc'.blocks[j].listed)
    BY <1>18 DEF ViewsListed
  <2>1. PICK k \in DOMAIN doc.blocks : doc'.blocks[j] = doc.blocks[k] /\ doc.blocks[k].handle # old
    BY <1>8, <1>12
  <2>2. doc.blocks[k].handle # h
    BY <1>13 DEF Spaces, Records
  <2>3. doc.objects[l].record = doc.blocks[k].handle
    BY <1>18, <2>1, <2>2
  <2>. QED
    BY <1>2, <2>1, <2>3 DEF ViewsListed
<1>20. Records(doc') \cap DOMAIN doc'.objects = {} /\ Elsewhere \notin DOMAIN doc'.objects
  BY <1>2, <1>17, <1>18
<1>21. \A l \in LayoutsOf(doc') : doc'.objects[l].record \in DOMAIN doc'.objects =>
            doc'.objects[l].record \in {doc'.model, doc'.paper}
  BY <1>2, <1>8, <1>18
<1>. QED
  BY <1>16, <1>19, <1>20, <1>21 DEF FileGood

\* A file stays one whatever it lacks.
LEMMA LackIs ==
    ASSUME FileGood(doc), Lack
    PROVE  FileGood(doc')
<1>. DEFINE gone == {Null, Elsewhere}
<1>1. Sited(doc) /\ Elsewhere \in Nat /\ Null \in Nat
  BY DrawingIs DEF FileGood, Spacious, Sited, Null
<1>2. ASSUME NEW g, Lesser(doc', doc, g), g \subseteq gone,
             doc'.model = doc.model, doc'.paper = doc.paper
      PROVE  FileGood(doc')
  <2>1. Lesser(doc', doc, gone)
    BY <1>2 DEF Lesser
  <2>. QED
    BY <1>2, <2>1, LesserFile
<1>3. CASE Dangle
  <2>1. PICK l \in LayoutsOf(doc), h \in gone : doc' = [doc EXCEPT !.objects[l].record = h]
    BY <1>3 DEF Dangle
  <2>2. Lesser(doc', doc, {h}) /\ doc'.model = doc.model /\ doc'.paper = doc.paper
    BY <1>1, <2>1, DangledIs
  <2>. QED
    BY <1>2, <2>2
<1>4. CASE StripEntry
  BY <1>4, StripEntryIs
<1>5. CASE StripLinks
  BY <1>1, <1>2, <1>5, StripLinksIs
<1>6. CASE StripViews
  BY <1>1, <1>2, <1>6, StripViewsIs DEF StripViews
<1>7. CASE DropObject
  BY <1>1, <1>2, <1>7, ForgetIs DEF DropObject
<1>8. CASE DropRecord
  BY <1>1, <1>2, <1>8, ForgetRecordIs DEF DropRecord
<1>9. CASE Poison
  BY <1>9, PoisonIs
<1>. QED
  BY <1>3, <1>4, <1>5, <1>6, <1>7, <1>8, <1>9 DEF Lack

-----------------------------------------------------------------------------
(* The end of a DXF read.                                                  *)

LEMMA KeptToSet ==
    ASSUME NEW T, NEW list \in Seq(T), NEW set
    PROVE  /\ Kept(list, set) \in Seq(T)
           /\ ToSet(Kept(list, set)) = ToSet(list) \cap set
<1>. DEFINE k == Kept(list, set)
<1>1. k \in Seq(T) /\ PartOf(k, list, set)
  BY KeptTyped, KeptOrder
<1>. HIDE DEF k
<1>2. DOMAIN k = 1 .. Len(k) /\ DOMAIN list = 1 .. Len(list)
  BY <1>1
<1>3. ToSet(k) \subseteq ToSet(list) \cap set
  BY <1>1, <1>2 DEF ToSet, PartOf
<1>4. ASSUME NEW x \in ToSet(list) \cap set PROVE x \in ToSet(k)
  <2>1. PICK p \in 1 .. Len(list) : list[p] = x
    BY <1>2 DEF ToSet
  <2>2. PICK i \in 1 .. Len(k) : k[i] = x
    BY <1>1, <2>1 DEF PartOf
  <2>. QED
    BY <1>2, <2>2 DEF ToSet
<1>. QED
  BY <1>1, <1>3, <1>4 DEF k

\* The viewports of the record that a layout names; none, if there is no such record.
ViewsOf(d, record) ==
    LET b == {i \in DOMAIN d.blocks : d.blocks[i].handle = record}
    IN IF b = {} THEN << >> ELSE Viewports(d, d.blocks[Highest(b)])
Reviewed(d) ==
    [h \in DOMAIN d.objects |->
        IF h \in LayoutsOf(d)
        THEN [d.objects[h] EXCEPT !.views = ViewsOf(d, d.objects[h].record)] ELSE d.objects[h]]

LEMMA ViewsOfIs ==
    ASSUME NEW d, Sited(d), NEW record
    PROVE  /\ ViewsOf(d, record) \in Seq(Nat)
           /\ record \notin Records(d) => ViewsOf(d, record) = << >>
           /\ \A i \in DOMAIN d.blocks : d.blocks[i].handle = record =>
                 ToSet(ViewsOf(d, record)) \subseteq ToSet(d.blocks[i].listed)
<1>. DEFINE b == {i \in DOMAIN d.blocks : d.blocks[i].handle = record}
<1>1. /\ DOMAIN d.blocks = 1 .. Len(d.blocks) /\ Len(d.blocks) \in Nat
      /\ \A j \in DOMAIN d.blocks : d.blocks[j] \in BlockRecord
      /\ \A j, k \in DOMAIN d.blocks : d.blocks[j].handle = d.blocks[k].handle => j = k
  BY DrawingIs DEF Sited
<1>2. b \in SUBSET (1 .. Len(d.blocks)) /\ (record \notin Records(d) => b = {})
  BY <1>1 DEF Records
<1>3. ViewsOf(d, record) = IF b = {} THEN << >> ELSE Viewports(d, d.blocks[Highest(b)])
  BY DEF ViewsOf
<1>4. << >> \in Seq(Nat)
  OBVIOUS
<1>5. CASE b = {}
  BY <1>3, <1>4, <1>5
<1>6. CASE b # {}
  <2>. DEFINE i == Highest(b)
              set == HandlesOf({e \in ToSet(d.ents) : e.kind = "viewport"})
  <2>. HIDE DEF b
  <2>1. i \in b
    <3>1. \E x \in b : \A y \in b : y <= x
      BY <1>1, <1>2, <1>6, NatGreatest
    <3>. QED
      BY <3>1 DEF Highest
  <2>. HIDE DEF i
  <2>2. i \in DOMAIN d.blocks /\ d.blocks[i].handle = record /\ d.blocks[i].listed \in Seq(Nat)
    BY <1>1, <2>1 DEF b, BlockRecord
  <2>3. ViewsOf(d, record) = Kept(d.blocks[i].listed, set)
    BY <1>3, <1>6 DEF Viewports, i
  <2>. HIDE DEF set
  <2>4. Kept(d.blocks[i].listed, set) \in Seq(Nat)
        /\ ToSet(Kept(d.blocks[i].listed, set)) = ToSet(d.blocks[i].listed) \cap set
    BY <2>2, KeptToSet
  <2>5. record \in Records(d)
    BY <2>2 DEF Records
  <2>. QED
    BY <1>1, <2>2, <2>3, <2>4, <2>5
<1>. QED
  BY <1>5, <1>6

LEMMA ReviewedIs ==
    ASSUME NEW d, Sited(d)
    PROVE  LET objects == Reviewed(d)
           IN /\ DOMAIN objects = DOMAIN d.objects /\ objects = [h \in DOMAIN objects |-> objects[h]]
              /\ \A h \in DOMAIN d.objects :
                    IF d.objects[h].kind = "layout"
                    THEN /\ objects[h] \in LayoutObject /\ objects[h].record = d.objects[h].record
                         /\ objects[h].views = ViewsOf(d, d.objects[h].record)
                    ELSE objects[h] \in DictionaryObject
<1>. DEFINE objects == Reviewed(d)
<1>1. DOMAIN objects = DOMAIN d.objects /\ objects = [h \in DOMAIN objects |-> objects[h]]
  BY DEF Reviewed
<1>2. ASSUME NEW h \in DOMAIN d.objects
      PROVE  IF d.objects[h].kind = "layout"
             THEN /\ objects[h] \in LayoutObject /\ objects[h].record = d.objects[h].record
                  /\ objects[h].views = ViewsOf(d, d.objects[h].record)
             ELSE objects[h] \in DictionaryObject
  <2>. DEFINE views == ViewsOf(d, d.objects[h].record)
  <2>1. IF d.objects[h].kind = "layout" THEN d.objects[h] \in LayoutObject
        ELSE d.objects[h] \in DictionaryObject /\ d.objects[h].kind = "dictionary"
    BY KindOf DEF Sited
  <2>2. objects[h] = IF d.objects[h].kind = "layout"
                     THEN [d.objects[h] EXCEPT !.views = views] ELSE d.objects[h]
    BY DEF Reviewed, LayoutsOf, Is
  <2>3. views \in Seq(Nat)
    BY ViewsOfIs
  <2>. HIDE DEF objects, views
  <2>4. CASE d.objects[h].kind = "layout"
    <3>1. objects[h] = [d.objects[h] EXCEPT !.views = views] /\ d.objects[h] \in LayoutObject
      BY <2>1, <2>2, <2>4
    <3>2. objects[h] \in LayoutObject /\ objects[h].views = views
          /\ objects[h].record = d.objects[h].record
      BY <2>3, <3>1 DEF LayoutObject
    <3>. QED
      BY <2>4, <3>2 DEF views
  <2>5. CASE d.objects[h].kind # "layout"
    BY <2>1, <2>2, <2>5
  <2>. QED
    BY <2>4, <2>5
<1>. QED
  BY <1>1, <1>2

\* A document whose dangling layouts have no viewports.
Bare(d) == Good(d) /\ \A l \in Dangling(d) : d.objects[l].views = << >>

LEMMA DxfViewportsIs ==
    ASSUME NEW d, Good(d)
    PROVE  Bare(DxfViewports(d))
<1>. DEFINE objects == Reviewed(d)
            e == [d EXCEPT !.objects = objects]
<1>1. Sited(d) /\ Drawing(d) /\ OneEach(d, Records(d)) /\ LinksWeak(d) /\ Fields(d)
  BY DrawingIs DEF Good, Sited
<1>2. DxfViewports(d) = e
  BY <1>1 DEF DxfViewports, Reviewed, ViewsOf, Fields
<1>3. Reworked(e, d, objects)
  BY <1>1, ReworkedIs
<1>. HIDE DEF e
<1>4. /\ DOMAIN objects = DOMAIN d.objects /\ objects = [h \in DOMAIN objects |-> objects[h]]
      /\ \A h \in DOMAIN d.objects :
                    IF d.objects[h].kind = "layout"
                    THEN /\ objects[h] \in LayoutObject /\ objects[h].record = d.objects[h].record
                         /\ objects[h].views = ViewsOf(d, d.objects[h].record)
                    ELSE objects[h] \in DictionaryObject
  BY <1>1, ReviewedIs
<1>. HIDE DEF objects
<1>5. Drawing(e)
  <2>1. \A h \in DOMAIN objects : objects[h] \in LayoutObject \cup DictionaryObject
    BY <1>4
  <2>. QED
    BY <1>1, <1>3, <1>4, <2>1, ReworkedDrawing
<1>6. e.objects = objects /\ e.blocks = d.blocks /\ e.ents = d.ents /\ e.next = d.next
  BY <1>3 DEF Reworked
<1>7. LayoutsOf(e) = LayoutsOf(d) /\ \A l \in LayoutsOf(d) :
          /\ e.objects[l].record = d.objects[l].record
          /\ e.objects[l].views = ViewsOf(d, d.objects[l].record)
  <2>1. \A h \in DOMAIN d.objects : objects[h].kind = "layout" <=> d.objects[h].kind = "layout"
    BY <1>4 DEF LayoutObject, DictionaryObject
  <2>. QED
    BY <1>4, <1>6, <2>1 DEF LayoutsOf, Is
<1>8. Records(e) = Records(d) /\ EntityHandles(e) = EntityHandles(d)
      /\ \A r : Naming(e, r) = Naming(d, r)
  BY <1>6, <1>7 DEF Records, EntityHandles, Naming
<1>9. Sited(e)
  <2>1. \A h \in Records(e) \cup DOMAIN e.objects \cup EntityHandles(e) : h \in 1 .. e.next - 1
    BY <1>1, <1>4, <1>6, <1>8 DEF Sited
  <2>. QED
    BY <1>1, <1>5, <1>6, <1>7, <2>1 DEF Sited
<1>10. OneEach(e, Records(e)) /\ LinksWeak(e)
  BY <1>1, <1>6, <1>7, <1>8 DEF OneEach, LinksWeak
<1>11. ViewsListed(e)
  BY <1>1, <1>6, <1>7, ViewsOfIs DEF ViewsListed
<1>12. \A l \in Dangling(e) : e.objects[l].views = << >>
  BY <1>1, <1>7, <1>8, ViewsOfIs DEF Dangling
<1>. QED
  BY <1>2, <1>9, <1>10, <1>11, <1>12 DEF Bare, Good

LEMMA BareKeeps ==
    ASSUME NEW d, NEW e, Bare(d), Keeps(e, d)
    PROVE  Bare(e)
<1>1. Good(e)
  BY KeepsGood DEF Bare
<1>2. /\ Records(e) = Records(d) /\ LayoutsOf(e) = LayoutsOf(d)
      /\ \A l \in LayoutsOf(d) : e.objects[l] = d.objects[l]
  BY KeepsNames DEF Keeps
<1>3. \A l \in Dangling(e) : l \in Dangling(d) /\ e.objects[l] = d.objects[l]
  BY <1>2 DEF Dangling
<1>. QED
  BY <1>1, <1>3 DEF Bare

\* Some element of a finite set has the most.
LEMMA MostOf ==
    ASSUME NEW n \in Nat, NEW S \in SUBSET (1 .. n), S # {}, NEW size \in [S -> Nat]
    PROVE  \E x \in S : \A y \in S : size[y] <= size[x]
<1>. DEFINE upTo(k) == S \cap 1 .. k
            P == {k \in Nat : upTo(k) # {} => \E x \in upTo(k) : \A y \in upTo(k) : size[y] <= size[x]}
<1>1. 0 \in P
  OBVIOUS
<1>2. ASSUME NEW k \in Nat, k \in P PROVE k + 1 \in P
  <2>. SUFFICES ASSUME upTo(k + 1) # {}
                PROVE  \E x \in upTo(k + 1) : \A y \in upTo(k + 1) : size[y] <= size[x]
    OBVIOUS
  <2>1. upTo(k + 1) \subseteq upTo(k) \cup {k + 1} /\ upTo(k) \subseteq upTo(k + 1)
    OBVIOUS
  <2>2. \A y \in S : size[y] \in Nat
    OBVIOUS
  <2>3. CASE k + 1 \notin S
    <3>1. upTo(k + 1) = upTo(k)
      BY <2>1, <2>3
    <3>. QED
      BY <1>2, <3>1
  <2>4. CASE k + 1 \in S /\ upTo(k) = {}
    <3>1. k + 1 \in upTo(k + 1) /\ \A y \in upTo(k + 1) : y = k + 1
      BY <2>1, <2>4
    <3>. QED
      BY <2>2, <3>1
  <2>5. CASE k + 1 \in S /\ upTo(k) # {}
    <3>1. PICK x \in upTo(k) : \A y \in upTo(k) : size[y] <= size[x]
      BY <1>2, <2>5
    <3>2. x \in upTo(k + 1) /\ k + 1 \in upTo(k + 1) /\ upTo(k) \subseteq S
      BY <2>1, <2>5
    <3>3. size[x] \in Nat /\ size[k + 1] \in Nat
      BY <2>2, <2>5
    <3>4. CASE size[k + 1] <= size[x]
      BY <2>1, <3>1, <3>2, <3>4
    <3>5. CASE size[x] <= size[k + 1]
      <4>1. \A y \in upTo(k + 1) : size[y] <= size[k + 1]
        BY <2>1, <2>2, <3>1, <3>2, <3>3, <3>5
      <4>. QED
        BY <3>2, <4>1
    <3>. QED
      BY <3>3, <3>4, <3>5
  <2>. QED
    BY <2>3, <2>4, <2>5
<1>. HIDE DEF P
<1>3. Nat \subseteq P
  BY <1>1, <1>2, NatSetInduction
<1>4. n \in P /\ upTo(n) = S
  BY <1>3
<1>. QED
  BY <1>4 DEF P

LEMMA DxfRootIs ==
    ASSUME NEW d, Sited(d)
    PROVE  Keeps(DxfRoot(d), d)
<1>1. Drawing(d) /\ d.next \in Nat
  BY DrawingIs DEF Sited
<1>2. CASE d.nod \in Ownerless(d) \/ Ownerless(d) = {}
  BY <1>1, <1>2, KeepsSelf DEF DxfRoot
<1>3. CASE ~(d.nod \in Ownerless(d) \/ Ownerless(d) = {})
  <2>. DEFINE size == [h \in Ownerless(d) |-> Len(d.objects[h].entries)]
              full == {h \in Ownerless(d) : \A g \in Ownerless(d) :
                          Len(d.objects[g].entries) <= Len(d.objects[h].entries)}
              nod == Highest(full)
              e == [d EXCEPT !.nod = nod]
  <2>1. Ownerless(d) \subseteq 1 .. d.next - 1
    BY DEF Ownerless, Dictionaries, Is, Sited
  <2>2. \A h \in Ownerless(d) : d.objects[h].entries \in Seq(Titles \X Nat)
    BY <1>1, DictionaryIs DEF Ownerless
  <2>3. size \in [Ownerless(d) -> Nat]
    BY <2>2
  <2>4. d.next - 1 \in Nat
    BY <1>1, <1>3, <2>1
  <2>. HIDE DEF size
  <2>5. PICK x \in Ownerless(d) : \A y \in Ownerless(d) : size[y] <= size[x]
    BY <1>3, <2>1, <2>3, <2>4, MostOf
  <2>6. x \in full
    BY <2>5 DEF size
  <2>7. full \in SUBSET (1 .. d.next - 1) /\ full # {}
    BY <2>1, <2>6
  <2>8. DxfRoot(d) = e
    BY <1>3 DEF DxfRoot
  <2>. HIDE DEF full
  <2>9. nod \in full
    <3>1. \E m \in full : \A y \in full : y <= m
      BY <2>4, <2>7, NatGreatest
    <3>. QED
      BY <3>1 DEF Highest
  <2>. HIDE DEF nod
  <2>10. nod \in Nat
    <3>1. nod \in 1 .. d.next - 1
      BY <2>7, <2>9
    <3>. QED
      BY <2>4, <3>1
  <2>11. Fields(d) /\ d.layoutDict \in Nat
    BY <1>1, DrawingIs
  <2>12. e = [d EXCEPT !.nod = nod]
    OBVIOUS
  <2>. HIDE DEF e
  <2>13. /\ e.blocks = d.blocks /\ e.objects = d.objects /\ e.ents = d.ents
         /\ e.nod = nod /\ e.layoutDict = d.layoutDict /\ e.model = d.model
         /\ e.paper = d.paper /\ e.next = d.next /\ Fields(e)
    BY <2>11, <2>12 DEF Fields
  <2>14. Keeps(e, d)
    BY <1>1, <2>10, <2>11, <2>13, HeaderKeeps
  <2>. QED
    BY <2>8, <2>14
<1>. QED
  BY <1>2, <1>3

LEMMA DxfLayoutDictIs ==
    ASSUME NEW d, Drawing(d)
    PROVE  Keeps(DxfLayoutDict(d), d)
<1>. DEFINE clear == /\ Is(d, d.nod, "dictionary")
                     /\ Entries(d, d.nod, Root) # << >> /\ EntryIsClear(d)
            dict == IF clear THEN Entries(d, d.nod, Root)[1][2] ELSE Null
            e == [d EXCEPT !.layoutDict = dict]
<1>1. DxfLayoutDict(d) = e
  BY DEF DxfLayoutDict
<1>2. dict \in Nat
  <2>1. CASE clear
    <3>1. Is(d, Entries(d, d.nod, Root)[1][2], "dictionary")
      BY <2>1 DEF EntryIsClear
    <3>2. dict \in DOMAIN d.objects
      BY <2>1, <3>1 DEF Is
    <3>. QED
      BY <3>2, DrawingIs
  <2>2. CASE ~clear
    BY <2>2 DEF Null
  <2>. QED
    BY <2>1, <2>2
<1>3. Fields(d) /\ d.nod \in Nat
  BY DrawingIs
<1>4. e = [d EXCEPT !.layoutDict = dict]
  OBVIOUS
<1>. HIDE DEF dict, e
<1>5. /\ e.blocks = d.blocks /\ e.objects = d.objects /\ e.ents = d.ents
      /\ e.nod = d.nod /\ e.layoutDict = dict /\ e.model = d.model
      /\ e.paper = d.paper /\ e.next = d.next /\ Fields(e)
  BY <1>3, <1>4 DEF Fields
<1>. QED
  BY <1>1, <1>2, <1>3, <1>5, HeaderKeeps

\* What is rewired so far: the taken records are marked, and the layouts that are
\* left dangle without viewports.
RewireOk(acc) ==
    /\ acc = [d |-> acc.d, owned |-> acc.owned, left |-> acc.left]
    /\ Good(acc.d) /\ IsFiniteSet(acc.left) /\ acc.left \subseteq LayoutsOf(acc.d)
    /\ \A l \in acc.left : acc.d.objects[l].record \notin Records(acc.d)
                           /\ acc.d.objects[l].views = << >>
    /\ \A l \in LayoutsOf(acc.d) :
          acc.d.objects[l].record \in Records(acc.d) => acc.d.objects[l].record \in acc.owned

LEMMA ForemostIs ==
    ASSUME NEW d, Drawing(d), NEW S \in SUBSET LayoutsOf(d), S # {}
    PROVE  Foremost(d, S) \in S
<1>. DEFINE tabs == {d.objects[l].tab : l \in S}
<1>1. \A l \in S : l \in Nat /\ d.objects[l].tab \in Nat
  BY LayoutIs DEF LayoutObject
<1>2. tabs \in SUBSET Nat /\ tabs # {}
  BY <1>1
<1>3. PICK t \in tabs : \A u \in tabs : t <= u
  BY <1>2, NatLeast
<1>. DEFINE first == {l \in S : d.objects[l].tab = t}
<1>4. first \in SUBSET Nat /\ first # {}
  BY <1>1, <1>3
<1>5. PICK l \in first : \A k \in first : l <= k
  BY <1>4, NatLeast
<1>6. \A k \in S : \/ d.objects[l].tab < d.objects[k].tab
                   \/ d.objects[l].tab = d.objects[k].tab /\ l <= k
  <2>. SUFFICES ASSUME NEW k \in S, d.objects[k].tab # t
                PROVE  d.objects[l].tab < d.objects[k].tab
    BY <1>5
  <2>1. d.objects[k].tab \in tabs /\ d.objects[k].tab \in Nat /\ t \in Nat
    BY <1>1, <1>2, <1>3
  <2>2. d.objects[l].tab = t
    OBVIOUS
  <2>3. t <= d.objects[k].tab
    BY <1>3, <2>1
  <2>. HIDE DEF first, tabs
  <2>. QED
    BY <2>1, <2>2, <2>3
<1>7. l \in S
  BY <1>5
<1>. QED
  BY <1>6, <1>7 DEF Foremost

\* e is d with a layout, which named no record, now at one that no layout named.
Rewires1(e, d, l, i) ==
    /\ Fields(e) /\ e.ents = d.ents /\ e.nod = d.nod /\ e.layoutDict = d.layoutDict
    /\ e.model = d.model /\ e.paper = d.paper /\ e.next = d.next
    /\ l \in LayoutsOf(d) /\ i \in DOMAIN d.blocks
    /\ d.objects[l].record \notin Records(d) /\ d.objects[l].views = << >>
    /\ Naming(d, d.blocks[i].handle) = {}
    /\ e.objects = [h \in DOMAIN e.objects |-> e.objects[h]]
    /\ DOMAIN e.objects = DOMAIN d.objects
    /\ \A h \in DOMAIN d.objects \ {l} : e.objects[h] = d.objects[h]
    /\ e.objects[l] \in LayoutObject /\ e.objects[l].views = << >>
    /\ e.objects[l].record = d.blocks[i].handle
    /\ e.blocks \in Seq(BlockRecord) /\ DOMAIN e.blocks = DOMAIN d.blocks
    /\ \A j \in DOMAIN d.blocks :
          /\ e.blocks[j].name = d.blocks[j].name /\ e.blocks[j].handle = d.blocks[j].handle
          /\ e.blocks[j].listed = d.blocks[j].listed
          /\ e.blocks[j].layout = IF j = i THEN l ELSE d.blocks[j].layout

LEMMA RewiresNames ==
    ASSUME NEW d, NEW e, NEW l, NEW i, Rewires1(e, d, l, i)
    PROVE  /\ Records(e) = Records(d) /\ LayoutsOf(e) = LayoutsOf(d)
           /\ EntityHandles(e) = EntityHandles(d)
           /\ Naming(e, d.blocks[i].handle) = {l}
           /\ \A r \in Records(d) : r # d.blocks[i].handle => Naming(e, r) = Naming(d, r)
<1>1. /\ l \in LayoutsOf(d) /\ DOMAIN e.objects = DOMAIN d.objects
      /\ \A h \in DOMAIN d.objects \ {l} : e.objects[h] = d.objects[h]
      /\ e.objects[l] \in LayoutObject /\ e.objects[l].record = d.blocks[i].handle
      /\ d.objects[l].record \notin Records(d) /\ Naming(d, d.blocks[i].handle) = {}
      /\ e.ents = d.ents /\ DOMAIN e.blocks = DOMAIN d.blocks
      /\ \A j \in DOMAIN d.blocks : e.blocks[j].handle = d.blocks[j].handle
  BY DEF Rewires1
<1>2. l \in DOMAIN d.objects /\ d.objects[l].kind = "layout" /\ e.objects[l].kind = "layout"
  BY <1>1 DEF LayoutsOf, Is, LayoutObject
<1>3. LayoutsOf(e) = LayoutsOf(d)
  BY <1>1, <1>2 DEF LayoutsOf, Is
<1>4. \A k \in LayoutsOf(d) : k \in DOMAIN d.objects
  BY DEF LayoutsOf
<1>5. Naming(e, d.blocks[i].handle) = {l}
  BY <1>1, <1>3, <1>4 DEF Naming
<1>6. \A r \in Records(d) : r # d.blocks[i].handle => Naming(e, r) = Naming(d, r)
  BY <1>1, <1>3, <1>4 DEF Naming
<1>7. Records(e) = Records(d) /\ EntityHandles(e) = EntityHandles(d)
  BY <1>1 DEF Records, EntityHandles
<1>. QED
  BY <1>3, <1>5, <1>6, <1>7

LEMMA RewiresGood ==
    ASSUME NEW d, NEW e, NEW l, NEW i, Good(d), Rewires1(e, d, l, i)
    PROVE  Good(e)
<1>1. Sited(d) /\ Drawing(d) /\ OneEach(d, Records(d)) /\ ViewsListed(d) /\ LinksWeak(d)
  BY DEF Good, Sited
<1>2. /\ Records(e) = Records(d) /\ LayoutsOf(e) = LayoutsOf(d)
      /\ EntityHandles(e) = EntityHandles(d) /\ Naming(e, d.blocks[i].handle) = {l}
      /\ \A r \in Records(d) : r # d.blocks[i].handle => Naming(e, r) = Naming(d, r)
  BY RewiresNames
<1>3. /\ Fields(e) /\ e.ents = d.ents /\ e.nod = d.nod /\ e.layoutDict = d.layoutDict
      /\ e.model = d.model /\ e.paper = d.paper /\ e.next = d.next
      /\ l \in LayoutsOf(d) /\ i \in DOMAIN d.blocks
      /\ Naming(d, d.blocks[i].handle) = {}
      /\ e.objects = [h \in DOMAIN e.objects |-> e.objects[h]]
      /\ DOMAIN e.objects = DOMAIN d.objects
      /\ \A h \in DOMAIN d.objects \ {l} : e.objects[h] = d.objects[h]
      /\ e.objects[l] \in LayoutObject /\ e.objects[l].views = << >>
      /\ e.objects[l].record = d.blocks[i].handle
      /\ e.blocks \in Seq(BlockRecord) /\ DOMAIN e.blocks = DOMAIN d.blocks
      /\ \A j \in DOMAIN d.blocks :
          /\ e.blocks[j].handle = d.blocks[j].handle /\ e.blocks[j].listed = d.blocks[j].listed
          /\ e.blocks[j].layout = IF j = i THEN l ELSE d.blocks[j].layout
  BY DEF Rewires1
<1>4. LayoutsOf(d) \subseteq DOMAIN d.objects /\ \A j \in DOMAIN d.blocks : d.blocks[j].handle \in Records(d)
  BY DEF LayoutsOf, Records
<1>5. Drawing(e)
  <2>1. /\ IsFiniteSet(DOMAIN d.objects) /\ DOMAIN d.objects \subseteq Nat \ {Null}
        /\ d.nod \in Nat /\ d.layoutDict \in Nat /\ d.model \in Nat /\ d.paper \in Nat
        /\ d.next \in Nat /\ d.ents \in Seq(EntityRecord)
        /\ \A h \in DOMAIN d.objects : d.objects[h] \in LayoutObject \cup DictionaryObject
    BY <1>1 DEF Drawing
  <2>2. \A h \in DOMAIN e.objects : e.objects[h] \in LayoutObject \cup DictionaryObject
    BY <1>3, <2>1
  <2>. QED
    BY <1>3, <2>1, <2>2 DEF Drawing, Fields
<1>6. Sited(e)
  <2>1. \A j, k \in DOMAIN e.blocks : e.blocks[j].handle = e.blocks[k].handle => j = k
    BY <1>1, <1>3 DEF Sited
  <2>2. \A h \in Records(e) \cup DOMAIN e.objects \cup EntityHandles(e) : h \in 1 .. e.next - 1
    BY <1>1, <1>2, <1>3 DEF Sited
  <2>3. d.blocks[i].handle < d.next
    <3>1. d.next \in Nat /\ d.blocks[i].handle \in 1 .. d.next - 1
      BY <1>1, <1>3, <1>4, DrawingIs DEF Sited
    <3>. QED
      BY <3>1
  <2>4. \A k \in LayoutsOf(e) : e.objects[k].record < e.next
    BY <1>1, <1>2, <1>3, <1>4, <2>3 DEF Sited
  <2>. QED
    BY <1>1, <1>3, <1>5, <2>1, <2>2, <2>4 DEF Sited
<1>7. OneEach(e, Records(e))
  BY <1>1, <1>2, <1>3, <1>4 DEF OneEach, Naming
<1>8. ViewsListed(e)
  <2>. SUFFICES ASSUME NEW j \in DOMAIN d.blocks, NEW k \in LayoutsOf(d),
                       e.objects[k].record = d.blocks[j].handle
                PROVE  ToSet(e.objects[k].views) \subseteq ToSet(d.blocks[j].listed)
    BY <1>2, <1>3 DEF ViewsListed
  <2>1. CASE k = l
    BY <1>3, <2>1 DEF ToSet
  <2>2. CASE k # l
    BY <1>1, <1>3, <1>4, <2>2 DEF ViewsListed
  <2>. QED
    BY <2>1, <2>2
<1>9. LinksWeak(e)
  <2>. SUFFICES ASSUME NEW j \in DOMAIN d.blocks, Naming(e, d.blocks[j].handle) # {},
                       e.blocks[j].layout \in LayoutsOf(d)
                PROVE  e.blocks[j].layout \in Naming(e, d.blocks[j].handle) \cup {d.blocks[j].handle}
    BY <1>2, <1>3 DEF LinksWeak
  <2>1. CASE j = i
    BY <1>2, <1>3, <2>1
  <2>2. CASE j # i
    <3>1. d.blocks[j].handle # d.blocks[i].handle
      BY <1>1, <1>3, <2>2 DEF Sited
    <3>2. Naming(e, d.blocks[j].handle) = Naming(d, d.blocks[j].handle)
      BY <1>2, <1>4, <3>1
    <3>. QED
      BY <1>1, <1>3, <2>2, <3>2 DEF LinksWeak
  <2>. QED
    BY <2>1, <2>2
<1>. QED
  BY <1>6, <1>7, <1>8, <1>9 DEF Good

LEMMA RewireOneIs ==
    ASSUME NEW acc, RewireOk(acc), acc.left # {}
    PROVE  /\ RewireOk(RewireOne(acc))
           /\ \E l \in acc.left : RewireOne(acc).left = acc.left \ {l}
<1>. DEFINE d == acc.d
            l == Foremost(d, acc.left)
            free == {j \in DOMAIN d.blocks :
                        /\ d.blocks[j].handle \notin acc.owned
                        /\ IF d.objects[l].name = "Model"
                           THEN d.blocks[j].handle = d.model
                           ELSE d.blocks[j].name # 0}
            i == CHOOSE x \in free : \A y \in free : d.blocks[x].name <= d.blocks[y].name
            s == [acc EXCEPT !.left = acc.left \ {l}]
            e == [d EXCEPT !.objects[l].record = d.blocks[i].handle, !.blocks[i].layout = l]
            t == [d |-> e, owned |-> acc.owned \cup {d.blocks[i].handle}, left |-> acc.left \ {l}]
<1>1. /\ acc = [d |-> acc.d, owned |-> acc.owned, left |-> acc.left]
      /\ Good(d) /\ IsFiniteSet(acc.left) /\ acc.left \subseteq LayoutsOf(d)
      /\ \A k \in acc.left : d.objects[k].record \notin Records(d) /\ d.objects[k].views = << >>
      /\ \A k \in LayoutsOf(d) : d.objects[k].record \in Records(d) => d.objects[k].record \in acc.owned
  BY DEF RewireOk
<1>2. Drawing(d) /\ Fields(d) /\ d.objects = [h \in DOMAIN d.objects |-> d.objects[h]]
  BY <1>1, DrawingIs DEF Good, Sited
<1>3. l \in acc.left
  BY <1>1, <1>2, ForemostIs
<1>4. RewireOne(acc) = IF free = {} THEN s ELSE t
  BY <1>1 DEF RewireOne
<1>5. IsFiniteSet(acc.left \ {l})
  BY <1>1, FS_Subset
<1>6. CASE free = {}
  <2>1. s.d = d /\ s.owned = acc.owned /\ s.left = acc.left \ {l}
        /\ s = [d |-> s.d, owned |-> s.owned, left |-> s.left]
    <3>1. acc = [d |-> acc.d, owned |-> acc.owned, left |-> acc.left]
      BY <1>1
    <3>2. s = [acc EXCEPT !.left = acc.left \ {l}]
      OBVIOUS
    <3>. HIDE DEF l, s
    <3>. QED
      BY <3>1, <3>2
  <2>. HIDE DEF s, free, l, d
  <2>2. RewireOk(s)
    BY <1>1, <1>5, <2>1 DEF RewireOk
  <2>. QED
    BY <1>3, <1>4, <1>6, <2>1, <2>2
<1>7. CASE free # {}
  <2>. DEFINE b == [d.blocks[i] EXCEPT !.layout = l]
              blocks == [d.blocks EXCEPT ![i] = b]
              o == [d.objects[l] EXCEPT !.record = d.blocks[i].handle]
              objects == [d.objects EXCEPT ![l] = o]
  <2>1. /\ DOMAIN d.blocks = 1 .. Len(d.blocks) /\ Len(d.blocks) \in Nat
        /\ d.blocks \in Seq(BlockRecord)
        /\ \A j \in DOMAIN d.blocks : d.blocks[j] \in BlockRecord
    BY <1>2, DrawingIs DEF Drawing
  <2>2. i \in free
    <3>. DEFINE names == {d.blocks[x].name : x \in free}
    <3>1. \A x \in free : d.blocks[x].name \in Nat
      BY <2>1 DEF BlockRecord
    <3>. HIDE DEF free
    <3>2. names \in SUBSET Nat /\ names # {}
      BY <1>7, <3>1
    <3>3. PICK n \in names : \A m \in names : n <= m
      BY <3>2, NatLeast
    <3>4. \E x \in free : \A y \in free : d.blocks[x].name <= d.blocks[y].name
      BY <3>3
    <3>. QED
      BY <3>4
  <2>3. i \in DOMAIN d.blocks /\ d.blocks[i].handle \notin acc.owned
    BY <2>2, Zenon
  <2>4. t.d = e /\ t.owned = acc.owned \cup {d.blocks[i].handle} /\ t.left = acc.left \ {l}
        /\ t = [d |-> t.d, owned |-> t.owned, left |-> t.left]
    OBVIOUS
  <2>. HIDE DEF s, free, l, i, t
  <2>5. /\ l \in LayoutsOf(d) /\ l \in DOMAIN d.objects /\ l \in Nat
        /\ d.objects[l] \in LayoutObject
        /\ d.objects[l].record \notin Records(d) /\ d.objects[l].views = << >>
    BY <1>1, <1>2, <1>3, LayoutIs
  <2>6. /\ b \in BlockRecord /\ b.name = d.blocks[i].name /\ b.handle = d.blocks[i].handle
        /\ b.listed = d.blocks[i].listed /\ b.layout = l
    BY <2>1, <2>3, <2>5 DEF BlockRecord
  <2>7. d.blocks[i].handle \in Nat
    BY <2>1, <2>3 DEF BlockRecord
  <2>8. o \in LayoutObject /\ o.views = << >> /\ o.record = d.blocks[i].handle
    BY <2>5, <2>7 DEF LayoutObject
  <2>9. e = [d EXCEPT !.objects = objects, !.blocks = blocks]
    BY <1>2 DEF Fields
  <2>10. objects = [d.objects EXCEPT ![l] = o] /\ blocks = [d.blocks EXCEPT ![i] = b]
    OBVIOUS
  <2>. HIDE DEF e, b, blocks, o, objects, d
  <2>11. /\ e.blocks = blocks /\ e.objects = objects /\ e.ents = d.ents
         /\ e.nod = d.nod /\ e.layoutDict = d.layoutDict /\ e.model = d.model
         /\ e.paper = d.paper /\ e.next = d.next /\ Fields(e)
    BY <1>2, <2>9 DEF Fields
  <2>12. /\ objects = [h \in DOMAIN objects |-> objects[h]] /\ DOMAIN objects = DOMAIN d.objects
         /\ \A h \in DOMAIN d.objects \ {l} : objects[h] = d.objects[h]
         /\ objects[l] = o
    BY <1>2, <2>5, <2>10
  <2>13. /\ blocks \in Seq(BlockRecord) /\ DOMAIN blocks = DOMAIN d.blocks
         /\ \A j \in DOMAIN d.blocks : blocks[j] = IF j = i THEN b ELSE d.blocks[j]
    BY <2>1, <2>3, <2>6, <2>10
  <2>14. Naming(d, d.blocks[i].handle) = {}
    <3>1. d.blocks[i].handle \in Records(d)
      BY <2>3 DEF Records
    <3>. QED
      BY <1>1, <2>3, <3>1 DEF Naming
  <2>15. Rewires1(e, d, l, i)
    BY <2>3, <2>5, <2>6, <2>8, <2>11, <2>12, <2>13, <2>14 DEF Rewires1
  <2>16. Good(e)
    BY <1>1, <2>15, RewiresGood
  <2>17. Records(e) = Records(d) /\ LayoutsOf(e) = LayoutsOf(d)
    BY <2>15, RewiresNames
  <2>18. \A k \in acc.left \ {l} : e.objects[k] = d.objects[k]
    BY <1>1, <2>11, <2>12 DEF LayoutsOf
  <2>19. \A k \in LayoutsOf(d) : k = l \/ e.objects[k] = d.objects[k]
    BY <2>11, <2>12 DEF LayoutsOf
  <2>20. \A k \in LayoutsOf(e) : e.objects[k].record \in Records(e) => e.objects[k].record \in t.owned
    BY <1>1, <2>4, <2>8, <2>11, <2>12, <2>17, <2>19
  <2>21. RewireOk(t)
    BY <1>1, <1>5, <2>4, <2>16, <2>17, <2>18, <2>20 DEF RewireOk
  <2>. QED
    BY <1>3, <1>4, <1>7, <2>4, <2>21
<1>. QED
  BY <1>6, <1>7

\* The recursion of Rewired.
RewiresAll(f, base, n) ==
    f = [k \in 0 .. n |-> IF k = 0 THEN base ELSE RewireOne(f[k - 1])]

LEMMA RewiresExist ==
    ASSUME NEW base, NEW n \in Nat
    PROVE  \E f : RewiresAll(f, base, n)
<1>. DEFINE S == {k \in Nat : \E f : RewiresAll(f, base, k)}
<1>1. 0 \in S
  <2>1. RewiresAll([k \in 0 .. 0 |-> base], base, 0)
    BY DEF RewiresAll
  <2>. QED
    BY <2>1
<1>2. ASSUME NEW k \in Nat, k \in S PROVE k + 1 \in S
  <2>1. PICK f : RewiresAll(f, base, k)
    BY <1>2
  <2>. DEFINE g == [j \in 0 .. k + 1 |-> IF j <= k THEN f[j] ELSE RewireOne(f[k])]
  <2>2. \A j \in 0 .. k : f[j] = IF j = 0 THEN base ELSE RewireOne(f[j - 1])
    BY <2>1 DEF RewiresAll
  <2>3. /\ DOMAIN g = 0 .. k + 1 /\ g = [j \in 0 .. k + 1 |-> g[j]]
        /\ \A j \in 0 .. k : g[j] = f[j]
        /\ g[k + 1] = RewireOne(f[k])
    OBVIOUS
  <2>. HIDE DEF g
  <2>4. ASSUME NEW j \in 0 .. k + 1 PROVE g[j] = IF j = 0 THEN base ELSE RewireOne(g[j - 1])
    <3>1. CASE j = k + 1
      <4>1. j # 0 /\ j - 1 = k /\ k \in 0 .. k
        BY <3>1
      <4>. QED
        BY <2>3, <3>1, <4>1
    <3>2. CASE j = 0
      BY <2>2, <2>3, <3>2
    <3>3. CASE j \in 1 .. k
      <4>1. j \in 0 .. k /\ j - 1 \in 0 .. k /\ j # 0
        BY <3>3
      <4>. QED
        BY <2>2, <2>3, <4>1
    <3>. QED
      BY <3>1, <3>2, <3>3
  <2>5. RewiresAll(g, base, k + 1)
    BY <2>3, <2>4 DEF RewiresAll
  <2>. QED
    BY <2>5
<1>. HIDE DEF S
<1>3. Nat \subseteq S
  BY <1>1, <1>2, NatSetInduction
<1>. QED
  BY <1>3 DEF S

LEMMA RewiredIs ==
    ASSUME NEW d, Bare(d)
    PROVE  Good(Rewired(d))
<1>. DEFINE owned == {d.objects[l].record : l \in LayoutsOf(d)} \cap Records(d)
            base == [d |-> d, owned |-> owned, left |-> Dangling(d)]
            N == Cardinality(Dangling(d))
            f == CHOOSE f : RewiresAll(f, base, N)
<1>1. Rewired(d) = f[N].d
  BY DEF Rewired, RewiresAll
<1>2. IsFiniteSet(Dangling(d)) /\ N \in Nat
  <2>1. IsFiniteSet(DOMAIN d.objects)
    BY DEF Bare, Good, Sited, Drawing
  <2>2. Dangling(d) \subseteq DOMAIN d.objects
    BY DEF Dangling, LayoutsOf
  <2>. QED
    BY <2>1, <2>2, FS_Subset, FS_CardinalityType
<1>3. RewireOk(base)
  <2>1. base.d = d /\ base.owned = owned /\ base.left = Dangling(d)
        /\ base = [d |-> base.d, owned |-> base.owned, left |-> base.left]
    OBVIOUS
  <2>. HIDE DEF base
  <2>2. \A l \in LayoutsOf(d) : d.objects[l].record \in Records(d) => d.objects[l].record \in owned
    OBVIOUS
  <2>3. Dangling(d) \subseteq LayoutsOf(d) /\ \A l \in Dangling(d) :
           d.objects[l].record \notin Records(d) /\ d.objects[l].views = << >>
    BY DEF Dangling, Bare
  <2>. HIDE DEF owned
  <2>. QED
    BY <1>2, <2>1, <2>2, <2>3 DEF RewireOk, Bare
<1>4. base.left = Dangling(d)
  OBVIOUS
<1>. HIDE DEF base, N
<1>5. RewiresAll(f, base, N)
  BY <1>2, RewiresExist
<1>. HIDE DEF f
<1>6. \A k \in 0 .. N : f[k] = IF k = 0 THEN base ELSE RewireOne(f[k - 1])
  BY <1>5 DEF RewiresAll
<1>. DEFINE S == {k \in Nat : k <= N => RewireOk(f[k]) /\ Cardinality(f[k].left) = N - k}
<1>7. 0 \in S
  BY <1>2, <1>3, <1>4, <1>6 DEF N
<1>8. ASSUME NEW k \in Nat, k \in S PROVE k + 1 \in S
  <2>. SUFFICES ASSUME k + 1 <= N
                PROVE  RewireOk(f[k + 1]) /\ Cardinality(f[k + 1].left) = N - (k + 1)
    OBVIOUS
  <2>1. RewireOk(f[k]) /\ Cardinality(f[k].left) = N - k /\ N - k # 0
    BY <1>2, <1>8
  <2>2. f[k + 1] = RewireOne(f[k])
    <3>1. k + 1 \in 0 .. N /\ k + 1 # 0 /\ (k + 1) - 1 = k
      BY <1>2
    <3>. QED
      BY <1>6, <3>1
  <2>3. IsFiniteSet(f[k].left)
    BY <2>1 DEF RewireOk
  <2>4. f[k].left # {}
    BY <2>1, FS_EmptySet
  <2>5. RewireOk(RewireOne(f[k])) /\ \E l \in f[k].left : RewireOne(f[k]).left = f[k].left \ {l}
    BY <2>1, <2>4, RewireOneIs
  <2>6. Cardinality(RewireOne(f[k]).left) = (N - k) - 1
    BY <2>1, <2>3, <2>5, FS_RemoveElement
  <2>. QED
    BY <1>2, <2>2, <2>5, <2>6
<1>. HIDE DEF S
<1>9. N \in S
  BY <1>2, <1>7, <1>8, NatSetInduction
<1>10. RewireOk(f[N])
  BY <1>2, <1>9 DEF S
<1>. QED
  BY <1>1, <1>10 DEF RewireOk

\* A DXF read leaves every record with its link.
LEMMA DxfEndIs ==
    ASSUME NEW d, Good(d), NEW e \in DxfEnd(d)
    PROVE  Good(e) /\ LinksStrong(e)
<1>. DEFINE v == DxfViewports(d)
            r == DxfRoot(v)
            l == DxfLayoutDict(r)
<1>1. Bare(v)
  BY DxfViewportsIs
<1>2. Bare(r)
  <2>1. Sited(v)
    BY <1>1 DEF Bare, Good
  <2>. HIDE DEF v
  <2>2. Keeps(r, v)
    BY <2>1, DxfRootIs
  <2>. QED
    BY <1>1, <2>2, BareKeeps
<1>3. Bare(l)
  <2>1. Drawing(r)
    BY <1>2 DEF Bare, Good, Sited
  <2>. HIDE DEF r
  <2>2. Keeps(l, r)
    BY <2>1, DxfLayoutDictIs
  <2>. QED
    BY <1>2, <2>2, BareKeeps
<1>4. e \in Ensured(Rewired(l))
  BY DEF DxfEnd
<1>. HIDE DEF l
<1>. QED
  BY <1>3, <1>4, RewiredIs, EnsuredIs

-----------------------------------------------------------------------------
(* The spaces a DWG file's header names.                                    *)

LEMMA KeepsSpacious ==
    ASSUME NEW d, NEW e, Spacious(d), Keeps(e, d)
    PROVE  Spacious(e)
<1>1. Sited(e)
  BY KeepsSited DEF Spacious
<1>2. Spaces(e) = Spaces(d) /\ e.model = d.model /\ e.paper = d.paper /\ e.next >= d.next
  BY KeepsNames DEF Keeps
<1>3. d.model \in Nat /\ d.paper \in Nat /\ d.next \in Nat /\ e.next \in Nat
  BY <1>1, DrawingIs DEF Spacious, Sited
<1>4. e.model < e.next /\ e.paper < e.next
  BY <1>2, <1>3 DEF Spacious
<1>. QED
  BY <1>1, <1>2, <1>4, KeepsLinks DEF Spacious

LEMMA RepointedIs ==
    ASSUME NEW d, Spacious(d), NEW space \in {"model", "paper"}, d[space] \notin Records(d)
    PROVE  LET e == Repointed(d, space)
           IN Moved(e, d, d[space], d.next) /\ e.blocks = d.blocks /\ e[space] = d.next
              /\ e[space] \in {e.model, e.paper}
<1>. DEFINE old == d[space]
            new == d.next
            objects == Rerecorded(d, old, new)
            ents == Reowned(d, old, new)
            t == [d EXCEPT !.next = @ + 1]
            e == [t EXCEPT ![space] = new, !.objects = objects, !.ents = ents]
<1>1. /\ Sited(d) /\ Drawing(d) /\ d.model < d.next /\ d.paper < d.next
  BY DEF Spacious, Sited
<1>2. /\ Fields(d) /\ d.next \in Nat /\ d.model \in Nat /\ d.paper \in Nat
      /\ d.blocks \in Seq(BlockRecord)
  BY <1>1, DrawingIs DEF Drawing
<1>3. objects = [h \in DOMAIN d.objects |->
                    IF h \in LayoutsOf(d) /\ d.objects[h].record = old
                    THEN [d.objects[h] EXCEPT !.record = new] ELSE d.objects[h]]
  BY DEF Rerecorded, LayoutsOf, Is
<1>4. t.objects = d.objects /\ t.ents = d.ents /\ t.blocks = d.blocks /\ t.nod = d.nod
      /\ t.layoutDict = d.layoutDict /\ t.model = d.model /\ t.paper = d.paper
      /\ t.next = d.next + 1 /\ Fields(t)
  BY <1>2 DEF Fields
<1>5. Repointed(d, space) = e
  <2>1. Take(d, 1) = t
    BY DEF Take
  <2>. HIDE DEF t, objects
  <2>2. [t EXCEPT ![space] = new,
          !.objects = [h \in DOMAIN @ |->
              IF h \in LayoutsOf(d) /\ @[h].record = old
              THEN [@[h] EXCEPT !.record = new] ELSE @[h]],
          !.ents = [i \in DOMAIN @ |->
              IF @[i].owner = old THEN [@[i] EXCEPT !.owner = new] ELSE @[i]]] = e
    <3>1. CASE space = "model"
      BY <1>3, <1>4, <3>1 DEF Fields, Reowned
    <3>2. CASE space = "paper"
      BY <1>3, <1>4, <3>2 DEF Fields, Reowned
    <3>. QED
      BY <3>1, <3>2
  <2>. QED
    BY <2>1, <2>2 DEF Repointed
<1>6. e = [t EXCEPT ![space] = new, !.objects = objects, !.ents = ents]
  OBVIOUS
<1>. HIDE DEF e, t, objects, ents
<1>7. /\ e.blocks = d.blocks /\ e.objects = objects /\ e.ents = ents
      /\ e.nod = d.nod /\ e.layoutDict = d.layoutDict /\ e.next = d.next + 1
      /\ {e.model, e.paper} \subseteq {d.model, d.paper, new} /\ Fields(e)
      /\ old \in {d.model, d.paper} /\ e[space] = new /\ e[space] \in {e.model, e.paper}
  <2>1. CASE space = "model"
    BY <1>4, <1>6, <2>1 DEF Fields
  <2>2. CASE space = "paper"
    BY <1>4, <1>6, <2>2 DEF Fields
  <2>. QED
    BY <2>1, <2>2
<1>8. /\ \A j \in DOMAIN d.blocks : \E k \in DOMAIN d.blocks :
             d.blocks[j] = d.blocks[k] /\ d.blocks[k].handle # old
      /\ \A i, j \in DOMAIN d.blocks : d.blocks[i].handle = d.blocks[j].handle => i = j
  BY <1>1 DEF Sited, Records
<1>. HIDE DEF old
<1>9. new \in 1 .. e.next - 1 /\ e.next \in Nat /\ e.next >= d.next
  <2>1. d.next # 0
    BY <1>1, <1>2, NextFree DEF Null
  <2>. QED
    BY <1>2, <1>7, <2>1
<1>10. new \notin Spaces(d) \cup {Elsewhere} /\ \A l \in LayoutsOf(d) : d.objects[l].record # new
  <2>1. \A h \in Records(d) : h < d.next
    BY <1>1, <1>2 DEF Sited
  <2>2. Elsewhere < d.next
    BY <1>1, <1>2 DEF Sited
  <2>3. \A l \in LayoutsOf(d) : d.objects[l].record < d.next
    BY <1>1 DEF Sited
  <2>. QED
    BY <1>1, <1>2, <2>1, <2>2, <2>3 DEF Spaces
<1>11. Moves(e, d, old, new, d.blocks)
  BY <1>2, <1>7, <1>8, <1>9, <1>10 DEF Moves, objects, ents
<1>12. Moved(e, d, old, new)
  BY <1>1, <1>11, MovesIs
<1>. QED
  BY <1>5, <1>7, <1>12 DEF old

\* r is e with a record for a space that had none.
Spaced(r, e, record) ==
    /\ Fields(r) /\ r.objects = e.objects /\ r.ents = e.ents /\ r.nod = e.nod
    /\ r.layoutDict = e.layoutDict /\ r.model = e.model /\ r.paper = e.paper /\ r.next = e.next
    /\ r.blocks = Append(e.blocks, record)
    /\ record \in BlockRecord
    /\ record.handle \in {e.model, e.paper} /\ record.handle \notin Records(e)
    /\ record.layout \in Naming(e, record.handle) \cup {Null}

LEMMA SpacedIs ==
    ASSUME NEW e, NEW r, NEW record, Spacious(e), Spaced(r, e, record)
    PROVE  Spacious(r)
<1>1. /\ Sited(e) /\ OneEach(e, Spaces(e)) /\ ViewsOwned(e) /\ LinksWeak(e)
      /\ e.model < e.next /\ e.paper < e.next /\ {Null, Elsewhere} \cap Spaces(e) = {}
  BY DEF Spacious
<1>2. /\ Fields(r) /\ r.objects = e.objects /\ r.ents = e.ents /\ r.nod = e.nod
      /\ r.layoutDict = e.layoutDict /\ r.model = e.model /\ r.paper = e.paper /\ r.next = e.next
      /\ r.blocks = Append(e.blocks, record) /\ record \in BlockRecord
      /\ record.handle \in {e.model, e.paper} /\ record.handle \notin Records(e)
      /\ record.layout \in Naming(e, record.handle) \cup {Null}
  BY DEF Spaced
<1>3. /\ Drawing(e) /\ e.blocks \in Seq(BlockRecord)
      /\ DOMAIN e.blocks = 1 .. Len(e.blocks) /\ Len(e.blocks) \in Nat
      /\ e.next \in Nat /\ e.model \in Nat /\ e.paper \in Nat
  BY <1>1, DrawingIs DEF Sited, Drawing
<1>4. /\ r.blocks \in Seq(BlockRecord) /\ DOMAIN r.blocks = 1 .. Len(e.blocks) + 1
      /\ r.blocks[Len(e.blocks) + 1] = record
      /\ \A j \in DOMAIN e.blocks : r.blocks[j] = e.blocks[j]
  BY <1>2, <1>3
<1>5. \A j \in DOMAIN r.blocks : j \in DOMAIN e.blocks \/ j = Len(e.blocks) + 1
  BY <1>3, <1>4
<1>6. Records(r) = Records(e) \cup {record.handle}
  <2>1. Len(e.blocks) + 1 \in DOMAIN r.blocks /\ DOMAIN e.blocks \subseteq DOMAIN r.blocks
    BY <1>3, <1>4
  <2>. QED
    BY <1>4, <1>5, <2>1 DEF Records
<1>7. /\ Spaces(r) = Spaces(e) /\ LayoutsOf(r) = LayoutsOf(e) /\ EntityHandles(r) = EntityHandles(e)
      /\ \A h : Naming(r, h) = Naming(e, h)
  BY <1>2, <1>6 DEF Spaces, LayoutsOf, Is, EntityHandles, Naming
<1>8. Drawing(r)
  BY <1>2, <1>3, <1>4 DEF Drawing, Fields
<1>9. Sited(r)
  <2>1. \A i, j \in DOMAIN r.blocks : r.blocks[i].handle = r.blocks[j].handle => i = j
    <3>1. \A i \in DOMAIN e.blocks : r.blocks[i].handle # record.handle
      BY <1>2, <1>4 DEF Records
    <3>2. \A i, j \in DOMAIN e.blocks : r.blocks[i].handle = r.blocks[j].handle => i = j
      BY <1>1, <1>4 DEF Sited
    <3>. QED
      BY <1>4, <1>5, <3>1, <3>2
  <2>2. record.handle \in 1 .. e.next - 1
    <3>1. record.handle # 0
      BY <1>1, <1>2 DEF Spaces, Null
    <3>. QED
      BY <1>1, <1>2, <1>3, <3>1
  <2>3. \A h \in Records(r) \cup DOMAIN r.objects \cup EntityHandles(r) : h \in 1 .. r.next - 1
    BY <1>1, <1>2, <1>6, <1>7, <2>2 DEF Sited
  <2>4. (\A l \in LayoutsOf(r) : r.objects[l].record < r.next) /\ Elsewhere \in 1 .. r.next - 1
    BY <1>1, <1>2, <1>7 DEF Sited
  <2>. QED
    BY <1>8, <2>1, <2>3, <2>4 DEF Sited
<1>10. OneEach(r, Spaces(r))
  BY <1>1, <1>2, <1>7 DEF OneEach
<1>11. ViewsOwned(r)
  <2>1. \A h, x : Belongs(r, h, x) <=> Belongs(e, h, x)
    BY <1>2 DEF Belongs
  <2>. QED
    BY <1>1, <1>2, <1>7, <2>1 DEF ViewsOwned
<1>12. LinksWeak(r)
  <2>. SUFFICES ASSUME NEW j \in DOMAIN r.blocks, Naming(e, r.blocks[j].handle) # {},
                       r.blocks[j].layout \in LayoutsOf(e)
                PROVE  r.blocks[j].layout \in Naming(e, r.blocks[j].handle) \cup {r.blocks[j].handle}
    BY <1>7 DEF LinksWeak
  <2>1. CASE j \in DOMAIN e.blocks
    BY <1>1, <1>4, <2>1 DEF LinksWeak
  <2>2. CASE j = Len(e.blocks) + 1
    <3>1. Null \notin LayoutsOf(e)
      BY <1>3, LayoutIs
    <3>. QED
      BY <1>2, <1>4, <2>2, <3>1
  <2>. QED
    BY <1>5, <2>1, <2>2
<1>. QED
  BY <1>1, <1>2, <1>7, <1>9, <1>10, <1>11, <1>12 DEF Spacious

LEMMA SynthesizedIs ==
    ASSUME NEW d, Spacious(d), NEW space \in {"model", "paper"}
    PROVE  Spacious(Synthesized(d, space))
<1>. DEFINE collides == \/ d[space] \in DOMAIN d.objects
                        \/ \E x \in ToSet(d.ents) : x.handle = d[space]
            e == IF collides THEN Repointed(d, space) ELSE d
            t == Take(e, 2)
            naming == Naming(e, e[space])
            record == [name |-> IF space = "model" THEN 0 ELSE 1, handle |-> e[space],
                       layout |-> IF naming = {} THEN Null ELSE Lowest(naming),
                       listed |-> << >>]
            r == [t EXCEPT !.blocks = IF record.name \in BlockNames(d) THEN @ ELSE Append(@, record)]
<1>1. Synthesized(d, space) = IF d[space] = Null \/ d[space] \in Records(d) THEN d ELSE r
  BY DEF Synthesized
<1>2. CASE d[space] = Null \/ d[space] \in Records(d)
  BY <1>1, <1>2
<1>3. CASE ~(d[space] = Null \/ d[space] \in Records(d))
  <2>1. Spacious(e) /\ e[space] \notin Records(e) /\ e[space] \in {e.model, e.paper}
    <3>1. CASE collides
      <4>1. Moved(e, d, d[space], d.next) /\ e.blocks = d.blocks /\ e[space] = d.next
            /\ e[space] \in {e.model, e.paper}
        BY <1>3, <3>1, RepointedIs
      <4>2. Spacious(e)
        BY <4>1, MovedSpacious
      <4>3. d.next \notin Records(d)
        BY NextFree DEF Spacious
      <4>. QED
        BY <4>1, <4>2, <4>3 DEF Records
    <3>2. CASE ~collides
      <4>1. Fields(d)
        BY DrawingIs DEF Spacious, Sited
      <4>2. d[space] \in {d.model, d.paper}
        OBVIOUS
      <4>3. e = d
        BY <3>2
      <4>. QED
        BY <1>3, <4>2, <4>3
    <3>. QED
      BY <3>1, <3>2
  <2>. HIDE DEF e
  <2>2. Drawing(e) /\ e[space] \in Nat
    <3>1. Drawing(e)
      BY <2>1 DEF Spacious, Sited
    <3>2. e.model \in Nat /\ e.paper \in Nat
      BY <3>1, DrawingIs
    <3>. QED
      BY <2>1, <3>1, <3>2
  <2>3. Keeps(t, e)
    BY <2>2, TakeIs
  <2>4. /\ Spacious(t) /\ Drawing(t) /\ t.model = e.model /\ t.paper = e.paper
        /\ Records(t) = Records(e) /\ Naming(t, e[space]) = naming
    BY <2>1, <2>3, KeepsSpacious, KeepsNames DEF Keeps
  <2>5. naming \in SUBSET Nat
    BY <2>2, LayoutIs DEF Naming
  <2>6. record.layout \in naming \cup {Null} /\ record.layout \in Nat
    <3>1. naming # {} => Lowest(naming) \in naming
      BY <2>5, LowestIs
    <3>. HIDE DEF naming
    <3>. QED
      BY <2>5, <3>1 DEF Null
  <2>7. record \in BlockRecord /\ record.handle = e[space]
    <3>1. /\ record = [name |-> record.name, handle |-> record.handle, layout |-> record.layout,
                       listed |-> record.listed]
          /\ record.name \in Nat /\ record.listed = << >> /\ record.handle = e[space]
      OBVIOUS
    <3>2. << >> \in Seq(Nat)
      OBVIOUS
    <3>. HIDE DEF record
    <3>. QED
      BY <2>2, <2>6, <3>1, <3>2 DEF BlockRecord
  <2>. HIDE DEF t, naming, record
  <2>8. Fields(t)
    BY <2>4, DrawingIs
  <2>9. CASE record.name \in BlockNames(d)
    <3>1. r = t
      BY <2>8, <2>9 DEF Fields
    <3>. QED
      BY <1>1, <1>3, <2>4, <3>1
  <2>10. CASE record.name \notin BlockNames(d)
    <3>1. r = [t EXCEPT !.blocks = Append(t.blocks, record)]
      BY <2>8, <2>10 DEF Fields
    <3>. HIDE DEF r
    <3>2. /\ r.blocks = Append(t.blocks, record) /\ r.objects = t.objects /\ r.ents = t.ents
          /\ r.nod = t.nod /\ r.layoutDict = t.layoutDict /\ r.model = t.model
          /\ r.paper = t.paper /\ r.next = t.next /\ Fields(r)
      BY <2>8, <3>1 DEF Fields
    <3>3. record.layout \in Naming(t, record.handle) \cup {Null}
      BY <2>4, <2>6, <2>7
    <3>4. Spaced(r, t, record)
      BY <2>1, <2>4, <2>7, <3>2, <3>3 DEF Spaced
    <3>5. Spacious(r)
      BY <2>4, <3>4, SpacedIs
    <3>. QED
      BY <1>1, <1>3, <3>5
  <2>. QED
    BY <2>9, <2>10
<1>. QED
  BY <1>2, <1>3

\* Every record lists what it owns.
LEMMA MembershipIs ==
    ASSUME NEW d, Spacious(d)
    PROVE  Good(Membership(d))
<1>. DEFINE own(i) == Kept(d.ents, Owned(d, d.blocks[i].handle))
            listed(i) == [j \in DOMAIN own(i) |-> own(i)[j].handle]
            blocks == [i \in DOMAIN d.blocks |-> [d.blocks[i] EXCEPT !.listed = listed(i)]]
            e == [d EXCEPT !.blocks = blocks]
<1>1. Sited(d) /\ Drawing(d) /\ OneEach(d, Spaces(d)) /\ ViewsOwned(d) /\ LinksWeak(d)
  BY DEF Spacious, Sited
<1>2. /\ Fields(d) /\ DOMAIN d.blocks = 1 .. Len(d.blocks) /\ Len(d.blocks) \in Nat
      /\ \A i \in DOMAIN d.blocks : d.blocks[i] \in BlockRecord
      /\ d.ents \in Seq(EntityRecord) /\ DOMAIN d.ents = 1 .. Len(d.ents)
  BY <1>1, DrawingIs DEF Drawing
<1>3. Membership(d) = e
  BY <1>2 DEF Membership, Fields
<1>4. ASSUME NEW i \in DOMAIN d.blocks
      PROVE  /\ listed(i) \in Seq(Nat)
             /\ \A h : Belongs(d, h, d.blocks[i].handle) => h \in ToSet(listed(i))
  <2>. DEFINE k == own(i)
              list == listed(i)
  <2>1. k \in Seq(EntityRecord) /\ ToSet(k) = ToSet(d.ents) \cap Owned(d, d.blocks[i].handle)
    BY <1>2, KeptToSet
  <2>2. list = [j \in DOMAIN k |-> k[j].handle]
    OBVIOUS
  <2>. HIDE DEF k, list
  <2>3. DOMAIN k = 1 .. Len(k) /\ Len(k) \in Nat /\ \A j \in 1 .. Len(k) : k[j] \in EntityRecord
    BY <2>1
  <2>4. list \in Seq(Nat)
    <3>1. \A j \in 1 .. Len(k) : list[j] \in Nat
      BY <2>2, <2>3 DEF EntityRecord
    <3>2. list = [j \in 1 .. Len(k) |-> list[j]]
      BY <2>2, <2>3
    <3>. QED
      BY <2>3, <3>1, <3>2, SeqIs
  <2>5. ASSUME NEW h, Belongs(d, h, d.blocks[i].handle) PROVE h \in ToSet(list)
    <3>1. PICK n \in DOMAIN d.ents : d.ents[n].handle = h /\ d.ents[n].owner = d.blocks[i].handle
      BY <2>5 DEF Belongs
    <3>2. d.ents[n] \in ToSet(d.ents)
      BY DEF ToSet
    <3>3. d.ents[n] \in Owned(d, d.blocks[i].handle)
      BY <3>1, <3>2 DEF Owned
    <3>4. PICK j \in DOMAIN k : k[j] = d.ents[n]
      <4>1. d.ents[n] \in ToSet(k)
        BY <2>1, <3>2, <3>3
      <4>. QED
        BY <4>1 DEF ToSet
    <3>. QED
      BY <2>2, <3>1, <3>4 DEF ToSet
  <2>. QED
    BY <2>4, <2>5 DEF list
<1>5. /\ DOMAIN blocks = DOMAIN d.blocks /\ blocks = [i \in 1 .. Len(d.blocks) |-> blocks[i]]
      /\ \A i \in DOMAIN d.blocks : blocks[i] = [d.blocks[i] EXCEPT !.listed = listed(i)]
  BY <1>2
<1>6. e = [d EXCEPT !.blocks = blocks]
  OBVIOUS
<1>. HIDE DEF blocks, e, listed, own
<1>7. \A i \in DOMAIN d.blocks :
        /\ blocks[i] \in BlockRecord /\ blocks[i].listed = listed(i)
        /\ blocks[i].name = d.blocks[i].name /\ blocks[i].handle = d.blocks[i].handle
        /\ blocks[i].layout = d.blocks[i].layout
  BY <1>2, <1>4, <1>5 DEF BlockRecord
<1>8. blocks \in Seq(BlockRecord)
  BY <1>2, <1>5, <1>7, SeqIs
<1>9. /\ e.blocks = blocks /\ e.objects = d.objects /\ e.ents = d.ents
      /\ e.nod = d.nod /\ e.layoutDict = d.layoutDict /\ e.model = d.model
      /\ e.paper = d.paper /\ e.next = d.next /\ Fields(e)
  BY <1>2, <1>6 DEF Fields
<1>10. Drawing(e)
  BY <1>1, <1>8, <1>9 DEF Drawing, Fields
<1>. DEFINE same == /\ DOMAIN e.blocks = DOMAIN d.blocks
                    /\ \A i \in DOMAIN d.blocks :
                          /\ e.blocks[i].handle = d.blocks[i].handle
                          /\ e.blocks[i].layout = d.blocks[i].layout
<1>17. same
  BY <1>5, <1>7, <1>9
<1>11. Records(e) = Records(d)
  BY <1>17 DEF Records
<1>12. /\ LayoutsOf(e) = LayoutsOf(d) /\ EntityHandles(e) = EntityHandles(d)
       /\ \A r : Naming(e, r) = Naming(d, r)
  BY <1>9 DEF LayoutsOf, Is, EntityHandles, Naming
<1>13. Sited(e)
  <2>1. \A i, j \in DOMAIN e.blocks : e.blocks[i].handle = e.blocks[j].handle => i = j
    BY <1>1, <1>5, <1>7, <1>9 DEF Sited
  <2>2. \A h \in Records(e) \cup DOMAIN e.objects \cup EntityHandles(e) : h \in 1 .. e.next - 1
    BY <1>1, <1>9, <1>11, <1>12 DEF Sited
  <2>3. (\A l \in LayoutsOf(e) : e.objects[l].record < e.next) /\ Elsewhere \in 1 .. e.next - 1
    BY <1>1, <1>9, <1>12 DEF Sited
  <2>. QED
    BY <1>10, <2>1, <2>2, <2>3 DEF Sited
<1>14. OneEach(e, Records(e))
  <2>1. Records(e) \subseteq Spaces(d)
    BY <1>11 DEF Spaces
  <2>. QED
    BY <1>1, <1>9, <1>12, <2>1 DEF OneEach
<1>15. ViewsListed(e)
  <2>. SUFFICES ASSUME NEW i \in DOMAIN d.blocks, NEW l \in LayoutsOf(d),
                       d.objects[l].record = d.blocks[i].handle,
                       NEW h \in ToSet(d.objects[l].views)
                PROVE  h \in ToSet(listed(i))
    BY <1>5, <1>7, <1>9, <1>12, SMTT(30) DEF ViewsListed
  <2>1. d.objects[l].record \in Spaces(d)
    BY DEF Spaces, Records
  <2>2. Belongs(d, h, d.blocks[i].handle)
    BY <1>1, <2>1 DEF ViewsOwned
  <2>. QED
    BY <1>4, <2>2
<1>16. LinksWeak(e)
  BY <1>1, <1>12, <1>17 DEF LinksWeak
<1>. QED
  BY <1>3, <1>13, <1>14, <1>15, <1>16 DEF Good

LEMMA WithSpacesIs ==
    ASSUME NEW d, FileGood(d)
    PROVE  Good(WithSpaces(d))
<1>. DEFINE both == Synthesized(Synthesized(d, "model"), "paper")
<1>1. Spacious(d) /\ ViewsListed(d)
  BY DEF FileGood
<1>2. Spacious(both)
  BY <1>1, SynthesizedIs
<1>3. WithSpaces(d) = IF both = d THEN d ELSE Membership(both)
  BY DEF WithSpaces
<1>4. Good(d)
  BY <1>1 DEF Good, Spacious, OneEach, Spaces
<1>. HIDE DEF both
<1>. QED
  BY <1>2, <1>3, <1>4, MembershipIs

-----------------------------------------------------------------------------
(* The numbers of a paper space's viewports.                                *)

\* e is d with other numbers of its entities.
Renumbered(e, d) ==
    /\ Fields(e) /\ e.blocks = d.blocks /\ e.objects = d.objects /\ e.nod = d.nod
    /\ e.layoutDict = d.layoutDict /\ e.model = d.model /\ e.paper = d.paper /\ e.next = d.next
    /\ e.ents \in Seq(EntityRecord) /\ DOMAIN e.ents = DOMAIN d.ents
    /\ \A i \in DOMAIN d.ents : e.ents[i].handle = d.ents[i].handle

LEMMA RenumberedSelf ==
    ASSUME NEW d, Drawing(d)
    PROVE  Renumbered(d, d)
<1>1. Fields(d) /\ d.ents \in Seq(EntityRecord)
  BY DrawingIs DEF Drawing
<1>. QED
  BY <1>1 DEF Renumbered

LEMMA RenumberedAgain ==
    ASSUME NEW d, NEW e, NEW f, Renumbered(e, d), Renumbered(f, e)
    PROVE  Renumbered(f, d)
BY DEF Renumbered

LEMMA RenumberedIs ==
    ASSUME NEW d, NEW e, Drawing(d), Renumbered(e, d)
    PROVE  Drawing(e) /\ EntityHandles(e) = EntityHandles(d)
<1>1. Drawing(e)
  BY DEF Renumbered, Drawing, Fields
<1>2. EntityHandles(e) = EntityHandles(d)
  BY DEF Renumbered, EntityHandles
<1>. QED
  BY <1>1, <1>2

LEMMA RenumberedGood ==
    ASSUME NEW d, NEW e, Good(d), Renumbered(e, d)
    PROVE  Good(e)
<1>1. Sited(d) /\ Drawing(d) /\ OneEach(d, Records(d)) /\ ViewsListed(d) /\ LinksWeak(d)
  BY DEF Good, Sited
<1>2. e.blocks = d.blocks /\ e.objects = d.objects /\ e.next = d.next
  BY DEF Renumbered
<1>3. Drawing(e) /\ EntityHandles(e) = EntityHandles(d)
  BY <1>1, RenumberedIs
<1>4. Records(e) = Records(d) /\ LayoutsOf(e) = LayoutsOf(d) /\ \A r : Naming(e, r) = Naming(d, r)
  BY <1>2 DEF Records, LayoutsOf, Is, Naming
<1>5. Sited(e)
  BY <1>1, <1>2, <1>3, <1>4 DEF Sited
<1>6. OneEach(e, Records(e))
  BY <1>1, <1>2, <1>4 DEF OneEach
<1>7. ViewsListed(e) /\ LinksWeak(e)
  BY <1>1, <1>2, <1>4 DEF ViewsListed, LinksWeak
<1>. QED
  BY <1>5, <1>6, <1>7 DEF Good

LEMMA EntityIs ==
    ASSUME NEW d, Drawing(d), NEW h \in EntityHandles(d)
    PROVE  Entity(d, h) \in EntityRecord
<1>1. PICK i \in DOMAIN d.ents : d.ents[i].handle = h
  BY DEF EntityHandles
<1>2. d.ents[i] \in ToSet(d.ents)
  BY DEF ToSet
<1>3. Entity(d, h) \in ToSet(d.ents)
  BY <1>1, <1>2 DEF Entity
<1>4. \A x \in ToSet(d.ents) : x \in EntityRecord
  <2>1. \A j \in DOMAIN d.ents : d.ents[j] \in EntityRecord
    BY DrawingIs
  <2>. QED
    BY <2>1 DEF ToSet
<1>. QED
  BY <1>3, <1>4

\* The numbers some viewports have.
Ids(d, viewports) == {Entity(d, v).id : v \in ToSet(viewports)}

LEMMA IdsIs ==
    ASSUME NEW d, Drawing(d), NEW viewports \in Seq(Nat),
           ToSet(viewports) \subseteq EntityHandles(d)
    PROVE  /\ Ids(d, viewports) \in SUBSET Nat /\ IsFiniteSet(Ids(d, viewports))
           /\ Cardinality(Ids(d, viewports)) <= Len(viewports)
<1>. DEFINE n == Len(viewports)
            f == [i \in 1 .. n |-> Entity(d, viewports[i]).id]
<1>1. n \in Nat /\ DOMAIN viewports = 1 .. n
  OBVIOUS
<1>2. \A v \in ToSet(viewports) : Entity(d, v).id \in Nat
  BY EntityIs DEF EntityRecord
<1>3. Ids(d, viewports) = {f[i] : i \in 1 .. n}
  BY <1>1 DEF Ids, ToSet
<1>4. f \in Surjection(1 .. n, Ids(d, viewports))
  BY <1>3 DEF Surjection
<1>. HIDE DEF f, n
<1>5. IsFiniteSet(1 .. n) /\ Cardinality(1 .. n) = n
  BY <1>1, FS_Interval
<1>6. IsFiniteSet(Ids(d, viewports)) /\ Cardinality(Ids(d, viewports)) <= Cardinality(1 .. n)
  BY <1>4, <1>5, FS_Surjection
<1>7. Ids(d, viewports) \in SUBSET Nat
  BY <1>2 DEF Ids
<1>. QED
  BY <1>5, <1>6, <1>7 DEF n

LEMMA GivenIs ==
    ASSUME NEW d, Drawing(d), NEW viewports \in Seq(Nat),
           ToSet(viewports) \subseteq EntityHandles(d), NEW used, IsFiniteSet(used),
           NEW h \in ToSet(viewports)
    PROVE  Renumbered(Given(d, viewports, used, h), d)
<1>. DEFINE ids == Ids(d, viewports)
            N == Len(viewports) + Cardinality(used)
            taken == used \cup ids
            id == Lowest(1 .. N \ taken)
            ents == [j \in DOMAIN d.ents |->
                        IF d.ents[j].handle = h THEN [d.ents[j] EXCEPT !.id = id] ELSE d.ents[j]]
            e == [d EXCEPT !.ents = ents]
<1>1. Fields(d) /\ DOMAIN d.ents = 1 .. Len(d.ents) /\ Len(d.ents) \in Nat
      /\ \A j \in DOMAIN d.ents : d.ents[j] \in EntityRecord
  BY DrawingIs
<1>2. Given(d, viewports, used, h) = IF Entity(d, h).id # 0 THEN d ELSE e
  BY <1>1 DEF Given, Ids, Fields
<1>3. CASE Entity(d, h).id # 0
  BY <1>2, <1>3, RenumberedSelf
<1>4. CASE Entity(d, h).id = 0
  <2>1. ids \in SUBSET Nat /\ IsFiniteSet(ids) /\ Cardinality(ids) <= Len(viewports)
    BY IdsIs
  <2>2. 0 \in ids
    BY <1>4 DEF Ids
  <2>. HIDE DEF ids
  <2>3. Len(viewports) \in Nat /\ Cardinality(used) \in Nat /\ Cardinality(ids) \in Nat /\ N \in Nat
    BY <2>1, FS_CardinalityType
  <2>4. 1 .. N \ taken # {}
    <3>. DEFINE some == ids \ {0}
    <3>1. IsFiniteSet(some) /\ Cardinality(some) = Cardinality(ids) - 1
      BY <2>1, <2>2, FS_RemoveElement
    <3>. HIDE DEF some
    <3>2. Cardinality(used \cap some) \in Nat
      <4>1. IsFiniteSet(used \cap some)
        BY FS_Subset
      <4>. QED
        BY <4>1, FS_CardinalityType
    <3>3. /\ IsFiniteSet(used \cup some)
          /\ Cardinality(used \cup some) =
                Cardinality(used) + Cardinality(some) - Cardinality(used \cap some)
      BY <3>1, FS_Union
    <3>4. Cardinality(1 .. N) = N
      BY <2>3, FS_Interval
    <3>5. Cardinality(used \cup some) < N
      BY <2>1, <2>3, <3>1, <3>2, <3>3
    <3>6. ASSUME 1 .. N \subseteq used \cup some PROVE FALSE
      <4>1. Cardinality(1 .. N) <= Cardinality(used \cup some)
        BY <3>3, <3>6, FS_Subset
      <4>2. Cardinality(used \cup some) \in Nat
        BY <3>3, FS_CardinalityType
      <4>. HIDE DEF N
      <4>. QED
        BY <2>3, <3>4, <3>5, <4>1, <4>2
    <3>7. PICK x \in 1 .. N : x \notin used \cup some
      BY <3>6
    <3>8. x # 0 /\ x \notin taken
      BY <2>3, <3>7 DEF some
    <3>. QED
      BY <3>7, <3>8
  <2>5. id \in Nat
    <3>1. 1 .. N \ taken \in SUBSET Nat
      BY <2>3
    <3>. HIDE DEF N, taken
    <3>. QED
      BY <2>4, <3>1, LowestIs
  <2>6. DOMAIN ents = DOMAIN d.ents /\ ents = [j \in 1 .. Len(d.ents) |-> ents[j]]
        /\ \A j \in DOMAIN d.ents :
              ents[j] = IF d.ents[j].handle = h THEN [d.ents[j] EXCEPT !.id = id] ELSE d.ents[j]
    BY <1>1
  <2>7. e = [d EXCEPT !.ents = ents]
    OBVIOUS
  <2>. HIDE DEF id, ents, e
  <2>8. \A j \in DOMAIN d.ents : ents[j] \in EntityRecord /\ ents[j].handle = d.ents[j].handle
    BY <1>1, <2>5, <2>6 DEF EntityRecord
  <2>9. ents \in Seq(EntityRecord)
    BY <1>1, <2>6, <2>8, SeqIs
  <2>10. /\ e.blocks = d.blocks /\ e.objects = d.objects /\ e.ents = ents
         /\ e.nod = d.nod /\ e.layoutDict = d.layoutDict /\ e.model = d.model
         /\ e.paper = d.paper /\ e.next = d.next /\ Fields(e)
    BY <1>1, <2>7 DEF Fields
  <2>11. Renumbered(e, d)
    BY <2>6, <2>8, <2>9, <2>10 DEF Renumbered
  <2>. QED
    BY <1>2, <1>4, <2>11
<1>. QED
  BY <1>3, <1>4

\* The recursion of Numbered.
GivesAll(f, d, viewports, used, order, n) ==
    f = [k \in 0 .. n |-> IF k = 0 THEN d ELSE Given(f[k - 1], viewports, used, order[k])]

LEMMA GivesExist ==
    ASSUME NEW d, NEW viewports, NEW used, NEW order, NEW n \in Nat
    PROVE  \E f : GivesAll(f, d, viewports, used, order, n)
<1>. DEFINE S == {k \in Nat : \E f : GivesAll(f, d, viewports, used, order, k)}
            Next1(x, k) == Given(x, viewports, used, order[k])
<1>1. 0 \in S
  <2>1. GivesAll([k \in 0 .. 0 |-> d], d, viewports, used, order, 0)
    BY DEF GivesAll
  <2>. QED
    BY <2>1
<1>2. ASSUME NEW k \in Nat, k \in S PROVE k + 1 \in S
  <2>1. PICK f : GivesAll(f, d, viewports, used, order, k)
    BY <1>2
  <2>. DEFINE g == [j \in 0 .. k + 1 |-> IF j <= k THEN f[j] ELSE Next1(f[k], j)]
  <2>2. \A j \in 0 .. k : f[j] = IF j = 0 THEN d ELSE Next1(f[j - 1], j)
    BY <2>1 DEF GivesAll
  <2>3. /\ DOMAIN g = 0 .. k + 1 /\ g = [j \in 0 .. k + 1 |-> g[j]]
        /\ \A j \in 0 .. k : g[j] = f[j]
        /\ g[k + 1] = Next1(f[k], k + 1)
    OBVIOUS
  <2>. HIDE DEF g, Next1
  <2>4. ASSUME NEW j \in 0 .. k + 1 PROVE g[j] = IF j = 0 THEN d ELSE Next1(g[j - 1], j)
    <3>1. CASE j = k + 1
      <4>1. j # 0 /\ j - 1 = k /\ k \in 0 .. k
        BY <3>1
      <4>. QED
        BY <2>3, <3>1, <4>1
    <3>2. CASE j = 0
      <4>1. 0 \in 0 .. k
        OBVIOUS
      <4>2. f[0] = d /\ g[0] = f[0]
        BY <2>2, <2>3, <4>1
      <4>. QED
        BY <3>2, <4>2
    <3>3. CASE j \in 1 .. k
      <4>1. j \in 0 .. k /\ j - 1 \in 0 .. k /\ j # 0
        BY <3>3
      <4>. QED
        BY <2>2, <2>3, <4>1
    <3>. QED
      BY <3>1, <3>2, <3>3
  <2>5. GivesAll(g, d, viewports, used, order, k + 1)
    BY <2>3, <2>4 DEF GivesAll, Next1
  <2>. QED
    BY <2>5
<1>. HIDE DEF S
<1>3. Nat \subseteq S
  BY <1>1, <1>2, NatSetInduction
<1>. QED
  BY <1>3 DEF S

LEMMA ViewportsIs ==
    ASSUME NEW d, Drawing(d), NEW i \in DOMAIN d.blocks
    PROVE  /\ Viewports(d, d.blocks[i]) \in Seq(Nat)
           /\ ToSet(Viewports(d, d.blocks[i])) \subseteq EntityHandles(d)
<1>. DEFINE set == HandlesOf({e \in ToSet(d.ents) : e.kind = "viewport"})
<1>1. d.blocks[i].listed \in Seq(Nat)
  BY DrawingIs DEF BlockRecord
<1>2. set \subseteq EntityHandles(d)
  BY DEF HandlesOf, ToSet, EntityHandles
<1>3. Viewports(d, d.blocks[i]) = Kept(d.blocks[i].listed, set)
  BY DEF Viewports
<1>. HIDE DEF set
<1>. QED
  BY <1>1, <1>2, <1>3, KeptToSet

LEMMA OverallIs ==
    ASSUME NEW d, Drawing(d), NEW viewports \in Seq(Nat), viewports # << >>,
           NEW layout \in LayoutsOf(d) \cup {Null}
    PROVE  Overall(d, viewports, layout) \in ToSet(viewports)
<1>. DEFINE views == d.objects[layout].views
            active == <<d.objects[layout].active>>
            list == IF views = << >> THEN active ELSE <<Head(views)>> \o active
            kept == Kept(list, ToSet(viewports))
            named == IF layout = Null THEN << >> ELSE kept
<1>1. Head(viewports) \in ToSet(viewports)
  <2>1. 1 \in DOMAIN viewports /\ Head(viewports) = viewports[1]
    OBVIOUS
  <2>. QED
    BY <2>1 DEF ToSet
<1>2. Overall(d, viewports, layout) = IF named # << >> THEN Head(named) ELSE Head(viewports)
  BY DEF Overall
<1>3. CASE layout = Null
  BY <1>1, <1>2, <1>3
<1>4. CASE layout # Null
  <2>1. views \in Seq(Nat) /\ d.objects[layout].active \in Nat
    BY <1>4, LayoutIs DEF LayoutObject
  <2>2. active \in Seq(Nat)
    BY <2>1
  <2>. HIDE DEF views, active
  <2>3. views # << >> => <<Head(views)>> \in Seq(Nat)
    BY <2>1
  <2>4. list \in Seq(Nat)
    BY <2>2, <2>3
  <2>. HIDE DEF list
  <2>5. kept \in Seq(Nat) /\ ToSet(kept) = ToSet(list) \cap ToSet(viewports)
    BY <2>4, KeptToSet
  <2>. HIDE DEF kept
  <2>6. kept # << >> => Head(kept) \in ToSet(kept)
    <3>1. kept # << >> => 1 \in DOMAIN kept /\ Head(kept) = kept[1]
      BY <2>5
    <3>. QED
      BY <3>1 DEF ToSet
  <2>. QED
    BY <1>1, <1>2, <1>4, <2>5, <2>6
<1>. QED
  BY <1>3, <1>4

LEMMA NumberedIs ==
    ASSUME NEW d, Drawing(d), NEW i \in DOMAIN d.blocks, NEW layout \in LayoutsOf(d) \cup {Null}
    PROVE  Renumbered(Numbered(d, i, layout), d)
<1>. DEFINE viewports == Viewports(d, d.blocks[i])
            overall == Overall(d, viewports, layout)
            rest == Kept(viewports, ToSet(viewports) \ {overall})
            order == <<overall>> \o rest
            used == {Entity(d, h).id : h \in ToSet(viewports)} \ {0}
            N == Len(order)
            f == CHOOSE f : GivesAll(f, d, viewports, used, order, N)
<1>1. Numbered(d, i, layout) = IF viewports = << >> THEN d ELSE f[N]
  BY DEF Numbered, GivesAll
<1>2. CASE viewports = << >>
  BY <1>1, <1>2, RenumberedSelf
<1>3. CASE viewports # << >>
  <2>1. viewports \in Seq(Nat) /\ ToSet(viewports) \subseteq EntityHandles(d)
    BY ViewportsIs
  <2>2. IsFiniteSet(used)
    <3>1. used = Ids(d, viewports) \ {0}
      BY DEF Ids
    <3>2. IsFiniteSet(Ids(d, viewports))
      BY <2>1, IdsIs
    <3>. QED
      BY <3>1, <3>2, FS_RemoveElement
  <2>. HIDE DEF viewports, used
  <2>3. overall \in ToSet(viewports)
    BY <1>3, <2>1, OverallIs
  <2>. HIDE DEF overall
  <2>4. rest \in Seq(Nat) /\ ToSet(rest) \subseteq ToSet(viewports)
    BY <2>1, KeptToSet
  <2>. HIDE DEF rest
  <2>5. N \in Nat /\ \A k \in 1 .. N : order[k] \in ToSet(viewports)
    <3>1. \A k \in 1 .. Len(rest) : rest[k] \in ToSet(viewports)
      <4>1. DOMAIN rest = 1 .. Len(rest)
        BY <2>4
      <4>2. \A k \in DOMAIN rest : rest[k] \in ToSet(rest)
        BY DEF ToSet
      <4>. QED
        BY <2>4, <4>1, <4>2
    <3>2. rest \in Seq(ToSet(viewports))
      BY <2>4, <3>1
    <3>3. <<overall>> \in Seq(ToSet(viewports))
      BY <2>3
    <3>4. order \in Seq(ToSet(viewports))
      BY <3>2, <3>3
    <3>. QED
      BY <3>4
  <2>. HIDE DEF order, N
  <2>6. GivesAll(f, d, viewports, used, order, N)
    BY <2>5, GivesExist
  <2>. HIDE DEF f
  <2>7. \A k \in 0 .. N : f[k] = IF k = 0 THEN d ELSE Given(f[k - 1], viewports, used, order[k])
    BY <2>6 DEF GivesAll
  <2>. DEFINE S == {k \in Nat : k <= N => Renumbered(f[k], d)}
  <2>8. 0 \in S
    BY <2>5, <2>7, RenumberedSelf
  <2>9. ASSUME NEW k \in Nat, k \in S PROVE k + 1 \in S
    <3>. SUFFICES ASSUME k + 1 <= N PROVE Renumbered(f[k + 1], d)
      OBVIOUS
    <3>1. Renumbered(f[k], d) /\ k + 1 \in 0 .. N /\ k + 1 \in 1 .. N /\ (k + 1) - 1 = k
      BY <2>5, <2>9
    <3>2. f[k + 1] = Given(f[k], viewports, used, order[k + 1])
      BY <2>7, <3>1
    <3>3. order[k + 1] \in ToSet(viewports)
      BY <2>5, <3>1
    <3>4. Drawing(f[k]) /\ ToSet(viewports) \subseteq EntityHandles(f[k])
      BY <2>1, <3>1, RenumberedIs
    <3>5. Renumbered(f[k + 1], f[k])
      BY <2>1, <2>2, <3>2, <3>3, <3>4, GivenIs
    <3>. QED
      BY <3>1, <3>5, RenumberedAgain
  <2>. HIDE DEF S
  <2>10. N \in S
    BY <2>5, <2>8, <2>9, NatSetInduction
  <2>. QED
    BY <1>1, <1>3, <2>5, <2>10 DEF S
<1>. QED
  BY <1>2, <1>3

\* The recursion of AllNumbered.
NumbersAll(f, d, layouts, n) ==
    f = [k \in 0 .. n |->
            IF k = 0 THEN d
            ELSE IF k \in PaperSpaces(d) THEN Numbered(f[k - 1], k, layouts[k]) ELSE f[k - 1]]

LEMMA NumbersExist ==
    ASSUME NEW d, NEW layouts, NEW n \in Nat
    PROVE  \E f : NumbersAll(f, d, layouts, n)
<1>. DEFINE S == {k \in Nat : \E f : NumbersAll(f, d, layouts, k)}
            Next1(x, k) == IF k \in PaperSpaces(d) THEN Numbered(x, k, layouts[k]) ELSE x
<1>1. 0 \in S
  <2>1. NumbersAll([k \in 0 .. 0 |-> d], d, layouts, 0)
    BY DEF NumbersAll
  <2>. QED
    BY <2>1
<1>2. ASSUME NEW k \in Nat, k \in S PROVE k + 1 \in S
  <2>1. PICK f : NumbersAll(f, d, layouts, k)
    BY <1>2
  <2>. DEFINE g == [j \in 0 .. k + 1 |-> IF j <= k THEN f[j] ELSE Next1(f[k], j)]
  <2>2. \A j \in 0 .. k : f[j] = IF j = 0 THEN d ELSE Next1(f[j - 1], j)
    BY <2>1 DEF NumbersAll
  <2>3. /\ DOMAIN g = 0 .. k + 1 /\ g = [j \in 0 .. k + 1 |-> g[j]]
        /\ \A j \in 0 .. k : g[j] = f[j]
        /\ g[k + 1] = Next1(f[k], k + 1)
    OBVIOUS
  <2>. HIDE DEF g, Next1
  <2>4. ASSUME NEW j \in 0 .. k + 1 PROVE g[j] = IF j = 0 THEN d ELSE Next1(g[j - 1], j)
    <3>1. CASE j = k + 1
      <4>1. j # 0 /\ j - 1 = k /\ k \in 0 .. k
        BY <3>1
      <4>. QED
        BY <2>3, <3>1, <4>1
    <3>2. CASE j = 0
      <4>1. 0 \in 0 .. k
        OBVIOUS
      <4>2. f[0] = d /\ g[0] = f[0]
        BY <2>2, <2>3, <4>1
      <4>. QED
        BY <3>2, <4>2
    <3>3. CASE j \in 1 .. k
      <4>1. j \in 0 .. k /\ j - 1 \in 0 .. k /\ j # 0
        BY <3>3
      <4>. QED
        BY <2>2, <2>3, <4>1
    <3>. QED
      BY <3>1, <3>2, <3>3
  <2>5. NumbersAll(g, d, layouts, k + 1)
    BY <2>3, <2>4 DEF NumbersAll, Next1
  <2>. QED
    BY <2>5
<1>. HIDE DEF S
<1>3. Nat \subseteq S
  BY <1>1, <1>2, NatSetInduction
<1>. QED
  BY <1>3 DEF S

LEMMA AllNumberedIs ==
    ASSUME NEW d, Drawing(d), NEW pick \in Picks(d)
    PROVE  Renumbered(AllNumbered(d, pick), d)
<1>. DEFINE layouts == [i \in DOMAIN d.blocks |->
                            IF d.blocks[i].handle \in DOMAIN pick
                            THEN pick[d.blocks[i].handle] ELSE Null]
            layout(i) == IF d.blocks[i].handle \in DOMAIN pick
                         THEN pick[d.blocks[i].handle] ELSE Null
            N == Len(d.blocks)
            F(f) == f = [i \in 0 .. N |->
                            IF i = 0 THEN d
                            ELSE IF i \in PaperSpaces(d) THEN Numbered(f[i - 1], i, layout(i))
                            ELSE f[i - 1]]
            f == CHOOSE f : F(f)
<1>1. AllNumbered(d, pick) = f[N]
  BY DEF AllNumbered
<1>2. DOMAIN d.blocks = 1 .. N /\ N \in Nat
  BY DrawingIs
<1>3. /\ \A i \in DOMAIN d.blocks : layouts[i] = layout(i)
      /\ \A i \in DOMAIN d.blocks : layout(i) \in LayoutsOf(d) \cup {Null}
  BY DEF Picks
<1>4. PaperSpaces(d) \subseteq DOMAIN d.blocks
  BY DEF PaperSpaces
<1>. HIDE DEF layouts, layout, N
<1>5. F(f)
  <2>1. PICK g : NumbersAll(g, d, layouts, N)
    BY <1>2, NumbersExist
  <2>2. \A i \in PaperSpaces(d) : layouts[i] = layout(i)
    BY <1>3, <1>4
  <2>3. F(g)
    BY <2>1, <2>2 DEF NumbersAll
  <2>. QED
    BY <2>3
<1>. HIDE DEF f
<1>6. \A i \in 0 .. N : f[i] = IF i = 0 THEN d
                               ELSE IF i \in PaperSpaces(d) THEN Numbered(f[i - 1], i, layout(i))
                               ELSE f[i - 1]
  BY <1>5
<1>. DEFINE S == {k \in Nat : k <= N => Renumbered(f[k], d)}
<1>7. 0 \in S
  BY <1>2, <1>6, RenumberedSelf
<1>8. ASSUME NEW k \in Nat, k \in S PROVE k + 1 \in S
  <2>. SUFFICES ASSUME k + 1 <= N PROVE Renumbered(f[k + 1], d)
    OBVIOUS
  <2>1. Renumbered(f[k], d) /\ k + 1 \in 0 .. N /\ (k + 1) - 1 = k /\ k + 1 # 0
    BY <1>2, <1>8
  <2>2. f[k + 1] = IF k + 1 \in PaperSpaces(d) THEN Numbered(f[k], k + 1, layout(k + 1)) ELSE f[k]
    BY <1>6, <2>1
  <2>3. CASE k + 1 \in PaperSpaces(d)
    <3>1. k + 1 \in DOMAIN d.blocks /\ layout(k + 1) \in LayoutsOf(d) \cup {Null}
      BY <1>3, <1>4, <2>3
    <3>2. Drawing(f[k])
      BY <2>1, RenumberedIs
    <3>3. f[k].blocks = d.blocks /\ LayoutsOf(f[k]) = LayoutsOf(d)
      BY <2>1 DEF Renumbered, LayoutsOf, Is
    <3>4. Renumbered(f[k + 1], f[k])
      BY <2>2, <2>3, <3>1, <3>2, <3>3, NumberedIs
    <3>. QED
      BY <2>1, <3>4, RenumberedAgain
  <2>4. CASE k + 1 \notin PaperSpaces(d)
    BY <2>1, <2>2, <2>4
  <2>. QED
    BY <2>3, <2>4
<1>. HIDE DEF S
<1>9. N \in S
  BY <1>2, <1>7, <1>8, NatSetInduction
<1>. QED
  BY <1>1, <1>2, <1>9 DEF S

\* A DWG read leaves every record with its link.
LEMMA DwgEndIs ==
    ASSUME NEW d, FileGood(d), NEW e \in DwgEnd(d)
    PROVE  Good(e) /\ LinksStrong(e)
<1>. DEFINE complete == WithSpaces(d)
<1>1. Good(complete)
  BY WithSpacesIs
<1>2. PICK p \in Picks(complete) : e \in Ensured(AllNumbered(complete, p))
  BY DEF DwgEnd
<1>. HIDE DEF complete
<1>3. Renumbered(AllNumbered(complete, p), complete)
  BY <1>1, AllNumberedIs DEF Good, Sited
<1>4. Good(AllNumbered(complete, p))
  BY <1>1, <1>3, RenumberedGood
<1>. QED
  BY <1>2, <1>4, EnsuredIs

-----------------------------------------------------------------------------
(* The document's operations.                                              *)

\* What add_layout makes: a record, a layout and its overall viewport.
NewBlock(d) ==
    [name |-> Cardinality(PaperSpaces(d)) + 1, handle |-> d.next,
     layout |-> d.next + 3, listed |-> <<d.next + 4>>]
NewObject(d, name) ==
    Layout(name, d.layoutDict, d.next, d.next + 4, <<d.next + 4>>, Cardinality(PaperSpaces(d)) + 1)
NewViewport(d) == [handle |-> d.next + 4, kind |-> "viewport", owner |-> d.next, id |-> 1]

\* e is d with them.
Founds(e, d, name) ==
    /\ Fields(e) /\ e.blocks = Append(d.blocks, NewBlock(d))
    /\ e.objects = With(d.objects, d.next + 3, NewObject(d, name))
    /\ e.ents = Append(d.ents, NewViewport(d)) /\ e.nod = d.nod /\ e.layoutDict = d.layoutDict
    /\ e.model = d.model /\ e.paper = d.paper /\ e.next = d.next + 5

LEMMA NewLayoutIs ==
    ASSUME Drawing(doc), NEW name
    PROVE  Founds(NewLayout(name), doc, name)
<1>. DEFINE t == [doc EXCEPT !.next = @ + 5]
            o == NewObject(doc, name)
            s == [t EXCEPT !.objects = With(@, doc.next + 3, o)]
            e == [s EXCEPT !.blocks = Append(@, NewBlock(doc)), !.ents = Append(@, NewViewport(doc))]
<1>1. Fields(doc)
  BY DrawingIs
<1>2. NewLayout(name) = e
  BY DEF NewLayout, NewObject, NewBlock, NewViewport, Store, Take
<1>3. t = [doc EXCEPT !.next = @ + 5]
  OBVIOUS
<1>. HIDE DEF t, o
<1>4. t.objects = doc.objects /\ t.ents = doc.ents /\ t.blocks = doc.blocks /\ t.nod = doc.nod
      /\ t.layoutDict = doc.layoutDict /\ t.model = doc.model /\ t.paper = doc.paper
      /\ t.next = doc.next + 5 /\ Fields(t)
  BY <1>1, <1>3 DEF Fields
<1>5. s = [t EXCEPT !.objects = With(t.objects, doc.next + 3, o)]
  BY <1>4 DEF Fields
<1>. HIDE DEF s
<1>6. /\ s.blocks = doc.blocks /\ s.objects = With(doc.objects, doc.next + 3, o) /\ s.ents = doc.ents
      /\ s.nod = doc.nod /\ s.layoutDict = doc.layoutDict /\ s.model = doc.model
      /\ s.paper = doc.paper /\ s.next = doc.next + 5 /\ Fields(s)
  BY <1>4, <1>5 DEF Fields
<1>7. e = [s EXCEPT !.blocks = Append(doc.blocks, NewBlock(doc)),
                    !.ents = Append(doc.ents, NewViewport(doc))]
  BY <1>6 DEF Fields
<1>. HIDE DEF e
<1>8. /\ e.blocks = Append(doc.blocks, NewBlock(doc)) /\ e.objects = s.objects
      /\ e.ents = Append(doc.ents, NewViewport(doc))
      /\ e.nod = doc.nod /\ e.layoutDict = doc.layoutDict /\ e.model = doc.model
      /\ e.paper = doc.paper /\ e.next = doc.next + 5 /\ Fields(e)
  BY <1>6, <1>7 DEF Fields
<1>. QED
  BY <1>2, <1>6, <1>8 DEF Founds, o

LEMMA PaperSpacesIs ==
    ASSUME NEW d, Drawing(d)
    PROVE  Cardinality(PaperSpaces(d)) \in Nat
<1>1. DOMAIN d.blocks = 1 .. Len(d.blocks) /\ Len(d.blocks) \in Nat
  BY DrawingIs
<1>2. IsFiniteSet(1 .. Len(d.blocks))
  BY <1>1, FS_Interval
<1>3. PaperSpaces(d) \subseteq 1 .. Len(d.blocks)
  BY <1>1 DEF PaperSpaces
<1>. QED
  BY <1>2, <1>3, FS_Subset, FS_CardinalityType

LEMMA FoundsIs ==
    ASSUME NEW d, NEW e, NEW name \in Titles, Sited(d), Founds(e, d, name)
    PROVE  LET l == d.next + 3
               at == Len(d.blocks) + 1
           IN /\ Drawing(e) /\ LayoutsOf(e) = LayoutsOf(d) \cup {l} /\ l \notin DOMAIN d.objects
              /\ Dictionaries(e) = Dictionaries(d)
              /\ DOMAIN e.objects = DOMAIN d.objects \cup {l}
              /\ e.objects[l] = NewObject(d, name)
              /\ \A h \in DOMAIN d.objects : e.objects[h] = d.objects[h]
              /\ DOMAIN e.blocks = DOMAIN d.blocks \cup {at} /\ at \notin DOMAIN d.blocks
              /\ e.blocks[at] = NewBlock(d) /\ \A j \in DOMAIN d.blocks : e.blocks[j] = d.blocks[j]
              /\ Records(e) = Records(d) \cup {d.next} /\ d.next \notin Records(d)
              /\ \A k \in LayoutsOf(d) : d.objects[k].record # d.next
              /\ Naming(e, d.next) = {l}
              /\ \A r : r # d.next => Naming(e, r) = Naming(d, r)
              /\ EntityHandles(e) = EntityHandles(d) \cup {d.next + 4}
              /\ DOMAIN e.ents = DOMAIN d.ents \cup {Len(d.ents) + 1}
              /\ e.ents[Len(d.ents) + 1] = NewViewport(d)
              /\ \A j \in DOMAIN d.ents : e.ents[j] = d.ents[j]
<1>. DEFINE l == d.next + 3
            at == Len(d.blocks) + 1
            n == Len(d.ents) + 1
            o == NewObject(d, name)
            b == NewBlock(d)
            x == NewViewport(d)
<1>1. /\ Drawing(d) /\ d.next \in Nat \ {Null} /\ d.layoutDict \in Nat /\ d.nod \in Nat
      /\ d.model \in Nat /\ d.paper \in Nat
      /\ DOMAIN d.blocks = 1 .. Len(d.blocks) /\ Len(d.blocks) \in Nat
      /\ DOMAIN d.ents = 1 .. Len(d.ents) /\ Len(d.ents) \in Nat
      /\ d.blocks \in Seq(BlockRecord) /\ d.ents \in Seq(EntityRecord)
      /\ Cardinality(PaperSpaces(d)) \in Nat
  BY DrawingIs, NextFree, PaperSpacesIs DEF Sited, Drawing
<1>2. /\ Fields(e) /\ e.blocks = Append(d.blocks, b) /\ e.objects = With(d.objects, l, o)
      /\ e.ents = Append(d.ents, x) /\ e.nod = d.nod /\ e.layoutDict = d.layoutDict
      /\ e.model = d.model /\ e.paper = d.paper /\ e.next = d.next + 5
  BY DEF Founds
<1>3. o \in LayoutObject /\ o.kind = "layout" /\ o.record = d.next
  <2>1. <<d.next + 4>> \in Seq(Nat)
    BY <1>1
  <2>. QED
    BY <1>1, <2>1 DEF NewObject, Layout, LayoutObject
<1>4. b \in BlockRecord /\ b.handle = d.next
  <2>1. <<d.next + 4>> \in Seq(Nat)
    BY <1>1
  <2>. QED
    BY <1>1, <2>1 DEF NewBlock, BlockRecord
<1>5. x \in EntityRecord /\ x.handle = d.next + 4
  BY <1>1 DEF NewViewport, EntityRecord
<1>. HIDE DEF o, b, x
<1>6. \A h \in Records(d) \cup DOMAIN d.objects \cup EntityHandles(d) : h \in 1 .. d.next - 1
  BY DEF Sited
<1>7. l \notin DOMAIN d.objects /\ d.next \notin Records(d) /\ l \in Nat \ {Null}
  BY <1>1, <1>6 DEF Null
<1>8. /\ DOMAIN e.objects = DOMAIN d.objects \cup {l} /\ e.objects[l] = o
      /\ \A h \in DOMAIN d.objects : e.objects[h] = d.objects[h]
      /\ e.objects = [h \in DOMAIN e.objects |-> e.objects[h]]
  BY <1>2, <1>7 DEF With
<1>9. /\ e.blocks \in Seq(BlockRecord) /\ DOMAIN e.blocks = DOMAIN d.blocks \cup {at}
      /\ at \notin DOMAIN d.blocks /\ e.blocks[at] = b
      /\ \A j \in DOMAIN d.blocks : e.blocks[j] = d.blocks[j]
  BY <1>1, <1>2, <1>4, SMTT(30)
<1>10. /\ e.ents \in Seq(EntityRecord) /\ DOMAIN e.ents = DOMAIN d.ents \cup {n} /\ e.ents[n] = x
       /\ \A j \in DOMAIN d.ents : e.ents[j] = d.ents[j]
  BY <1>1, <1>2, <1>5, SMTT(30)
<1>11. Drawing(e)
  <2>1. /\ IsFiniteSet(DOMAIN d.objects) /\ DOMAIN d.objects \subseteq Nat \ {Null}
        /\ \A h \in DOMAIN d.objects : d.objects[h] \in LayoutObject \cup DictionaryObject
    BY <1>1 DEF Drawing
  <2>2. IsFiniteSet(DOMAIN e.objects)
    BY <1>8, <2>1, FS_AddElement
  <2>3. \A h \in DOMAIN e.objects : e.objects[h] \in LayoutObject \cup DictionaryObject
    BY <1>3, <1>8, <2>1
  <2>4. DOMAIN e.objects \subseteq Nat \ {Null}
    BY <1>7, <1>8, <2>1
  <2>5. {e.nod, e.layoutDict, e.model, e.paper, e.next} \subseteq Nat
    BY <1>1, <1>2, SMTT(30)
  <2>. QED
    BY <1>2, <1>8, <1>9, <1>10, <2>2, <2>3, <2>4, <2>5 DEF Drawing, Fields
<1>12. LayoutsOf(e) = LayoutsOf(d) \cup {l} /\ Dictionaries(e) = Dictionaries(d)
  BY <1>3, <1>7, <1>8 DEF LayoutsOf, Dictionaries, Is
<1>13. Records(e) = Records(d) \cup {d.next}
  BY <1>4, <1>9 DEF Records
<1>14. EntityHandles(e) = EntityHandles(d) \cup {d.next + 4}
  BY <1>5, <1>10 DEF EntityHandles
<1>15. \A k \in LayoutsOf(d) : d.objects[k].record # d.next /\ k \in DOMAIN d.objects
  <2>1. \A k \in LayoutsOf(d) : d.objects[k].record < d.next
    BY DEF Sited
  <2>. QED
    BY <1>1, <2>1 DEF LayoutsOf
<1>16. Naming(e, d.next) = {l} /\ \A r : r # d.next => Naming(e, r) = Naming(d, r)
  BY <1>3, <1>8, <1>12, <1>15 DEF Naming
<1>. QED
  BY <1>7, <1>8, <1>9, <1>10, <1>11, <1>12, <1>13, <1>14, <1>15, <1>16 DEF o, b, x

LEMMA FoundsGood ==
    ASSUME NEW d, NEW e, NEW name \in Titles, Good(d), LinksStrong(d), Founds(e, d, name)
    PROVE  Good(e) /\ LinksStrong(e)
<1>. DEFINE l == d.next + 3
            at == Len(d.blocks) + 1
            o == NewObject(d, name)
            b == NewBlock(d)
<1>1. Sited(d) /\ Drawing(d) /\ OneEach(d, Records(d)) /\ ViewsListed(d)
  BY DEF Good, Sited
<1>2. /\ Drawing(e) /\ LayoutsOf(e) = LayoutsOf(d) \cup {l} /\ l \notin DOMAIN d.objects
      /\ DOMAIN e.objects = DOMAIN d.objects \cup {l}
      /\ e.objects[l] = o /\ \A h \in DOMAIN d.objects : e.objects[h] = d.objects[h]
      /\ DOMAIN e.blocks = DOMAIN d.blocks \cup {at} /\ at \notin DOMAIN d.blocks
      /\ e.blocks[at] = b /\ \A j \in DOMAIN d.blocks : e.blocks[j] = d.blocks[j]
      /\ Records(e) = Records(d) \cup {d.next} /\ d.next \notin Records(d)
      /\ \A k \in LayoutsOf(d) : d.objects[k].record # d.next
      /\ Naming(e, d.next) = {l}
      /\ \A r : r # d.next => Naming(e, r) = Naming(d, r)
      /\ EntityHandles(e) = EntityHandles(d) \cup {d.next + 4}
  BY <1>1, FoundsIs
<1>3. /\ o.record = d.next /\ o.views = <<d.next + 4>> /\ b.handle = d.next /\ b.layout = l
      /\ b.listed = <<d.next + 4>>
  BY DEF NewObject, NewBlock, Layout
<1>4. /\ d.next \in Nat \ {0} /\ e.next = d.next + 5 /\ LayoutsOf(d) \subseteq DOMAIN d.objects
      /\ \A j \in DOMAIN d.blocks : d.blocks[j].handle \in Records(d)
  BY <1>1, NextFree DEF Founds, LayoutsOf, Records, Null
<1>. HIDE DEF o, b, at, l
<1>5. Sited(e)
  <2>1. \A i, j \in DOMAIN e.blocks : e.blocks[i].handle = e.blocks[j].handle => i = j
    <3>1. \A i, j \in DOMAIN d.blocks : d.blocks[i].handle = d.blocks[j].handle => i = j
      BY <1>1 DEF Sited
    <3>2. \A i \in DOMAIN d.blocks : d.blocks[i].handle # d.next
      BY <1>2, <1>4
    <3>. QED
      BY <1>2, <1>3, <3>1, <3>2
  <2>2. \A h \in Records(e) \cup DOMAIN e.objects \cup EntityHandles(e) : h \in 1 .. e.next - 1
    <3>1. \A h \in Records(d) \cup DOMAIN d.objects \cup EntityHandles(d) : h \in 1 .. e.next - 1
      BY <1>1, <1>4 DEF Sited
    <3>2. {d.next, l, d.next + 4} \subseteq 1 .. e.next - 1
      BY <1>4 DEF l
    <3>. QED
      BY <1>2, <3>1, <3>2
  <2>3. \A k \in LayoutsOf(e) : e.objects[k].record < e.next
    <3>1. ASSUME NEW k \in LayoutsOf(d) PROVE d.objects[k].record < e.next
      <4>1. d.objects[k].record < d.next /\ d.objects[k].record \in Nat
        BY <1>1, LayoutIs DEF Sited
      <4>. QED
        BY <1>4, <4>1
    <3>. QED
      BY <1>2, <1>3, <1>4, <3>1
  <2>4. Elsewhere \in 1 .. e.next - 1
    BY <1>1, <1>4 DEF Sited
  <2>. QED
    BY <1>2, <2>1, <2>2, <2>3, <2>4 DEF Sited
<1>6. OneEach(e, Records(e))
  <2>. SUFFICES ASSUME NEW k \in LayoutsOf(e), NEW m \in LayoutsOf(e),
                       e.objects[k].record = e.objects[m].record, e.objects[k].record \in Records(e)
                PROVE  k = m
    BY DEF OneEach
  <2>1. \A j \in LayoutsOf(d) : e.objects[j] = d.objects[j]
    BY <1>2, <1>4
  <2>2. CASE e.objects[k].record = d.next
    BY <1>2, <2>1, <2>2
  <2>3. CASE e.objects[k].record # d.next
    <3>1. k \in LayoutsOf(d) /\ m \in LayoutsOf(d) /\ e.objects[k].record \in Records(d)
      BY <1>2, <1>3, <2>3
    <3>. QED
      BY <1>1, <2>1, <3>1 DEF OneEach
  <2>. QED
    BY <2>2, <2>3
<1>7. ViewsListed(e)
  <2>. SUFFICES ASSUME NEW i \in DOMAIN e.blocks, NEW k \in LayoutsOf(e),
                       e.objects[k].record = e.blocks[i].handle
                PROVE  ToSet(e.objects[k].views) \subseteq ToSet(e.blocks[i].listed)
    BY DEF ViewsListed
  <2>1. \A j \in LayoutsOf(d) : e.objects[j] = d.objects[j]
    BY <1>2, <1>4
  <2>2. CASE k = l /\ i = at
    BY <1>2, <1>3, <2>2
  <2>3. CASE k \in LayoutsOf(d) /\ i \in DOMAIN d.blocks
    BY <1>1, <1>2, <2>1, <2>3 DEF ViewsListed
  <2>4. CASE k = l /\ i \in DOMAIN d.blocks
    BY <1>2, <1>3, <1>4, <2>4
  <2>5. CASE k \in LayoutsOf(d) /\ i = at
    BY <1>2, <1>3, <2>1, <2>5
  <2>. QED
    BY <1>2, <2>2, <2>3, <2>4, <2>5
<1>8. LinksStrong(e)
  <2>. SUFFICES ASSUME NEW i \in DOMAIN e.blocks, Naming(e, e.blocks[i].handle) # {}
                PROVE  e.blocks[i].layout \in Naming(e, e.blocks[i].handle) \cup {e.blocks[i].handle}
    BY DEF LinksStrong
  <2>1. CASE i = at
    BY <1>2, <1>3, <2>1
  <2>2. CASE i \in DOMAIN d.blocks
    <3>1. e.blocks[i] = d.blocks[i] /\ d.blocks[i].handle # d.next
      BY <1>2, <1>4, <2>2
    <3>2. Naming(e, d.blocks[i].handle) = Naming(d, d.blocks[i].handle)
      BY <1>2, <3>1
    <3>. QED
      BY <2>2, <3>1, <3>2 DEF LinksStrong
  <2>. QED
    BY <1>2, <2>1, <2>2
<1>9. LinksWeak(e)
  BY <1>8 DEF LinksWeak, LinksStrong
<1>. QED
  BY <1>5, <1>6, <1>7, <1>8, <1>9 DEF Good

LEMMA AddLayoutIs ==
    ASSUME Good(doc), LinksStrong(doc), NEW name \in Titles, AddLayout(name)
    PROVE  Good(doc') /\ LinksStrong(doc')
<1>. DEFINE n == NewLayout(name)
            l == doc.next + 3
<1>1. Sited(doc) /\ Drawing(doc)
  BY DEF Good, Sited
<1>2. Founds(n, doc, name)
  BY <1>1, NewLayoutIs
<1>3. Good(n) /\ LinksStrong(n) /\ Drawing(n) /\ Dictionaries(n) = Dictionaries(doc)
  BY <1>1, <1>2, FoundsGood, FoundsIs
<1>. HIDE DEF n
<1>4. CASE doc' = doc
  BY <1>4
<1>5. CASE doc' = Take(doc, 4)
  BY <1>1, <1>5, TakeIs, KeepsGood
<1>6. CASE doc' = n
  BY <1>3, <1>6
<1>7. CASE doc' = Enter(n, doc.layoutDict, name, l) /\ Is(doc, doc.layoutDict, "dictionary")
  <2>1. doc.layoutDict \in Dictionaries(n) /\ l \in Nat
    <3>1. doc.next \in Nat
      BY <1>1, DrawingIs
    <3>2. doc.layoutDict \in Dictionaries(doc)
      BY <1>7 DEF Dictionaries, Is
    <3>. QED
      BY <1>3, <3>1, <3>2
  <2>2. Keeps(Enter(n, doc.layoutDict, name, l), n)
    BY <1>3, <2>1, EnterIs
  <2>. QED
    BY <1>3, <1>7, <2>2, KeepsGood
<1>. QED
  BY <1>4, <1>5, <1>6, <1>7 DEF AddLayout, n

\* e is d with an entity more, of the record of a layout.
Joins(e, d, l, i) ==
    /\ Fields(e) /\ e.nod = d.nod /\ e.layoutDict = d.layoutDict
    /\ e.model = d.model /\ e.paper = d.paper /\ e.next = d.next + 1
    /\ l \in LayoutsOf(d) /\ i \in DOMAIN d.blocks /\ d.blocks[i].handle = d.objects[l].record
    /\ e.objects = [h \in DOMAIN e.objects |-> e.objects[h]]
    /\ DOMAIN e.objects = DOMAIN d.objects
    /\ \A h \in DOMAIN d.objects \ {l} : e.objects[h] = d.objects[h]
    /\ e.objects[l] \in LayoutObject /\ e.objects[l].record = d.objects[l].record
    /\ e.objects[l].views \in {d.objects[l].views, Append(d.objects[l].views, d.next)}
    /\ e.blocks \in Seq(BlockRecord) /\ DOMAIN e.blocks = DOMAIN d.blocks
    /\ \A j \in DOMAIN d.blocks :
          /\ e.blocks[j].handle = d.blocks[j].handle /\ e.blocks[j].layout = d.blocks[j].layout
          /\ e.blocks[j].listed = IF j = i THEN Append(d.blocks[j].listed, d.next)
                                  ELSE d.blocks[j].listed
    /\ e.ents \in Seq(EntityRecord) /\ EntityHandles(e) = EntityHandles(d) \cup {d.next}

LEMMA ToSetAppend ==
    ASSUME NEW list \in Seq(Nat), NEW x \in Nat
    PROVE  ToSet(Append(list, x)) = ToSet(list) \cup {x}
<1>. DEFINE n == Len(list)
            more == Append(list, x)
<1>1. /\ DOMAIN list = 1 .. n /\ DOMAIN more = 1 .. n + 1 /\ n \in Nat /\ more[n + 1] = x
      /\ \A j \in 1 .. n : more[j] = list[j]
  OBVIOUS
<1>2. DOMAIN more = DOMAIN list \cup {n + 1} /\ \A j \in DOMAIN list : more[j] = list[j]
  BY <1>1
<1>. HIDE DEF n, more
<1>3. ToSet(more) = ToSet(list) \cup {x}
  BY <1>1, <1>2 DEF ToSet
<1>. QED
  BY <1>3 DEF more

LEMMA JoinsGood ==
    ASSUME NEW d, NEW e, NEW l, NEW i, Good(d), LinksStrong(d), Joins(e, d, l, i)
    PROVE  Good(e) /\ LinksStrong(e)
<1>1. Sited(d) /\ Drawing(d) /\ OneEach(d, Records(d)) /\ ViewsListed(d)
  BY DEF Good, Sited
<1>2. /\ Fields(e) /\ e.nod = d.nod /\ e.layoutDict = d.layoutDict
      /\ e.model = d.model /\ e.paper = d.paper /\ e.next = d.next + 1
      /\ l \in LayoutsOf(d) /\ i \in DOMAIN d.blocks /\ d.blocks[i].handle = d.objects[l].record
      /\ e.objects = [h \in DOMAIN e.objects |-> e.objects[h]]
      /\ DOMAIN e.objects = DOMAIN d.objects
      /\ \A h \in DOMAIN d.objects \ {l} : e.objects[h] = d.objects[h]
      /\ e.objects[l] \in LayoutObject /\ e.objects[l].record = d.objects[l].record
      /\ e.objects[l].views \in {d.objects[l].views, Append(d.objects[l].views, d.next)}
  BY DEF Joins
<1>3. /\ e.blocks \in Seq(BlockRecord) /\ DOMAIN e.blocks = DOMAIN d.blocks
      /\ \A j \in DOMAIN d.blocks :
          /\ e.blocks[j].handle = d.blocks[j].handle /\ e.blocks[j].layout = d.blocks[j].layout
          /\ e.blocks[j].listed = IF j = i THEN Append(d.blocks[j].listed, d.next)
                                  ELSE d.blocks[j].listed
      /\ e.ents \in Seq(EntityRecord) /\ EntityHandles(e) = EntityHandles(d) \cup {d.next}
  BY DEF Joins
<1>4. /\ d.next \in Nat \ {0} /\ LayoutsOf(d) \subseteq DOMAIN d.objects
      /\ \A j \in DOMAIN d.blocks : d.blocks[j].listed \in Seq(Nat)
      /\ d.objects[l].views \in Seq(Nat) /\ d.objects[l].kind = "layout"
  <2>1. d.next \in Nat \ {0}
    BY <1>1, NextFree DEF Null
  <2>2. \A j \in DOMAIN d.blocks : d.blocks[j] \in BlockRecord
    BY <1>1, DrawingIs
  <2>3. d.objects[l].views \in Seq(Nat) /\ d.objects[l].kind = "layout"
    BY <1>1, <1>2, LayoutIs
  <2>. QED
    BY <2>1, <2>2, <2>3 DEF BlockRecord, LayoutsOf
<1>5. Drawing(e)
  <2>1. /\ IsFiniteSet(DOMAIN d.objects) /\ DOMAIN d.objects \subseteq Nat \ {Null}
        /\ d.nod \in Nat /\ d.layoutDict \in Nat /\ d.model \in Nat /\ d.paper \in Nat
        /\ \A h \in DOMAIN d.objects : d.objects[h] \in LayoutObject \cup DictionaryObject
    BY <1>1 DEF Drawing
  <2>2. \A h \in DOMAIN e.objects : e.objects[h] \in LayoutObject \cup DictionaryObject
    BY <1>2, <2>1
  <2>3. e.next \in Nat
    BY <1>2, <1>4
  <2>. QED
    BY <1>2, <1>3, <2>1, <2>2, <2>3 DEF Drawing, Fields
<1>6. Records(e) = Records(d)
  BY <1>3 DEF Records
<1>7. LayoutsOf(e) = LayoutsOf(d)
  <2>1. e.objects[l].kind = "layout"
    BY <1>2 DEF LayoutObject
  <2>. QED
    BY <1>2, <1>4, <2>1 DEF LayoutsOf, Is
<1>8. \A k \in LayoutsOf(d) : e.objects[k].record = d.objects[k].record
  BY <1>2, <1>4
<1>9. \A r : Naming(e, r) = Naming(d, r)
  BY <1>7, <1>8 DEF Naming
<1>10. Sited(e)
  <2>1. \A j, k \in DOMAIN e.blocks : e.blocks[j].handle = e.blocks[k].handle => j = k
    BY <1>1, <1>3 DEF Sited
  <2>2. \A h \in Records(e) \cup DOMAIN e.objects \cup EntityHandles(e) : h \in 1 .. e.next - 1
    <3>1. \A h \in Records(d) \cup DOMAIN d.objects \cup EntityHandles(d) : h \in 1 .. e.next - 1
      BY <1>1, <1>2, <1>4 DEF Sited
    <3>2. d.next \in 1 .. e.next - 1
      BY <1>2, <1>4
    <3>. QED
      BY <1>2, <1>3, <1>6, <3>1, <3>2
  <2>3. \A k \in LayoutsOf(e) : e.objects[k].record < e.next
    <3>1. ASSUME NEW k \in LayoutsOf(d) PROVE d.objects[k].record < e.next
      <4>1. d.objects[k].record < d.next /\ d.objects[k].record \in Nat
        BY <1>1, LayoutIs DEF Sited
      <4>. QED
        BY <1>2, <1>4, <4>1
    <3>. QED
      BY <1>7, <1>8, <3>1
  <2>4. Elsewhere \in 1 .. e.next - 1
    BY <1>1, <1>2, <1>4 DEF Sited
  <2>. QED
    BY <1>5, <2>1, <2>2, <2>3, <2>4 DEF Sited
<1>11. OneEach(e, Records(e))
  BY <1>1, <1>6, <1>7, <1>8 DEF OneEach
<1>12. ViewsListed(e)
  <2>. SUFFICES ASSUME NEW j \in DOMAIN d.blocks, NEW k \in LayoutsOf(d),
                       d.objects[k].record = d.blocks[j].handle
                PROVE  ToSet(e.objects[k].views) \subseteq ToSet(e.blocks[j].listed)
    BY <1>3, <1>7, <1>8 DEF ViewsListed
  <2>1. ToSet(d.objects[k].views) \subseteq ToSet(d.blocks[j].listed)
    BY <1>1 DEF ViewsListed
  <2>2. k = l => j = i
    BY <1>1, <1>2 DEF Sited
  <2>3. j = i => e.blocks[j].listed = Append(d.blocks[j].listed, d.next)
    BY <1>3
  <2>4. ToSet(Append(d.blocks[j].listed, d.next)) = ToSet(d.blocks[j].listed) \cup {d.next}
    BY <1>4, ToSetAppend
  <2>5. ToSet(Append(d.objects[l].views, d.next)) = ToSet(d.objects[l].views) \cup {d.next}
    BY <1>4, ToSetAppend
  <2>6. CASE k = l
    BY <1>2, <2>1, <2>2, <2>3, <2>4, <2>5, <2>6
  <2>7. CASE k # l
    <3>1. e.objects[k] = d.objects[k]
      BY <1>2, <1>4, <2>7
    <3>2. e.blocks[j].listed = IF j = i THEN Append(d.blocks[j].listed, d.next) ELSE d.blocks[j].listed
      BY <1>3
    <3>. QED
      BY <2>1, <2>4, <3>1, <3>2
  <2>. QED
    BY <2>6, <2>7
<1>13. LinksStrong(e)
  BY <1>3, <1>9 DEF LinksStrong
<1>14. LinksWeak(e)
  BY <1>13 DEF LinksWeak, LinksStrong
<1>. QED
  BY <1>10, <1>11, <1>12, <1>13, <1>14 DEF Good

LEMMA AddEntityIs ==
    ASSUME Good(doc), LinksStrong(doc), NEW kind \in {"viewport", "line"},
           NEW l \in LayoutsOf(doc), AddEntityToLayout(kind, l)
    PROVE  Good(doc') /\ LinksStrong(doc')
<1>. DEFINE at == {i \in DOMAIN doc.blocks : doc.blocks[i].handle = doc.objects[l].record}
            i == Lowest(at)
            h == doc.next
            x == [handle |-> h, kind |-> kind, owner |-> doc.blocks[i].handle, id |-> 0]
            b == [doc.blocks[i] EXCEPT !.listed = Append(doc.blocks[i].listed, h)]
            blocks == [doc.blocks EXCEPT ![i] = b]
            ents == Append(doc.ents, x)
            active == IF doc.objects[l].active = Null THEN h ELSE doc.objects[l].active
            o == [doc.objects[l] EXCEPT !.views = Append(doc.objects[l].views, h), !.active = active]
            t == [doc EXCEPT !.next = @ + 1]
            added == [t EXCEPT !.blocks[i].listed = Append(@, h), !.ents = Append(@, x)]
<1>1. /\ Sited(doc) /\ Drawing(doc) /\ Fields(doc) /\ doc.next \in Nat /\ doc.ents \in Seq(EntityRecord)
      /\ DOMAIN doc.blocks = 1 .. Len(doc.blocks) /\ Len(doc.blocks) \in Nat
      /\ doc.blocks \in Seq(BlockRecord) /\ DOMAIN doc.ents = 1 .. Len(doc.ents)
      /\ Len(doc.ents) \in Nat
      /\ \A j \in DOMAIN doc.blocks : doc.blocks[j] \in BlockRecord
      /\ doc.objects = [k \in DOMAIN doc.objects |-> doc.objects[k]]
  BY DrawingIs DEF Good, Sited, Drawing
<1>2. /\ l \in DOMAIN doc.objects /\ doc.objects[l] \in LayoutObject
      /\ doc.objects[l].views \in Seq(Nat) /\ doc.objects[l].active \in Nat
  BY <1>1, LayoutIs, SMTT(30) DEF LayoutObject
<1>3. /\ at # {}
      /\ doc' = IF kind # "viewport" THEN added
                ELSE [added EXCEPT !.objects[l].views = Append(@, h),
                                   !.objects[l].active = IF @ = Null THEN h ELSE @]
  BY DEF AddEntityToLayout, Take
<1>4. i \in DOMAIN doc.blocks /\ doc.blocks[i].handle = doc.objects[l].record
  <2>1. at \in SUBSET Nat
    BY <1>1
  <2>. HIDE DEF at
  <2>2. Lowest(at) \in at
    BY <1>3, <2>1, LowestIs, Zenon
  <2>. QED
    BY <2>2 DEF at
<1>5. /\ b \in BlockRecord /\ b.handle = doc.blocks[i].handle /\ b.layout = doc.blocks[i].layout
      /\ b.listed = Append(doc.blocks[i].listed, h)
  <2>1. doc.blocks[i] \in BlockRecord
    BY <1>1, <1>4
  <2>. DEFINE block == doc.blocks[i]
              listed == Append(block.listed, h)
  <2>2. block.listed \in Seq(Nat)
    BY <2>1 DEF BlockRecord
  <2>. HIDE DEF block
  <2>3. listed \in Seq(Nat)
    BY <1>1, <2>2
  <2>4. b = [block EXCEPT !.listed = listed]
    BY DEF block
  <2>. HIDE DEF b, listed
  <2>5. b \in BlockRecord /\ b.handle = block.handle /\ b.layout = block.layout /\ b.listed = listed
    BY <2>1, <2>3, <2>4 DEF BlockRecord, block
  <2>. QED
    BY <2>5, Zenon DEF listed, block
<1>6. x \in EntityRecord /\ x.handle = h
  <2>1. doc.blocks[i].handle \in Nat
    BY <1>1, <1>4 DEF BlockRecord
  <2>. HIDE DEF i
  <2>. QED
    BY <1>1, <2>1 DEF EntityRecord
<1>7. /\ o \in LayoutObject /\ o.record = doc.objects[l].record
      /\ o.views = Append(doc.objects[l].views, h)
  <2>. DEFINE old == doc.objects[l]
              views == Append(old.views, h)
  <2>1. views \in Seq(Nat) /\ active \in Nat /\ old \in LayoutObject
    BY <1>1, <1>2
  <2>2. o = [old EXCEPT !.views = views, !.active = active]
    OBVIOUS
  <2>. HIDE DEF o, old, views, active
  <2>3. o \in LayoutObject /\ o.record = old.record /\ o.views = views
    BY <2>1, <2>2 DEF LayoutObject
  <2>. QED
    BY <2>3 DEF old, views
<1>8. t = [doc EXCEPT !.next = @ + 1]
  OBVIOUS
<1>. HIDE DEF t
<1>9. t.objects = doc.objects /\ t.ents = doc.ents /\ t.blocks = doc.blocks /\ t.nod = doc.nod
      /\ t.layoutDict = doc.layoutDict /\ t.model = doc.model /\ t.paper = doc.paper
      /\ t.next = doc.next + 1 /\ Fields(t)
  BY <1>1, <1>8 DEF Fields
<1>. HIDE DEF at, i, x
<1>10. added = [t EXCEPT !.blocks = blocks, !.ents = ents]
  BY <1>9 DEF Fields
<1>. HIDE DEF added, b
<1>11. /\ DOMAIN blocks = DOMAIN doc.blocks /\ blocks \in Seq(BlockRecord)
       /\ \A j \in DOMAIN doc.blocks : blocks[j] = IF j = i THEN b ELSE doc.blocks[j]
  BY <1>1, <1>4, <1>5
<1>12. /\ ents \in Seq(EntityRecord)
       /\ {ents[j].handle : j \in DOMAIN ents} = EntityHandles(doc) \cup {h}
  <2>1. /\ ents \in Seq(EntityRecord) /\ DOMAIN ents = DOMAIN doc.ents \cup {Len(doc.ents) + 1}
        /\ ents[Len(doc.ents) + 1] = x /\ \A j \in DOMAIN doc.ents : ents[j] = doc.ents[j]
    BY <1>1, <1>6
  <2>. HIDE DEF ents
  <2>. QED
    BY <1>6, <2>1 DEF EntityHandles
<1>. HIDE DEF blocks, ents
<1>13. /\ added.blocks = blocks /\ added.objects = doc.objects /\ added.ents = ents
       /\ added.nod = doc.nod /\ added.layoutDict = doc.layoutDict /\ added.model = doc.model
       /\ added.paper = doc.paper /\ added.next = doc.next + 1 /\ Fields(added)
  BY <1>9, <1>10 DEF Fields
<1>14. \A j \in DOMAIN doc.blocks :
          /\ blocks[j].handle = doc.blocks[j].handle /\ blocks[j].layout = doc.blocks[j].layout
          /\ blocks[j].listed = IF j = i THEN Append(doc.blocks[j].listed, doc.next)
                                ELSE doc.blocks[j].listed
  BY <1>5, <1>11
<1>15. CASE kind # "viewport"
  <2>1. doc' = added
    BY <1>3, <1>15
  <2>2. /\ EntityHandles(doc') = EntityHandles(doc) \cup {doc.next}
        /\ Fields(doc') /\ doc'.blocks = blocks /\ doc'.objects = doc.objects /\ doc'.ents = ents
        /\ doc'.nod = doc.nod /\ doc'.layoutDict = doc.layoutDict /\ doc'.model = doc.model
        /\ doc'.paper = doc.paper /\ doc'.next = doc.next + 1
    BY <1>12, <1>13, <2>1 DEF EntityHandles
  <2>3. Joins(doc', doc, l, i)
    BY <1>1, <1>2, <1>4, <1>11, <1>12, <1>14, <2>2 DEF Joins
  <2>. QED
    BY <2>3, JoinsGood
<1>16. CASE kind = "viewport"
  <2>. DEFINE objects == [doc.objects EXCEPT ![l] = o]
  <2>1. doc' = [added EXCEPT !.objects = objects]
    <3>1. doc' = [added EXCEPT !.objects[l].views = Append(@, h),
                               !.objects[l].active = IF @ = Null THEN h ELSE @]
      BY <1>3, <1>16
    <3>. QED
      BY <1>2, <1>13, <3>1 DEF Fields, LayoutObject
  <2>2. objects = [doc.objects EXCEPT ![l] = o]
    OBVIOUS
  <2>. HIDE DEF o, objects
  <2>3. /\ objects = [k \in DOMAIN objects |-> objects[k]] /\ DOMAIN objects = DOMAIN doc.objects
        /\ \A k \in DOMAIN doc.objects \ {l} : objects[k] = doc.objects[k]
        /\ objects[l] = o
    BY <1>1, <1>2, <2>2
  <2>4. /\ Fields(doc') /\ doc'.blocks = blocks /\ doc'.objects = objects /\ doc'.ents = ents
        /\ doc'.nod = doc.nod /\ doc'.layoutDict = doc.layoutDict /\ doc'.model = doc.model
        /\ doc'.paper = doc.paper /\ doc'.next = doc.next + 1
    BY <1>13, <2>1 DEF Fields
  <2>5. EntityHandles(doc') = EntityHandles(doc) \cup {doc.next}
    BY <1>12, <2>4 DEF EntityHandles
  <2>6. Joins(doc', doc, l, i)
    BY <1>1, <1>2, <1>4, <1>7, <1>11, <1>12, <1>14, <2>3, <2>4, <2>5 DEF Joins
  <2>. QED
    BY <2>6, JoinsGood
<1>. QED
  BY <1>15, <1>16

-----------------------------------------------------------------------------
(* The theorems.                                                           *)

LEMMA SavedIs ==
    ASSUME NEW d, Saved(d)
    PROVE  FileGood(d)
<1>. DEFINE entities == HandlesOf(ToSet(d.ents))
<1>1. /\ Drawing(d)
      /\ \A i, j \in DOMAIN d.blocks : d.blocks[i].handle = d.blocks[j].handle => i = j
      /\ Records(d) \cap DOMAIN d.objects = {}
      /\ {d.model, d.paper} \subseteq Records(d)
      /\ \A l \in LayoutsOf(d) :
            d.objects[l].record \in Records(d) /\ Naming(d, d.objects[l].record) = {l}
      /\ \A h \in Records(d) \cup DOMAIN d.objects \cup entities \cup {Elsewhere} :
            h \in 1 .. d.next - 1
      /\ Elsewhere \notin Records(d) \cup DOMAIN d.objects \cup entities
  BY DEF Saved
<1>2. ASSUME NEW i \in DOMAIN d.blocks
      PROVE  /\ \/ d.blocks[i].layout \in Naming(d, d.blocks[i].handle)
                \/ d.blocks[i].layout = Null /\ Naming(d, d.blocks[i].handle) = {}
             /\ ToSet(d.blocks[i].listed) = HandlesOf(Owned(d, d.blocks[i].handle))
             /\ \A l \in Naming(d, d.blocks[i].handle) :
                   ToSet(d.objects[l].views) \subseteq ToSet(d.blocks[i].listed)
  BY DEF Saved
<1>3. d.next \in Nat /\ d.model \in Nat /\ d.paper \in Nat /\ entities = EntityHandles(d)
  <2>1. entities = EntityHandles(d)
    BY DEF HandlesOf, ToSet, EntityHandles
  <2>. QED
    BY <1>1, <2>1, DrawingIs
<1>. HIDE DEF entities
<1>4. \A h \in Records(d) : h < d.next /\ h # 0
  BY <1>1, <1>3
<1>5. Sited(d)
  <2>1. \A l \in LayoutsOf(d) : d.objects[l].record < d.next
    BY <1>1, <1>4
  <2>2. /\ \A h \in Records(d) \cup DOMAIN d.objects \cup EntityHandles(d) : h \in 1 .. d.next - 1
        /\ Elsewhere \in 1 .. d.next - 1
    BY <1>1, <1>3
  <2>. QED
    BY <1>1, <2>1, <2>2 DEF Sited
<1>6. Spaces(d) = Records(d)
  BY <1>1 DEF Spaces
<1>7. OneEach(d, Spaces(d))
  BY <1>1 DEF OneEach, Naming
<1>8. ViewsOwned(d)
  <2>. SUFFICES ASSUME NEW l \in LayoutsOf(d), NEW h \in ToSet(d.objects[l].views)
                PROVE  Belongs(d, h, d.objects[l].record)
    BY DEF ViewsOwned
  <2>1. PICK i \in DOMAIN d.blocks : d.blocks[i].handle = d.objects[l].record
    BY <1>1 DEF Records
  <2>2. l \in Naming(d, d.blocks[i].handle)
    BY <2>1 DEF Naming
  <2>3. h \in HandlesOf(Owned(d, d.blocks[i].handle))
    BY <1>2, <2>2
  <2>4. PICK x \in ToSet(d.ents) : x.owner = d.blocks[i].handle /\ x.handle = h
    BY <2>3 DEF HandlesOf, Owned
  <2>5. PICK n \in DOMAIN d.ents : d.ents[n] = x
    BY <2>4 DEF ToSet
  <2>. QED
    BY <2>1, <2>4, <2>5 DEF Belongs
<1>9. LinksWeak(d)
  BY <1>2 DEF LinksWeak
<1>10. ViewsListed(d)
  BY <1>2 DEF ViewsListed, Naming
<1>11. d.model < d.next /\ d.paper < d.next /\ {Null, Elsewhere} \cap Spaces(d) = {}
  BY <1>1, <1>4, <1>6 DEF Null
<1>12. Spacious(d)
  BY <1>5, <1>7, <1>8, <1>9, <1>11 DEF Spacious
<1>13. Elsewhere \notin DOMAIN d.objects /\ \A l \in LayoutsOf(d) :
          d.objects[l].record \in DOMAIN d.objects => d.objects[l].record \in {d.model, d.paper}
  BY <1>1
<1>. QED
  BY <1>1, <1>10, <1>12, <1>13 DEF FileGood

LEMMA ReadIs ==
    ASSUME LayoutInv, Read
    PROVE  LayoutInv'
<1>1. FileGood(doc)
  BY DEF Read, LayoutInv
<1>2. Good(doc)
  BY <1>1 DEF FileGood, Good, Spacious, OneEach, Spaces
<1>3. CASE phase' = "dwg" /\ doc' \in DwgEnd(doc)
  <2>1. Good(doc') /\ LinksStrong(doc')
    BY <1>1, <1>3, DwgEndIs
  <2>. QED
    BY <1>3, <2>1 DEF LayoutInv
<1>4. CASE phase' = "dxf" /\ doc' \in DxfEnd(doc)
  <2>1. Good(doc') /\ LinksStrong(doc')
    BY <1>2, <1>4, DxfEndIs
  <2>. QED
    BY <1>4, <2>1 DEF LayoutInv
<1>. QED
  BY <1>3, <1>4 DEF Read

LEMMA CallIs ==
    ASSUME LayoutInv, Call
    PROVE  LayoutInv'
<1>1. Good(doc) /\ LinksStrong(doc) /\ Sited(doc) /\ phase' # "file"
  BY DEF LayoutInv, Call, Good
<1>. SUFFICES Good(doc') /\ LinksStrong(doc')
  BY <1>1 DEF LayoutInv
<1>2. CASE \E name \in Names : AddLayout(name)
  BY <1>1, <1>2, AddLayoutIs, LayoutsAssumption
<1>3. CASE \E l \in LayoutsOf(doc), kind \in {"viewport", "line"} : AddEntityToLayout(kind, l)
  BY <1>1, <1>3, AddEntityIs
<1>4. CASE EnsureModelLayout
  BY <1>1, <1>4, EnsuredIs DEF EnsureModelLayout
<1>5. CASE (\E l \in LayoutsOf(doc) : Forget(l)) \/ \E i \in DOMAIN doc.blocks : ForgetRecord(i)
  <2>1. Lesser(doc', doc, {}) /\ SameLinks(doc', doc)
    BY <1>1, <1>5, ForgetIs, ForgetRecordIs
  <2>. QED
    BY <1>1, <2>1, LesserGood
<1>. QED
  BY <1>2, <1>3, <1>4, <1>5 DEF Call

LEMMA LayoutStep ==
    ASSUME LayoutInv, [Next]_vars
    PROVE  LayoutInv'
<1>1. CASE Lack
  <2>1. FileGood(doc) /\ phase = "file" /\ phase' = "file"
    BY <1>1 DEF LayoutInv, Lack
  <2>2. FileGood(doc')
    BY <1>1, <2>1, LackIs
  <2>. QED
    BY <2>1, <2>2 DEF LayoutInv
<1>2. CASE Read
  BY <1>2, ReadIs
<1>3. CASE Call
  BY <1>3, CallIs
<1>4. CASE UNCHANGED vars
  <2>1. doc' = doc /\ phase' = phase
    BY <1>4 DEF vars
  <2>. QED
    BY <2>1 DEF LayoutInv
<1>. QED
  BY <1>1, <1>2, <1>3, <1>4 DEF Next

LEMMA LayoutInvAlways == Spec => []LayoutInv
<1>1. Init => LayoutInv
  BY SoundAssumption, SavedIs DEF Init, LayoutInv
<1>2. LayoutInv /\ [Next]_vars => LayoutInv'
  BY LayoutStep
<1>. QED
  BY <1>1, <1>2, PTL DEF Spec

\* Whatever parts the file lacked, after the read and after every call a record
\* that a layout names leads back to it or to itself, it is the only layout of that
\* record, and its viewports are entities of the record.
THEOREM LayoutsLeadBack == Spec => []LinksAgree
<1>1. LayoutInv => LinksAgree
  <2>. SUFFICES ASSUME LayoutInv, phase # "file", NEW i \in DOMAIN doc.blocks,
                       Naming(doc, doc.blocks[i].handle) # {}
                PROVE  LET b == doc.blocks[i]
                           naming == Naming(doc, b.handle)
                       IN /\ Cardinality(naming) = 1
                          /\ b.layout \in naming \cup {b.handle}
                          /\ \A l \in naming :
                                ToSet(doc.objects[l].views) \subseteq ToSet(b.listed)
    BY DEF LinksAgree
  <2>. DEFINE naming == Naming(doc, doc.blocks[i].handle)
  <2>1. OneEach(doc, Records(doc)) /\ ViewsListed(doc) /\ LinksStrong(doc)
    BY DEF LayoutInv, Good
  <2>2. PICK l : l \in naming
    OBVIOUS
  <2>3. doc.blocks[i].handle \in Records(doc)
    BY DEF Records
  <2>4. naming = {l}
    BY <2>1, <2>2, <2>3 DEF OneEach, Naming
  <2>5. Cardinality(naming) = 1
    BY <2>4, FS_Singleton
  <2>6. doc.blocks[i].layout \in naming \cup {doc.blocks[i].handle}
    BY <2>1 DEF LinksStrong
  <2>7. \A k \in naming : ToSet(doc.objects[k].views) \subseteq ToSet(doc.blocks[i].listed)
    BY <2>1 DEF ViewsListed, Naming
  <2>. QED
    BY <2>5, <2>6, <2>7
<1>. QED
  BY <1>1, LayoutInvAlways, PTL

\* What add_layout promises of the layout l it made.
NewUsable(l) ==
    LET new == doc'.objects[l]
        at == {i \in DOMAIN doc'.blocks : doc'.blocks[i].handle = new.record}
    IN /\ Cardinality(at) = 1 /\ Naming(doc', new.record) = {l}
       /\ \A i \in at :
             /\ doc'.blocks[i].layout = l
             /\ Viewports(doc', doc'.blocks[i]) = new.views
             /\ \A j \in DOMAIN doc'.blocks :
                   doc'.blocks[i].name = doc'.blocks[j].name => i = j
       /\ Entity(doc', new.active).id = 1
       /\ /\ Is(doc, doc.layoutDict, "dictionary")
          /\ Entries(doc, doc.layoutDict, new.name) = << >>
          => Entries(doc', doc'.layoutDict, new.name) = <<<<new.name, l>>>>

\* Whether the names of the paper spaces have a gap.
Gap == {doc.blocks[i].name : i \in PaperSpaces(doc)} # 1 .. Cardinality(PaperSpaces(doc))

LEMMA KeptOne ==
    ASSUME NEW T, NEW x \in T, NEW set, x \in set
    PROVE  Kept(<<x>>, set) = <<x>>
<1>1. << >> \in Seq(T) /\ Append(<< >>, x) = <<x>>
  OBVIOUS
<1>2. Kept(Append(<< >>, x), set) = Append(Kept(<< >>, set), x)
  <2>. DEFINE none == << >>
  <2>1. none \in Seq(T)
    BY <1>1
  <2>. HIDE DEF none
  <2>2. Kept(Append(none, x), set) = Append(Kept(none, set), x)
    BY <2>1, KeptAppend
  <2>. QED
    BY <2>2 DEF none
<1>. QED
  BY <1>1, <1>2, KeptEmpty

\* The record, the layout and the viewport a new layout has.
LEMMA MadeUsable ==
    ASSUME NEW d, NEW n, NEW e, NEW name \in Titles, Sited(d), Founds(n, d, name), Keeps(e, n),
           Cardinality(PaperSpaces(d)) + 1 \notin BlockNames(d)
    PROVE  LET l == d.next + 3
               new == e.objects[l]
               at == {i \in DOMAIN e.blocks : e.blocks[i].handle = new.record}
           IN /\ LayoutsOf(e) \ LayoutsOf(d) = {l} /\ new.name = name
              /\ Cardinality(at) = 1 /\ Naming(e, new.record) = {l}
              /\ \A i \in at :
                    /\ e.blocks[i].layout = l
                    /\ Viewports(e, e.blocks[i]) = new.views
                    /\ \A j \in DOMAIN e.blocks : e.blocks[i].name = e.blocks[j].name => i = j
              /\ Entity(e, new.active).id = 1
<1>. DEFINE l == d.next + 3
            v == d.next + 4
            k == Len(d.blocks) + 1
            m == Len(d.ents) + 1
            new == e.objects[l]
            at == {i \in DOMAIN e.blocks : e.blocks[i].handle = new.record}
<1>1. /\ LayoutsOf(n) = LayoutsOf(d) \cup {l} /\ l \notin DOMAIN d.objects
      /\ n.objects[l] = NewObject(d, name)
      /\ DOMAIN n.blocks = DOMAIN d.blocks \cup {k} /\ k \notin DOMAIN d.blocks
      /\ n.blocks[k] = NewBlock(d) /\ \A j \in DOMAIN d.blocks : n.blocks[j] = d.blocks[j]
      /\ d.next \notin Records(d) /\ Naming(n, d.next) = {l}
      /\ DOMAIN n.ents = DOMAIN d.ents \cup {m} /\ n.ents[m] = NewViewport(d)
      /\ \A j \in DOMAIN d.ents : n.ents[j] = d.ents[j]
  BY FoundsIs
<1>2. /\ e.blocks = n.blocks /\ e.ents = n.ents /\ LayoutsOf(e) = LayoutsOf(n)
      /\ \A x \in LayoutsOf(n) : e.objects[x] = n.objects[x]
      /\ \A r : Naming(e, r) = Naming(n, r)
  BY KeepsNames DEF Keeps
<1>3. new = NewObject(d, name)
  BY <1>1, <1>2
<1>4. new.record = d.next /\ new.views = <<v>> /\ new.active = v /\ new.name = name
  BY <1>3 DEF NewObject, Layout
<1>5. LayoutsOf(e) \ LayoutsOf(d) = {l}
  BY <1>1, <1>2 DEF LayoutsOf
<1>6. /\ NewBlock(d).handle = d.next /\ NewBlock(d).layout = l /\ NewBlock(d).listed = <<v>>
      /\ NewBlock(d).name = Cardinality(PaperSpaces(d)) + 1
  BY DEF NewBlock
<1>7. d.next \in Nat /\ v \in Nat
  <2>1. Drawing(d)
    BY DEF Sited
  <2>2. d.next \in Nat
    BY <2>1, DrawingIs
  <2>. QED
    BY <2>2
<1>. HIDE DEF new, l, k, m, v
<1>8. at = {k}
  <2>1. \A j \in DOMAIN d.blocks : d.blocks[j].handle # d.next
    BY <1>1 DEF Records
  <2>. QED
    BY <1>1, <1>2, <1>4, <1>6, <2>1
<1>9. Cardinality(at) = 1
  BY <1>8, FS_Singleton
<1>10. Naming(e, new.record) = {l}
  BY <1>1, <1>2, <1>4
<1>11. e.blocks[k] = NewBlock(d)
  BY <1>1, <1>2
<1>12. \A j \in DOMAIN e.blocks : e.blocks[k].name = e.blocks[j].name => k = j
  <2>1. \A j \in DOMAIN d.blocks : d.blocks[j].name # Cardinality(PaperSpaces(d)) + 1
    BY DEF BlockNames
  <2>. QED
    BY <1>1, <1>2, <1>6, <1>11, <2>1
<1>13. NewViewport(d) \in ToSet(e.ents) /\ NewViewport(d).handle = v
       /\ NewViewport(d).kind = "viewport" /\ NewViewport(d).id = 1
  <2>1. m \in DOMAIN e.ents /\ e.ents[m] = NewViewport(d)
    BY <1>1, <1>2
  <2>. QED
    BY <2>1 DEF ToSet, NewViewport, v
<1>14. Viewports(e, e.blocks[k]) = <<v>>
  <2>. DEFINE set == HandlesOf({x \in ToSet(e.ents) : x.kind = "viewport"})
  <2>1. v \in set
    BY <1>13 DEF HandlesOf
  <2>2. Viewports(e, e.blocks[k]) = Kept(<<v>>, set)
    BY <1>6, <1>11 DEF Viewports
  <2>. HIDE DEF set
  <2>. QED
    BY <1>7, <2>1, <2>2, KeptOne
<1>15. Entity(e, v).id = 1
  <2>1. ASSUME NEW x \in ToSet(e.ents), x.handle = v PROVE x = NewViewport(d)
    <3>1. PICK j \in DOMAIN e.ents : e.ents[j] = x
      BY DEF ToSet
    <3>2. CASE j = m
      BY <1>1, <1>2, <3>1, <3>2
    <3>3. CASE j \in DOMAIN d.ents
      <4>1. d.ents[j].handle = v
        BY <1>1, <1>2, <2>1, <3>1, <3>3
      <4>2. v \in 1 .. d.next - 1
        BY <3>3, <4>1 DEF Sited, EntityHandles
      <4>. QED
        BY <1>7, <4>2 DEF v
    <3>. QED
      BY <1>1, <1>2, <3>2, <3>3
  <2>2. Entity(e, v) = NewViewport(d)
    BY <1>13, <2>1 DEF Entity
  <2>. QED
    BY <1>13, <2>2
<1>16. \A i \in at : /\ e.blocks[i].layout = l
                     /\ Viewports(e, e.blocks[i]) = new.views
                     /\ \A j \in DOMAIN e.blocks : e.blocks[i].name = e.blocks[j].name => i = j
  BY <1>4, <1>6, <1>8, <1>11, <1>12, <1>14
<1>. QED
  BY <1>4, <1>5, <1>9, <1>10, <1>15, <1>16 DEF new, l

\* The entry the layout dictionary gets.
LEMMA EntryIs ==
    ASSUME NEW d, NEW e, Drawing(d), NEW o \in Dictionaries(d), NEW key \in Titles, NEW h \in Nat,
           e.objects[o].entries = Append(d.objects[o].entries, <<key, h>>),
           Entries(d, o, key) = << >>
    PROVE  Entries(e, o, key) = <<<<key, h>>>>
<1>. DEFINE list == d.objects[o].entries
            x == <<key, h>>
            more == Append(list, x)
            old == {y \in ToSet(list) : y[1] = key}
            new == {y \in ToSet(more) : y[1] = key}
            T == Titles \X Nat
<1>1. list \in Seq(T) /\ x \in T
  BY DictionaryIs
<1>2. Entries(e, o, key) = Kept(more, new) /\ Kept(list, old) = << >>
  BY DEF Entries
<1>3. x[1] = key
  OBVIOUS
<1>. HIDE DEF list, x, T
<1>4. /\ DOMAIN more = 1 .. Len(list) + 1 /\ more[Len(list) + 1] = x /\ Len(list) \in Nat
      /\ DOMAIN list = 1 .. Len(list) /\ \A i \in 1 .. Len(list) : more[i] = list[i]
  BY <1>1
<1>5. x \in new
  <2>1. Len(list) + 1 \in DOMAIN more
    BY <1>4
  <2>2. x \in ToSet(more)
    BY <1>4, <2>1 DEF ToSet
  <2>. QED
    BY <1>3, <2>2
<1>6. \A i \in 1 .. Len(list) : list[i] \in new <=> list[i] \in old
  <2>1. \A i \in 1 .. Len(list) : i \in DOMAIN more
    BY <1>4
  <2>. QED
    BY <1>4, <2>1 DEF ToSet
<1>. HIDE DEF old, new
<1>7. Kept(list, new) = << >>
  <2>1. Kept(list, new) = Kept(list, old)
    BY <1>1, <1>6, KeptSame
  <2>. QED
    BY <1>2, <2>1
<1>8. Kept(more, new) = Append(Kept(list, new), x)
  BY <1>1, <1>5, KeptAppend
<1>9. Append(<< >>, x) = <<x>>
  OBVIOUS
<1>. QED
  BY <1>2, <1>7, <1>8, <1>9 DEF x

\* What a call of add_layout made, if it made a layout.
LEMMA MadeNew ==
    ASSUME Sited(doc), NEW name \in Titles, NEW n, Founds(n, doc, name), Keeps(doc', n),
           Cardinality(PaperSpaces(doc)) + 1 \notin BlockNames(doc),
           /\ Is(doc, doc.layoutDict, "dictionary")
           /\ Entries(doc, doc.layoutDict, name) = << >>
           => Entries(doc', doc'.layoutDict, name) = <<<<name, doc.next + 3>>>>
    PROVE  /\ doc'.objects # doc.objects
           /\ \A l \in LayoutsOf(doc') \ LayoutsOf(doc) : NewUsable(l)
<1>. DEFINE l == doc.next + 3
            new == doc'.objects[l]
            at == {i \in DOMAIN doc'.blocks : doc'.blocks[i].handle = new.record}
<1>1. /\ LayoutsOf(doc') \ LayoutsOf(doc) = {l} /\ new.name = name
      /\ Cardinality(at) = 1 /\ Naming(doc', new.record) = {l}
      /\ \A i \in at :
            /\ doc'.blocks[i].layout = l
            /\ Viewports(doc', doc'.blocks[i]) = new.views
            /\ \A j \in DOMAIN doc'.blocks :
                  doc'.blocks[i].name = doc'.blocks[j].name => i = j
      /\ Entity(doc', new.active).id = 1
  BY MadeUsable
<1>2. /\ Is(doc, doc.layoutDict, "dictionary")
      /\ Entries(doc, doc.layoutDict, new.name) = << >>
      => Entries(doc', doc'.layoutDict, new.name) = <<<<new.name, l>>>>
  BY <1>1
<1>3. NewUsable(l)
  BY <1>1, <1>2 DEF NewUsable
<1>4. doc'.objects # doc.objects
  <2>1. l \in LayoutsOf(doc') /\ l \notin LayoutsOf(doc)
    BY <1>1
  <2>. HIDE DEF l
  <2>. QED
    BY <2>1 DEF LayoutsOf, Is
<1>. QED
  BY <1>1, <1>3, <1>4

LEMMA AddUsable ==
    ASSUME Sited(doc), NEW name \in Titles, AddLayout(name)
    PROVE  /\ doc'.objects = doc.objects /\ doc'.next # doc.next => Gap
           /\ \A l \in LayoutsOf(doc') \ LayoutsOf(doc) : NewUsable(l)
<1>. DEFINE n == NewLayout(name)
            c == Cardinality(PaperSpaces(doc))
            o == doc.layoutDict
            l == doc.next + 3
<1>1. Drawing(doc) /\ c \in Nat /\ doc.next \in Nat
  <2>1. Drawing(doc)
    BY DEF Sited
  <2>. QED
    BY <2>1, DrawingIs, PaperSpacesIs
<1>2. Founds(n, doc, name)
  BY <1>1, NewLayoutIs
<1>3. \/ doc' = doc
      \/ doc' = Take(doc, 4) /\ c + 1 \in BlockNames(doc)
      \/ /\ c + 1 \notin BlockNames(doc)
         /\ \/ doc' = n /\ ~Is(doc, o, "dictionary")
            \/ doc' = Enter(n, o, name, l) /\ Is(doc, o, "dictionary")
  BY DEF AddLayout
<1>4. /\ Drawing(n) /\ Dictionaries(n) = Dictionaries(doc)
      /\ \A h \in DOMAIN doc.objects : n.objects[h] = doc.objects[h]
  BY <1>2, FoundsIs
<1>5. n.layoutDict = o
  BY <1>2 DEF Founds
<1>. HIDE DEF n, c
<1>6. CASE doc' = doc
  BY <1>6
<1>7. CASE doc' = Take(doc, 4) /\ c + 1 \in BlockNames(doc)
  <2>1. LayoutsOf(doc') = LayoutsOf(doc)
    <3>1. Keeps(Take(doc, 4), doc)
      BY <1>1, TakeIs
    <3>. QED
      BY <1>7, <3>1 DEF Keeps
  <2>2. PICK i \in DOMAIN doc.blocks : doc.blocks[i].name = c + 1
    BY <1>7 DEF BlockNames
  <2>3. i \in PaperSpaces(doc)
    BY <1>1, <2>2 DEF PaperSpaces
  <2>4. c + 1 \in {doc.blocks[j].name : j \in PaperSpaces(doc)} /\ c + 1 \notin 1 .. c
    BY <1>1, <2>2, <2>3
  <2>5. Gap
    BY <2>4 DEF Gap, c
  <2>. QED
    BY <2>1, <2>5
<1>8. CASE /\ c + 1 \notin BlockNames(doc)
           /\ doc' = n /\ ~Is(doc, o, "dictionary")
  <2>1. Keeps(doc', n)
    BY <1>4, <1>8, KeepsSelf, SMTT(30)
  <2>. QED
    BY <1>2, <1>8, <2>1, MadeNew DEF c
<1>9. CASE /\ c + 1 \notin BlockNames(doc)
           /\ doc' = Enter(n, o, name, l) /\ Is(doc, o, "dictionary")
  <2>1. o \in DOMAIN doc.objects /\ o \in Dictionaries(doc) /\ o \in Dictionaries(n) /\ l \in Nat
    BY <1>1, <1>4, <1>9, SMTT(30) DEF Dictionaries, Is
  <2>. HIDE DEF l
  <2>2. /\ Keeps(doc', n) /\ doc'.layoutDict = n.layoutDict
        /\ doc'.objects[o].entries = Append(n.objects[o].entries, <<name, l>>)
    BY <1>4, <1>9, <2>1, EnterIs, Zenon
  <2>3. doc'.objects[o].entries = Append(doc.objects[o].entries, <<name, l>>)
    BY <1>4, <2>1, <2>2, Zenon
  <2>4. Entries(doc, o, name) = << >> => Entries(doc', o, name) = <<<<name, l>>>>
    BY <1>1, <2>1, <2>3, EntryIs, Zenon
  <2>5. Entries(doc, o, name) = << >> => Entries(doc', doc'.layoutDict, name) = <<<<name, l>>>>
    BY <1>5, <2>2, <2>4, Zenon
  <2>. QED
    BY <1>2, <1>9, <2>2, <2>5, MadeNew, Zenon DEF c, l
<1>. QED
  BY <1>3, <1>6, <1>7, <1>8, <1>9

\* add_layout gives a layout with a record and an overall viewport of its own,
\* which the layout dictionary leads to, and fails for a new name only where the
\* names of the paper spaces have a gap.
THEOREM NewLayoutsUsable == Spec => NewLayoutUsable
<1>1. LayoutInv /\ [Next]_vars =>
          [last' = "add" =>
              /\ doc'.objects = doc.objects /\ doc'.next # doc.next => Gap
              /\ \A l \in LayoutsOf(doc') \ LayoutsOf(doc) : NewUsable(l)]_vars
  <2>. SUFFICES ASSUME LayoutInv, [Next]_vars, ~UNCHANGED vars, last' = "add"
                PROVE  /\ doc'.objects = doc.objects /\ doc'.next # doc.next => Gap
                       /\ \A l \in LayoutsOf(doc') \ LayoutsOf(doc) : NewUsable(l)
    OBVIOUS
  <2>1. Call
    BY DEF Next, Lack, Read
  <2>2. PICK name \in Names : AddLayout(name)
    BY <2>1 DEF Call
  <2>3. name \in Titles
    BY LayoutsAssumption
  <2>4. Sited(doc)
    BY <2>1 DEF LayoutInv, Call, Good
  <2>. QED
    BY <2>2, <2>3, <2>4, AddUsable
<1>. QED
  BY <1>1, LayoutInvAlways, PTL DEF Spec, NewLayoutUsable, NewUsable, Gap
=============================================================================
