-------------------------- MODULE AuditRepairProofs --------------------------
(***************************************************************************)
(* Theorems about reference resolution and repair, for every drawing and   *)
(* every number of damaged fields.                                         *)
(***************************************************************************)
EXTENDS AuditRepair, DataInduction, FiniteSetTheorems

-----------------------------------------------------------------------------
(* The greatest and the least of a set of handles.                         *)

\* Finitely many handles have a bound.
LEMMA ListBound ==
    \A n \in Nat : \A f \in [1 .. n -> Nat] : \E b \in Nat : \A i \in 1 .. n : f[i] <= b
<1>. DEFINE S == {n \in Nat : \A f \in [1 .. n -> Nat] : \E b \in Nat : \A i \in 1 .. n : f[i] <= b}
<1>1. 0 \in S
  OBVIOUS
<1>2. ASSUME NEW n \in Nat, n \in S PROVE n + 1 \in S
  <2>0. n + 1 \in Nat
    OBVIOUS
  <2>. SUFFICES ASSUME NEW f \in [1 .. n + 1 -> Nat]
                PROVE  \E b \in Nat : \A i \in 1 .. n + 1 : f[i] <= b
    BY <2>0, Zenon
  <2>. DEFINE g == [i \in 1 .. n |-> f[i]]
  <2>1. g \in [1 .. n -> Nat] /\ \A i \in 1 .. n : g[i] = f[i]
    OBVIOUS
  <2>. HIDE DEF g
  <2>2. PICK b \in Nat : \A i \in 1 .. n : g[i] <= b
    BY <1>2, <2>1
  <2>3. PICK c \in Nat : b <= c /\ f[n + 1] <= c
    <3>1. f[n + 1] \in Nat
      OBVIOUS
    <3>. QED
      BY <3>1
  <2>4. ASSUME NEW i \in 1 .. n + 1 PROVE f[i] <= c
    <3>1. CASE i = n + 1
      BY <2>3, <3>1
    <3>2. CASE i \in 1 .. n
      <4>1. f[i] <= b /\ f[i] \in Nat
        BY <2>1, <2>2, <3>2
      <4>. QED
        BY <2>3, <4>1
    <3>. QED
      BY <3>1, <3>2
  <2>. QED
    BY <2>4
<1>. HIDE DEF S
<1>3. Nat \subseteq S
  BY <1>1, <1>2, NatSetInduction
<1>. QED
  BY <1>3 DEF S

LEMMA HighestIs ==
    ASSUME NEW S \in SUBSET Nat, IsFiniteSet(S), S # {}
    PROVE  Highest(S) \in S /\ \A y \in S : y <= Highest(S)
<1>1. Cardinality(S) \in Nat
  BY FS_CardinalityType
<1>2. PICK f : f \in Bijection(1 .. Cardinality(S), S)
  BY FS_CardinalityType DEF ExistsBijection
<1>3. /\ f \in [1 .. Cardinality(S) -> Nat]
      /\ \A y \in S : \E i \in 1 .. Cardinality(S) : f[i] = y
  BY <1>2 DEF Bijection, Injection, Surjection
<1>4. PICK b \in Nat : \A i \in 1 .. Cardinality(S) : f[i] <= b
  BY <1>1, <1>3, ListBound
<1>. DEFINE U == {c \in Nat : \A y \in S : y <= c}
<1>5. b \in U
  BY <1>3, <1>4
<1>6. PICK u \in U : \A c \in U : u <= c
  BY <1>5, NatLeast
<1>7. u \in S
  <2>. SUFFICES ASSUME u \notin S PROVE FALSE
    OBVIOUS
  <2>1. u \in Nat /\ \A y \in S : y \in Nat /\ y < u
    BY <1>6
  <2>2. u # 0 /\ u - 1 \in Nat
    <3>1. PICK y \in S : y \in Nat /\ y < u
      BY <2>1
    <3>. QED
      BY <2>1, <3>1
  <2>3. \A y \in S : y <= u - 1
    BY <2>1
  <2>. QED
    BY <1>6, <2>2, <2>3
<1>8. \A y \in S : y <= u
  BY <1>6
<1>9. \E x \in S : \A y \in S : y <= x
  BY <1>7, <1>8
<1>. QED
  BY <1>9 DEF Highest

LEMMA LowestIs ==
    ASSUME NEW S \in SUBSET Nat, S # {}
    PROVE  Lowest(S) \in S /\ \A y \in S : Lowest(S) <= y
BY NatLeast DEF Lowest

-----------------------------------------------------------------------------
(* Documents, field by field.                                              *)

\* The fields of a document.
Fields(d) ==
    d = [ctl |-> d.ctl, layers |-> d.layers, blocks |-> d.blocks,
         ents |-> d.ents, index |-> d.index, objs |-> d.objs,
         xdicOf |-> d.xdicOf, dict |-> d.dict, model |-> d.model,
         paper |-> d.paper, next |-> d.next, seed |-> d.seed]

\* Finite sets of handles of a list.
LEMMA ListFinite ==
    ASSUME NEW T, NEW s \in Seq(T)
    PROVE  /\ DOMAIN s = 1 .. Len(s) /\ Len(s) \in Nat
           /\ IsFiniteSet(DOMAIN s) /\ IsFiniteSet({s[i] : i \in DOMAIN s})
<1>1. DOMAIN s = 1 .. Len(s) /\ Len(s) \in Nat
  OBVIOUS
<1>2. IsFiniteSet(DOMAIN s)
  BY <1>1, FS_Interval
<1>. DEFINE R == {s[i] : i \in DOMAIN s}
<1>3. s \in Surjection(DOMAIN s, R)
  BY DEF Surjection
<1>4. IsFiniteSet(R)
  BY <1>2, <1>3, FS_Surjection
<1>. QED
  BY <1>1, <1>2, <1>4

\* What a function makes of a finite set is finite.
LEMMA ImageFinite ==
    ASSUME NEW f, IsFiniteSet(DOMAIN f), f = [x \in DOMAIN f |-> f[x]]
    PROVE  IsFiniteSet({f[x] : x \in DOMAIN f})
<1>. DEFINE R == {f[x] : x \in DOMAIN f}
<1>1. f \in Surjection(DOMAIN f, R)
  BY DEF Surjection
<1>. QED
  BY <1>1, FS_Surjection

LEMMA PairFinite ==
    ASSUME NEW x, NEW y
    PROVE  IsFiniteSet({x, y})
<1>1. IsFiniteSet({} \cup {x})
  BY FS_EmptySet, FS_AddElement
<1>2. IsFiniteSet(({} \cup {x}) \cup {y})
  BY <1>1, FS_AddElement
<1>3. ({} \cup {x}) \cup {y} = {x, y}
  OBVIOUS
<1>. QED
  BY <1>2, <1>3

\* The handles the allocator looks at are finitely many numbers.
LEMMA StoredFinite ==
    ASSUME NEW d, Drawing(d)
    PROVE  /\ Stored(d) \in SUBSET Nat /\ IsFiniteSet(Stored(d)) /\ Stored(d) # {}
<1>1. /\ d.ctl["layer"] \in Nat /\ d.ctl["block"] \in Nat /\ d.layers \in Seq(Nat)
      /\ d.blocks \in Seq(BlockRecord) /\ d.ents \in Seq(Entity)
      /\ MapFrom(d.objs, Nat) /\ \A k \in DOMAIN d.objs : d.objs[k] \in Object
  BY DEF Drawing
<1>2. /\ \A i \in DOMAIN d.blocks :
            /\ d.blocks[i].handle \in Nat /\ d.blocks[i].begin \in Nat
            /\ d.blocks[i].end \in Nat /\ d.blocks[i].listed \in Seq(Nat)
      /\ \A i \in DOMAIN d.ents : d.ents[i].handle \in Nat
      /\ \A k \in DOMAIN d.objs : k \in Nat /\ d.objs[k].id \in Nat
      /\ \A i \in DOMAIN d.layers : d.layers[i] \in Nat
  <2>1. \A i \in DOMAIN d.blocks : d.blocks[i] \in BlockRecord
    BY <1>1
  <2>2. \A i \in DOMAIN d.ents : d.ents[i] \in Entity
    BY <1>1
  <2>3. \A k \in DOMAIN d.objs : k \in Nat /\ d.objs[k] \in Object
    BY <1>1 DEF MapFrom
  <2>4. \A i \in DOMAIN d.layers : d.layers[i] \in Nat
    BY <1>1
  <2>5. \A r \in BlockRecord : /\ r.handle \in Nat /\ r.begin \in Nat
                                /\ r.end \in Nat /\ r.listed \in Seq(Nat)
    BY DEF BlockRecord
  <2>6. \A r \in Entity : r.handle \in Nat
    BY DEF Entity
  <2>7. \A r \in Object : r.id \in Nat
    BY DEF Object
  <2>. QED
    BY <2>1, <2>2, <2>3, <2>4, <2>5, <2>6, <2>7, Zenon
<1>. DEFINE h == [i \in DOMAIN d.blocks |-> d.blocks[i].handle]
            b == [i \in DOMAIN d.blocks |-> {d.blocks[i].begin, d.blocks[i].end}]
            l == [i \in DOMAIN d.blocks |-> Listed(d.blocks[i])]
            e == [i \in DOMAIN d.ents |-> d.ents[i].handle]
            o == [k \in DOMAIN d.objs |-> d.objs[k].id]
<1>3. IsFiniteSet(DOMAIN d.blocks) /\ IsFiniteSet(DOMAIN d.ents)
      /\ IsFiniteSet(LayerHandles(d)) /\ IsFiniteSet(DOMAIN d.objs)
  BY <1>1, ListFinite DEF LayerHandles, MapFrom
<1>4. IsFiniteSet({h[i] : i \in DOMAIN h})
  BY <1>3, ImageFinite
<1>5. IsFiniteSet({b[i] : i \in DOMAIN b})
  BY <1>3, ImageFinite
<1>6. IsFiniteSet({l[i] : i \in DOMAIN l})
  BY <1>3, ImageFinite
<1>7. IsFiniteSet({e[i] : i \in DOMAIN e})
  BY <1>3, ImageFinite
<1>8. IsFiniteSet({o[i] : i \in DOMAIN o})
  BY <1>3, ImageFinite
<1>9. IsFiniteSet(UNION {b[i] : i \in DOMAIN b})
  <2>1. \A x, y : IsFiniteSet({x, y})
    BY PairFinite
  <2>2. \A T \in {b[i] : i \in DOMAIN b} : IsFiniteSet(T)
    <3>1. \A i \in DOMAIN b : b[i] = {d.blocks[i].begin, d.blocks[i].end}
      OBVIOUS
    <3>2. \A i \in DOMAIN b : IsFiniteSet(b[i])
      BY <2>1, <3>1, Zenon
    <3>. HIDE DEF b
    <3>. QED
      BY <3>2, Zenon
  <2>. HIDE DEF b
  <2>. QED
    BY <1>5, <2>2, FS_UNION
<1>10. IsFiniteSet(UNION {l[i] : i \in DOMAIN l})
  <2>1. \A T \in {l[i] : i \in DOMAIN l} : IsFiniteSet(T)
    BY <1>2, ListFinite DEF Listed
  <2>. HIDE DEF l
  <2>. QED
    BY <1>6, <2>1, FS_UNION
<1>11. IsFiniteSet(Controls(d)) /\ Controls(d) # {}
  <2>1. \A x, y : IsFiniteSet({x, y})
    BY PairFinite
  <2>. QED
    BY <2>1 DEF Controls
<1>12. /\ BlockHandles(d) = {h[i] : i \in DOMAIN h} /\ EntityHandles(d) = {e[i] : i \in DOMAIN e}
       /\ MarkerHandles(d) = UNION {b[i] : i \in DOMAIN b}
       /\ Members(d) = UNION {l[i] : i \in DOMAIN l}
       /\ Ids(d) = {o[i] : i \in DOMAIN o}
  BY DEF BlockHandles, EntityHandles, MarkerHandles, Members, Ids
<1>13. Stored(d) \in SUBSET Nat
  <2>1. Controls(d) \subseteq Nat /\ LayerHandles(d) \subseteq Nat
    BY <1>1, <1>2 DEF Controls, LayerHandles
  <2>2. BlockHandles(d) \subseteq Nat /\ MarkerHandles(d) \subseteq Nat
    BY <1>2 DEF BlockHandles, MarkerHandles
  <2>3. Members(d) \subseteq Nat
    BY <1>2 DEF Listed, Members
  <2>4. EntityHandles(d) \subseteq Nat /\ DOMAIN d.objs \subseteq Nat
        /\ Ids(d) \subseteq Nat
    BY <1>2 DEF EntityHandles, Ids
  <2>. QED
    BY <2>1, <2>2, <2>3, <2>4 DEF Stored
<1>. HIDE DEF h, b, l, e, o
<1>14. IsFiniteSet(Stored(d))
  <2>1. /\ IsFiniteSet(BlockHandles(d)) /\ IsFiniteSet(EntityHandles(d))
        /\ IsFiniteSet(MarkerHandles(d))
        /\ IsFiniteSet(Members(d))
        /\ IsFiniteSet(Ids(d))
    BY <1>4, <1>7, <1>8, <1>9, <1>10, <1>12, Zenon
  <2>2. \A S, T : IsFiniteSet(S) /\ IsFiniteSet(T) => IsFiniteSet(S \cup T)
    BY FS_Union
  <2>. QED
    BY <1>3, <1>11, <2>1, <2>2, Zenon DEF Stored
<1>15. Stored(d) # {}
  BY <1>11 DEF Stored
<1>. QED
  BY <1>13, <1>14, <1>15

\* The allocator is above every handle it looks at, and so is HANDSEED.
Above(d) == (\A h \in Stored(d) : h < d.next) /\ d.next <= d.seed

\* Stored is a matter of five fields.
LEMMA StoredSame ==
    ASSUME NEW d, NEW e, e.ctl = d.ctl, e.layers = d.layers, e.blocks = d.blocks,
           e.ents = d.ents, e.objs = d.objs
    PROVE  Stored(e) = Stored(d)
BY DEF Stored, Controls, LayerHandles, BlockHandles, MarkerHandles, EntityHandles, Members, Ids

\* A document with other counters is one.
LEMMA CountersDrawing ==
    ASSUME NEW d, Drawing(d), NEW n \in Nat \ {Null}, NEW s \in Nat
    PROVE  LET e == [d EXCEPT !.next = n, !.seed = s]
           IN Drawing(e) /\ Fields(e) /\ e.next = n /\ e.seed = s /\ Stored(e) = Stored(d)
<1>. DEFINE e == [d EXCEPT !.next = n, !.seed = s]
<1>1. Fields(d)
  BY DEF Drawing, Fields
<1>0. e = [d EXCEPT !.next = n, !.seed = s]
  OBVIOUS
<1>. HIDE DEF e
<1>2. /\ Fields(e) /\ e.next = n /\ e.seed = s /\ e.ctl = d.ctl /\ e.layers = d.layers
      /\ e.blocks = d.blocks /\ e.ents = d.ents /\ e.index = d.index /\ e.objs = d.objs
      /\ e.xdicOf = d.xdicOf /\ e.dict = d.dict /\ e.model = d.model /\ e.paper = d.paper
  BY <1>0, <1>1 DEF Fields
<1>3. Drawing(e)
  BY <1>2 DEF Drawing, Fields
<1>4. Stored(e) = Stored(d)
  BY <1>2, StoredSame
<1>. QED
  BY <1>2, <1>3, <1>4 DEF e

\* What synchronize_handle_allocator leaves.
LEMMA SyncIs ==
    ASSUME NEW d, Drawing(d)
    PROVE  LET e == Synchronize(d)
           IN /\ Drawing(e) /\ Above(e) /\ Stored(e) = Stored(d)
              /\ e = [d EXCEPT !.next = e.next, !.seed = e.seed]
              /\ d.next <= e.next
<1>. DEFINE top == Highest(Stored(d)) + 1
            n == Larger(d.next, top)
            s == Larger(d.seed, n)
            e == [d EXCEPT !.next = n, !.seed = s]
<1>1. Stored(d) \in SUBSET Nat /\ top \in Nat /\ \A h \in Stored(d) : h < top
  <2>1. Stored(d) \in SUBSET Nat /\ IsFiniteSet(Stored(d)) /\ Stored(d) # {}
    BY StoredFinite
  <2>2. Highest(Stored(d)) \in Stored(d) /\ \A y \in Stored(d) : y <= Highest(Stored(d))
    BY <2>1, HighestIs
  <2>. QED
    BY <2>1, <2>2
<1>. HIDE DEF top
<1>2. d.next \in Nat \ {Null} /\ d.seed \in Nat
  BY DEF Drawing
<1>3. /\ n \in Nat \ {Null} /\ s \in Nat /\ n <= s /\ d.next <= n
      /\ \A h \in Stored(d) : h < n
  BY <1>1, <1>2 DEF Larger, Null
<1>4. Synchronize(d) = e
  <2>1. Fields(d)
    BY DEF Drawing, Fields
  <2>2. Synchronize(d) = [d EXCEPT !.next = n, !.seed = Larger(d.seed, n)]
    BY <2>1 DEF Synchronize, Advanced, top, Fields
  <2>. QED
    BY <2>2
<1>. HIDE DEF n, s
<1>5. Drawing(e) /\ Fields(e) /\ e.next = n /\ e.seed = s /\ Stored(e) = Stored(d)
  BY <1>3, CountersDrawing
<1>. HIDE DEF e
<1>6. e = [d EXCEPT !.next = e.next, !.seed = e.seed]
  BY <1>5 DEF e
<1>7. Above(e) /\ d.next <= e.next
  BY <1>3, <1>5 DEF Above
<1>. QED
  BY <1>4, <1>5, <1>6, <1>7

\* It leaves alone what is in order.
LEMMA SyncStable ==
    ASSUME NEW d, Drawing(d), Above(d)
    PROVE  Synchronize(d) = d
<1>1. /\ Stored(d) \in SUBSET Nat /\ d.next \in Nat \ {Null} /\ d.seed \in Nat
      /\ Highest(Stored(d)) \in Stored(d)
  <2>1. Stored(d) \in SUBSET Nat /\ IsFiniteSet(Stored(d)) /\ Stored(d) # {}
    BY StoredFinite
  <2>. QED
    BY <2>1, HighestIs DEF Drawing
<1>2. Larger(d.next, Highest(Stored(d)) + 1) = d.next /\ Larger(d.seed, d.next) = d.seed
  BY <1>1 DEF Above, Larger
<1>3. Fields(d)
  BY DEF Drawing, Fields
<1>. QED
  BY <1>2, <1>3 DEF Synchronize, Advanced, Fields

-----------------------------------------------------------------------------
(* The recursions of the passes.                                           *)

\* One step of the pass `what`, which looks at the set `some`.
Step(what, some, x, i) ==
    IF what = "layers" THEN AssignLayer(x, i)
    ELSE IF what = "blocks" THEN AssignBlock(x, i)
    ELSE IF what = "markers" THEN PlaceMarker(PlaceMarker(x, i, "begin"), i, "end")
    ELSE IF i \in some THEN AssignEntity(x, i) ELSE x

\* f is what the pass makes of x in its first n steps.
Runs(f, what, some, x, n) ==
    f = [i \in 0 .. n |-> IF i = 0 THEN x ELSE Step(what, some, f[i - 1], i)]

LEMMA RunsAt ==
    ASSUME NEW f, NEW what, NEW some, NEW x, NEW n \in Nat, Runs(f, what, some, x, n)
    PROVE  f[0] = x /\ \A i \in 1 .. n : f[i] = Step(what, some, f[i - 1], i)
<1>. DEFINE g == [i \in 0 .. n |-> IF i = 0 THEN x ELSE Step(what, some, f[i - 1], i)]
<1>1. g[0] = x /\ \A i \in 1 .. n : g[i] = Step(what, some, f[i - 1], i)
  OBVIOUS
<1>2. f = g
  BY DEF Runs
<1>. HIDE DEF g
<1>. QED
  BY <1>1, <1>2

LEMMA RunExists ==
    ASSUME NEW what, NEW some, NEW x, NEW n \in Nat
    PROVE  \E f : Runs(f, what, some, x, n)
<1>. DEFINE S == {m \in Nat : \E f : Runs(f, what, some, x, m)}
<1>1. 0 \in S
  <2>. DEFINE f == [i \in 0 .. 0 |-> x]
  <2>1. Runs(f, what, some, x, 0)
    BY DEF Runs
  <2>. HIDE DEF f
  <2>. QED
    BY <2>1
<1>2. ASSUME NEW m \in Nat, m \in S PROVE m + 1 \in S
  <2>1. PICK f : Runs(f, what, some, x, m)
    BY <1>2
  <2>2. f[0] = x /\ \A i \in 1 .. m : f[i] = Step(what, some, f[i - 1], i)
    BY <2>1, RunsAt
  <2>. DEFINE y == Step(what, some, f[m], m + 1)
              g == [i \in 0 .. m + 1 |-> IF i <= m THEN f[i] ELSE y]
              G == [i \in 0 .. m + 1 |-> IF i = 0 THEN x ELSE Step(what, some, g[i - 1], i)]
  <2>3. /\ g = [i \in 0 .. m + 1 |-> g[i]] /\ g[m + 1] = y /\ (m + 1) - 1 = m
        /\ \A i \in 0 .. m : g[i] = f[i]
    OBVIOUS
  <2>4. /\ G = [i \in 0 .. m + 1 |-> G[i]] /\ G[0] = x
        /\ \A i \in 1 .. m + 1 : G[i] = Step(what, some, g[i - 1], i)
    OBVIOUS
  <2>5. y = Step(what, some, f[m], m + 1)
    OBVIOUS
  <2>. HIDE DEF g, y
  <2>6. ASSUME NEW i \in 0 .. m + 1 PROVE g[i] = G[i]
    <3>. HIDE DEF G
    <3>1. CASE i = 0
      BY <2>2, <2>3, <2>4, <3>1
    <3>2. CASE i \in 1 .. m
      <4>1. i - 1 \in 0 .. m /\ i \in 0 .. m /\ i \in 1 .. m + 1
        BY <3>2
      <4>2. g[i] = f[i] /\ g[i - 1] = f[i - 1]
        BY <2>3, <4>1
      <4>3. g[i] = Step(what, some, g[i - 1], i)
        BY <2>2, <3>2, <4>2
      <4>. QED
        BY <2>4, <4>1, <4>3
    <3>3. CASE i = m + 1
      <4>1. m \in 0 .. m /\ m + 1 \in 1 .. m + 1
        OBVIOUS
      <4>2. G[i] = Step(what, some, f[m], m + 1)
        BY <2>3, <2>4, <3>3, <4>1
      <4>. QED
        BY <2>3, <2>5, <3>3, <4>2
    <3>. QED
      BY <3>1, <3>2, <3>3
  <2>7. g = G
    <3>. HIDE DEF G
    <3>. QED
      BY <2>3, <2>4, <2>6
  <2>8. Runs(g, what, some, x, m + 1)
    BY <2>7 DEF Runs
  <2>. QED
    BY <2>8
<1>. HIDE DEF S
<1>3. Nat \subseteq S
  BY <1>1, <1>2, NatSetInduction
<1>. QED
  BY <1>3 DEF S

\* The passes are such runs.
LayerRun(f, d) == Runs(f, "layers", {}, d, Len(d.layers))
BlockRun(f, d, x) == Runs(f, "blocks", {}, x, Len(d.blocks))
MarkerRun(f, d) ==
    Runs(f, "markers", {}, [d |-> d, used |-> Used(d) \cup (Controls(d) \ {Null})], Len(d.blocks))
EntityRun(f, d) == Runs(f, "entities", NullEntities(d), d, Len(d.ents))

LEMMA TablesRun ==
    ASSUME NEW d, Len(d.layers) \in Nat, Len(d.blocks) \in Nat
    PROVE  \E f, g : /\ LayerRun(f, d) /\ BlockRun(g, d, f[Len(d.layers)])
                     /\ AssignTables(d) = g[Len(d.blocks)]
<1>. DEFINE L(f) == f = [i \in 0 .. Len(d.layers) |-> IF i = 0 THEN d ELSE AssignLayer(f[i - 1], i)]
            l == CHOOSE f : L(f)
            B(f) == f = [i \in 0 .. Len(d.blocks) |->
                           IF i = 0 THEN l[Len(d.layers)] ELSE AssignBlock(f[i - 1], i)]
            b == CHOOSE f : B(f)
<1>1. AssignTables(d) = b[Len(d.blocks)]
  BY DEF AssignTables
<1>2. \A f : L(f) <=> LayerRun(f, d)
  BY DEF LayerRun, Runs, Step
<1>3. \A f : B(f) <=> BlockRun(f, d, l[Len(d.layers)])
  BY DEF BlockRun, Runs, Step
<1>4. \E f : LayerRun(f, d)
  BY RunExists DEF LayerRun
<1>5. \E f : BlockRun(f, d, l[Len(d.layers)])
  BY RunExists DEF BlockRun
<1>. HIDE DEF L, B
<1>6. L(l) /\ B(b)
  <2>1. \E f : L(f)
    BY <1>2, <1>4
  <2>2. \E f : B(f)
    BY <1>3, <1>5
  <2>. QED
    BY <2>1, <2>2
<1>. HIDE DEF l, b
<1>7. LayerRun(l, d) /\ BlockRun(b, d, l[Len(d.layers)])
  BY <1>2, <1>3, <1>6
<1>. QED
  BY <1>1, <1>7

LEMMA MarkersRun ==
    ASSUME NEW d, Len(d.blocks) \in Nat
    PROVE  \E f : MarkerRun(f, d) /\ MoveMarkers(d) = f[Len(d.blocks)].d
<1>. DEFINE B(f) == f = [b \in 0 .. Len(d.blocks) |->
                IF b = 0
                THEN [d |-> d, used |-> Used(d) \cup (Controls(d) \ {Null})]
                ELSE PlaceMarker(PlaceMarker(f[b - 1], b, "begin"), b, "end")]
            p == CHOOSE f : B(f)
<1>1. MoveMarkers(d) = p[Len(d.blocks)].d
  BY DEF MoveMarkers
<1>2. \A f : B(f) <=> MarkerRun(f, d)
  BY DEF MarkerRun, Runs, Step
<1>3. \E f : MarkerRun(f, d)
  BY RunExists DEF MarkerRun
<1>. HIDE DEF B
<1>4. B(p)
  <2>1. \E f : B(f)
    BY <1>2, <1>3
  <2>. QED
    BY <2>1
<1>. HIDE DEF p
<1>5. MarkerRun(p, d)
  BY <1>2, <1>4
<1>. QED
  BY <1>1, <1>5

LEMMA EntitiesRun ==
    ASSUME NEW d, Len(d.ents) \in Nat
    PROVE  \E f : EntityRun(f, d) /\ AssignEntities(d) = f[Len(d.ents)]
<1>. DEFINE B(f) == f = [i \in 0 .. Len(d.ents) |->
                IF i = 0 THEN d
                ELSE IF i \in NullEntities(d) THEN AssignEntity(f[i - 1], i)
                ELSE f[i - 1]]
            p == CHOOSE f : B(f)
<1>1. AssignEntities(d) = p[Len(d.ents)]
  BY DEF AssignEntities
<1>2. \A f : B(f) <=> EntityRun(f, d)
  BY DEF EntityRun, Runs, Step
<1>3. \E f : EntityRun(f, d)
  BY RunExists DEF EntityRun
<1>. HIDE DEF B
<1>4. B(p)
  <2>1. \E f : B(f)
    BY <1>2, <1>3
  <2>. QED
    BY <2>1
<1>. HIDE DEF p
<1>5. EntityRun(p, d)
  BY <1>2, <1>4
<1>. QED
  BY <1>1, <1>5

-----------------------------------------------------------------------------
(* Table entries without a handle.                                         *)

\* What allocate_handle gives is new, and the allocator is above it.
LEMMA TakenIs ==
    ASSUME NEW d, Drawing(d), Above(d)
    PROVE  LET e == Taken(d)
           IN /\ Drawing(e) /\ Fields(e) /\ Stored(e) = Stored(d) /\ d.next <= Fresh(d)
              /\ Fresh(d) \in Nat \ {Null} /\ \A h \in Stored(d) : h < Fresh(d)
              /\ e.next = Fresh(d) + 1 /\ e.seed = Fresh(d) + 1
              /\ e.ctl = d.ctl /\ e.layers = d.layers /\ e.blocks = d.blocks
              /\ e.ents = d.ents /\ e.index = d.index /\ e.objs = d.objs
              /\ e.xdicOf = d.xdicOf /\ e.dict = d.dict /\ e.model = d.model
              /\ e.paper = d.paper
<1>. DEFINE n == Fresh(d) + 1
            e == [d EXCEPT !.next = n, !.seed = n]
<1>1. d.next \in Nat \ {Null} /\ d.seed \in Nat /\ Stored(d) \in SUBSET Nat
  BY StoredFinite DEF Drawing
<1>2. Fresh(d) \in Nat \ {Null} /\ d.next <= Fresh(d) /\ \A h \in Stored(d) : h < Fresh(d)
  BY <1>1 DEF Fresh, Larger, Above, Null
<1>3. n \in Nat \ {Null} /\ n \in Nat
  BY <1>2 DEF Null
<1>4. Taken(d) = e
  BY DEF Taken
<1>5. n = Fresh(d) + 1
  OBVIOUS
<1>6. e = [d EXCEPT !.next = n, !.seed = n]
  OBVIOUS
<1>. HIDE DEF n
<1>7. Drawing(e) /\ Fields(e) /\ e.next = n /\ e.seed = n /\ Stored(e) = Stored(d)
  BY <1>3, CountersDrawing
<1>8. Fields(d)
  BY DEF Drawing, Fields
<1>. HIDE DEF e
<1>9. /\ e.ctl = d.ctl /\ e.layers = d.layers /\ e.blocks = d.blocks
      /\ e.ents = d.ents /\ e.index = d.index /\ e.objs = d.objs
      /\ e.xdicOf = d.xdicOf /\ e.dict = d.dict /\ e.model = d.model
      /\ e.paper = d.paper
  BY <1>6, <1>8 DEF Fields
<1>. QED
  BY <1>2, <1>4, <1>5, <1>7, <1>9

\* e is d with other layer handles, block records and counters.
TablesMayDiffer(e, d) ==
    /\ e.ctl = d.ctl /\ e.ents = d.ents /\ e.index = d.index /\ e.objs = d.objs
    /\ e.xdicOf = d.xdicOf /\ e.dict = d.dict /\ e.model = d.model
    /\ e.paper = d.paper /\ d.next <= e.next
    /\ DOMAIN e.layers = DOMAIN d.layers /\ DOMAIN e.blocks = DOMAIN d.blocks
    /\ \A i \in DOMAIN d.layers : d.layers[i] # Null => e.layers[i] = d.layers[i]
    /\ \A i \in DOMAIN d.blocks :
          /\ d.blocks[i].handle # Null => e.blocks[i].handle = d.blocks[i].handle
          /\ e.blocks[i].begin = d.blocks[i].begin /\ e.blocks[i].end = d.blocks[i].end
          /\ e.blocks[i].listed = d.blocks[i].listed

LEMMA LayerStep ==
    ASSUME NEW d, Drawing(d), Above(d), NEW i \in DOMAIN d.layers
    PROVE  LET e == AssignLayer(d, i)
           IN /\ Drawing(e) /\ Above(e) /\ TablesMayDiffer(e, d) /\ e.blocks = d.blocks
              /\ e.layers[i] # Null
<1>1. CASE d.layers[i] # Null
  <2>1. AssignLayer(d, i) = d
    BY <1>1 DEF AssignLayer
  <2>2. d.next <= d.next
    BY DEF Drawing
  <2>3. TablesMayDiffer(d, d)
    BY <2>2 DEF TablesMayDiffer
  <2>. QED
    BY <1>1, <2>1, <2>3
<1>2. CASE d.layers[i] = Null
  <2>. DEFINE t == Taken(d)
              h == Fresh(d)
              e == [t EXCEPT !.layers = [t.layers EXCEPT ![i] = h]]
  <2>1. AssignLayer(d, i) = e
    BY <1>2 DEF AssignLayer
  <2>2. /\ Drawing(t) /\ Fields(t) /\ h \in Nat \ {Null} /\ d.next <= h
        /\ (\A g \in Stored(d) : g < h) /\ Stored(d) \in SUBSET Nat
        /\ t.next = h + 1 /\ t.seed = h + 1
        /\ t.ctl = d.ctl /\ t.layers = d.layers /\ t.blocks = d.blocks
        /\ t.ents = d.ents /\ t.index = d.index /\ t.objs = d.objs
        /\ t.xdicOf = d.xdicOf /\ t.dict = d.dict /\ t.model = d.model
        /\ t.paper = d.paper
    BY TakenIs, StoredFinite
  <2>3. e = [t EXCEPT !.layers = [t.layers EXCEPT ![i] = h]]
    OBVIOUS
  <2>. HIDE DEF t, e, h
  <2>4. /\ Fields(e) /\ e.layers = [d.layers EXCEPT ![i] = h]
        /\ e.next = h + 1 /\ e.seed = h + 1
        /\ e.ctl = d.ctl /\ e.blocks = d.blocks
        /\ e.ents = d.ents /\ e.index = d.index /\ e.objs = d.objs
        /\ e.xdicOf = d.xdicOf /\ e.dict = d.dict /\ e.model = d.model
        /\ e.paper = d.paper
    BY <2>2, <2>3 DEF Fields
  <2>5. /\ e.layers \in Seq(Nat) /\ DOMAIN e.layers = DOMAIN d.layers /\ e.layers[i] = h
        /\ \A j \in DOMAIN d.layers : j # i => e.layers[j] = d.layers[j]
    <3>1. d.layers \in Seq(Nat) /\ h \in Nat
      BY <2>2 DEF Drawing
    <3>. QED
      BY <2>4, <3>1
  <2>6. h + 1 \in Nat \ {Null} /\ h + 1 \in Nat /\ d.next <= h + 1
    BY <2>2 DEF Null, Drawing
  <2>7. Drawing(e)
    BY <2>4, <2>5, <2>6 DEF Drawing, Fields
  <2>8. Stored(e) \subseteq Stored(d) \cup {h}
    <3>1. LayerHandles(e) \subseteq LayerHandles(d) \cup {h}
      BY <2>5 DEF LayerHandles
    <3>2. /\ Controls(e) = Controls(d) /\ BlockHandles(e) = BlockHandles(d)
          /\ MarkerHandles(e) = MarkerHandles(d) /\ EntityHandles(e) = EntityHandles(d)
          /\ Members(e) = Members(d) /\ Ids(e) = Ids(d) /\ e.objs = d.objs
      BY <2>4 DEF Controls, BlockHandles, MarkerHandles, EntityHandles, Members, Ids
    <3>. QED
      BY <3>1, <3>2 DEF Stored
  <2>9. Above(e)
    <3>1. \A g \in Stored(e) : g < h + 1
      BY <2>2, <2>8
    <3>. QED
      BY <2>4, <2>6, <3>1 DEF Above
  <2>10. TablesMayDiffer(e, d)
    <3>1. \A j \in DOMAIN d.layers : d.layers[j] # Null => e.layers[j] = d.layers[j]
      BY <1>2, <2>5
    <3>. QED
      BY <2>4, <2>5, <2>6, <3>1 DEF TablesMayDiffer
  <2>11. e.layers[i] # Null
    BY <2>2, <2>5
  <2>. QED
    BY <2>1, <2>4, <2>7, <2>9, <2>10, <2>11
<1>. QED
  BY <1>1, <1>2

LEMMA BlockStep ==
    ASSUME NEW d, Drawing(d), Above(d), NEW i \in DOMAIN d.blocks
    PROVE  LET e == AssignBlock(d, i)
           IN /\ Drawing(e) /\ Above(e) /\ TablesMayDiffer(e, d) /\ e.layers = d.layers
              /\ e.blocks[i].handle # Null
<1>1. CASE d.blocks[i].handle # Null
  <2>1. AssignBlock(d, i) = d
    BY <1>1 DEF AssignBlock
  <2>2. d.next <= d.next
    BY DEF Drawing
  <2>3. TablesMayDiffer(d, d)
    BY <2>2 DEF TablesMayDiffer
  <2>. QED
    BY <1>1, <2>1, <2>3
<1>2. CASE d.blocks[i].handle = Null
  <2>. DEFINE t == Taken(d)
              h == Fresh(d)
              r == [t.blocks[i] EXCEPT !.handle = h]
              e == [t EXCEPT !.blocks = [t.blocks EXCEPT ![i] = r]]
  <2>1. AssignBlock(d, i) = e
    BY <1>2 DEF AssignBlock
  <2>2. /\ Drawing(t) /\ Fields(t) /\ h \in Nat \ {Null} /\ d.next <= h
        /\ (\A g \in Stored(d) : g < h) /\ Stored(d) \in SUBSET Nat
        /\ t.next = h + 1 /\ t.seed = h + 1
        /\ t.ctl = d.ctl /\ t.layers = d.layers /\ t.blocks = d.blocks
        /\ t.ents = d.ents /\ t.index = d.index /\ t.objs = d.objs
        /\ t.xdicOf = d.xdicOf /\ t.dict = d.dict /\ t.model = d.model
        /\ t.paper = d.paper
    BY TakenIs, StoredFinite
  <2>3. e = [t EXCEPT !.blocks = [t.blocks EXCEPT ![i] = r]]
    OBVIOUS
  <2>4. d.blocks \in Seq(BlockRecord) /\ d.blocks[i] \in BlockRecord
    <3>1. d.blocks \in Seq(BlockRecord)
      BY DEF Drawing
    <3>. QED
      BY <3>1
  <2>5. /\ r \in BlockRecord /\ r.handle = h /\ r.begin = d.blocks[i].begin
        /\ r.end = d.blocks[i].end /\ r.listed = d.blocks[i].listed
    <3>1. r = [d.blocks[i] EXCEPT !.handle = h]
      BY <2>2
    <3>2. \A b \in BlockRecord : LET c == [b EXCEPT !.handle = h]
             IN /\ c \in BlockRecord /\ c.handle = h /\ c.begin = b.begin
                /\ c.end = b.end /\ c.listed = b.listed
      <4>. HIDE DEF h
      <4>. QED
        BY <2>2 DEF BlockRecord
    <3>. HIDE DEF r, h
    <3>. QED
      BY <2>4, <3>1, <3>2, Zenon
  <2>. HIDE DEF t, e, h, r
  <2>6. /\ Fields(e) /\ e.blocks = [d.blocks EXCEPT ![i] = r]
        /\ e.next = h + 1 /\ e.seed = h + 1
        /\ e.ctl = d.ctl /\ e.layers = d.layers
        /\ e.ents = d.ents /\ e.index = d.index /\ e.objs = d.objs
        /\ e.xdicOf = d.xdicOf /\ e.dict = d.dict /\ e.model = d.model
        /\ e.paper = d.paper
    BY <2>2, <2>3 DEF Fields
  <2>7. /\ e.blocks \in Seq(BlockRecord) /\ DOMAIN e.blocks = DOMAIN d.blocks
        /\ e.blocks[i] = r /\ \A j \in DOMAIN d.blocks : j # i => e.blocks[j] = d.blocks[j]
    BY <2>4, <2>5, <2>6
  <2>8. h + 1 \in Nat \ {Null} /\ h + 1 \in Nat /\ d.next <= h + 1
    BY <2>2 DEF Null, Drawing
  <2>9. Drawing(e)
    BY <2>6, <2>7, <2>8 DEF Drawing, Fields
  <2>10. \A j \in DOMAIN d.blocks :
            /\ e.blocks[j].handle \in {d.blocks[j].handle, h}
            /\ e.blocks[j].begin = d.blocks[j].begin /\ e.blocks[j].end = d.blocks[j].end
            /\ e.blocks[j].listed = d.blocks[j].listed
    BY <2>5, <2>7
  <2>11. Stored(e) \subseteq Stored(d) \cup {h}
    <3>1. BlockHandles(e) \subseteq BlockHandles(d) \cup {h}
      BY <2>7, <2>10 DEF BlockHandles
    <3>2. MarkerHandles(e) \subseteq MarkerHandles(d) /\ Members(e) \subseteq Members(d)
      BY <2>7, <2>10 DEF MarkerHandles, Members, Listed
    <3>3. /\ Controls(e) = Controls(d) /\ LayerHandles(e) = LayerHandles(d)
          /\ EntityHandles(e) = EntityHandles(d) /\ Ids(e) = Ids(d) /\ e.objs = d.objs
      BY <2>6 DEF Controls, LayerHandles, EntityHandles, Ids
    <3>. QED
      BY <3>1, <3>2, <3>3 DEF Stored
  <2>12. Above(e)
    <3>1. \A g \in Stored(e) : g < h + 1
      BY <2>2, <2>11
    <3>. QED
      BY <2>6, <2>8, <3>1 DEF Above
  <2>13. TablesMayDiffer(e, d)
    <3>1. \A j \in DOMAIN d.blocks : d.blocks[j].handle # Null
              => e.blocks[j].handle = d.blocks[j].handle
      BY <1>2, <2>7
    <3>. QED
      BY <2>6, <2>7, <2>8, <2>10, <3>1 DEF TablesMayDiffer
  <2>14. e.blocks[i].handle # Null
    BY <2>2, <2>5, <2>7
  <2>. QED
    BY <2>1, <2>6, <2>9, <2>12, <2>13, <2>14
<1>. QED
  BY <1>1, <1>2

LEMMA TablesChain ==
    ASSUME NEW d, NEW e, NEW f, TablesMayDiffer(e, d), TablesMayDiffer(f, e),
           d.next \in Nat, e.next \in Nat, f.next \in Nat
    PROVE  TablesMayDiffer(f, d)
<1>1. d.next <= f.next
  BY DEF TablesMayDiffer
<1>2. \A i \in DOMAIN d.blocks :
          /\ d.blocks[i].handle # Null => f.blocks[i].handle = d.blocks[i].handle
          /\ f.blocks[i].begin = d.blocks[i].begin /\ f.blocks[i].end = d.blocks[i].end
          /\ f.blocks[i].listed = d.blocks[i].listed
  BY DEF TablesMayDiffer
<1>3. \A i \in DOMAIN d.layers : d.layers[i] # Null => f.layers[i] = d.layers[i]
  BY DEF TablesMayDiffer
<1>. QED
  BY <1>1, <1>2, <1>3 DEF TablesMayDiffer

\* No table entry is without a handle.
TablesNamed(d) == Null \notin LayerHandles(d) \cup BlockHandles(d)

\* What naming the table entries leaves.
LEMMA TablesAre ==
    ASSUME NEW d, Drawing(d), Above(d)
    PROVE  LET e == AssignTables(d)
           IN Drawing(e) /\ Above(e) /\ TablesMayDiffer(e, d) /\ TablesNamed(e)
<1>1. /\ Len(d.layers) \in Nat /\ DOMAIN d.layers = 1 .. Len(d.layers)
      /\ Len(d.blocks) \in Nat /\ DOMAIN d.blocks = 1 .. Len(d.blocks)
      /\ d.next \in Nat /\ d.next <= d.next
  BY DEF Drawing
<1>2. PICK f, g : /\ LayerRun(f, d) /\ BlockRun(g, d, f[Len(d.layers)])
                  /\ AssignTables(d) = g[Len(d.blocks)]
  BY <1>1, TablesRun
<1>. DEFINE m == Len(d.layers)
            n == Len(d.blocks)
            KeepsL(x, k) == /\ Drawing(x) /\ Above(x) /\ TablesMayDiffer(x, d)
                            /\ \A j \in 1 .. k : x.layers[j] # Null
            KeepsB(x, k) == /\ KeepsL(x, m)
                            /\ \A j \in 1 .. k : x.blocks[j].handle # Null
<1>3. f[0] = d /\ \A i \in 1 .. m : f[i] = AssignLayer(f[i - 1], i)
  BY <1>1, <1>2, RunsAt DEF LayerRun, Step
<1>4. KeepsL(f[m], m)
  <2>. DEFINE S == {k \in Nat : k <= m => KeepsL(f[k], k)}
  <2>1. 0 \in S
    <3>1. TablesMayDiffer(d, d)
      BY <1>1 DEF TablesMayDiffer
    <3>. QED
      BY <1>3, <3>1
  <2>2. ASSUME NEW k \in Nat, k \in S PROVE k + 1 \in S
    <3>. SUFFICES ASSUME k + 1 <= m PROVE KeepsL(f[k + 1], k + 1)
      OBVIOUS
    <3>. DEFINE x == f[k]
                e == AssignLayer(x, k + 1)
    <3>1. KeepsL(x, k) /\ k + 1 \in 1 .. m /\ (k + 1) - 1 = k
      BY <1>1, <2>2
    <3>2. f[k + 1] = e
      BY <1>3, <3>1
    <3>3. k + 1 \in DOMAIN x.layers
      BY <1>1, <3>1 DEF TablesMayDiffer
    <3>. HIDE DEF x
    <3>4. /\ Drawing(e) /\ Above(e) /\ TablesMayDiffer(e, x) /\ e.layers[k + 1] # Null
      BY <3>1, <3>3, LayerStep
    <3>. HIDE DEF e
    <3>5. TablesMayDiffer(e, d)
      <4>1. x.next \in Nat /\ e.next \in Nat
        BY <3>1, <3>4 DEF Drawing
      <4>. QED
        BY <1>1, <3>1, <3>4, <4>1, TablesChain
    <3>6. \A j \in 1 .. k + 1 : e.layers[j] # Null
      <4>1. \A j \in 1 .. k : x.layers[j] # Null /\ j \in DOMAIN x.layers
        BY <1>1, <3>1 DEF TablesMayDiffer
      <4>. QED
        BY <3>4, <4>1 DEF TablesMayDiffer
    <3>. QED
      BY <3>2, <3>4, <3>5, <3>6
  <2>. HIDE DEF S
  <2>3. Nat \subseteq S
    BY <2>1, <2>2, NatSetInduction
  <2>. QED
    BY <1>1, <2>3 DEF S
<1>5. g[0] = f[m] /\ \A i \in 1 .. n : g[i] = AssignBlock(g[i - 1], i)
  BY <1>1, <1>2, RunsAt DEF BlockRun, Step
<1>. HIDE DEF KeepsL
<1>6. KeepsB(g[n], n)
  <2>. DEFINE S == {k \in Nat : k <= n => KeepsB(g[k], k)}
  <2>1. 0 \in S
    BY <1>4, <1>5
  <2>2. ASSUME NEW k \in Nat, k \in S PROVE k + 1 \in S
    <3>. SUFFICES ASSUME k + 1 <= n PROVE KeepsB(g[k + 1], k + 1)
      OBVIOUS
    <3>. DEFINE x == g[k]
                e == AssignBlock(x, k + 1)
    <3>1. KeepsB(x, k) /\ k + 1 \in 1 .. n /\ (k + 1) - 1 = k
      BY <1>1, <2>2
    <3>2. g[k + 1] = e
      BY <1>5, <3>1
    <3>3. k + 1 \in DOMAIN x.blocks
      BY <1>1, <3>1 DEF TablesMayDiffer, KeepsL
    <3>. HIDE DEF x
    <3>4. /\ Drawing(e) /\ Above(e) /\ TablesMayDiffer(e, x) /\ e.layers = x.layers
          /\ e.blocks[k + 1].handle # Null
      BY <3>1, <3>3, BlockStep DEF KeepsL
    <3>. HIDE DEF e
    <3>5. KeepsL(e, m)
      <4>1. x.next \in Nat /\ e.next \in Nat
        BY <3>1, <3>4 DEF Drawing, KeepsL
      <4>2. TablesMayDiffer(e, d)
        BY <1>1, <3>1, <3>4, <4>1, TablesChain DEF KeepsL
      <4>. QED
        BY <3>1, <3>4, <4>2 DEF KeepsL
    <3>6. \A j \in 1 .. k + 1 : e.blocks[j].handle # Null
      <4>1. \A j \in 1 .. k : x.blocks[j].handle # Null /\ j \in DOMAIN x.blocks
        BY <1>1, <3>1 DEF TablesMayDiffer, KeepsL
      <4>. QED
        BY <3>4, <4>1 DEF TablesMayDiffer
    <3>. QED
      BY <3>2, <3>5, <3>6
  <2>. HIDE DEF S
  <2>3. Nat \subseteq S
    BY <2>1, <2>2, NatSetInduction
  <2>. QED
    BY <1>1, <2>3 DEF S
<1>7. TablesNamed(AssignTables(d))
  <2>. DEFINE e == AssignTables(d)
  <2>1. /\ DOMAIN e.layers = 1 .. m /\ DOMAIN e.blocks = 1 .. n
        /\ \A j \in 1 .. m : e.layers[j] # Null
        /\ \A j \in 1 .. n : e.blocks[j].handle # Null
    BY <1>1, <1>2, <1>6 DEF KeepsL, TablesMayDiffer
  <2>. HIDE DEF e
  <2>. QED
    BY <2>1 DEF TablesNamed, LayerHandles, BlockHandles, e
<1>. QED
  BY <1>2, <1>6, <1>7 DEF KeepsL

\* Tables that are named stay as they are.
LEMMA TablesStable ==
    ASSUME NEW d, Drawing(d), TablesNamed(d)
    PROVE  AssignTables(d) = d
<1>1. /\ Len(d.layers) \in Nat /\ DOMAIN d.layers = 1 .. Len(d.layers)
      /\ Len(d.blocks) \in Nat /\ DOMAIN d.blocks = 1 .. Len(d.blocks)
  BY DEF Drawing
<1>2. PICK f, g : /\ LayerRun(f, d) /\ BlockRun(g, d, f[Len(d.layers)])
                  /\ AssignTables(d) = g[Len(d.blocks)]
  BY <1>1, TablesRun
<1>. DEFINE m == Len(d.layers)
            n == Len(d.blocks)
<1>3. f[0] = d /\ \A i \in 1 .. m : f[i] = AssignLayer(f[i - 1], i)
  BY <1>1, <1>2, RunsAt DEF LayerRun, Step
<1>4. /\ \A i \in 1 .. m : AssignLayer(d, i) = d
      /\ \A i \in 1 .. n : AssignBlock(d, i) = d
  BY <1>1 DEF AssignLayer, AssignBlock, TablesNamed, LayerHandles, BlockHandles
<1>5. f[m] = d
  <2>. DEFINE S == {k \in Nat : k <= m => f[k] = d}
  <2>1. 0 \in S
    BY <1>3
  <2>2. ASSUME NEW k \in Nat, k \in S PROVE k + 1 \in S
    <3>1. k + 1 <= m => k + 1 \in 1 .. m /\ (k + 1) - 1 = k /\ f[k] = d
      BY <1>1, <2>2
    <3>. QED
      BY <1>3, <1>4, <3>1
  <2>. HIDE DEF S
  <2>3. Nat \subseteq S
    BY <2>1, <2>2, NatSetInduction
  <2>. QED
    BY <1>1, <2>3 DEF S
<1>6. g[0] = d /\ \A i \in 1 .. n : g[i] = AssignBlock(g[i - 1], i)
  BY <1>1, <1>2, <1>5, RunsAt DEF BlockRun, Step
<1>7. g[n] = d
  <2>. DEFINE S == {k \in Nat : k <= n => g[k] = d}
  <2>1. 0 \in S
    BY <1>6
  <2>2. ASSUME NEW k \in Nat, k \in S PROVE k + 1 \in S
    <3>1. k + 1 <= n => k + 1 \in 1 .. n /\ (k + 1) - 1 = k /\ g[k] = d
      BY <1>1, <2>2
    <3>. QED
      BY <1>4, <1>6, <3>1
  <2>. HIDE DEF S
  <2>3. Nat \subseteq S
    BY <2>1, <2>2, NatSetInduction
  <2>. QED
    BY <1>1, <2>3 DEF S
<1>. QED
  BY <1>2, <1>7

-----------------------------------------------------------------------------
(* Objects without a handle.                                               *)

\* The objects differ in their own handle at most.
SameObject(o, p) ==
    o.kind = p.kind /\ o.owner = p.owner /\ o.refs = p.refs /\ o.tag = p.tag

\* e is d with other objects' handles and counters; an object that had a key
\* keeps it.
ObjectsMayDiffer(e, d) ==
    /\ e.ctl = d.ctl /\ e.layers = d.layers /\ e.blocks = d.blocks
    /\ e.ents = d.ents /\ e.index = d.index
    /\ e.dict = d.dict /\ e.model = d.model
    /\ e.paper = d.paper /\ d.next <= e.next
    /\ DOMAIN d.objs \ {Null} \subseteq DOMAIN e.objs
    /\ \A l \in DOMAIN e.objs : \E k \in DOMAIN d.objs :
          /\ SameObject(e.objs[l], d.objs[k]) /\ (k # Null => l = k)
          /\ (k = Null /\ l # Null => l \notin DOMAIN d.objs)

LEMMA WithId ==
    ASSUME NEW o \in Object, NEW h \in Nat
    PROVE  LET p == [o EXCEPT !.id = h] IN p \in Object /\ p.id = h /\ SameObject(p, o)
BY DEF Object, SameObject

LEMMA NullObjectIs ==
    ASSUME NEW d, Drawing(d), Above(d)
    PROVE  LET e == AssignNullObject(d)
           IN /\ Drawing(e) /\ Above(e) /\ ObjectsMayDiffer(e, d) /\ e.xdicOf = d.xdicOf
              /\ Null \notin DOMAIN e.objs
              /\ \A k \in DOMAIN d.objs \ {Null} : e.objs[k] = d.objs[k]
              /\ \A k \in DOMAIN e.objs \ DOMAIN d.objs : e.objs[k].id = k
<1>1. CASE Null \notin DOMAIN d.objs
  <2>1. AssignNullObject(d) = d
    BY <1>1 DEF AssignNullObject
  <2>2. d.next <= d.next
    BY DEF Drawing
  <2>3. ObjectsMayDiffer(d, d)
    BY <1>1, <2>2 DEF ObjectsMayDiffer, SameObject
  <2>. QED
    BY <1>1, <2>1, <2>3
<1>2. CASE Null \in DOMAIN d.objs
  <2>. DEFINE t == Taken(d)
              h == Fresh(d)
              r == [d.objs[Null] EXCEPT !.id = h]
              keys == (DOMAIN d.objs \ {Null}) \cup {h}
              o == [x \in keys |-> IF x = h THEN r ELSE d.objs[x]]
              e == [t EXCEPT !.objs = o]
  <2>1. AssignNullObject(d) = e
    <3>1. t.objs = d.objs
      BY TakenIs
    <3>2. AssignNullObject(d) = [t EXCEPT !.objs = Rekeyed(t.objs, Null, h)]
      BY <1>2 DEF AssignNullObject
    <3>3. Rekeyed(d.objs, Null, h) = o
      BY DEF Rekeyed
    <3>. QED
      BY <3>1, <3>2, <3>3
  <2>2. /\ Drawing(t) /\ Fields(t) /\ h \in Nat \ {Null} /\ d.next <= h
        /\ (\A g \in Stored(d) : g < h) /\ Stored(d) \in SUBSET Nat
        /\ t.next = h + 1 /\ t.seed = h + 1
        /\ t.ctl = d.ctl /\ t.layers = d.layers /\ t.blocks = d.blocks
        /\ t.ents = d.ents /\ t.index = d.index /\ t.objs = d.objs
        /\ t.xdicOf = d.xdicOf /\ t.dict = d.dict /\ t.model = d.model
        /\ t.paper = d.paper
    BY TakenIs, StoredFinite
  <2>3. /\ MapFrom(d.objs, Nat) /\ \A k \in DOMAIN d.objs : k \in Nat /\ d.objs[k] \in Object
    BY DEF Drawing, MapFrom
  <2>4. r \in Object /\ r.id = h /\ SameObject(r, d.objs[Null])
    <3>1. d.objs[Null] \in Object /\ h \in Nat
      BY <1>2, <2>2, <2>3
    <3>. QED
      BY <3>1, WithId
  <2>5. h \notin DOMAIN d.objs
    <3>1. \A k \in DOMAIN d.objs : k < h
      BY <2>2 DEF Stored
    <3>. QED
      BY <2>2, <3>1
  <2>6. /\ DOMAIN o = keys /\ o = [x \in DOMAIN o |-> o[x]] /\ o[h] = r
        /\ \A k \in DOMAIN d.objs \ {Null} : o[k] = d.objs[k]
    BY <2>5
  <2>7. e = [t EXCEPT !.objs = o]
    OBVIOUS
  <2>8. IsFiniteSet(keys)
    <3>1. IsFiniteSet(DOMAIN d.objs)
      BY <2>3 DEF MapFrom
    <3>2. IsFiniteSet(DOMAIN d.objs \ {Null})
      BY <3>1, FS_Subset
    <3>. QED
      BY <3>2, FS_AddElement
  <2>9. keys = (DOMAIN d.objs \ {Null}) \cup {h}
    OBVIOUS
  <2>. HIDE DEF t, e, h, r, o, keys
  <2>10. /\ Fields(e) /\ e.objs = o
        /\ e.next = h + 1 /\ e.seed = h + 1
        /\ e.ctl = d.ctl /\ e.layers = d.layers /\ e.blocks = d.blocks
        /\ e.ents = d.ents /\ e.index = d.index
        /\ e.xdicOf = d.xdicOf /\ e.dict = d.dict /\ e.model = d.model
        /\ e.paper = d.paper
    BY <2>2, <2>7 DEF Fields
  <2>11. h + 1 \in Nat \ {Null} /\ h + 1 \in Nat /\ d.next <= h + 1
    BY <2>2 DEF Null, Drawing
  <2>12. MapFrom(o, Nat) /\ \A k \in DOMAIN o : o[k] \in Object
    <3>1. keys \subseteq Nat
      BY <2>2, <2>3, <2>9
    <3>2. \A k \in keys : o[k] \in Object
      BY <2>3, <2>4, <2>6, <2>9
    <3>. QED
      BY <2>6, <2>8, <3>1, <3>2 DEF MapFrom
  <2>13. Drawing(e)
    BY <2>10, <2>11, <2>12 DEF Drawing, Fields
  <2>14. Stored(e) \subseteq Stored(d) \cup {h}
    <3>1. DOMAIN e.objs \subseteq DOMAIN d.objs \cup {h}
      BY <2>6, <2>9, <2>10
    <3>2. Ids(e) \subseteq Ids(d) \cup {h}
      BY <2>4, <2>6, <2>9, <2>10 DEF Ids
    <3>3. /\ Controls(e) = Controls(d) /\ LayerHandles(e) = LayerHandles(d)
          /\ BlockHandles(e) = BlockHandles(d)
          /\ MarkerHandles(e) = MarkerHandles(d) /\ EntityHandles(e) = EntityHandles(d)
          /\ Members(e) = Members(d)
      BY <2>10 DEF Controls, LayerHandles, BlockHandles, MarkerHandles, EntityHandles, Members
    <3>. QED
      BY <3>1, <3>2, <3>3 DEF Stored
  <2>15. Above(e)
    <3>1. \A g \in Stored(e) : g < h + 1
      BY <2>2, <2>14
    <3>. QED
      BY <2>10, <2>11, <3>1 DEF Above
  <2>16. ObjectsMayDiffer(e, d)
    <3>1. \A l \in DOMAIN e.objs : \E k \in DOMAIN d.objs :
             /\ SameObject(e.objs[l], d.objs[k]) /\ (k # Null => l = k)
             /\ (k = Null /\ l # Null => l \notin DOMAIN d.objs)
      <4>1. \A l \in DOMAIN d.objs \ {Null} : SameObject(e.objs[l], d.objs[l])
        BY <2>6, <2>10 DEF SameObject
      <4>2. SameObject(e.objs[h], d.objs[Null])
        BY <2>4, <2>6, <2>10
      <4>. QED
        BY <1>2, <2>5, <2>6, <2>9, <2>10, <4>1, <4>2
    <3>2. DOMAIN d.objs \ {Null} \subseteq DOMAIN e.objs
      BY <2>6, <2>9, <2>10
    <3>. QED
      BY <2>10, <2>11, <3>1, <3>2 DEF ObjectsMayDiffer
  <2>17. /\ Null \notin DOMAIN e.objs
         /\ \A k \in DOMAIN d.objs \ {Null} : e.objs[k] = d.objs[k]
         /\ \A k \in DOMAIN e.objs \ DOMAIN d.objs : e.objs[k].id = k
    BY <2>2, <2>4, <2>6, <2>9, <2>10
  <2>. QED
    BY <2>1, <2>10, <2>13, <2>15, <2>16, <2>17
<1>. QED
  BY <1>1, <1>2

LEMMA AlignIs ==
    ASSUME NEW d, Drawing(d)
    PROVE  LET e == AlignObjects(d)
           IN /\ Drawing(e) /\ (Above(d) => Above(e)) /\ ObjectsMayDiffer(e, d)
              /\ e.xdicOf = d.xdicOf /\ e.next = d.next /\ e.seed = d.seed
              /\ DOMAIN e.objs = DOMAIN d.objs
              /\ \A k \in DOMAIN e.objs : SameObject(e.objs[k], d.objs[k])
              /\ Null \notin DOMAIN e.objs => Null \notin Ids(e)
<1>. DEFINE F(k) == IF d.objs[k].id = Null /\ k # Null
                    THEN [d.objs[k] EXCEPT !.id = k] ELSE d.objs[k]
            o == [k \in DOMAIN d.objs |-> F(k)]
            e == [d EXCEPT !.objs = o]
<1>1. AlignObjects(d) = e
  BY DEF AlignObjects
<1>2. /\ MapFrom(d.objs, Nat) /\ \A k \in DOMAIN d.objs : k \in Nat /\ d.objs[k] \in Object
  BY DEF Drawing, MapFrom
<1>3. \A k \in DOMAIN d.objs : /\ F(k) \in Object /\ SameObject(F(k), d.objs[k])
                               /\ F(k).id \in {k, d.objs[k].id}
                               /\ k # Null => F(k).id # Null
  <2>. TAKE k \in DOMAIN d.objs
  <2>1. k \in Nat /\ d.objs[k] \in Object
    BY <1>2
  <2>2. CASE d.objs[k].id = Null /\ k # Null
    <3>1. F(k) = [d.objs[k] EXCEPT !.id = k]
      BY <2>2
    <3>. HIDE DEF F
    <3>2. F(k) \in Object /\ F(k).id = k /\ SameObject(F(k), d.objs[k])
      BY <2>1, <3>1, WithId
    <3>. QED
      BY <2>2, <3>2
  <2>3. CASE ~(d.objs[k].id = Null /\ k # Null)
    <3>1. F(k) = d.objs[k]
      BY <2>3
    <3>. HIDE DEF F
    <3>2. SameObject(F(k), d.objs[k])
      BY <3>1 DEF SameObject
    <3>. QED
      BY <2>1, <2>3, <3>1, <3>2
  <2>. QED
    BY <2>2, <2>3
<1>4. /\ DOMAIN o = DOMAIN d.objs /\ o = [k \in DOMAIN o |-> o[k]]
      /\ \A k \in DOMAIN d.objs : o[k] = F(k)
  OBVIOUS
<1>5. e = [d EXCEPT !.objs = o] /\ Fields(d)
  BY DEF Drawing, Fields
<1>. HIDE DEF F, o, e
<1>6. /\ Fields(e) /\ e.objs = o
      /\ e.next = d.next /\ e.seed = d.seed
      /\ e.ctl = d.ctl /\ e.layers = d.layers /\ e.blocks = d.blocks
      /\ e.ents = d.ents /\ e.index = d.index
      /\ e.xdicOf = d.xdicOf /\ e.dict = d.dict /\ e.model = d.model
      /\ e.paper = d.paper
  BY <1>5 DEF Fields
<1>7. MapFrom(o, Nat) /\ \A k \in DOMAIN o : o[k] \in Object
  BY <1>2, <1>3, <1>4 DEF MapFrom
<1>8. Drawing(e)
  BY <1>6, <1>7 DEF Drawing, Fields
<1>9. Stored(e) \subseteq Stored(d)
  <2>1. DOMAIN e.objs = DOMAIN d.objs
    BY <1>4, <1>6
  <2>2. Ids(e) \subseteq Ids(d) \cup DOMAIN d.objs
    BY <1>3, <1>4, <1>6 DEF Ids
  <2>3. /\ Controls(e) = Controls(d) /\ LayerHandles(e) = LayerHandles(d)
        /\ BlockHandles(e) = BlockHandles(d)
        /\ MarkerHandles(e) = MarkerHandles(d) /\ EntityHandles(e) = EntityHandles(d)
        /\ Members(e) = Members(d)
    BY <1>6 DEF Controls, LayerHandles, BlockHandles, MarkerHandles, EntityHandles, Members
  <2>. QED
    BY <2>1, <2>2, <2>3 DEF Stored
<1>10. Above(d) => Above(e)
  BY <1>6, <1>9 DEF Above
<1>11. ObjectsMayDiffer(e, d)
  <2>1. \A l \in DOMAIN e.objs : \E k \in DOMAIN d.objs :
           /\ SameObject(e.objs[l], d.objs[k]) /\ (k # Null => l = k)
           /\ (k = Null /\ l # Null => l \notin DOMAIN d.objs)
    <3>1. \A l \in DOMAIN e.objs : l \in DOMAIN d.objs /\ SameObject(e.objs[l], d.objs[l])
      BY <1>3, <1>4, <1>6
    <3>. QED
      BY <3>1
  <2>2. d.next <= e.next
    BY <1>6 DEF Drawing
  <2>. QED
    BY <1>4, <1>6, <2>1, <2>2 DEF ObjectsMayDiffer
<1>12. Null \notin DOMAIN e.objs => Null \notin Ids(e)
  BY <1>3, <1>4, <1>6 DEF Ids
<1>. QED
  BY <1>1, <1>3, <1>4, <1>6, <1>8, <1>10, <1>11, <1>12

\* Objects that have their handles stay as they are.
LEMMA ObjectsStable ==
    ASSUME NEW d, Drawing(d), Null \notin DOMAIN d.objs \cup Ids(d)
    PROVE  AssignNullObject(d) = d /\ AlignObjects(d) = d /\ MoveNullObject(d) = d
<1>1. AssignNullObject(d) = d /\ MoveNullObject(d) = d
  BY DEF AssignNullObject, MoveNullObject
<1>2. Fields(d) /\ MapFrom(d.objs, Nat)
  BY DEF Drawing, Fields
<1>. DEFINE F(k) == IF d.objs[k].id = Null /\ k # Null
                    THEN [d.objs[k] EXCEPT !.id = k] ELSE d.objs[k]
            o == [k \in DOMAIN d.objs |-> F(k)]
<1>3. AlignObjects(d) = [d EXCEPT !.objs = o]
  BY DEF AlignObjects
<1>4. o = d.objs
  <2>1. \A k \in DOMAIN d.objs : F(k) = d.objs[k]
    BY DEF Ids
  <2>2. d.objs = [k \in DOMAIN d.objs |-> d.objs[k]]
    BY <1>2 DEF MapFrom
  <2>. HIDE DEF F
  <2>. QED
    BY <2>1, <2>2
<1>. HIDE DEF o
<1>5. AlignObjects(d) = d
  BY <1>2, <1>3, <1>4 DEF Fields
<1>. QED
  BY <1>1, <1>5

-----------------------------------------------------------------------------
(* Table controls.                                                         *)

\* The allocator is above every handle it looks at.
Below(d) == \A h \in Stored(d) : h < d.next

LEMMA UsedStored ==
    ASSUME NEW d
    PROVE  NonObjects(d) \subseteq Stored(d) /\ Used(d) \subseteq Stored(d)
<1>1. NonObjects(d) \subseteq Stored(d)
  BY DEF NonObjects, Stored, EntityHandles
<1>. QED
  BY <1>1 DEF Used, Stored

\* e is d with other controls and another allocator.
ControlsMayDiffer(e, d) ==
    /\ e.layers = d.layers /\ e.blocks = d.blocks /\ e.ents = d.ents
    /\ e.index = d.index /\ e.objs = d.objs /\ e.xdicOf = d.xdicOf
    /\ e.dict = d.dict /\ e.model = d.model /\ e.paper = d.paper
    /\ d.next <= e.next /\ e.seed = d.seed

LEMMA ControlStep ==
    ASSUME NEW d, Drawing(d), Below(d), NEW used \in SUBSET Stored(d),
           NEW t \in {"layer", "block"}
    PROVE  LET e == MoveControl(used, d, t)
           IN /\ Drawing(e) /\ Below(e) /\ ControlsMayDiffer(e, d)
              /\ e.ctl[t] \notin used
              /\ \A s \in {"layer", "block"} \ {t} : e.ctl[s] = d.ctl[s]
<1>1. CASE d.ctl[t] \notin used
  <2>1. MoveControl(used, d, t) = d
    BY <1>1 DEF MoveControl
  <2>2. d.next <= d.next
    BY DEF Drawing
  <2>. QED
    BY <1>1, <2>1, <2>2 DEF ControlsMayDiffer
<1>2. CASE d.ctl[t] \in used
  <2>. DEFINE n == d.next
              e == [d EXCEPT !.ctl = [d.ctl EXCEPT ![t] = n], !.next = n + 1]
  <2>0. Fields(d) /\ n \in Nat \ {Null} /\ d.ctl \in [layer : Nat, block : Nat]
    BY DEF Drawing, Fields
  <2>1. MoveControl(used, d, t) = e
    BY <1>2, <2>0 DEF MoveControl, Fields
  <2>2. e = [d EXCEPT !.ctl = [d.ctl EXCEPT ![t] = n], !.next = n + 1] /\ n = d.next
    OBVIOUS
  <2>. HIDE DEF e, n
  <2>3. /\ Fields(e) /\ e.ctl = [d.ctl EXCEPT ![t] = n] /\ e.next = n + 1
        /\ e.layers = d.layers /\ e.blocks = d.blocks /\ e.ents = d.ents
        /\ e.index = d.index /\ e.objs = d.objs /\ e.xdicOf = d.xdicOf
        /\ e.dict = d.dict /\ e.model = d.model /\ e.paper = d.paper /\ e.seed = d.seed
    BY <2>0, <2>2 DEF Fields
  <2>4. /\ e.ctl \in [layer : Nat, block : Nat] /\ e.ctl[t] = n
        /\ \A s \in {"layer", "block"} \ {t} : e.ctl[s] = d.ctl[s]
    BY <2>0, <2>3
  <2>5. n + 1 \in Nat \ {Null} /\ n <= n + 1
    BY <2>0 DEF Null
  <2>6. Drawing(e)
    BY <2>3, <2>4, <2>5 DEF Drawing, Fields
  <2>7. Stored(e) \subseteq Stored(d) \cup {n}
    <3>1. Controls(e) \subseteq Controls(d) \cup {n}
      BY <2>4 DEF Controls
    <3>2. /\ LayerHandles(e) = LayerHandles(d)
          /\ BlockHandles(e) = BlockHandles(d) /\ Ids(e) = Ids(d)
          /\ MarkerHandles(e) = MarkerHandles(d) /\ EntityHandles(e) = EntityHandles(d)
          /\ Members(e) = Members(d) /\ e.objs = d.objs
      BY <2>3 DEF LayerHandles, BlockHandles, MarkerHandles, EntityHandles, Members, Ids
    <3>. QED
      BY <3>1, <3>2 DEF Stored
  <2>8. Below(e) /\ n \notin used
    <3>1. \A h \in Stored(d) : h < n /\ h \in Nat
      BY <2>2, StoredFinite DEF Below
    <3>2. \A h \in Stored(e) : h < n + 1
      BY <2>0, <2>7, <3>1
    <3>. QED
      BY <2>0, <2>3, <3>1, <3>2 DEF Below
  <2>9. ControlsMayDiffer(e, d)
    BY <2>2, <2>3, <2>5 DEF ControlsMayDiffer
  <2>. QED
    BY <2>1, <2>4, <2>6, <2>8, <2>9
<1>. QED
  BY <1>1, <1>2

LEMMA ControlsAre ==
    ASSUME NEW d, Drawing(d), Below(d)
    PROVE  LET e == MoveControls(d)
           IN /\ Drawing(e) /\ Below(e) /\ ControlsMayDiffer(e, d)
              /\ Used(e) = Used(d) /\ Controls(e) \cap Used(e) = {}
<1>. DEFINE used == Used(d)
            m == MoveControl(used, d, "layer")
            e == MoveControl(used, m, "block")
<1>1. MoveControls(d) = e /\ used \in SUBSET Stored(d) /\ used = Used(d)
  BY UsedStored DEF MoveControls
<1>. HIDE DEF used
<1>2. /\ Drawing(m) /\ Below(m) /\ ControlsMayDiffer(m, d)
      /\ m.ctl["layer"] \notin used
  BY <1>1, ControlStep
<1>. HIDE DEF m
<1>3. Used(m) = used
  BY <1>1, <1>2 DEF ControlsMayDiffer, Used, NonObjects, LayerHandles, BlockHandles
<1>4. used \in SUBSET Stored(m)
  BY <1>3, UsedStored
<1>5. /\ Drawing(e) /\ Below(e) /\ ControlsMayDiffer(e, m)
      /\ e.ctl["block"] \notin used /\ e.ctl["layer"] = m.ctl["layer"]
  BY <1>2, <1>4, ControlStep
<1>. HIDE DEF e
<1>6. ControlsMayDiffer(e, d)
  <2>1. d.next \in Nat /\ m.next \in Nat /\ e.next \in Nat
    BY <1>2, <1>5 DEF Drawing
  <2>. QED
    BY <1>2, <1>5, <2>1 DEF ControlsMayDiffer
<1>7. Used(e) = used
  BY <1>1, <1>6 DEF ControlsMayDiffer, Used, NonObjects, LayerHandles, BlockHandles
<1>8. Controls(e) \cap used = {}
  BY <1>2, <1>5 DEF Controls
<1>. QED
  BY <1>1, <1>5, <1>6, <1>7, <1>8

\* Controls apart from the records stay as they are.
LEMMA ControlsStable ==
    ASSUME NEW d, Controls(d) \cap Used(d) = {}
    PROVE  MoveControls(d) = d
BY DEF MoveControls, MoveControl, Controls

-----------------------------------------------------------------------------
(* Markers of the block records.                                           *)

\* The index leads back to the slots, and every slot is indexed.
IndexSound(d) ==
    /\ \A h \in DOMAIN d.index : d.index[h] \in DOMAIN d.ents /\ d.ents[d.index[h]].handle = h
    /\ \A i \in DOMAIN d.ents : d.ents[i].handle \in DOMAIN d.index
                                /\ d.index[d.ents[i].handle] = i

LEMMA IndexSoundIs ==
    ASSUME NEW d
    PROVE  IndexIssues(d) = {} <=> IndexSound(d)
BY DEF IndexIssues, IndexSound

\* Entity e is entity g with another handle and owner.
EntityKept(e, g) ==
    e.kind = g.kind /\ e.nested = g.nested /\ e.mode = g.mode /\ e.xdic = g.xdic

LEMMA WithHandle ==
    ASSUME NEW g \in Entity, NEW h \in Nat, NEW w \in Nat
    PROVE  LET e == [g EXCEPT !.handle = h, !.owner = w]
           IN e \in Entity /\ e.handle = h /\ e.owner = w /\ EntityKept(e, g)
BY DEF Entity, EntityKept

LEMMA EntityType ==
    ASSUME NEW g \in Entity
    PROVE  /\ g.handle \in Nat /\ g.owner \in Nat /\ g.xdic \in Nat /\ g.mode \in 0 .. 2
           /\ g.nested \in SUBSET Nat
BY DEF Entity

\* e is d with other handles and owners of marker entities, and another index.
SlotsMayDiffer(e, d) ==
    /\ DOMAIN e.ents = DOMAIN d.ents
    /\ \A i \in DOMAIN d.ents :
          /\ EntityKept(e.ents[i], d.ents[i])
          /\ ~Marker(d.ents[i]) => e.ents[i] = d.ents[i]
          /\ e.ents[i].handle = d.ents[i].handle \/ e.ents[i].handle # Null
    /\ IndexSound(d) => IndexSound(e)

MovedFrom(e, d, new) ==
    /\ Drawing(e) /\ SlotsMayDiffer(e, d)
    /\ EntityHandles(e) \subseteq EntityHandles(d) \cup {new}
    /\ e.ctl = d.ctl /\ e.layers = d.layers /\ e.blocks = d.blocks
    /\ e.objs = d.objs /\ e.xdicOf = d.xdicOf /\ e.dict = d.dict
    /\ e.model = d.model /\ e.paper = d.paper
    /\ e.next = d.next /\ e.seed = d.seed

LEMMA MarkerMoved ==
    ASSUME NEW d, Drawing(d), NEW old, NEW new \in Nat \ {Null}, NEW owner \in Nat,
           NEW side \in {"begin", "end"}, new \notin EntityHandles(d)
    PROVE  MovedFrom(MoveMarker(d, old, new, owner, side), d, new)
<1>0. /\ Fields(d) /\ d.ents \in Seq(Entity) /\ DOMAIN d.ents \subseteq Nat
      /\ MapFrom(d.index, Nat) /\ \A h \in DOMAIN d.index : d.index[h] \in DOMAIN d.ents
  BY DEF Drawing, Fields
<1>1. CASE old = Null \/ MarkerSlots(d, old, side) = {}
  <2>1. MoveMarker(d, old, new, owner, side) = d
    BY <1>1 DEF MoveMarker
  <2>2. SlotsMayDiffer(d, d)
    BY DEF SlotsMayDiffer, EntityKept
  <2>. QED
    BY <2>1, <2>2 DEF MovedFrom
<1>2. CASE ~(old = Null \/ MarkerSlots(d, old, side) = {})
  <2>. DEFINE slot == Lowest(MarkerSlots(d, old, side))
              others == {i \in DOMAIN d.ents \ {slot} : d.ents[i].handle = old}
              less == [h \in DOMAIN d.index \ {old} |-> d.index[h]]
              index == IF others # {} THEN With(d.index, old, Lowest(others)) ELSE less
              more == With(index, new, slot)
              r == [d.ents[slot] EXCEPT !.handle = new, !.owner = owner]
              e == [d EXCEPT !.ents[slot].handle = new, !.ents[slot].owner = owner,
                             !.index = more]
  <2>1. MoveMarker(d, old, new, owner, side) = e
    BY <1>2 DEF MoveMarker
  <2>2. /\ slot \in DOMAIN d.ents /\ d.ents[slot].handle = old
        /\ d.ents[slot].kind = side /\ Marker(d.ents[slot])
    <3>1. MarkerSlots(d, old, side) \in SUBSET Nat
      BY <1>0 DEF MarkerSlots
    <3>2. slot \in MarkerSlots(d, old, side)
      BY <1>2, <3>1, LowestIs
    <3>. QED
      BY <3>2 DEF MarkerSlots, Marker
  <2>3. d.ents[slot] \in Entity /\ old \in Nat
    BY <1>0, <2>2, EntityType
  <2>4. r \in Entity /\ r.handle = new /\ r.owner = owner /\ EntityKept(r, d.ents[slot])
    BY <2>3, WithHandle
  <2>5. others # {} => Lowest(others) \in DOMAIN d.ents
    <3>1. others \in SUBSET Nat
      BY <1>0
    <3>. QED
      BY <3>1, LowestIs
  <2>6. /\ MapFrom(index, Nat) /\ \A h \in DOMAIN index : index[h] \in DOMAIN d.ents
        /\ DOMAIN index \subseteq DOMAIN d.index \cup {old}
    <3>1. IsFiniteSet(DOMAIN d.index) /\ DOMAIN d.index \subseteq Nat
      BY <1>0 DEF MapFrom
    <3>2. CASE others # {}
      <4>1. index = [x \in DOMAIN d.index \cup {old} |->
                        IF x = old THEN Lowest(others) ELSE d.index[x]]
        BY <3>2 DEF With
      <4>2. IsFiniteSet(DOMAIN d.index \cup {old})
        BY <3>1, FS_AddElement
      <4>. HIDE DEF index, others
      <4>3. index = [x \in DOMAIN index |-> index[x]] /\ DOMAIN index = DOMAIN d.index \cup {old}
        BY <4>1
      <4>4. \A h \in DOMAIN index : index[h] \in DOMAIN d.ents
        BY <1>0, <2>5, <3>2, <4>1
      <4>. QED
        BY <2>3, <3>1, <4>2, <4>3, <4>4 DEF MapFrom
    <3>3. CASE others = {}
      <4>1. index = [x \in DOMAIN d.index \ {old} |-> d.index[x]]
        BY <3>3
      <4>2. IsFiniteSet(DOMAIN d.index \ {old})
        BY <3>1, FS_Subset
      <4>. HIDE DEF index, others
      <4>3. index = [x \in DOMAIN index |-> index[x]] /\ DOMAIN index = DOMAIN d.index \ {old}
        BY <4>1
      <4>. QED
        BY <1>0, <3>1, <4>1, <4>2, <4>3 DEF MapFrom
    <3>. QED
      BY <3>2, <3>3
  <2>7. \/ others # {}
        \/ index = less /\ DOMAIN less = DOMAIN d.index \ {old}
           /\ \A h \in DOMAIN less : less[h] = d.index[h]
    OBVIOUS
  <2>8. others = {i \in DOMAIN d.ents \ {slot} : d.ents[i].handle = old}
    OBVIOUS
  <2>9. more = With(index, new, slot)
    OBVIOUS
  <2>10. r = [[d.ents[slot] EXCEPT !.handle = new] EXCEPT !.owner = owner]
    OBVIOUS
  <2>11. e = [d EXCEPT !.ents[slot].handle = new, !.ents[slot].owner = owner, !.index = more]
    OBVIOUS
  <2>. HIDE DEF index, others, less, slot, r, e, more
  <2>12. /\ DOMAIN more = DOMAIN index \cup {new} /\ more = [x \in DOMAIN more |-> more[x]]
         /\ \A x \in DOMAIN index \cup {new} : more[x] = IF x = new THEN slot ELSE index[x]
    BY <2>9 DEF With
  <2>13. MapFrom(more, Nat) /\ \A h \in DOMAIN more : more[h] \in DOMAIN d.ents
    <3>1. IsFiniteSet(DOMAIN index \cup {new})
      BY <2>6, FS_AddElement DEF MapFrom
    <3>2. DOMAIN more \subseteq Nat /\ IsFiniteSet(DOMAIN more)
      BY <2>6, <2>12, <3>1 DEF MapFrom
    <3>3. \A h \in DOMAIN more : more[h] \in DOMAIN d.ents
      BY <2>2, <2>6, <2>12
    <3>. QED
      BY <2>12, <3>2, <3>3 DEF MapFrom
  <2>14. e = [d EXCEPT !.ents = [d.ents EXCEPT ![slot] = r], !.index = more]
    <3>1. d.ents = [i \in DOMAIN d.ents |-> d.ents[i]]
      BY <1>0
    <3>2. [[d.ents EXCEPT ![slot] = [d.ents[slot] EXCEPT !.handle = new]]
              EXCEPT ![slot] = [[d.ents[slot] EXCEPT !.handle = new] EXCEPT !.owner = owner]]
          = [d.ents EXCEPT ![slot] = r]
      BY <2>2, <2>10, <3>1
    <3>3. e = [d EXCEPT !.ents = [[d.ents EXCEPT ![slot] = [d.ents[slot] EXCEPT !.handle = new]]
                 EXCEPT ![slot] = [[d.ents[slot] EXCEPT !.handle = new] EXCEPT !.owner = owner]],
                        !.index = more]
      BY <1>0, <2>2, <2>11, <3>1 DEF Fields
    <3>. QED
      BY <3>2, <3>3
  <2>15. /\ Fields(e) /\ e.ents = [d.ents EXCEPT ![slot] = r] /\ e.index = more
         /\ e.ctl = d.ctl /\ e.layers = d.layers /\ e.blocks = d.blocks
         /\ e.objs = d.objs /\ e.xdicOf = d.xdicOf /\ e.dict = d.dict
         /\ e.model = d.model /\ e.paper = d.paper
         /\ e.next = d.next /\ e.seed = d.seed
    BY <1>0, <2>14 DEF Fields
  <2>16. /\ e.ents \in Seq(Entity) /\ DOMAIN e.ents = DOMAIN d.ents /\ e.ents[slot] = r
         /\ \A i \in DOMAIN d.ents : i # slot => e.ents[i] = d.ents[i]
    BY <1>0, <2>2, <2>4, <2>15
  <2>17. Drawing(e)
    BY <2>13, <2>15, <2>16 DEF Drawing, Fields
  <2>18. EntityHandles(e) \subseteq EntityHandles(d) \cup {new}
    BY <2>4, <2>16 DEF EntityHandles
  <2>19. ASSUME IndexSound(d) PROVE IndexSound(e)
    <3>1. others = {}
      BY <2>2, <2>8, <2>19 DEF IndexSound
    <3>2. /\ DOMAIN index = DOMAIN d.index \ {old}
          /\ \A h \in DOMAIN index : index[h] = d.index[h]
      BY <2>7, <3>1
    <3>3. new \notin DOMAIN d.index /\ new # old
      BY <2>2, <2>19 DEF IndexSound, EntityHandles
    <3>4. ASSUME NEW h \in DOMAIN e.index
          PROVE  e.index[h] \in DOMAIN e.ents /\ e.ents[e.index[h]].handle = h
      <4>1. CASE h = new
        BY <2>2, <2>4, <2>12, <2>15, <2>16, <4>1
      <4>2. CASE h # new
        <5>1. h \in DOMAIN d.index /\ h # old /\ e.index[h] = d.index[h]
          BY <2>12, <2>15, <3>2, <4>2
        <5>2. d.index[h] \in DOMAIN d.ents /\ d.ents[d.index[h]].handle = h
          BY <2>19, <5>1 DEF IndexSound
        <5>3. d.index[h] # slot
          BY <2>2, <5>1, <5>2
        <5>. QED
          BY <2>16, <5>1, <5>2, <5>3
      <4>. QED
        BY <4>1, <4>2
    <3>5. ASSUME NEW i \in DOMAIN e.ents
          PROVE  e.ents[i].handle \in DOMAIN e.index /\ e.index[e.ents[i].handle] = i
      <4>1. CASE i = slot
        BY <2>4, <2>12, <2>15, <2>16, <4>1
      <4>2. CASE i # slot
        <5>1. i \in DOMAIN d.ents /\ e.ents[i] = d.ents[i]
          BY <2>16, <4>2
        <5>2. d.ents[i].handle \in DOMAIN d.index /\ d.index[d.ents[i].handle] = i
          BY <2>19, <5>1 DEF IndexSound
        <5>3. d.ents[i].handle # old /\ d.ents[i].handle # new
          BY <2>2, <2>19, <3>3, <4>2, <5>2 DEF IndexSound
        <5>. QED
          BY <2>12, <2>15, <3>2, <5>1, <5>2, <5>3
      <4>. QED
        BY <4>1, <4>2
    <3>. QED
      BY <3>4, <3>5 DEF IndexSound
  <2>20. SlotsMayDiffer(e, d)
    <3>1. ASSUME NEW i \in DOMAIN d.ents
          PROVE  /\ EntityKept(e.ents[i], d.ents[i])
                 /\ ~Marker(d.ents[i]) => e.ents[i] = d.ents[i]
                 /\ e.ents[i].handle = d.ents[i].handle \/ e.ents[i].handle # Null
      <4>1. CASE i = slot
        BY <2>2, <2>4, <2>16, <4>1
      <4>2. CASE i # slot
        BY <2>16, <4>2 DEF EntityKept
      <4>. QED
        BY <4>1, <4>2
    <3>. QED
      BY <2>16, <2>19, <3>1 DEF SlotsMayDiffer
  <2>. QED
    BY <2>1, <2>15, <2>17, <2>18, <2>20 DEF MovedFrom
<1>. QED
  BY <1>1, <1>2

LEMMA SlotsChain ==
    ASSUME NEW d, NEW e, NEW f, SlotsMayDiffer(e, d), SlotsMayDiffer(f, e)
    PROVE  SlotsMayDiffer(f, d)
<1>1. DOMAIN f.ents = DOMAIN d.ents /\ DOMAIN e.ents = DOMAIN d.ents
      /\ (IndexSound(d) => IndexSound(f))
  BY DEF SlotsMayDiffer
<1>2. ASSUME NEW i \in DOMAIN d.ents
      PROVE  /\ EntityKept(f.ents[i], d.ents[i])
             /\ ~Marker(d.ents[i]) => f.ents[i] = d.ents[i]
             /\ f.ents[i].handle = d.ents[i].handle \/ f.ents[i].handle # Null
  <2>1. /\ EntityKept(e.ents[i], d.ents[i]) /\ EntityKept(f.ents[i], e.ents[i])
        /\ ~Marker(d.ents[i]) => e.ents[i] = d.ents[i]
        /\ ~Marker(e.ents[i]) => f.ents[i] = e.ents[i]
        /\ e.ents[i].handle = d.ents[i].handle \/ e.ents[i].handle # Null
        /\ f.ents[i].handle = e.ents[i].handle \/ f.ents[i].handle # Null
    BY <1>1 DEF SlotsMayDiffer
  <2>2. Marker(d.ents[i]) <=> Marker(e.ents[i])
    BY <2>1 DEF Marker, EntityKept
  <2>. QED
    BY <2>1, <2>2 DEF EntityKept
<1>. QED
  BY <1>1, <1>2 DEF SlotsMayDiffer

\* The handle of a marker of a block record.
MarkerOf(d, p) == d.blocks[p[1]][p[2]]

LEMMA MarkerOfIs ==
    ASSUME NEW d, Drawing(d), NEW p \in Places(d)
    PROVE  MarkerOf(d, p) \in MarkerHandles(d) /\ MarkerOf(d, p) \in Nat
<1>1. p[1] \in DOMAIN d.blocks /\ p[2] \in {"begin", "end"}
  BY DEF Places
<1>2. d.blocks[p[1]] \in BlockRecord
  BY <1>1 DEF Drawing
<1>3. d.blocks[p[1]].begin \in Nat /\ d.blocks[p[1]].end \in Nat
  BY <1>2 DEF BlockRecord
<1>4. MarkerOf(d, p) \in {d.blocks[p[1]].begin, d.blocks[p[1]].end}
  BY <1>1 DEF MarkerOf
<1>. QED
  BY <1>1, <1>3, <1>4 DEF MarkerHandles

\* e is d with other markers, their entities, the index and the allocator.
MarkersMayDiffer(e, d) ==
    /\ e.ctl = d.ctl /\ e.layers = d.layers /\ e.objs = d.objs /\ e.xdicOf = d.xdicOf
    /\ e.dict = d.dict /\ e.model = d.model /\ e.paper = d.paper
    /\ d.next <= e.next /\ e.seed = d.seed
    /\ DOMAIN e.blocks = DOMAIN d.blocks
    /\ \A i \in DOMAIN d.blocks : /\ e.blocks[i].handle = d.blocks[i].handle
                                  /\ e.blocks[i].listed = d.blocks[i].listed
    /\ SlotsMayDiffer(e, d)

LEMMA MarkersChain ==
    ASSUME NEW d, NEW e, NEW f, MarkersMayDiffer(e, d), MarkersMayDiffer(f, e),
           d.next \in Nat, e.next \in Nat, f.next \in Nat
    PROVE  MarkersMayDiffer(f, d)
<1>1. SlotsMayDiffer(f, d)
  BY SlotsChain DEF MarkersMayDiffer
<1>2. d.next <= f.next
  BY DEF MarkersMayDiffer
<1>. QED
  BY <1>1, <1>2 DEF MarkersMayDiffer

\* A marker of a record under the next number.
LEMMA RecordPlaced ==
    ASSUME NEW d, Drawing(d), Below(d), NEW b \in DOMAIN d.blocks,
           NEW side \in {"begin", "end"}
    PROVE  LET e == [d EXCEPT !.blocks[b][side] = d.next, !.next = @ + 1]
           IN /\ Drawing(e) /\ Below(e) /\ MarkersMayDiffer(e, d) /\ e.next = d.next + 1
              /\ EntityHandles(e) = EntityHandles(d)
              /\ MarkerOf(e, <<b, side>>) = d.next
              /\ \A p \in Places(d) \ {<<b, side>>} : MarkerOf(e, p) = MarkerOf(d, p)
<1>. DEFINE n == d.next
            r == [d.blocks[b] EXCEPT ![side] = n]
            e == [d EXCEPT !.blocks = [d.blocks EXCEPT ![b] = r], !.next = n + 1]
<1>1. /\ Fields(d) /\ n \in Nat \ {Null} /\ d.blocks \in Seq(BlockRecord)
      /\ d.blocks[b] \in BlockRecord
  <2>1. d.blocks \in Seq(BlockRecord)
    BY DEF Drawing
  <2>. QED
    BY <2>1 DEF Drawing, Fields
<1>2. [d EXCEPT !.blocks[b][side] = d.next, !.next = @ + 1] = e
  BY <1>1 DEF Fields
<1>3. /\ r \in BlockRecord /\ r.handle = d.blocks[b].handle /\ r.listed = d.blocks[b].listed
      /\ r[side] = n /\ \A s \in {"begin", "end"} \ {side} : r[s] = d.blocks[b][s]
  <2>1. n \in Nat
    BY <1>1
  <2>2. \A q \in BlockRecord :
           /\ LET x == [q EXCEPT !.begin = n]
              IN /\ x \in BlockRecord /\ x.handle = q.handle /\ x.listed = q.listed
                 /\ x.begin = n /\ x.end = q.end
           /\ LET x == [q EXCEPT !.end = n]
              IN /\ x \in BlockRecord /\ x.handle = q.handle /\ x.listed = q.listed
                 /\ x.end = n /\ x.begin = q.begin
    <3>. HIDE DEF n
    <3>. QED
      BY <2>1 DEF BlockRecord
  <2>3. CASE side = "begin"
    BY <1>1, <2>2, <2>3
  <2>4. CASE side = "end"
    BY <1>1, <2>2, <2>4
  <2>. QED
    BY <2>3, <2>4
<1>4. e = [d EXCEPT !.blocks = [d.blocks EXCEPT ![b] = r], !.next = n + 1] /\ n = d.next
  OBVIOUS
<1>. HIDE DEF n, r, e
<1>5. /\ Fields(e) /\ e.blocks = [d.blocks EXCEPT ![b] = r] /\ e.next = n + 1
      /\ e.ctl = d.ctl /\ e.layers = d.layers /\ e.ents = d.ents /\ e.index = d.index
      /\ e.objs = d.objs /\ e.xdicOf = d.xdicOf /\ e.dict = d.dict
      /\ e.model = d.model /\ e.paper = d.paper /\ e.seed = d.seed
  BY <1>1, <1>4 DEF Fields
<1>6. /\ e.blocks \in Seq(BlockRecord) /\ DOMAIN e.blocks = DOMAIN d.blocks
      /\ e.blocks[b] = r /\ \A i \in DOMAIN d.blocks : i # b => e.blocks[i] = d.blocks[i]
  BY <1>1, <1>3, <1>5
<1>7. n + 1 \in Nat \ {Null} /\ n <= n + 1
  BY <1>1 DEF Null
<1>8. Drawing(e)
  BY <1>5, <1>6, <1>7 DEF Drawing, Fields
<1>9. \A i \in DOMAIN d.blocks : /\ e.blocks[i].handle = d.blocks[i].handle
                                 /\ e.blocks[i].listed = d.blocks[i].listed
                                 /\ e.blocks[i].begin \in {d.blocks[i].begin, n}
                                 /\ e.blocks[i].end \in {d.blocks[i].end, n}
  BY <1>3, <1>6
<1>10. Stored(e) \subseteq Stored(d) \cup {n}
  <2>1. MarkerHandles(e) \subseteq MarkerHandles(d) \cup {n}
    BY <1>6, <1>9 DEF MarkerHandles
  <2>2. Members(e) \subseteq Members(d) /\ BlockHandles(e) \subseteq BlockHandles(d)
    BY <1>6, <1>9 DEF Members, Listed, BlockHandles
  <2>3. /\ Controls(e) = Controls(d) /\ LayerHandles(e) = LayerHandles(d)
        /\ EntityHandles(e) = EntityHandles(d) /\ Ids(e) = Ids(d) /\ e.objs = d.objs
    BY <1>5 DEF Controls, LayerHandles, EntityHandles, Ids
  <2>. QED
    BY <2>1, <2>2, <2>3 DEF Stored
<1>11. Below(e)
  <2>1. \A h \in Stored(d) : h < n /\ h \in Nat
    BY <1>4, StoredFinite DEF Below
  <2>2. \A h \in Stored(e) : h < n + 1
    BY <1>1, <1>10, <2>1
  <2>. QED
    BY <1>5, <2>2 DEF Below
<1>12. MarkersMayDiffer(e, d)
  <2>1. SlotsMayDiffer(e, d)
    BY <1>5 DEF SlotsMayDiffer, EntityKept, IndexSound
  <2>. QED
    BY <1>4, <1>5, <1>6, <1>7, <1>9, <2>1 DEF MarkersMayDiffer
<1>13. MarkerOf(e, <<b, side>>) = n
  BY <1>3, <1>6 DEF MarkerOf
<1>14. ASSUME NEW p \in Places(d) \ {<<b, side>>} PROVE MarkerOf(e, p) = MarkerOf(d, p)
  <2>1. p[1] \in DOMAIN d.blocks /\ p[2] \in {"begin", "end"} /\ p = <<p[1], p[2]>>
    BY DEF Places
  <2>2. CASE p[1] # b
    BY <1>6, <2>1, <2>2 DEF MarkerOf
  <2>3. CASE p[1] = b
    BY <1>3, <1>6, <2>1, <2>3 DEF MarkerOf
  <2>. QED
    BY <2>2, <2>3
<1>15. EntityHandles(e) = EntityHandles(d)
  BY <1>5 DEF EntityHandles
<1>. QED
  BY <1>2, <1>4, <1>5, <1>8, <1>11, <1>12, <1>13, <1>14, <1>15

\* The markers in `done` have handles of their own.
PlacedUpTo(acc, d, used, done) ==
    /\ Drawing(acc.d) /\ Below(acc.d) /\ MarkersMayDiffer(acc.d, d)
    /\ used \subseteq acc.used /\ acc.used \subseteq Nat
    /\ \A u \in acc.used : u < acc.d.next
    /\ \A p \in done : MarkerOf(acc.d, p) \in acc.used \ (used \cup {Null})
    /\ \A p, q \in done : MarkerOf(acc.d, p) = MarkerOf(acc.d, q) => p = q

LEMMA PlaceStep ==
    ASSUME NEW d, Drawing(d), NEW acc, NEW used, NEW done \in SUBSET Places(d),
           PlacedUpTo(acc, d, used, done),
           NEW b \in DOMAIN d.blocks, NEW side \in {"begin", "end"}, <<b, side>> \notin done
    PROVE  PlacedUpTo(PlaceMarker(acc, b, side), d, used, done \cup {<<b, side>>})
<1>. DEFINE x == acc.d
            n == x.next
            old == x.blocks[b][side]
            P(h) == [x EXCEPT !.blocks[b][side] = h, !.next = @ + 1]
            M(h) == MoveMarker(P(h), old, h, P(h).blocks[b].handle, side)
            placed == P(n)
            y == MoveMarker(placed, old, n, placed.blocks[b].handle, side)
            moves == old = Null \/ old \in acc.used
            all == done \cup {<<b, side>>}
<1>1. /\ Drawing(x) /\ Below(x) /\ MarkersMayDiffer(x, d)
      /\ used \subseteq acc.used /\ acc.used \subseteq Nat
      /\ \A u \in acc.used : u < n
      /\ \A p \in done : MarkerOf(x, p) \in acc.used \ (used \cup {Null})
      /\ \A p, q \in done : MarkerOf(x, p) = MarkerOf(x, q) => p = q
      /\ n \in Nat \ {Null} /\ n = x.next
  <2>1. Drawing(acc.d)
    BY DEF PlacedUpTo
  <2>. QED
    BY <2>1 DEF PlacedUpTo, Drawing
<1>2. b \in DOMAIN x.blocks /\ done \subseteq Places(x) /\ <<b, side>> \in Places(x)
  BY <1>1 DEF MarkersMayDiffer, Places
<1>3. /\ moves => PlaceMarker(acc, b, side) = [d |-> y, used |-> acc.used \cup {n}]
      /\ ~moves => PlaceMarker(acc, b, side) = [d |-> x, used |-> acc.used \cup {old}]
  <2>. DEFINE new == IF moves THEN n ELSE old
  <2>1. PlaceMarker(acc, b, side) = [d |-> IF moves THEN M(new) ELSE x,
                                     used |-> acc.used \cup {new}]
    BY Zenon DEF PlaceMarker
  <2>2. /\ moves => new = n
        /\ ~moves => new = old
    OBVIOUS
  <2>3. M(n) = y
    OBVIOUS
  <2>. HIDE DEF M, y, moves, new, n, old, x
  <2>. QED
    BY <2>1, <2>2, <2>3
<1>4. old = MarkerOf(x, <<b, side>>)
  BY DEF MarkerOf
<1>. HIDE DEF x, old
<1>4a. /\ Drawing(placed) /\ Below(placed) /\ MarkersMayDiffer(placed, x)
       /\ placed.next = n + 1 /\ EntityHandles(placed) = EntityHandles(x)
       /\ MarkerOf(placed, <<b, side>>) = n
       /\ \A p \in Places(x) \ {<<b, side>>} : MarkerOf(placed, p) = MarkerOf(x, p)
  BY <1>1, <1>2, RecordPlaced
<1>. HIDE DEF n, placed
<1>5. CASE ~moves
  <2>. DEFINE r == [d |-> x, used |-> acc.used \cup {old}]
  <2>1. PlaceMarker(acc, b, side) = r
    BY <1>3, <1>5
  <2>2. r.d = x /\ r.used = acc.used \cup {old}
    OBVIOUS
  <2>3. old \in Nat /\ old < n
    <3>1. old \in MarkerHandles(x) /\ old \in Nat
      BY <1>1, <1>2, <1>4, MarkerOfIs
    <3>. QED
      BY <1>1, <3>1 DEF Below, Stored
  <2>. HIDE DEF r
  <2>4. \A p \in all : MarkerOf(r.d, p) \in r.used \ (used \cup {Null})
    BY <1>1, <1>4, <1>5, <2>2
  <2>5. \A p, q \in all : MarkerOf(r.d, p) = MarkerOf(r.d, q) => p = q
    BY <1>1, <1>4, <1>5, <2>2
  <2>6. /\ used \subseteq r.used /\ r.used \subseteq Nat /\ \A u \in r.used : u < r.d.next
    BY <1>1, <2>2, <2>3
  <2>7. PlacedUpTo(r, d, used, all)
    BY <1>1, <2>2, <2>4, <2>5, <2>6 DEF PlacedUpTo
  <2>. QED
    BY <2>1, <2>7
<1>6. CASE moves
  <2>. DEFINE r == [d |-> y, used |-> acc.used \cup {n}]
  <2>1. PlaceMarker(acc, b, side) = r
    BY <1>3, <1>6
  <2>2. r.d = y /\ r.used = acc.used \cup {n}
    OBVIOUS
  <2>4. placed.blocks[b].handle \in Nat
    <3>1. placed.blocks[b] \in BlockRecord
      BY <1>2, <1>4a DEF MarkersMayDiffer, Drawing
    <3>. QED
      BY <3>1 DEF BlockRecord
  <2>5. n \notin EntityHandles(placed)
    <3>1. \A h \in EntityHandles(x) : h < n
      BY <1>1 DEF Below, Stored
    <3>. QED
      BY <1>1, <1>4a, <3>1
  <2>6. /\ Drawing(y) /\ SlotsMayDiffer(y, placed)
        /\ EntityHandles(y) \subseteq EntityHandles(placed) \cup {n}
        /\ y.ctl = placed.ctl /\ y.layers = placed.layers /\ y.blocks = placed.blocks
        /\ y.objs = placed.objs /\ y.xdicOf = placed.xdicOf /\ y.dict = placed.dict
        /\ y.model = placed.model /\ y.paper = placed.paper
        /\ y.next = placed.next /\ y.seed = placed.seed
    <3>1. n \in Nat \ {Null} /\ Drawing(placed)
      BY <1>1, <1>4a
    <3>2. MovedFrom(y, placed, n)
      BY <2>4, <2>5, <3>1, MarkerMoved
    <3>. QED
      BY <3>2 DEF MovedFrom
  <2>. HIDE DEF y
  <2>7. MarkersMayDiffer(y, d)
    <3>0. d.next \in Nat /\ x.next \in Nat /\ placed.next \in Nat /\ y.next \in Nat
          /\ placed.next <= placed.next
      <4>1. \A e : Drawing(e) => e.next \in Nat /\ e.next <= e.next
        BY DEF Drawing
      <4>. QED
        BY <1>1, <1>4a, <2>6, <4>1
    <3>1. MarkersMayDiffer(y, placed)
      BY <2>6, <3>0 DEF MarkersMayDiffer
    <3>2. MarkersMayDiffer(placed, d)
      BY <1>1, <1>4a, <3>0, MarkersChain
    <3>. QED
      BY <3>0, <3>1, <3>2, MarkersChain
  <2>8. Below(y)
    <3>1. Stored(y) \subseteq Stored(placed) \cup {n}
      BY <2>6 DEF Stored, Controls, LayerHandles, BlockHandles, MarkerHandles, Members, Ids
    <3>2. \A h \in Stored(placed) : h < n + 1
      BY <1>4a DEF Below
    <3>3. n < n + 1
      BY <1>1
    <3>4. y.next = n + 1
      BY <1>4a, <2>6
    <3>. QED
      BY <3>1, <3>2, <3>3, <3>4 DEF Below
  <2>9. /\ MarkerOf(y, <<b, side>>) = n
        /\ \A p \in done : MarkerOf(y, p) = MarkerOf(x, p)
    <3>1. \A p : MarkerOf(y, p) = MarkerOf(placed, p)
      BY <2>6 DEF MarkerOf
    <3>. QED
      BY <1>2, <1>4a, <3>1
  <2>. HIDE DEF r
  <2>10. n \notin acc.used
    BY <1>1
  <2>11. \A p \in all : MarkerOf(r.d, p) \in r.used \ (used \cup {Null})
    BY <1>1, <2>2, <2>9, <2>10
  <2>12. \A p, q \in all : MarkerOf(r.d, p) = MarkerOf(r.d, q) => p = q
    BY <1>1, <2>2, <2>9, <2>10
  <2>13. /\ used \subseteq r.used /\ r.used \subseteq Nat /\ \A u \in r.used : u < r.d.next
    BY <1>1, <2>2, <1>4a, <2>6
  <2>14. PlacedUpTo(r, d, used, all)
    BY <2>2, <2>6, <2>7, <2>8, <2>11, <2>12, <2>13 DEF PlacedUpTo
  <2>. QED
    BY <2>1, <2>14
<1>. QED
  BY <1>5, <1>6

LEMMA MarkersUsed ==
    ASSUME NEW d, NEW e, MarkersMayDiffer(e, d)
    PROVE  NonObjects(e) = NonObjects(d) /\ Used(e) = Used(d) /\ Controls(e) = Controls(d)
<1>. DEFINE plain(x) == {j \in DOMAIN x.ents : ~Marker(x.ents[j])}
<1>1. plain(e) = plain(d) /\ \A i \in plain(d) : e.ents[i] = d.ents[i]
  BY DEF MarkersMayDiffer, SlotsMayDiffer, EntityKept, Marker
<1>. HIDE DEF plain
<1>2. {e.ents[i].handle : i \in plain(e)} = {d.ents[i].handle : i \in plain(d)}
  BY <1>1
<1>3. LayerHandles(e) = LayerHandles(d) /\ BlockHandles(e) = BlockHandles(d)
  BY DEF MarkersMayDiffer, LayerHandles, BlockHandles
<1>4. NonObjects(e) = NonObjects(d)
  BY <1>2, <1>3 DEF NonObjects, plain
<1>. QED
  BY <1>4 DEF MarkersMayDiffer, Used, Controls

\* Every marker of a block record has a handle of its own.
MarkersApart(d) ==
    /\ \A p \in Places(d) : MarkerOf(d, p) \notin Used(d) \cup Controls(d) \cup {Null}
    /\ \A p, q \in Places(d) : MarkerOf(d, p) = MarkerOf(d, q) => p = q

\* What the pass over the markers leaves.
LEMMA MarkersAre ==
    ASSUME NEW d, Drawing(d), Below(d)
    PROVE  LET e == MoveMarkers(d)
           IN Drawing(e) /\ Below(e) /\ MarkersMayDiffer(e, d) /\ MarkersApart(e)
<1>. DEFINE n == Len(d.blocks)
            used == Used(d) \cup (Controls(d) \ {Null})
            first == [d |-> d, used |-> used]
            Done(k) == (1 .. k) \X {"begin", "end"}
<1>1. n \in Nat /\ DOMAIN d.blocks = 1 .. n /\ d.next \in Nat /\ d.next <= d.next
  BY DEF Drawing
<1>2. PICK f : MarkerRun(f, d) /\ MoveMarkers(d) = f[n].d
  BY <1>1, MarkersRun
<1>3. /\ f[0] = first
      /\ \A i \in 1 .. n : f[i] = PlaceMarker(PlaceMarker(f[i - 1], i, "begin"), i, "end")
  BY <1>1, <1>2, RunsAt DEF MarkerRun, Step
<1>4. used \subseteq Stored(d) /\ used \subseteq Nat /\ Null \notin Used(d)
  <2>1. used \subseteq Stored(d)
    BY UsedStored DEF Stored
  <2>2. Stored(d) \subseteq Nat
    BY StoredFinite
  <2>. QED
    BY <2>1, <2>2 DEF Used, NonObjects
<1>5. first.d = d /\ first.used = used /\ used = Used(d) \cup (Controls(d) \ {Null})
  OBVIOUS
<1>. HIDE DEF first, used
<1>6. PlacedUpTo(f[n], d, used, Done(n))
  <2>. DEFINE S == {k \in Nat : k <= n => PlacedUpTo(f[k], d, used, Done(k))}
  <2>1. 0 \in S
    <3>1. MarkersMayDiffer(d, d)
      BY <1>1 DEF MarkersMayDiffer, SlotsMayDiffer, EntityKept
    <3>2. Done(0) = {}
      OBVIOUS
    <3>3. PlacedUpTo(first, d, used, {})
      BY <1>4, <1>5, <3>1 DEF PlacedUpTo, Below
    <3>. QED
      BY <1>3, <3>2, <3>3
  <2>2. ASSUME NEW k \in Nat, k \in S PROVE k + 1 \in S
    <3>. SUFFICES ASSUME k + 1 <= n PROVE PlacedUpTo(f[k + 1], d, used, Done(k + 1))
      OBVIOUS
    <3>. DEFINE b == k + 1
                x == PlaceMarker(f[k], b, "begin")
                y == PlaceMarker(x, b, "end")
                half == Done(k) \cup {<<b, "begin">>}
    <3>1. /\ PlacedUpTo(f[k], d, used, Done(k)) /\ b \in 1 .. n /\ b - 1 = k
          /\ b \in DOMAIN d.blocks
      BY <1>1, <2>2
    <3>2. f[b] = y
      BY <1>3, <3>1
    <3>3. /\ Done(k) \in SUBSET Places(d) /\ <<b, "begin">> \notin Done(k)
          /\ half \in SUBSET Places(d) /\ <<b, "end">> \notin half
          /\ half \cup {<<b, "end">>} = Done(b)
      BY <1>1, <3>1 DEF Places
    <3>. HIDE DEF b, half, Done
    <3>4. PlacedUpTo(x, d, used, half)
      <4>1. PlacedUpTo(x, d, used, Done(k) \cup {<<b, "begin">>})
        BY <3>1, <3>3, PlaceStep
      <4>. QED
        BY <4>1 DEF half
    <3>. HIDE DEF x
    <3>5. PlacedUpTo(y, d, used, half \cup {<<b, "end">>})
      BY <3>1, <3>3, <3>4, PlaceStep
    <3>. HIDE DEF y
    <3>6. PlacedUpTo(f[b], d, used, Done(b))
      BY <3>2, <3>3, <3>5
    <3>. QED
      BY <3>6 DEF b
  <2>. HIDE DEF S
  <2>3. Nat \subseteq S
    BY <2>1, <2>2, NatSetInduction
  <2>. HIDE DEF n, Done
  <2>4. n \in Nat /\ n <= n
    BY <1>1
  <2>. QED
    BY <2>3, <2>4 DEF S
<1>. DEFINE e == f[n].d
<1>7. /\ Drawing(e) /\ Below(e) /\ MarkersMayDiffer(e, d)
      /\ \A p \in Done(n) : MarkerOf(e, p) \notin used \cup {Null}
      /\ \A p, q \in Done(n) : MarkerOf(e, p) = MarkerOf(e, q) => p = q
  BY <1>6 DEF PlacedUpTo
<1>8. Places(e) = Done(n)
  BY <1>1, <1>7 DEF Places, MarkersMayDiffer
<1>9. Used(e) = Used(d) /\ Controls(e) = Controls(d)
  BY <1>7, MarkersUsed
<1>. HIDE DEF e, Done
<1>10. MarkersApart(e)
  BY <1>5, <1>7, <1>8, <1>9 DEF MarkersApart
<1>. QED
  BY <1>2, <1>7, <1>10 DEF e

\* Markers that are apart stay where they are.
LEMMA MarkersStable ==
    ASSUME NEW d, Drawing(d), MarkersApart(d)
    PROVE  MoveMarkers(d) = d
<1>. DEFINE n == Len(d.blocks)
            used == Used(d) \cup (Controls(d) \ {Null})
            first == [d |-> d, used |-> used]
            Done(k) == (1 .. k) \X {"begin", "end"}
            Handles(S) == {MarkerOf(d, p) : p \in S}
            Still(acc, S) == acc.d = d /\ acc.used = used \cup Handles(S)
<1>1. n \in Nat /\ DOMAIN d.blocks = 1 .. n
  BY DEF Drawing
<1>2. PICK f : MarkerRun(f, d) /\ MoveMarkers(d) = f[n].d
  BY <1>1, MarkersRun
<1>3. /\ f[0] = first
      /\ \A i \in 1 .. n : f[i] = PlaceMarker(PlaceMarker(f[i - 1], i, "begin"), i, "end")
  BY <1>1, <1>2, RunsAt DEF MarkerRun, Step
<1>4. ASSUME NEW acc, NEW S \in SUBSET Places(d), Still(acc, S),
             NEW b \in DOMAIN d.blocks, NEW side \in {"begin", "end"}, <<b, side>> \notin S
      PROVE  Still(PlaceMarker(acc, b, side), S \cup {<<b, side>>})
  <2>. DEFINE old == d.blocks[b][side]
              r == [d |-> d, used |-> acc.used \cup {old}]
  <2>1. old = MarkerOf(d, <<b, side>>) /\ <<b, side>> \in Places(d)
    BY DEF MarkerOf, Places
  <2>2. old # Null /\ old \notin acc.used
    <3>1. old \notin used \cup {Null}
      BY <2>1 DEF MarkersApart
    <3>2. old \notin Handles(S)
      BY <1>4, <2>1 DEF MarkersApart
    <3>. QED
      BY <1>4, <3>1, <3>2
  <2>3. PlaceMarker(acc, b, side) = r
    BY <1>4, <2>2 DEF PlaceMarker
  <2>4. r.d = d /\ r.used = acc.used \cup {old}
    OBVIOUS
  <2>5. Handles(S \cup {<<b, side>>}) = Handles(S) \cup {old}
    BY <2>1
  <2>. HIDE DEF r, old, Handles
  <2>. QED
    BY <1>4, <2>3, <2>4, <2>5
<1>5. first.d = d /\ first.used = used \cup Handles({})
  OBVIOUS
<1>. HIDE DEF Still
<1>6. Still(f[n], Done(n))
  <2>. DEFINE S == {k \in Nat : k <= n => Still(f[k], Done(k))}
  <2>1. 0 \in S
    <3>1. Done(0) = {}
      OBVIOUS
    <3>2. Still(first, {})
      BY <1>5 DEF Still
    <3>. QED
      BY <1>3, <3>1, <3>2
  <2>2. ASSUME NEW k \in Nat, k \in S PROVE k + 1 \in S
    <3>. SUFFICES ASSUME k + 1 <= n PROVE Still(f[k + 1], Done(k + 1))
      OBVIOUS
    <3>. DEFINE b == k + 1
                x == PlaceMarker(f[k], b, "begin")
                y == PlaceMarker(x, b, "end")
                half == Done(k) \cup {<<b, "begin">>}
    <3>1. /\ Still(f[k], Done(k)) /\ b \in 1 .. n /\ b - 1 = k
          /\ b \in DOMAIN d.blocks
      BY <1>1, <2>2
    <3>2. f[b] = y
      BY <1>3, <3>1
    <3>3. /\ Done(k) \in SUBSET Places(d) /\ <<b, "begin">> \notin Done(k)
          /\ half \in SUBSET Places(d) /\ <<b, "end">> \notin half
          /\ half \cup {<<b, "end">>} = Done(b)
      BY <1>1, <3>1 DEF Places
    <3>. HIDE DEF b, half, Done
    <3>4. Still(x, half)
      <4>1. Still(x, Done(k) \cup {<<b, "begin">>})
        BY <1>4, <3>1, <3>3
      <4>. QED
        BY <4>1 DEF half
    <3>. HIDE DEF x
    <3>5. Still(y, half \cup {<<b, "end">>})
      BY <1>4, <3>1, <3>3, <3>4
    <3>. HIDE DEF y
    <3>6. Still(f[b], Done(b))
      BY <3>2, <3>3, <3>5
    <3>. QED
      BY <3>6 DEF b
  <2>. HIDE DEF S
  <2>3. Nat \subseteq S
    BY <2>1, <2>2, NatSetInduction
  <2>. HIDE DEF n, Done
  <2>4. n \in Nat /\ n <= n
    BY <1>1
  <2>. QED
    BY <2>3, <2>4 DEF S
<1>. QED
  BY <1>2, <1>6 DEF Still

-----------------------------------------------------------------------------
(* Objects under the handle of another record.                             *)

\* The new keys are numbers of the allocator, each once.
RemapSound(r, d) ==
    /\ IsFiniteSet(DOMAIN r) /\ DOMAIN r \subseteq Nat /\ Cardinality(DOMAIN r) \in Nat
    /\ \A h \in DOMAIN r :
          r[h] \in Nat /\ d.next <= r[h] /\ r[h] < d.next + Cardinality(DOMAIN r)
    /\ \A g, h \in DOMAIN r : r[g] = r[h] => g = h

LEMMA RemapIs ==
    ASSUME NEW d, Drawing(d), NEW nonObjects
    PROVE  /\ DOMAIN Remap(d, nonObjects) = DOMAIN d.objs \cap nonObjects
           /\ RemapSound(Remap(d, nonObjects), d)
<1>. DEFINE moving == DOMAIN d.objs \cap nonObjects
            Less(h) == {g \in moving : g < h}
            r == [h \in moving |-> d.next + Cardinality(Less(h))]
<1>1. Remap(d, nonObjects) = r
  BY DEF Remap
<1>2. moving \in SUBSET Nat /\ IsFiniteSet(moving) /\ d.next \in Nat
  <2>1. DOMAIN d.objs \subseteq Nat /\ IsFiniteSet(DOMAIN d.objs)
    BY DEF Drawing, MapFrom
  <2>2. IsFiniteSet(DOMAIN d.objs \cap nonObjects)
    BY <2>1, FS_Subset
  <2>. QED
    BY <2>1, <2>2 DEF Drawing
<1>3. moving = DOMAIN d.objs \cap nonObjects
  OBVIOUS
<1>4. DOMAIN r = moving /\ \A h \in moving : r[h] = d.next + Cardinality(Less(h))
  OBVIOUS
<1>. HIDE DEF moving, r
<1>5. Cardinality(moving) \in Nat
  BY <1>2, FS_CardinalityType
<1>6. \A h \in moving : /\ IsFiniteSet(Less(h)) /\ Cardinality(Less(h)) \in Nat
                        /\ Cardinality(Less(h)) < Cardinality(moving)
  <2>. TAKE h \in moving
  <2>1. Less(h) \in SUBSET moving /\ h \notin Less(h)
    BY <1>2
  <2>2. IsFiniteSet(Less(h)) /\ Cardinality(Less(h)) <= Cardinality(moving)
        /\ (Cardinality(moving) = Cardinality(Less(h)) => moving = Less(h))
    BY <1>2, <2>1, FS_Subset
  <2>3. Cardinality(Less(h)) \in Nat
    BY <2>2, FS_CardinalityType
  <2>. HIDE DEF Less
  <2>. QED
    BY <1>5, <2>1, <2>2, <2>3
<1>7. ASSUME NEW g \in moving, NEW h \in moving, g < h
      PROVE  Cardinality(Less(g)) < Cardinality(Less(h))
  <2>1. Less(g) \in SUBSET Less(h) /\ g \in Less(h) /\ g \notin Less(g)
    <3>1. \A x \in moving : x < g => x < h
      <4>1. g \in Nat /\ h \in Nat /\ \A x \in moving : x \in Nat
        BY <1>2
      <4>. QED
        BY <1>7, <4>1
    <3>2. ~(g < g)
      BY <1>2
    <3>. QED
      BY <1>7, <3>1, <3>2
  <2>2. Cardinality(Less(g)) <= Cardinality(Less(h))
        /\ (Cardinality(Less(h)) = Cardinality(Less(g)) => Less(h) = Less(g))
    BY <1>6, <2>1, FS_Subset
  <2>3. Cardinality(Less(g)) \in Nat /\ Cardinality(Less(h)) \in Nat
    BY <1>6
  <2>. HIDE DEF Less
  <2>. QED
    BY <2>1, <2>2, <2>3
<1>. HIDE DEF Less
<1>8. \A h \in moving :
          r[h] \in Nat /\ d.next <= r[h] /\ r[h] < d.next + Cardinality(moving)
  BY <1>2, <1>4, <1>5, <1>6
<1>9. \A g, h \in moving : r[g] = r[h] => g = h
  <2>. SUFFICES ASSUME NEW g \in moving, NEW h \in moving, r[g] = r[h] PROVE g = h
    OBVIOUS
  <2>1. Cardinality(Less(g)) = Cardinality(Less(h))
    BY <1>2, <1>4, <1>6
  <2>2. ~(g < h) /\ ~(h < g)
    BY <1>6, <1>7, <2>1
  <2>3. g \in Nat /\ h \in Nat
    BY <1>2
  <2>. QED
    BY <2>2, <2>3
<1>. QED
  BY <1>1, <1>2, <1>3, <1>4, <1>5, <1>8, <1>9 DEF RemapSound

LEMMA ToIs ==
    ASSUME NEW r, NEW d, RemapSound(r, d), d.next \in Nat
    PROVE  /\ \A h \in Nat : To(r, h) \in Nat
           /\ \A h \in Nat : h < d.next => To(r, h) = h \/ d.next <= To(r, h)
           /\ \A g, h \in Nat : g < d.next /\ h < d.next /\ To(r, g) = To(r, h) => g = h
BY DEF To, RemapSound

\* The owner of an object along r, which the kinds without an arm keep.
OwnerAlong(o, r) ==
    IF o.kind \in {"dictionary", "xrecord"} THEN To(r, o.owner) ELSE o.owner

\* What the remapping makes of an object.
LEMMA ObjectRemapped ==
    ASSUME NEW o \in Object, NEW r, \A h \in Nat : To(r, h) \in Nat
    PROVE  LET p == RemapObject(o, r)
           IN /\ p \in Object /\ p.id = o.id /\ p.kind = o.kind /\ p.tag = o.tag
              /\ p.refs = IF o.kind = "dictionary" THEN {To(r, h) : h \in o.refs} ELSE o.refs
              /\ p.owner = OwnerAlong(o, r)
<1>. DEFINE w == To(r, o.owner)
            s == {To(r, h) : h \in o.refs}
<1>1. o.owner \in Nat /\ o.refs \in SUBSET Nat
  BY DEF Object
<1>2. w \in Nat /\ s \in SUBSET Nat
  BY <1>1
<1>3. CASE o.kind = "dictionary"
  <2>1. RemapObject(o, r) = [o EXCEPT !.owner = w, !.refs = s]
    BY <1>3 DEF RemapObject, Object
  <2>. HIDE DEF w, s
  <2>2. LET p == [o EXCEPT !.owner = w, !.refs = s]
        IN /\ p \in Object /\ p.id = o.id /\ p.kind = o.kind /\ p.tag = o.tag
           /\ p.refs = s /\ p.owner = w
    BY <1>2 DEF Object
  <2>. QED
    BY <1>3, <2>1, <2>2 DEF s, w, OwnerAlong
<1>4. CASE o.kind = "xrecord"
  <2>1. RemapObject(o, r) = [o EXCEPT !.owner = w]
    BY <1>4 DEF RemapObject, Object
  <2>. HIDE DEF w
  <2>2. LET p == [o EXCEPT !.owner = w]
        IN /\ p \in Object /\ p.id = o.id /\ p.kind = o.kind /\ p.tag = o.tag
           /\ p.refs = o.refs /\ p.owner = w
    BY <1>2 DEF Object
  <2>. QED
    BY <1>4, <2>1, <2>2 DEF w, OwnerAlong
<1>5. CASE o.kind # "dictionary" /\ o.kind # "xrecord"
  <2>1. RemapObject(o, r) = o
    BY <1>5 DEF RemapObject
  <2>. QED
    BY <1>5, <2>1 DEF OwnerAlong
<1>. QED
  BY <1>3, <1>4, <1>5

\* The side table of extension dictionaries moves along r.
TableMoved(e, d, r) ==
    \A h \in DOMAIN d.xdicOf :
        /\ To(r, h) \in DOMAIN e.xdicOf
        /\ e.xdicOf[To(r, h)] = To(r, d.xdicOf[h])

\* e is d with objects moved along r, and what names them.
ObjectsMoved(e, d, r) ==
    /\ e.ctl = d.ctl /\ e.layers = d.layers /\ e.blocks = d.blocks /\ e.index = d.index
    /\ e.model = d.model /\ e.paper = d.paper /\ d.next <= e.next /\ e.seed = d.seed
    /\ DOMAIN e.ents = DOMAIN d.ents
    /\ \A i \in DOMAIN d.ents :
          /\ e.ents[i].handle = d.ents[i].handle /\ e.ents[i].kind = d.ents[i].kind
          /\ e.ents[i].owner = d.ents[i].owner /\ e.ents[i].mode = d.ents[i].mode
          /\ e.ents[i].nested = d.ents[i].nested
          /\ e.ents[i].xdic = To(r, d.ents[i].xdic)
    /\ e.dict = To(r, d.dict)
    /\ DOMAIN e.objs = {To(r, k) : k \in DOMAIN d.objs}
    /\ \A k \in DOMAIN d.objs :
          LET o == d.objs[k]
              p == e.objs[To(r, k)]
          IN /\ p.kind = o.kind /\ p.tag = o.tag /\ p.id \in {o.id, To(r, k)}
             /\ p.refs = IF o.kind = "dictionary" THEN {To(r, h) : h \in o.refs} ELSE o.refs
             /\ p.owner = OwnerAlong(o, r)
    /\ (\A h \in DOMAIN d.xdicOf : h < d.next) => TableMoved(e, d, r)

LEMMA ObjectsMovedAre ==
    ASSUME NEW d, Drawing(d), Below(d), NEW nonObjects
    PROVE  LET e == MoveObjects(d, nonObjects)
           IN Drawing(e) /\ Below(e) /\ ObjectsMoved(e, d, Remap(d, nonObjects))
<1>. DEFINE r == Remap(d, nonObjects)
            keys == {To(r, k) : k \in DOMAIN d.objs}
            From(k) == CHOOSE o \in DOMAIN d.objs : To(r, o) = k
            O(k) == RemapObject(IF From(k) = k THEN d.objs[k]
                                ELSE [d.objs[From(k)] EXCEPT !.id = k], r)
            objs == [k \in keys |-> O(k)]
            heads == {To(r, h) : h \in DOMAIN d.xdicOf}
            X(k) == To(r, d.xdicOf[CHOOSE o \in DOMAIN d.xdicOf : To(r, o) = k])
            xdicOf == [k \in heads |-> X(k)]
            dict == To(r, d.dict)
            E(i) == [d.ents[i] EXCEPT !.xdic = To(r, d.ents[i].xdic)]
            ents == [i \in DOMAIN d.ents |-> E(i)]
            count == Cardinality(DOMAIN r)
            e == [d EXCEPT !.objs = objs, !.xdicOf = xdicOf, !.dict = dict,
                           !.ents = ents, !.next = d.next + count]
<1>0. /\ Fields(d) /\ d.next \in Nat \ {Null} /\ d.next \in Nat /\ d.dict \in Nat
      /\ d.ents \in Seq(Entity)
      /\ MapFrom(d.objs, Nat) /\ (\A k \in DOMAIN d.objs : k \in Nat /\ d.objs[k] \in Object)
      /\ MapFrom(d.xdicOf, Nat)
      /\ \A h \in DOMAIN d.xdicOf : h \in Nat /\ d.xdicOf[h] \in Nat
  BY DEF Drawing, Fields, MapFrom
<1>1. MoveObjects(d, nonObjects) = e
  BY Zenon DEF MoveObjects, SideTable
<1>2. RemapSound(r, d)
  BY RemapIs
<1>3. e = [d EXCEPT !.objs = objs, !.xdicOf = xdicOf, !.dict = dict,
                    !.ents = ents, !.next = d.next + count]
  OBVIOUS
<1>4. /\ DOMAIN objs = keys /\ objs = [k \in DOMAIN objs |-> objs[k]]
      /\ \A k \in keys : objs[k] = O(k)
  OBVIOUS
<1>5. /\ DOMAIN xdicOf = heads /\ xdicOf = [k \in DOMAIN xdicOf |-> xdicOf[k]]
      /\ \A k \in heads : xdicOf[k] = X(k)
  OBVIOUS
<1>6. /\ DOMAIN ents = DOMAIN d.ents /\ \A i \in DOMAIN d.ents : ents[i] = E(i)
      /\ ents = [i \in DOMAIN d.ents |-> ents[i]]
  OBVIOUS
<1>. HIDE DEF r
<1>7. /\ \A h \in Nat : To(r, h) \in Nat
      /\ \A h \in Nat : h < d.next => To(r, h) = h \/ d.next <= To(r, h)
      /\ \A g, h \in Nat : g < d.next /\ h < d.next /\ To(r, g) = To(r, h) => g = h
  BY <1>0, <1>2, ToIs
<1>8. \A k \in DOMAIN d.objs : k < d.next
  BY DEF Below, Stored
<1>9. \A k \in DOMAIN d.objs : To(r, k) \in keys /\ From(To(r, k)) = k
  <2>. TAKE k \in DOMAIN d.objs
  <2>1. From(To(r, k)) \in DOMAIN d.objs /\ To(r, From(To(r, k))) = To(r, k)
    OBVIOUS
  <2>. HIDE DEF From
  <2>2. To(r, k) \in keys
    OBVIOUS
  <2>. HIDE DEF keys
  <2>. QED
    BY <1>0, <1>7, <1>8, <2>1, <2>2
<1>10. \A k \in keys : From(k) \in DOMAIN d.objs /\ To(r, From(k)) = k
  OBVIOUS
<1>11. \A k \in keys : /\ O(k) \in Object /\ O(k).kind = d.objs[From(k)].kind
                       /\ O(k).tag = d.objs[From(k)].tag
                       /\ O(k).id \in {d.objs[From(k)].id, k}
                       /\ O(k).refs = IF d.objs[From(k)].kind = "dictionary"
                                      THEN {To(r, h) : h \in d.objs[From(k)].refs}
                                      ELSE d.objs[From(k)].refs
                       /\ O(k).owner = OwnerAlong(d.objs[From(k)], r)
  <2>. TAKE k \in keys
  <2>. DEFINE o == d.objs[From(k)]
              p == IF From(k) = k THEN d.objs[k] ELSE [o EXCEPT !.id = k]
  <2>1. From(k) \in DOMAIN d.objs /\ k \in Nat
    BY <1>0, <1>7, <1>10
  <2>2. o \in Object
    BY <1>0, <2>1
  <2>. HIDE DEF From, keys
  <2>3. p \in Object /\ SameObject(p, o) /\ p.id \in {o.id, k}
    <3>1. CASE From(k) = k
      <4>1. p = o
        BY <3>1
      <4>. HIDE DEF p, o
      <4>. QED
        BY <2>2, <4>1 DEF SameObject
    <3>2. CASE From(k) # k
      <4>1. p = [o EXCEPT !.id = k]
        BY <3>2
      <4>. HIDE DEF p, o
      <4>. QED
        BY <2>1, <2>2, <4>1, WithId
    <3>. QED
      BY <3>1, <3>2
  <2>4. O(k) = RemapObject(p, r)
    OBVIOUS
  <2>. HIDE DEF O, p, o
  <2>5. /\ O(k) \in Object /\ O(k).id = p.id /\ O(k).kind = p.kind /\ O(k).tag = p.tag
        /\ O(k).refs = IF p.kind = "dictionary" THEN {To(r, h) : h \in p.refs} ELSE p.refs
        /\ O(k).owner = OwnerAlong(p, r)
    <3>1. LET q == RemapObject(p, r)
          IN /\ q \in Object /\ q.id = p.id /\ q.kind = p.kind /\ q.tag = p.tag
             /\ q.refs = IF p.kind = "dictionary" THEN {To(r, h) : h \in p.refs} ELSE p.refs
             /\ q.owner = OwnerAlong(p, r)
      BY <1>7, <2>3, ObjectRemapped
    <3>. QED
      BY <2>4, <3>1
  <2>6. /\ p.kind = o.kind /\ p.refs = o.refs /\ p.tag = o.tag
        /\ OwnerAlong(p, r) = OwnerAlong(o, r)
    BY <2>3 DEF SameObject, OwnerAlong
  <2>7. /\ O(k) \in Object /\ O(k).kind = o.kind /\ O(k).tag = o.tag
        /\ O(k).id \in {o.id, k}
        /\ O(k).refs = IF o.kind = "dictionary" THEN {To(r, h) : h \in o.refs} ELSE o.refs
        /\ O(k).owner = OwnerAlong(o, r)
    BY <2>3, <2>5, <2>6
  <2>. QED
    BY <2>7 DEF o
<1>12. \A i \in DOMAIN d.ents :
          /\ E(i) \in Entity /\ E(i).handle = d.ents[i].handle /\ E(i).kind = d.ents[i].kind
          /\ E(i).owner = d.ents[i].owner /\ E(i).mode = d.ents[i].mode
          /\ E(i).nested = d.ents[i].nested /\ E(i).xdic = To(r, d.ents[i].xdic)
  <2>1. \A g \in Entity, x \in Nat : LET p == [g EXCEPT !.xdic = x]
           IN /\ p \in Entity /\ p.handle = g.handle /\ p.kind = g.kind /\ p.owner = g.owner
              /\ p.mode = g.mode /\ p.nested = g.nested /\ p.xdic = x
    BY DEF Entity
  <2>. TAKE i \in DOMAIN d.ents
  <2>2. d.ents[i] \in Entity /\ To(r, d.ents[i].xdic) \in Nat
    <3>1. d.ents[i] \in Entity
      BY <1>0
    <3>2. d.ents[i].xdic \in Nat
      BY <3>1, EntityType
    <3>. QED
      BY <1>7, <3>1, <3>2
  <2>3. E(i) = [d.ents[i] EXCEPT !.xdic = To(r, d.ents[i].xdic)]
    BY <2>2 DEF Entity
  <2>. HIDE DEF E
  <2>. QED
    BY <2>1, <2>2, <2>3
<1>13. \A k \in heads : X(k) \in Nat /\ k \in Nat
  <2>. TAKE k \in heads
  <2>. DEFINE c == CHOOSE o \in DOMAIN d.xdicOf : To(r, o) = k
  <2>1. c \in DOMAIN d.xdicOf /\ k \in Nat
    BY <1>0, <1>7
  <2>2. X(k) = To(r, d.xdicOf[c])
    OBVIOUS
  <2>. HIDE DEF X, c
  <2>. QED
    BY <1>0, <1>7, <2>1, <2>2
<1>24. (\A h \in DOMAIN d.xdicOf : h < d.next) =>
          \A h \in DOMAIN d.xdicOf : To(r, h) \in heads /\ X(To(r, h)) = To(r, d.xdicOf[h])
  <2>. SUFFICES ASSUME \A h \in DOMAIN d.xdicOf : h < d.next, NEW h \in DOMAIN d.xdicOf
                PROVE  To(r, h) \in heads /\ X(To(r, h)) = To(r, d.xdicOf[h])
    OBVIOUS
  <2>. DEFINE c == CHOOSE o \in DOMAIN d.xdicOf : To(r, o) = To(r, h)
  <2>1. c \in DOMAIN d.xdicOf /\ To(r, c) = To(r, h)
    OBVIOUS
  <2>2. X(To(r, h)) = To(r, d.xdicOf[c]) /\ To(r, h) \in heads
    OBVIOUS
  <2>. HIDE DEF X, c, heads
  <2>3. c = h
    BY <1>0, <1>7, <2>1
  <2>. QED
    BY <2>2, <2>3
<1>14. IsFiniteSet(keys) /\ keys \subseteq Nat
  <2>. DEFINE f == [k \in DOMAIN d.objs |-> To(r, k)]
  <2>1. IsFiniteSet({f[k] : k \in DOMAIN f})
    <3>1. f = [k \in DOMAIN f |-> f[k]] /\ IsFiniteSet(DOMAIN f)
      BY <1>0 DEF MapFrom
    <3>. HIDE DEF f
    <3>. QED
      BY <3>1, ImageFinite
  <2>2. keys = {f[k] : k \in DOMAIN f}
    OBVIOUS
  <2>. QED
    BY <1>0, <1>7, <2>1, <2>2
<1>15. IsFiniteSet(heads)
  <2>. DEFINE f == [k \in DOMAIN d.xdicOf |-> To(r, k)]
  <2>1. IsFiniteSet({f[k] : k \in DOMAIN f})
    <3>1. f = [k \in DOMAIN f |-> f[k]] /\ IsFiniteSet(DOMAIN f)
      BY <1>0 DEF MapFrom
    <3>. HIDE DEF f
    <3>. QED
      BY <3>1, ImageFinite
  <2>2. heads = {f[k] : k \in DOMAIN f}
    OBVIOUS
  <2>. QED
    BY <2>1, <2>2
<1>16. keys = {To(r, k) : k \in DOMAIN d.objs} /\ dict = To(r, d.dict) /\ count = Cardinality(DOMAIN r)
  OBVIOUS
<1>. HIDE DEF keys, From, O, objs, heads, X, xdicOf, dict, E, ents, count, e
<1>17. /\ Fields(e) /\ e.objs = objs /\ e.xdicOf = xdicOf /\ e.dict = dict
       /\ e.ents = ents /\ e.next = d.next + count
       /\ e.ctl = d.ctl /\ e.layers = d.layers /\ e.blocks = d.blocks
       /\ e.index = d.index /\ e.model = d.model /\ e.paper = d.paper /\ e.seed = d.seed
  BY <1>0, <1>3 DEF Fields
<1>18. count \in Nat /\ d.next + count \in Nat \ {Null} /\ d.next <= d.next + count
  <2>1. count \in Nat
    BY <1>2, <1>16 DEF RemapSound
  <2>. QED
    BY <1>0, <2>1 DEF Null
<1>19. ents \in Seq(Entity) /\ DOMAIN ents = DOMAIN d.ents
  <2>1. DOMAIN d.ents = 1 .. Len(d.ents) /\ Len(d.ents) \in Nat
    BY <1>0
  <2>2. ents \in [1 .. Len(d.ents) -> Entity]
    BY <1>6, <1>12, <2>1
  <2>. QED
    BY <2>1, <2>2
<1>20. Drawing(e)
  <2>1. MapFrom(objs, Nat) /\ \A k \in DOMAIN objs : objs[k] \in Object
    BY <1>4, <1>11, <1>14 DEF MapFrom
  <2>2. MapFrom(xdicOf, Nat) /\ \A h \in DOMAIN xdicOf : xdicOf[h] \in Nat
    BY <1>5, <1>13, <1>15 DEF MapFrom
  <2>3. dict \in Nat
    BY <1>0, <1>7, <1>16
  <2>. QED
    BY <1>17, <1>18, <1>19, <2>1, <2>2, <2>3 DEF Drawing, Fields
<1>21. \A k \in DOMAIN d.objs : To(r, k) < d.next + count
  <2>1. \A k \in DOMAIN d.objs : k \in Nat /\ k < d.next + count
    BY <1>0, <1>8, <1>18
  <2>2. \A k \in DOMAIN r : r[k] < d.next + count
    BY <1>2, <1>16 DEF RemapSound
  <2>. QED
    BY <2>1, <2>2 DEF To
<1>22. Below(e)
  <2>1. Stored(e) \subseteq Stored(d) \cup keys
    <3>1. DOMAIN e.objs = keys
      BY <1>4, <1>17
    <3>2. Ids(e) \subseteq Ids(d) \cup keys
      <4>1. \A k \in keys : e.objs[k].id \in {d.objs[From(k)].id, k} /\ From(k) \in DOMAIN d.objs
        BY <1>4, <1>10, <1>11, <1>17
      <4>. QED
        BY <3>1, <4>1 DEF Ids
    <3>3. EntityHandles(e) = EntityHandles(d)
      <4>1. DOMAIN e.ents = DOMAIN d.ents
            /\ \A i \in DOMAIN d.ents : e.ents[i].handle = d.ents[i].handle
        BY <1>6, <1>12, <1>17, <1>19
      <4>. QED
        BY <4>1 DEF EntityHandles
    <3>4. /\ Controls(e) = Controls(d) /\ LayerHandles(e) = LayerHandles(d)
          /\ BlockHandles(e) = BlockHandles(d)
          /\ MarkerHandles(e) = MarkerHandles(d)
          /\ Members(e) = Members(d)
      BY <1>17 DEF Controls, LayerHandles, BlockHandles, MarkerHandles, Members
    <3>. QED
      BY <3>1, <3>2, <3>3, <3>4 DEF Stored
  <2>2. \A h \in Stored(d) : h < d.next + count
    <3>1. \A h \in Stored(d) : h \in Nat /\ h < d.next
      BY StoredFinite DEF Below
    <3>. QED
      BY <1>0, <1>18, <3>1
  <2>3. \A h \in keys : h < d.next + count
    BY <1>16, <1>21
  <2>. QED
    BY <1>17, <2>1, <2>2, <2>3 DEF Below
<1>23. ObjectsMoved(e, d, r)
  <2>1. \A k \in DOMAIN d.objs :
          LET o == d.objs[k]
              p == e.objs[To(r, k)]
          IN /\ p.kind = o.kind /\ p.tag = o.tag /\ p.id \in {o.id, To(r, k)}
             /\ p.refs = IF o.kind = "dictionary" THEN {To(r, h) : h \in o.refs} ELSE o.refs
             /\ p.owner = OwnerAlong(o, r)
    <3>. TAKE k \in DOMAIN d.objs
    <3>1. To(r, k) \in keys /\ From(To(r, k)) = k /\ e.objs[To(r, k)] = O(To(r, k))
      BY <1>4, <1>9, <1>17
    <3>. QED
      BY <1>11, <3>1
  <2>2. \A i \in DOMAIN d.ents : e.ents[i] = E(i)
    BY <1>6, <1>17
  <2>3. DOMAIN e.objs = keys
    BY <1>4, <1>17
  <2>4. (\A h \in DOMAIN d.xdicOf : h < d.next) => TableMoved(e, d, r)
    BY <1>5, <1>17, <1>24 DEF TableMoved
  <2>. QED
    BY <1>12, <1>16, <1>17, <1>18, <1>19, <2>1, <2>2, <2>3, <2>4 DEF ObjectsMoved
<1>. QED
  BY <1>1, <1>20, <1>22, <1>23 DEF r

\* Objects apart from the other records stay where they are.
LEMMA ObjectsStay ==
    ASSUME NEW d, Drawing(d), NEW nonObjects, DOMAIN d.objs \cap nonObjects = {}
    PROVE  MoveObjects(d, nonObjects) = d
<1>. DEFINE r == Remap(d, nonObjects)
            keys == {To(r, k) : k \in DOMAIN d.objs}
            From(k) == CHOOSE o \in DOMAIN d.objs : To(r, o) = k
            O(k) == RemapObject(IF From(k) = k THEN d.objs[k]
                                ELSE [d.objs[From(k)] EXCEPT !.id = k], r)
            objs == [k \in keys |-> O(k)]
            heads == {To(r, h) : h \in DOMAIN d.xdicOf}
            X(k) == To(r, d.xdicOf[CHOOSE o \in DOMAIN d.xdicOf : To(r, o) = k])
            xdicOf == [k \in heads |-> X(k)]
            dict == To(r, d.dict)
            E(i) == [d.ents[i] EXCEPT !.xdic = To(r, d.ents[i].xdic)]
            ents == [i \in DOMAIN d.ents |-> E(i)]
            next == d.next + Cardinality(DOMAIN r)
            e == [d EXCEPT !.objs = objs, !.xdicOf = xdicOf, !.dict = dict,
                           !.ents = ents, !.next = next]
<1>0. /\ Fields(d) /\ d.next \in Nat
      /\ d.ents \in Seq(Entity)
      /\ MapFrom(d.objs, Nat) /\ (\A k \in DOMAIN d.objs : d.objs[k] \in Object)
      /\ MapFrom(d.xdicOf, Nat)
  BY DEF Drawing, Fields, MapFrom
<1>1. MoveObjects(d, nonObjects) = e
  BY Zenon DEF MoveObjects, SideTable
<1>2. DOMAIN r = {}
  BY RemapIs
<1>. HIDE DEF r
<1>3. \A h : To(r, h) = h
  BY <1>2 DEF To
<1>4. keys = DOMAIN d.objs /\ heads = DOMAIN d.xdicOf /\ dict = d.dict
  BY <1>3
<1>5. next = d.next
  <2>1. Cardinality(DOMAIN r) = 0
    BY <1>2, FS_EmptySet
  <2>. QED
    BY <1>0, <2>1
<1>6. \A o \in Object : RemapObject(o, r) = o
  <2>. TAKE o \in Object
  <2>1. {To(r, h) : h \in o.refs} = o.refs /\ To(r, o.owner) = o.owner
    BY <1>3
  <2>2. CASE o.kind = "dictionary"
    <3>1. RemapObject(o, r) = [o EXCEPT !.owner = To(r, o.owner), !.refs = {To(r, h) : h \in o.refs}]
      BY <2>2 DEF RemapObject, Object
    <3>2. [o EXCEPT !.owner = o.owner, !.refs = o.refs] = o
      BY DEF Object
    <3>. QED
      BY <2>1, <3>1, <3>2
  <2>3. CASE o.kind = "xrecord"
    <3>1. RemapObject(o, r) = [o EXCEPT !.owner = To(r, o.owner)]
      BY <2>3 DEF RemapObject, Object
    <3>2. [o EXCEPT !.owner = o.owner] = o
      BY DEF Object
    <3>. QED
      BY <2>1, <3>1, <3>2
  <2>4. CASE o.kind # "dictionary" /\ o.kind # "xrecord"
    BY <2>4 DEF RemapObject
  <2>. QED
    BY <2>2, <2>3, <2>4
<1>7. \A k \in DOMAIN d.objs : O(k) = d.objs[k]
  <2>. TAKE k \in DOMAIN d.objs
  <2>1. From(k) = k
    BY <1>3
  <2>. HIDE DEF From
  <2>2. O(k) = RemapObject(d.objs[k], r)
    BY <2>1
  <2>. QED
    BY <1>0, <1>6, <2>2
<1>8. objs = d.objs
  <2>1. d.objs = [k \in DOMAIN d.objs |-> d.objs[k]]
    BY <1>0 DEF MapFrom
  <2>. HIDE DEF O, keys
  <2>. QED
    BY <1>4, <1>7, <2>1
<1>9. xdicOf = d.xdicOf
  <2>1. d.xdicOf = [k \in DOMAIN d.xdicOf |-> d.xdicOf[k]]
    BY <1>0 DEF MapFrom
  <2>2. \A k \in DOMAIN d.xdicOf : X(k) = d.xdicOf[k]
    BY <1>3
  <2>. HIDE DEF X, heads
  <2>. QED
    BY <1>4, <2>1, <2>2
<1>10. ents = d.ents
  <2>1. \A g \in Entity : [g EXCEPT !.xdic = g.xdic] = g
    BY DEF Entity
  <2>2. \A i \in DOMAIN d.ents : E(i) = d.ents[i]
    <3>. TAKE i \in DOMAIN d.ents
    <3>1. d.ents[i] \in Entity
      BY <1>0
    <3>2. E(i) = [d.ents[i] EXCEPT !.xdic = d.ents[i].xdic]
      BY <1>3
    <3>. QED
      BY <2>1, <3>1, <3>2
  <2>3. d.ents = [i \in DOMAIN d.ents |-> d.ents[i]]
    BY <1>0
  <2>. HIDE DEF E
  <2>. QED
    BY <2>2, <2>3
<1>11. e = [d EXCEPT !.objs = objs, !.xdicOf = xdicOf, !.dict = dict,
                     !.ents = ents, !.next = next]
  OBVIOUS
<1>. HIDE DEF objs, xdicOf, dict, ents, next, e
<1>12. e = d
  BY <1>0, <1>4, <1>5, <1>8, <1>9, <1>10, <1>11 DEF Fields
<1>. QED
  BY <1>1, <1>12

-----------------------------------------------------------------------------
(* Owners.                                                                 *)

\* Every entity has an owner, and the mode its owner calls for.
Owned(d) ==
    \A i \in DOMAIN d.ents :
        d.ents[i].owner # Null /\ d.ents[i].mode = ModeOf(d, d.ents[i].owner)

\* e is d with the owners resolved.
OwnersResolved(e, d) ==
    /\ e.ctl = d.ctl /\ e.layers = d.layers /\ e.blocks = d.blocks /\ e.index = d.index
    /\ e.objs = d.objs /\ e.xdicOf = d.xdicOf /\ e.dict = d.dict
    /\ e.model = d.model /\ e.paper = d.paper /\ e.next = d.next /\ e.seed = d.seed
    /\ DOMAIN e.ents = DOMAIN d.ents
    /\ \A i \in DOMAIN d.ents :
          /\ e.ents[i].handle = d.ents[i].handle /\ e.ents[i].kind = d.ents[i].kind
          /\ e.ents[i].nested = d.ents[i].nested /\ e.ents[i].xdic = d.ents[i].xdic
          /\ e.ents[i].owner = OwnerOf(d, i)

\* p is the entity g with an owner and a mode.
OwnedAs(p, g, w, m) ==
    /\ p \in Entity /\ p.handle = g.handle /\ p.kind = g.kind /\ p.nested = g.nested
    /\ p.xdic = g.xdic /\ p.owner = w /\ p.mode = m

LEMMA WithOwner ==
    ASSUME NEW g \in Entity, NEW w \in Nat, NEW m \in 0 .. 2
    PROVE  OwnedAs([g EXCEPT !.owner = w, !.mode = m], g, w, m)
BY DEF Entity, OwnedAs

LEMMA OwnersAre ==
    ASSUME NEW d, Drawing(d), TablesNamed(d)
    PROVE  LET e == AssignOwners(d)
           IN Drawing(e) /\ OwnersResolved(e, d) /\ Owned(e) /\ Stored(e) = Stored(d)
<1>. DEFINE E(i) == [d.ents[i] EXCEPT !.owner = OwnerOf(d, i), !.mode = ModeOf(d, OwnerOf(d, i))]
            ents == [i \in DOMAIN d.ents |-> E(i)]
            e == [d EXCEPT !.ents = ents]
<1>0. /\ Fields(d) /\ d.ents \in Seq(Entity) /\ d.blocks \in Seq(BlockRecord)
      /\ d.model \in Nat \ {Null} /\ d.paper \in Nat \ {Null}
  BY DEF Drawing, Fields
<1>1. AssignOwners(d) = e
  BY DEF AssignOwners
<1>2. \A b \in DOMAIN d.blocks : d.blocks[b].handle \in Nat \ {Null}
  <2>. TAKE b \in DOMAIN d.blocks
  <2>1. d.blocks[b] \in BlockRecord
    BY <1>0
  <2>2. d.blocks[b].handle \in Nat
    BY <2>1 DEF BlockRecord
  <2>. QED
    BY <2>2 DEF TablesNamed, BlockHandles
<1>3. \A i \in DOMAIN d.ents : OwnerOf(d, i) \in Nat \ {Null}
  <2>. TAKE i \in DOMAIN d.ents
  <2>1. d.ents[i].owner \in Nat
    <3>1. d.ents[i] \in Entity
      BY <1>0
    <3>. QED
      BY <3>1, EntityType
  <2>2. ASSUME ListedBy(d, i) # {} PROVE Lowest(ListedBy(d, i)) \in DOMAIN d.blocks
    <3>1. ListedBy(d, i) \in SUBSET Nat /\ ListedBy(d, i) \subseteq DOMAIN d.blocks
      <4>1. DOMAIN d.blocks \subseteq Nat
        BY <1>0
      <4>. QED
        BY <4>1 DEF ListedBy
    <3>. QED
      BY <2>2, <3>1, LowestIs
  <2>. QED
    BY <1>0, <1>2, <2>1, <2>2 DEF OwnerOf
<1>4. \A w : ModeOf(d, w) \in 0 .. 2
  BY DEF ModeOf
<1>5. \A i \in DOMAIN d.ents :
         /\ E(i) \in Entity /\ E(i).handle = d.ents[i].handle /\ E(i).kind = d.ents[i].kind
         /\ E(i).nested = d.ents[i].nested /\ E(i).xdic = d.ents[i].xdic
         /\ E(i).owner = OwnerOf(d, i) /\ E(i).mode = ModeOf(d, OwnerOf(d, i))
  <2>. TAKE i \in DOMAIN d.ents
  <2>. DEFINE g == d.ents[i]
              w == OwnerOf(d, i)
              m == ModeOf(d, w)
  <2>2. g \in Entity /\ w \in Nat /\ m \in 0 .. 2
    BY <1>0, <1>3, <1>4
  <2>3. E(i) = [g EXCEPT !.owner = w, !.mode = m]
    OBVIOUS
  <2>. HIDE DEF E, g, w, m
  <2>4. OwnedAs(E(i), g, w, m)
    BY <2>2, <2>3, WithOwner
  <2>. QED
    BY <2>4 DEF g, w, m, OwnedAs
<1>6. /\ DOMAIN ents = DOMAIN d.ents /\ \A i \in DOMAIN d.ents : ents[i] = E(i)
      /\ ents = [i \in DOMAIN d.ents |-> ents[i]]
  OBVIOUS
<1>7. e = [d EXCEPT !.ents = ents]
  OBVIOUS
<1>. HIDE DEF E, ents, e
<1>8. /\ Fields(e) /\ e.ents = ents
      /\ e.ctl = d.ctl /\ e.layers = d.layers /\ e.blocks = d.blocks /\ e.index = d.index
      /\ e.objs = d.objs /\ e.xdicOf = d.xdicOf /\ e.dict = d.dict
      /\ e.model = d.model /\ e.paper = d.paper /\ e.next = d.next /\ e.seed = d.seed
  BY <1>0, <1>7 DEF Fields
<1>9. ents \in Seq(Entity)
  <2>1. DOMAIN d.ents = 1 .. Len(d.ents) /\ Len(d.ents) \in Nat
    BY <1>0
  <2>2. ents \in [1 .. Len(d.ents) -> Entity]
    BY <1>5, <1>6, <2>1
  <2>. QED
    BY <2>1, <2>2
<1>10. Drawing(e)
  BY <1>6, <1>8, <1>9 DEF Drawing, Fields
<1>11. OwnersResolved(e, d)
  BY <1>5, <1>6, <1>8 DEF OwnersResolved
<1>12. Owned(e)
  <2>1. \A w : ModeOf(e, w) = ModeOf(d, w)
    BY <1>8 DEF ModeOf
  <2>. QED
    BY <1>3, <1>5, <1>6, <1>8, <2>1 DEF Owned
<1>13. Stored(e) = Stored(d)
  <2>1. EntityHandles(e) = EntityHandles(d)
    BY <1>11 DEF OwnersResolved, EntityHandles
  <2>2. /\ Controls(e) = Controls(d) /\ LayerHandles(e) = LayerHandles(d)
        /\ BlockHandles(e) = BlockHandles(d) /\ Ids(e) = Ids(d) /\ e.objs = d.objs
        /\ MarkerHandles(e) = MarkerHandles(d)
        /\ Members(e) = Members(d)
    BY <1>8 DEF Controls, LayerHandles, BlockHandles, MarkerHandles, Members, Ids
  <2>. QED
    BY <2>1, <2>2 DEF Stored
<1>. QED
  BY <1>1, <1>10, <1>11, <1>12, <1>13

\* Owners that are assigned stay.
LEMMA OwnersStable ==
    ASSUME NEW d, Drawing(d), Owned(d)
    PROVE  AssignOwners(d) = d
<1>. DEFINE E(i) == [d.ents[i] EXCEPT !.owner = OwnerOf(d, i), !.mode = ModeOf(d, OwnerOf(d, i))]
            ents == [i \in DOMAIN d.ents |-> E(i)]
<1>0. Fields(d) /\ d.ents \in Seq(Entity)
  BY DEF Drawing, Fields
<1>1. AssignOwners(d) = [d EXCEPT !.ents = ents]
  BY DEF AssignOwners
<1>2. ents = d.ents
  <2>1. \A g \in Entity : [g EXCEPT !.owner = g.owner, !.mode = g.mode] = g
    BY DEF Entity
  <2>2. \A i \in DOMAIN d.ents : E(i) = d.ents[i]
    <3>. TAKE i \in DOMAIN d.ents
    <3>1. d.ents[i] \in Entity
      BY <1>0
    <3>2. OwnerOf(d, i) = d.ents[i].owner /\ ModeOf(d, OwnerOf(d, i)) = d.ents[i].mode
      BY DEF Owned, OwnerOf
    <3>3. E(i) = [d.ents[i] EXCEPT !.owner = d.ents[i].owner, !.mode = d.ents[i].mode]
      BY <3>2
    <3>. QED
      BY <2>1, <3>1, <3>3
  <2>3. d.ents = [i \in DOMAIN d.ents |-> d.ents[i]]
    BY <1>0
  <2>. HIDE DEF E
  <2>. QED
    BY <2>2, <2>3
<1>. HIDE DEF ents
<1>. QED
  BY <1>0, <1>1, <1>2 DEF Fields

-----------------------------------------------------------------------------
(* resolve_references as a whole.                                          *)

\* Records that are no objects, as the properties count them.
LEMMA OthersAre ==
    ASSUME NEW d
    PROVE  Others(d) = NonObjects(d)
<1>. DEFINE L == {<<"layer", i, d.layers[i]>> : i \in DOMAIN d.layers}
            B == {<<"block", i, d.blocks[i].handle>> : i \in DOMAIN d.blocks}
            E == {<<"entity", i, d.ents[i].handle>> : i \in DOMAIN d.ents}
            plain == {d.ents[i].handle : i \in {j \in DOMAIN d.ents : ~Marker(d.ents[j])}}
            R == {x \in Records(d) : x[1] \in {"layer", "block"}
                     \/ (x[1] = "entity" /\ ~Marker(d.ents[x[2]]))}
<1>1. ASSUME NEW x \in R PROVE x[3] \in LayerHandles(d) \cup BlockHandles(d) \cup plain
  <2>1. \/ x \in L \/ x \in B \/ x \in E
        \/ x[1] = "nested" \/ x[1] = "object"
    BY DEF Records
  <2>2. x \in L => x[3] \in LayerHandles(d)
    BY DEF LayerHandles
  <2>3. x \in B => x[3] \in BlockHandles(d)
    BY DEF BlockHandles
  <2>4. x \in E => x[3] \in plain
    <3>1. \A y \in E : y[1] = "entity" /\ y[2] \in DOMAIN d.ents /\ y[3] = d.ents[y[2]].handle
      OBVIOUS
    <3>2. x[1] = "entity" => ~Marker(d.ents[x[2]])
      OBVIOUS
    <3>. QED
      BY <3>1, <3>2
  <2>5. x[1] # "nested" /\ x[1] # "object"
    OBVIOUS
  <2>. QED
    BY <2>1, <2>2, <2>3, <2>4, <2>5
<1>2. ASSUME NEW h \in LayerHandles(d) \cup BlockHandles(d) \cup plain
      PROVE  \E x \in R : x[3] = h
  <2>1. CASE h \in LayerHandles(d)
    <3>1. PICK i \in DOMAIN d.layers : h = d.layers[i]
      BY <2>1 DEF LayerHandles
    <3>. DEFINE x == <<"layer", i, h>>
    <3>2. x \in Records(d) /\ x[1] = "layer" /\ x[3] = h
      BY <3>1 DEF Records
    <3>. HIDE DEF x
    <3>. QED
      BY <3>2
  <2>2. CASE h \in BlockHandles(d)
    <3>1. PICK i \in DOMAIN d.blocks : h = d.blocks[i].handle
      BY <2>2 DEF BlockHandles
    <3>. DEFINE x == <<"block", i, h>>
    <3>2. x \in Records(d) /\ x[1] = "block" /\ x[3] = h
      BY <3>1 DEF Records
    <3>. HIDE DEF x
    <3>. QED
      BY <3>2
  <2>3. CASE h \in plain
    <3>1. PICK i \in DOMAIN d.ents : ~Marker(d.ents[i]) /\ h = d.ents[i].handle
      BY <2>3
    <3>. DEFINE x == <<"entity", i, h>>
    <3>2. x \in Records(d) /\ x[1] = "entity" /\ x[2] = i /\ x[3] = h
      BY <3>1 DEF Records
    <3>. HIDE DEF x
    <3>. QED
      BY <3>1, <3>2
  <2>. QED
    BY <1>2, <2>1, <2>2, <2>3
<1>. HIDE DEF R, plain
<1>3. {r[3] : r \in R} = LayerHandles(d) \cup BlockHandles(d) \cup plain
  BY <1>1, <1>2
<1>. QED
  BY <1>3 DEF Others, NonObjects, R, plain

\* Objects that have their handles.
ObjectsNamed(d) == Null \notin DOMAIN d.objs \cup Ids(d)

LEMMA SeparateIs ==
    ASSUME NEW d, ObjectsNamed(d)
    PROVE  Separate(d) <=> /\ DOMAIN d.objs \cap NonObjects(d) = {}
                           /\ Controls(d) \cap Used(d) = {} /\ MarkersApart(d)
<1>1. Used(d) = NonObjects(d) \cup DOMAIN d.objs /\ Others(d) = NonObjects(d)
  BY OthersAre DEF Used, ObjectsNamed
<1>. QED
  BY <1>1 DEF Separate, MarkersApart, MarkerOf

\* The document before anything is moved: 1a of resolve_references.
Aligned(d) == AlignObjects(AssignNullObject(AssignTables(Synchronize(d))))

AlignedFrom(a, d) ==
    /\ a.ctl = d.ctl /\ a.ents = d.ents /\ a.index = d.index /\ a.xdicOf = d.xdicOf
    /\ a.dict = d.dict /\ a.model = d.model /\ a.paper = d.paper /\ d.next <= a.next
    /\ \A h \in Stored(d) : h < a.next
    /\ DOMAIN a.blocks = DOMAIN d.blocks
    /\ \A b \in DOMAIN d.blocks :
          /\ d.blocks[b].handle # Null => a.blocks[b].handle = d.blocks[b].handle
          /\ a.blocks[b].listed = d.blocks[b].listed
    /\ DOMAIN d.objs \ {Null} \subseteq DOMAIN a.objs
    /\ \A l \in DOMAIN a.objs : \E k \in DOMAIN d.objs :
          /\ SameObject(a.objs[l], d.objs[k]) /\ (k # Null => l = k)
          /\ (k = Null => l \notin DOMAIN d.objs)

LEMMA AlignedIs ==
    ASSUME NEW d, Drawing(d)
    PROVE  LET a == Aligned(d)
           IN Drawing(a) /\ Above(a) /\ TablesNamed(a) /\ ObjectsNamed(a) /\ AlignedFrom(a, d)
<1>. DEFINE s == Synchronize(d)
            t == AssignTables(s)
            o == AssignNullObject(t)
            a == AlignObjects(o)
<1>1. /\ Drawing(s) /\ Above(s) /\ s = [d EXCEPT !.next = s.next, !.seed = s.seed]
      /\ d.next <= s.next /\ Stored(s) = Stored(d)
  BY SyncIs
<1>. HIDE DEF s
<1>2. /\ s.ctl = d.ctl /\ s.layers = d.layers /\ s.blocks = d.blocks /\ s.ents = d.ents
      /\ s.index = d.index /\ s.objs = d.objs /\ s.xdicOf = d.xdicOf /\ s.dict = d.dict
      /\ s.model = d.model /\ s.paper = d.paper
  <2>1. Fields(d)
    BY DEF Drawing, Fields
  <2>. QED
    BY <1>1, <2>1 DEF Fields
<1>3. Drawing(t) /\ Above(t) /\ TablesMayDiffer(t, s) /\ TablesNamed(t)
  BY <1>1, TablesAre
<1>. HIDE DEF t
<1>4. /\ Drawing(o) /\ Above(o) /\ ObjectsMayDiffer(o, t) /\ o.xdicOf = t.xdicOf
      /\ Null \notin DOMAIN o.objs
  BY <1>3, NullObjectIs
<1>. HIDE DEF o
<1>5. /\ Drawing(a) /\ Above(a) /\ ObjectsMayDiffer(a, o)
      /\ a.xdicOf = o.xdicOf /\ DOMAIN a.objs = DOMAIN o.objs
      /\ (\A k \in DOMAIN a.objs : SameObject(a.objs[k], o.objs[k]))
      /\ (Null \notin DOMAIN a.objs => Null \notin Ids(a))
  BY <1>4, AlignIs
<1>6. Aligned(d) = a
  BY DEF Aligned, a, o, t, s
<1>. HIDE DEF a
<1>7. ObjectsNamed(a)
  BY <1>4, <1>5 DEF ObjectsNamed
<1>8. TablesNamed(a)
  BY <1>3, <1>4, <1>5 DEF TablesNamed, ObjectsMayDiffer, LayerHandles, BlockHandles
<1>9. AlignedFrom(a, d)
  <2>1. d.next <= a.next /\ \A h \in Stored(d) : h < a.next
    <3>1. d.next \in Nat /\ s.next \in Nat /\ t.next \in Nat /\ o.next \in Nat /\ a.next \in Nat
      <4>1. \A x : Drawing(x) => x.next \in Nat
        BY DEF Drawing
      <4>. QED
        BY <1>1, <1>3, <1>4, <1>5, <4>1
    <3>2. s.next <= t.next /\ t.next <= o.next /\ o.next <= a.next
      BY <1>3, <1>4, <1>5 DEF TablesMayDiffer, ObjectsMayDiffer
    <3>3. \A h \in Stored(d) : h \in Nat /\ h < s.next
      BY <1>1, StoredFinite DEF Above
    <3>. QED
      BY <1>1, <3>1, <3>2, <3>3
  <2>2. /\ a.ctl = d.ctl /\ a.ents = d.ents /\ a.index = d.index /\ a.xdicOf = d.xdicOf
        /\ a.dict = d.dict /\ a.model = d.model /\ a.paper = d.paper
        /\ a.blocks = t.blocks /\ t.objs = d.objs
    BY <1>2, <1>3, <1>4, <1>5 DEF TablesMayDiffer, ObjectsMayDiffer
  <2>3. /\ DOMAIN a.blocks = DOMAIN d.blocks
        /\ \A b \in DOMAIN d.blocks :
              /\ d.blocks[b].handle # Null => a.blocks[b].handle = d.blocks[b].handle
              /\ a.blocks[b].listed = d.blocks[b].listed
    BY <1>2, <1>3, <2>2 DEF TablesMayDiffer
  <2>4. DOMAIN d.objs \ {Null} \subseteq DOMAIN a.objs
    BY <1>4, <1>5, <2>2 DEF ObjectsMayDiffer
  <2>5. \A l \in DOMAIN a.objs : \E k \in DOMAIN d.objs :
          /\ SameObject(a.objs[l], d.objs[k]) /\ (k # Null => l = k)
          /\ (k = Null => l \notin DOMAIN d.objs)
    <3>. TAKE l \in DOMAIN a.objs
    <3>1. l \in DOMAIN o.objs /\ SameObject(a.objs[l], o.objs[l]) /\ l # Null
      BY <1>4, <1>5
    <3>0. \A j \in DOMAIN o.objs : \E k \in DOMAIN t.objs :
              /\ SameObject(o.objs[j], t.objs[k]) /\ (k # Null => j = k)
              /\ (k = Null /\ j # Null => j \notin DOMAIN t.objs)
      BY <1>4 DEF ObjectsMayDiffer
    <3>2. PICK k \in DOMAIN d.objs :
              /\ SameObject(o.objs[l], d.objs[k]) /\ (k # Null => l = k)
              /\ (k = Null /\ l # Null => l \notin DOMAIN d.objs)
      BY <2>2, <3>0, <3>1, Zenon
    <3>3. SameObject(a.objs[l], d.objs[k])
      BY <3>1, <3>2 DEF SameObject
    <3>. QED
      BY <3>1, <3>2, <3>3
  <2>. QED
    BY <2>1, <2>2, <2>3, <2>4, <2>5 DEF AlignedFrom
<1>. QED
  BY <1>3, <1>5, <1>6, <1>7, <1>8, <1>9

\* The document before the objects are moved: 1b and 1c.
Cleared(d) == MoveMarkers(MoveControls(Aligned(d)))

LEMMA ClearedIs ==
    ASSUME NEW d, Drawing(d)
    PROVE  LET a == Aligned(d)
               m == Cleared(d)
           IN /\ Drawing(m) /\ Below(m) /\ TablesNamed(m) /\ ObjectsNamed(m)
              /\ MarkersApart(m) /\ Controls(m) \cap Used(m) = {}
              /\ NonObjects(m) = NonObjects(a) /\ SlotsMayDiffer(m, a)
              /\ m.objs = a.objs /\ m.xdicOf = a.xdicOf /\ m.dict = a.dict
              /\ m.model = a.model /\ m.paper = a.paper
              /\ a.next <= m.next
              /\ DOMAIN m.blocks = DOMAIN a.blocks
              /\ \A b \in DOMAIN a.blocks : /\ m.blocks[b].handle = a.blocks[b].handle
                                            /\ m.blocks[b].listed = a.blocks[b].listed
<1>. DEFINE a == Aligned(d)
            c == MoveControls(a)
            m == MoveMarkers(c)
<1>1. Drawing(a) /\ Above(a) /\ TablesNamed(a) /\ ObjectsNamed(a)
  BY AlignedIs
<1>2. Cleared(d) = m
  BY DEF Cleared
<1>. HIDE DEF a
<1>3. Below(a)
  BY <1>1 DEF Above, Below
<1>4. /\ Drawing(c) /\ Below(c) /\ ControlsMayDiffer(c, a)
      /\ Used(c) = Used(a) /\ Controls(c) \cap Used(c) = {}
  BY <1>1, <1>3, ControlsAre
<1>. HIDE DEF c
<1>5. Drawing(m) /\ Below(m) /\ MarkersMayDiffer(m, c) /\ MarkersApart(m)
  BY <1>4, MarkersAre
<1>. HIDE DEF m
<1>6. NonObjects(m) = NonObjects(c) /\ Used(m) = Used(c) /\ Controls(m) = Controls(c)
  BY <1>5, MarkersUsed
<1>7. NonObjects(c) = NonObjects(a)
  BY <1>4 DEF ControlsMayDiffer, NonObjects, LayerHandles, BlockHandles
<1>8. SlotsMayDiffer(m, a)
  <2>1. SlotsMayDiffer(m, c) /\ c.ents = a.ents /\ c.index = a.index
    BY <1>4, <1>5 DEF MarkersMayDiffer, ControlsMayDiffer
  <2>2. IndexSound(c) <=> IndexSound(a)
    BY <2>1 DEF IndexSound
  <2>. QED
    BY <2>1, <2>2 DEF SlotsMayDiffer
<1>9. /\ m.objs = a.objs /\ m.xdicOf = a.xdicOf /\ m.dict = a.dict /\ m.layers = a.layers
      /\ m.model = a.model /\ m.paper = a.paper
      /\ DOMAIN m.blocks = DOMAIN a.blocks
      /\ \A b \in DOMAIN a.blocks : /\ m.blocks[b].handle = a.blocks[b].handle
                                    /\ m.blocks[b].listed = a.blocks[b].listed
  BY <1>4, <1>5 DEF MarkersMayDiffer, ControlsMayDiffer
<1>10. a.next <= m.next
  <2>1. \A x : Drawing(x) => x.next \in Nat
    BY DEF Drawing
  <2>2. a.next \in Nat /\ c.next \in Nat /\ m.next \in Nat
    BY <1>1, <1>4, <1>5, <2>1
  <2>. QED
    BY <1>4, <1>5, <2>2 DEF MarkersMayDiffer, ControlsMayDiffer
<1>11. TablesNamed(m) /\ ObjectsNamed(m)
  BY <1>1, <1>9 DEF TablesNamed, ObjectsNamed, LayerHandles, BlockHandles, Ids
<1>. QED
  BY <1>2, <1>4, <1>5, <1>6, <1>7, <1>8, <1>9, <1>10, <1>11 DEF a

\* e and d have the same identities.
LEMMA IdentitiesSame ==
    ASSUME NEW d, NEW e, e.ctl = d.ctl, e.layers = d.layers, e.blocks = d.blocks,
           e.objs = d.objs, DOMAIN e.ents = DOMAIN d.ents,
           \A i \in DOMAIN d.ents : e.ents[i].handle = d.ents[i].handle
                                    /\ e.ents[i].kind = d.ents[i].kind
    PROVE  /\ NonObjects(e) = NonObjects(d) /\ Used(e) = Used(d) /\ Controls(e) = Controls(d)
           /\ EntityHandles(e) = EntityHandles(d)
           /\ TablesNamed(e) <=> TablesNamed(d)
           /\ ObjectsNamed(e) <=> ObjectsNamed(d)
           /\ MarkersApart(e) <=> MarkersApart(d)
<1>. DEFINE plain(x) == {j \in DOMAIN x.ents : ~Marker(x.ents[j])}
<1>1. plain(e) = plain(d)
  BY DEF Marker
<1>2. plain(d) \subseteq DOMAIN d.ents
  OBVIOUS
<1>. HIDE DEF plain
<1>3. {e.ents[i].handle : i \in plain(e)} = {d.ents[i].handle : i \in plain(d)}
  BY <1>1, <1>2
<1>4. /\ LayerHandles(e) = LayerHandles(d) /\ BlockHandles(e) = BlockHandles(d)
      /\ Ids(e) = Ids(d) /\ Controls(e) = Controls(d)
  BY DEF LayerHandles, BlockHandles, Ids, Controls
<1>5. NonObjects(e) = NonObjects(d)
  BY <1>3, <1>4 DEF NonObjects, plain
<1>6. Used(e) = Used(d)
  BY <1>5 DEF Used
<1>7. EntityHandles(e) = EntityHandles(d)
  BY DEF EntityHandles
<1>8. (TablesNamed(e) <=> TablesNamed(d)) /\ (ObjectsNamed(e) <=> ObjectsNamed(d))
  BY <1>4 DEF TablesNamed, ObjectsNamed
<1>9. MarkersApart(e) <=> MarkersApart(d)
  BY <1>4, <1>6 DEF MarkersApart, MarkerOf, Places
<1>. QED
  BY <1>4, <1>5, <1>6, <1>7, <1>8, <1>9

\* Where the remapping leads from the documents in question.
Lead(d) == Remap(Cleared(d), NonObjects(Aligned(d)))

\* The document whose objects are moved: 1d.
LEMMA ObjectsApart ==
    ASSUME NEW d, Drawing(d)
    PROVE  LET m == Cleared(d)
               o == MoveObjects(m, NonObjects(Aligned(d)))
           IN /\ Drawing(o) /\ Below(o) /\ TablesNamed(o) /\ ObjectsNamed(o)
              /\ DOMAIN o.objs \cap NonObjects(o) = {}
              /\ MarkersApart(o) /\ Controls(o) \cap Used(o) = {}
              /\ ObjectsMoved(o, m, Lead(d)) /\ RemapSound(Lead(d), m)
<1>. DEFINE m == Cleared(d)
            N == NonObjects(Aligned(d))
            r == Remap(m, N)
            o == MoveObjects(m, N)
<1>1. /\ Drawing(m) /\ Below(m) /\ TablesNamed(m) /\ ObjectsNamed(m)
      /\ MarkersApart(m) /\ Controls(m) \cap Used(m) = {} /\ NonObjects(m) = N
  BY ClearedIs
<1>2. r = Lead(d)
  BY DEF Lead
<1>. HIDE DEF m, N
<1>3. Drawing(o) /\ Below(o) /\ ObjectsMoved(o, m, r)
  BY <1>1, ObjectsMovedAre
<1>4. DOMAIN r = DOMAIN m.objs \cap N /\ RemapSound(r, m)
  BY <1>1, RemapIs
<1>. HIDE DEF o, r
<1>5. /\ m.next \in Nat \ {Null} /\ m.next \in Nat /\ DOMAIN m.objs \subseteq Nat
      /\ Null \notin DOMAIN m.objs /\ Null \notin Ids(m)
  BY <1>1 DEF Drawing, MapFrom, ObjectsNamed
<1>6. \A k \in DOMAIN o.objs : k \in DOMAIN m.objs \ N \/ (k \in Nat /\ m.next <= k)
  BY <1>3, <1>4 DEF ObjectsMoved, To, RemapSound
<1>7. ObjectsNamed(o)
  <2>1. Null \notin DOMAIN o.objs
    BY <1>5, <1>6 DEF Null
  <2>2. \A k \in DOMAIN o.objs : o.objs[k].id \in Ids(m) \cup {k}
    <3>1. DOMAIN o.objs = {To(r, g) : g \in DOMAIN m.objs}
      BY <1>3 DEF ObjectsMoved
    <3>2. \A g \in DOMAIN m.objs : o.objs[To(r, g)].id \in {m.objs[g].id, To(r, g)}
      BY <1>3 DEF ObjectsMoved
    <3>3. \A g \in DOMAIN m.objs : m.objs[g].id \in Ids(m)
      BY DEF Ids
    <3>. SUFFICES ASSUME NEW k \in DOMAIN o.objs
                  PROVE  o.objs[k].id \in Ids(m) \cup {k}
      OBVIOUS
    <3>4. PICK g \in DOMAIN m.objs : k = To(r, g)
      BY <3>1
    <3>. QED
      BY <3>2, <3>3, <3>4
  <2>3. Null \notin Ids(o)
    BY <1>5, <2>1, <2>2 DEF Ids
  <2>. QED
    BY <2>1, <2>3 DEF ObjectsNamed
<1>8. TablesNamed(o)
  BY <1>1, <1>3 DEF ObjectsMoved, TablesNamed, LayerHandles, BlockHandles
<1>9. NonObjects(o) = N
  <2>. DEFINE plain(x) == {j \in DOMAIN x.ents : ~Marker(x.ents[j])}
  <2>1. plain(o) = plain(m) /\ plain(m) \subseteq DOMAIN m.ents
    BY <1>3 DEF Marker, ObjectsMoved
  <2>. HIDE DEF plain
  <2>2. {o.ents[i].handle : i \in plain(o)} = {m.ents[i].handle : i \in plain(m)}
    BY <1>3, <2>1 DEF ObjectsMoved
  <2>3. LayerHandles(o) = LayerHandles(m) /\ BlockHandles(o) = BlockHandles(m)
    BY <1>3 DEF ObjectsMoved, LayerHandles, BlockHandles
  <2>. QED
    BY <1>1, <2>2, <2>3 DEF NonObjects, plain
<1>10. \A h \in Stored(m) : h \in Nat /\ h < m.next
  BY <1>1, StoredFinite DEF Below
<1>11. N \subseteq Stored(m) /\ Controls(m) \subseteq Stored(m) /\ MarkerHandles(m) \subseteq Stored(m)
  BY <1>1, UsedStored DEF Stored
<1>12. DOMAIN o.objs \cap N = {}
  <2>1. \A k \in N : k \in Nat /\ k < m.next
    BY <1>10, <1>11
  <2>. QED
    BY <1>5, <1>6, <2>1
<1>13. Used(o) \subseteq Used(m) \cup {k \in Nat : m.next <= k}
  BY <1>1, <1>6, <1>9 DEF Used
<1>14. Controls(o) \cap Used(o) = {}
  <2>1. Controls(o) = Controls(m)
    BY <1>3 DEF ObjectsMoved, Controls
  <2>2. \A k \in Controls(m) : k \in Nat /\ k < m.next
    BY <1>10, <1>11
  <2>. QED
    BY <1>1, <1>5, <1>13, <2>1, <2>2
<1>15. MarkersApart(o)
  <2>1. Controls(o) = Controls(m) /\ o.blocks = m.blocks
    BY <1>3 DEF ObjectsMoved, Controls
  <2>2. Places(o) = Places(m) /\ \A p : MarkerOf(o, p) = MarkerOf(m, p)
    BY <2>1 DEF Places, MarkerOf
  <2>3. \A p \in Places(m) : MarkerOf(m, p) \in Nat /\ MarkerOf(m, p) < m.next
    BY <1>1, <1>10, <1>11, MarkerOfIs
  <2>. QED
    BY <1>1, <1>5, <1>13, <2>1, <2>2, <2>3 DEF MarkersApart
<1>. QED
  BY <1>2, <1>3, <1>4, <1>7, <1>8, <1>9, <1>12, <1>14, <1>15 DEF m, N, o, r

\* Nothing is left to do but for entities without a handle and for the index.
Tidy(d) ==
    /\ Drawing(d) /\ Above(d) /\ TablesNamed(d) /\ ObjectsNamed(d) /\ Separate(d) /\ Owned(d)

\* Blocks that list an entity.
BlocksOf(d, i) == {b \in DOMAIN d.blocks : d.ents[i].handle \in Listed(d.blocks[b])}

\* e is d with its references resolved.
Resolves(e, d) ==
    /\ DOMAIN e.ents = DOMAIN d.ents /\ DOMAIN e.blocks = DOMAIN d.blocks
    /\ e.dict = To(Lead(d), d.dict)
    /\ \A b \in DOMAIN d.blocks :
          /\ d.blocks[b].handle # Null => e.blocks[b].handle = d.blocks[b].handle
          /\ e.blocks[b].listed = d.blocks[b].listed
    /\ \A i \in DOMAIN d.ents :
          /\ e.ents[i].kind = d.ents[i].kind
          /\ e.ents[i].xdic = To(Lead(d), d.ents[i].xdic)
          /\ e.ents[i].handle = d.ents[i].handle \/ e.ents[i].handle # Null
          /\ ~Marker(d.ents[i]) =>
                /\ e.ents[i].handle = d.ents[i].handle
                /\ d.ents[i].owner # Null => e.ents[i].owner = d.ents[i].owner
                /\ IndexSound(d) /\ d.ents[i].owner = Null /\ BlocksOf(d, i) # {}
                      => e.ents[i].owner = e.blocks[Lowest(BlocksOf(d, i))].handle
    /\ IndexSound(d) => IndexSound(e)
    /\ LET a == Aligned(d)
       IN \A k \in DOMAIN a.objs :
             LET p == e.objs[To(Lead(d), k)]
             IN /\ To(Lead(d), k) \in DOMAIN e.objs
                /\ p.kind = a.objs[k].kind /\ p.tag = a.objs[k].tag
                /\ p.refs = IF a.objs[k].kind = "dictionary"
                            THEN {To(Lead(d), h) : h \in a.objs[k].refs} ELSE a.objs[k].refs
                /\ p.owner = OwnerAlong(a.objs[k], Lead(d))
    /\ DOMAIN e.objs = {To(Lead(d), k) : k \in DOMAIN Aligned(d).objs}
    /\ (\A h \in DOMAIN d.xdicOf : h < Aligned(d).next) => TableMoved(e, d, Lead(d))

\* What resolve_references leaves.
LEMMA ResolveIs ==
    ASSUME NEW d, Drawing(d)
    PROVE  LET e == ResolveReferences(d) IN Tidy(e) /\ Resolves(e, d)
<1>. DEFINE a == Aligned(d)
            m == Cleared(d)
            r == Lead(d)
            o == MoveObjects(m, NonObjects(a))
            w == AssignOwners(o)
            e == [w EXCEPT !.seed = Larger(@, w.next)]
<1>1. ResolveReferences(d) = e
  BY Zenon DEF ResolveReferences, Resolved, Aligned, Cleared
<1>2. Drawing(a) /\ AlignedFrom(a, d)
  BY AlignedIs
<1>3. /\ Drawing(m) /\ SlotsMayDiffer(m, a)
      /\ m.objs = a.objs /\ m.xdicOf = a.xdicOf /\ m.dict = a.dict
      /\ m.model = a.model /\ m.paper = a.paper /\ a.next <= m.next
      /\ DOMAIN m.blocks = DOMAIN a.blocks
      /\ \A b \in DOMAIN a.blocks : /\ m.blocks[b].handle = a.blocks[b].handle
                                    /\ m.blocks[b].listed = a.blocks[b].listed
  BY ClearedIs
<1>4. /\ Drawing(o) /\ Below(o) /\ TablesNamed(o) /\ ObjectsNamed(o)
      /\ DOMAIN o.objs \cap NonObjects(o) = {}
      /\ MarkersApart(o) /\ Controls(o) \cap Used(o) = {}
      /\ ObjectsMoved(o, m, r)
  BY ObjectsApart
<1>. HIDE DEF a, m, r, o
<1>5. Drawing(w) /\ OwnersResolved(w, o) /\ Owned(w) /\ Stored(w) = Stored(o)
  BY <1>4, OwnersAre
<1>. HIDE DEF w
<1>6. /\ Drawing(e) /\ Fields(e) /\ e.next = w.next /\ e.seed = Larger(w.seed, w.next)
      /\ Stored(e) = Stored(w)
      /\ e.ctl = w.ctl /\ e.layers = w.layers /\ e.blocks = w.blocks
      /\ e.ents = w.ents /\ e.index = w.index /\ e.objs = w.objs /\ e.dict = w.dict
      /\ e.model = w.model /\ e.paper = w.paper /\ e.xdicOf = w.xdicOf
  <2>1. w.next \in Nat \ {Null} /\ w.seed \in Nat /\ Larger(w.seed, w.next) \in Nat
    BY <1>5 DEF Drawing, Larger
  <2>2. e = [w EXCEPT !.next = w.next, !.seed = Larger(w.seed, w.next)]
    BY <1>5 DEF Drawing
  <2>3. Drawing(e) /\ Fields(e) /\ e.next = w.next /\ e.seed = Larger(w.seed, w.next)
        /\ Stored(e) = Stored(w)
    <3>. DEFINE n == w.next
                s == Larger(w.seed, w.next)
                c == [w EXCEPT !.next = n, !.seed = s]
    <3>1. n \in Nat \ {Null} /\ s \in Nat /\ e = c
      BY <2>1, <2>2
    <3>. HIDE DEF n, s, e
    <3>2. /\ Drawing(c) /\ Fields(c) /\ c.next = n /\ c.seed = s /\ Stored(c) = Stored(w)
      BY <1>5, <3>1, CountersDrawing
    <3>. QED
      BY <3>1, <3>2 DEF n, s
  <2>4. Fields(w) /\ e = [w EXCEPT !.seed = Larger(w.seed, w.next)]
    BY <1>5 DEF Drawing, Fields
  <2>. HIDE DEF e
  <2>. QED
    BY <2>3, <2>4 DEF Fields
<1>. HIDE DEF e
<1>7. DOMAIN e.ents = DOMAIN o.ents
      /\ \A i \in DOMAIN o.ents : e.ents[i].handle = o.ents[i].handle
                                  /\ e.ents[i].kind = o.ents[i].kind
                                  /\ e.ents[i].xdic = o.ents[i].xdic
                                  /\ e.ents[i].owner = OwnerOf(o, i)
  BY <1>5, <1>6 DEF OwnersResolved
<1>8. /\ e.ctl = o.ctl /\ e.layers = o.layers /\ e.blocks = o.blocks /\ e.objs = o.objs
      /\ e.index = o.index /\ e.dict = o.dict /\ e.model = o.model /\ e.paper = o.paper
      /\ e.next = o.next /\ e.xdicOf = o.xdicOf
  BY <1>5, <1>6 DEF OwnersResolved
<1>9. Tidy(e)
  <2>1. /\ NonObjects(e) = NonObjects(o) /\ Used(e) = Used(o) /\ Controls(e) = Controls(o)
        /\ TablesNamed(e) /\ ObjectsNamed(e) /\ MarkersApart(e)
    BY <1>4, <1>7, <1>8, IdentitiesSame
  <2>2. Separate(e)
    BY <1>4, <1>8, <2>1, SeparateIs
  <2>3. Above(e)
    <3>1. e.next \in Nat /\ w.seed \in Nat
      BY <1>5, <1>6 DEF Drawing
    <3>2. e.next <= e.seed
      BY <1>6, <3>1 DEF Larger
    <3>. QED
      BY <1>4, <1>5, <1>6, <1>8, <3>2 DEF Above, Below
  <2>4. Owned(e)
    BY <1>5, <1>6 DEF Owned, ModeOf
  <2>. QED
    BY <1>6, <2>1, <2>2, <2>3, <2>4 DEF Tidy
<1>10. Resolves(e, d)
  <2>1. /\ DOMAIN o.ents = DOMAIN m.ents /\ o.blocks = m.blocks /\ o.index = m.index
        /\ o.model = m.model /\ o.paper = m.paper
        /\ o.dict = To(r, m.dict)
        /\ \A i \in DOMAIN m.ents :
              /\ o.ents[i].handle = m.ents[i].handle /\ o.ents[i].kind = m.ents[i].kind
              /\ o.ents[i].owner = m.ents[i].owner /\ o.ents[i].mode = m.ents[i].mode
              /\ o.ents[i].xdic = To(r, m.ents[i].xdic)
    BY <1>4 DEF ObjectsMoved
  <2>2. /\ a.ents = d.ents /\ a.index = d.index /\ a.dict = d.dict
        /\ DOMAIN a.blocks = DOMAIN d.blocks
        /\ \A b \in DOMAIN d.blocks :
              /\ d.blocks[b].handle # Null => a.blocks[b].handle = d.blocks[b].handle
              /\ a.blocks[b].listed = d.blocks[b].listed
    BY <1>2 DEF AlignedFrom
  <2>3. /\ DOMAIN m.ents = DOMAIN d.ents
        /\ \A i \in DOMAIN d.ents :
              /\ EntityKept(m.ents[i], d.ents[i])
              /\ ~Marker(d.ents[i]) => m.ents[i] = d.ents[i]
              /\ m.ents[i].handle = d.ents[i].handle \/ m.ents[i].handle # Null
        /\ (IndexSound(d) => IndexSound(m))
    <3>1. IndexSound(a) <=> IndexSound(d)
      BY <2>2 DEF IndexSound
    <3>. QED
      BY <1>3, <2>2, <3>1 DEF SlotsMayDiffer
  <2>4. /\ DOMAIN e.blocks = DOMAIN d.blocks
        /\ \A b \in DOMAIN d.blocks :
              /\ d.blocks[b].handle # Null => e.blocks[b].handle = d.blocks[b].handle
              /\ e.blocks[b].listed = d.blocks[b].listed
    BY <1>3, <1>8, <2>1, <2>2
  <2>5. DOMAIN e.ents = DOMAIN d.ents /\ e.dict = To(r, d.dict)
    BY <1>3, <1>7, <1>8, <2>1, <2>2, <2>3
  <2>6. ASSUME NEW i \in DOMAIN d.ents
        PROVE  /\ e.ents[i].kind = d.ents[i].kind
               /\ e.ents[i].xdic = To(r, d.ents[i].xdic)
               /\ e.ents[i].handle = d.ents[i].handle \/ e.ents[i].handle # Null
               /\ e.ents[i].handle = m.ents[i].handle
    BY <1>7, <2>1, <2>3 DEF EntityKept
  <2>7. IndexSound(d) => IndexSound(e)
    <3>1. IndexSound(m) <=> IndexSound(e)
      BY <1>7, <1>8, <2>1 DEF IndexSound
    <3>. QED
      BY <2>3, <3>1
  <2>8. ASSUME NEW i \in DOMAIN d.ents, ~Marker(d.ents[i])
        PROVE  /\ e.ents[i].handle = d.ents[i].handle
               /\ d.ents[i].owner # Null => e.ents[i].owner = d.ents[i].owner
               /\ IndexSound(d) /\ d.ents[i].owner = Null /\ BlocksOf(d, i) # {}
                     => e.ents[i].owner = e.blocks[Lowest(BlocksOf(d, i))].handle
    <3>1. /\ o.ents[i].handle = d.ents[i].handle /\ o.ents[i].owner = d.ents[i].owner
          /\ m.ents[i].handle = d.ents[i].handle
      BY <2>1, <2>3, <2>8
    <3>2. e.ents[i].owner = OwnerOf(o, i)
      BY <1>7, <2>1, <2>3
    <3>3. d.ents[i].owner # Null => e.ents[i].owner = d.ents[i].owner
      BY <3>1, <3>2 DEF OwnerOf
    <3>4. ASSUME IndexSound(d), d.ents[i].owner = Null, BlocksOf(d, i) # {}
          PROVE  e.ents[i].owner = e.blocks[Lowest(BlocksOf(d, i))].handle
      <4>1. IndexSound(m)
        BY <2>3, <3>4
      <4>2. \A h : h \in DOMAIN m.index /\ m.index[h] = i <=> h = d.ents[i].handle
        BY <2>3, <3>1, <4>1 DEF IndexSound
      <4>3. ListedBy(o, i) = BlocksOf(d, i)
        <5>1. \A b \in DOMAIN d.blocks : Listed(o.blocks[b]) = Listed(d.blocks[b])
          BY <1>8, <2>4 DEF Listed
        <5>2. DOMAIN o.blocks = DOMAIN d.blocks /\ o.index = m.index
          BY <1>8, <2>1, <2>4
        <5>. QED
          BY <4>2, <5>1, <5>2 DEF ListedBy, BlocksOf
      <4>. QED
        BY <1>8, <3>1, <3>2, <3>4, <4>3 DEF OwnerOf
    <3>. QED
      BY <2>6, <3>1, <3>3, <3>4
  <2>9. /\ DOMAIN e.objs = {To(r, k) : k \in DOMAIN a.objs}
        /\ \A k \in DOMAIN a.objs :
              LET p == e.objs[To(r, k)]
              IN /\ To(r, k) \in DOMAIN e.objs
                 /\ p.kind = a.objs[k].kind /\ p.tag = a.objs[k].tag
                 /\ p.refs = IF a.objs[k].kind = "dictionary"
                             THEN {To(r, h) : h \in a.objs[k].refs} ELSE a.objs[k].refs
                 /\ p.owner = OwnerAlong(a.objs[k], r)
    <3>1. /\ DOMAIN o.objs = {To(r, k) : k \in DOMAIN m.objs}
          /\ \A k \in DOMAIN m.objs :
                LET p == o.objs[To(r, k)]
                IN /\ p.kind = m.objs[k].kind /\ p.tag = m.objs[k].tag
                   /\ p.refs = IF m.objs[k].kind = "dictionary"
                               THEN {To(r, h) : h \in m.objs[k].refs} ELSE m.objs[k].refs
                   /\ p.owner = OwnerAlong(m.objs[k], r)
      BY <1>4 DEF ObjectsMoved
    <3>2. e.objs = o.objs /\ m.objs = a.objs
      BY <1>3, <1>8
    <3>3. \A k \in DOMAIN m.objs : To(r, k) \in DOMAIN o.objs
      BY <3>1
    <3>. QED
      BY <3>1, <3>2, <3>3, Zenon
  <2>10. /\ DOMAIN e.objs = {To(Lead(d), k) : k \in DOMAIN Aligned(d).objs}
         /\ LET b == Aligned(d)
            IN \A k \in DOMAIN b.objs :
              LET p == e.objs[To(Lead(d), k)]
              IN /\ To(Lead(d), k) \in DOMAIN e.objs
                 /\ p.kind = b.objs[k].kind /\ p.tag = b.objs[k].tag
                 /\ p.refs = IF b.objs[k].kind = "dictionary"
                             THEN {To(Lead(d), h) : h \in b.objs[k].refs} ELSE b.objs[k].refs
                 /\ p.owner = OwnerAlong(b.objs[k], Lead(d))
    BY <2>9 DEF a, r
  <2>11. r = Lead(d) /\ a = Aligned(d)
    BY DEF r, a
  <2>12. (\A h \in DOMAIN d.xdicOf : h < a.next) => TableMoved(e, d, r)
    <3>1. m.xdicOf = d.xdicOf /\ e.xdicOf = o.xdicOf
      BY <1>2, <1>3, <1>8 DEF AlignedFrom
    <3>2. DOMAIN d.xdicOf \subseteq Nat /\ a.next \in Nat /\ m.next \in Nat
      BY <1>2, <1>3 DEF Drawing, MapFrom
    <3>3. (\A h \in DOMAIN m.xdicOf : h < m.next) => TableMoved(o, m, r)
      BY <1>4 DEF ObjectsMoved
    <3>4. TableMoved(o, m, r) => TableMoved(e, d, r)
      BY <3>1 DEF TableMoved
    <3>. QED
      BY <1>3, <3>1, <3>2, <3>3, <3>4
  <2>. QED
    BY <2>4, <2>5, <2>6, <2>7, <2>8, <2>10, <2>11, <2>12 DEF Resolves
<1>. QED
  BY <1>1, <1>9, <1>10

\* It leaves alone what is in order.
LEMMA ResolveStable ==
    ASSUME NEW d, Tidy(d)
    PROVE  ResolveReferences(d) = d
<1>1. /\ Drawing(d) /\ Above(d) /\ TablesNamed(d) /\ ObjectsNamed(d) /\ Owned(d)
      /\ DOMAIN d.objs \cap NonObjects(d) = {}
      /\ Controls(d) \cap Used(d) = {} /\ MarkersApart(d)
  BY SeparateIs DEF Tidy
<1>2. Synchronize(d) = d /\ AssignTables(d) = d
  BY <1>1, SyncStable, TablesStable
<1>3. AssignNullObject(d) = d /\ AlignObjects(d) = d
  BY <1>1, ObjectsStable DEF ObjectsNamed
<1>4. MoveControls(d) = d /\ MoveMarkers(d) = d
  BY <1>1, ControlsStable, MarkersStable
<1>5. MoveObjects(d, NonObjects(d)) = d
  BY <1>1, ObjectsStay
<1>6. AssignOwners(d) = d
  BY <1>1, OwnersStable
<1>7. Resolved(d) = d
  BY <1>2, <1>3, <1>4, <1>5, <1>6, Zenon DEF Resolved
<1>8. Larger(d.seed, d.next) = d.seed
  <2>1. d.seed \in Nat /\ d.next \in Nat
    BY <1>1 DEF Drawing
  <2>. QED
    BY <1>1, <2>1 DEF Above, Larger
<1>9. [d EXCEPT !.seed = d.seed] = d
  BY <1>1 DEF Drawing
<1>. QED
  BY <1>7, <1>8, <1>9 DEF ResolveReferences

-----------------------------------------------------------------------------
(* Repair: entities without a handle.                                      *)

\* Entity e is entity g with another handle.
EntitySame(e, g) == EntityKept(e, g) /\ e.owner = g.owner

LEMMA WithName ==
    ASSUME NEW g \in Entity, NEW h \in Nat
    PROVE  LET e == [[g EXCEPT !.handle = h] EXCEPT !.raw = NoRaw]
           IN e \in Entity /\ e.handle = h /\ EntitySame(e, g)
BY DEF Entity, EntitySame, EntityKept

\* An entity under the allocator's next number.
LEMMA EntityNamed ==
    ASSUME NEW d, Drawing(d), Above(d), NEW i \in DOMAIN d.ents
    PROVE  LET h == Fresh(d)
               e == [Taken(d) EXCEPT !.ents[i].handle = h, !.ents[i].raw = NoRaw]
           IN /\ Drawing(e) /\ Above(e) /\ Fields(e) /\ d.next <= h /\ h < e.next
              /\ h \in Nat \ {Null} /\ e.ents[i].handle = h
              /\ DOMAIN e.ents = DOMAIN d.ents /\ EntitySame(e.ents[i], d.ents[i])
              /\ \A k \in DOMAIN d.ents \ {i} : e.ents[k] = d.ents[k]
              /\ e.ctl = d.ctl /\ e.layers = d.layers /\ e.blocks = d.blocks
              /\ e.index = d.index /\ e.objs = d.objs
              /\ e.xdicOf = d.xdicOf /\ e.dict = d.dict /\ e.model = d.model
              /\ e.paper = d.paper
<1>. DEFINE t == Taken(d)
            h == Fresh(d)
            r == [[d.ents[i] EXCEPT !.handle = h] EXCEPT !.raw = NoRaw]
            e == [t EXCEPT !.ents[i].handle = h, !.ents[i].raw = NoRaw]
<1>1. /\ Drawing(t) /\ Fields(t) /\ h \in Nat \ {Null} /\ d.next <= h
      /\ (\A g \in Stored(d) : g < h) /\ Stored(d) \in SUBSET Nat
      /\ t.next = h + 1 /\ t.seed = h + 1
      /\ t.ctl = d.ctl /\ t.layers = d.layers /\ t.blocks = d.blocks
      /\ t.ents = d.ents /\ t.index = d.index /\ t.objs = d.objs
      /\ t.xdicOf = d.xdicOf /\ t.dict = d.dict /\ t.model = d.model
      /\ t.paper = d.paper
  BY TakenIs, StoredFinite
<1>2. /\ d.ents \in Seq(Entity) /\ d.ents[i] \in Entity
      /\ d.ents = [k \in DOMAIN d.ents |-> d.ents[k]]
  <2>1. d.ents \in Seq(Entity)
    BY DEF Drawing
  <2>. QED
    BY <2>1
<1>3. r \in Entity /\ r.handle = h /\ EntitySame(r, d.ents[i])
  <2>1. h \in Nat
    BY <1>1
  <2>. HIDE DEF h
  <2>. QED
    BY <1>2, <2>1, WithName
<1>4. e = [t EXCEPT !.ents[i].handle = h, !.ents[i].raw = NoRaw]
  OBVIOUS
<1>5. r = [[d.ents[i] EXCEPT !.handle = h] EXCEPT !.raw = NoRaw]
  OBVIOUS
<1>. HIDE DEF t, h, r, e
<1>6. e = [t EXCEPT !.ents = [d.ents EXCEPT ![i] = r]]
  <2>1. [[d.ents EXCEPT ![i] = [d.ents[i] EXCEPT !.handle = h]]
            EXCEPT ![i] = [[d.ents[i] EXCEPT !.handle = h] EXCEPT !.raw = NoRaw]]
        = [d.ents EXCEPT ![i] = r]
    BY <1>2, <1>5
  <2>2. e = [t EXCEPT !.ents = [[d.ents EXCEPT ![i] = [d.ents[i] EXCEPT !.handle = h]]
               EXCEPT ![i] = [[d.ents[i] EXCEPT !.handle = h] EXCEPT !.raw = NoRaw]]]
    BY <1>1, <1>2, <1>4 DEF Fields
  <2>. QED
    BY <2>1, <2>2
<1>7. /\ Fields(e) /\ e.ents = [d.ents EXCEPT ![i] = r]
      /\ e.next = h + 1 /\ e.seed = h + 1
      /\ e.ctl = d.ctl /\ e.layers = d.layers /\ e.blocks = d.blocks
      /\ e.index = d.index /\ e.objs = d.objs
      /\ e.xdicOf = d.xdicOf /\ e.dict = d.dict /\ e.model = d.model
      /\ e.paper = d.paper
  BY <1>1, <1>6 DEF Fields
<1>8. /\ e.ents \in Seq(Entity) /\ DOMAIN e.ents = DOMAIN d.ents /\ e.ents[i] = r
      /\ \A k \in DOMAIN d.ents : k # i => e.ents[k] = d.ents[k]
  BY <1>2, <1>3, <1>7
<1>9. h + 1 \in Nat \ {Null} /\ h + 1 \in Nat /\ h < h + 1
  BY <1>1 DEF Null
<1>10. Drawing(e)
  BY <1>7, <1>8, <1>9 DEF Drawing, Fields
<1>11. Above(e)
  <2>1. EntityHandles(e) \subseteq EntityHandles(d) \cup {h}
    BY <1>3, <1>8 DEF EntityHandles
  <2>2. /\ Controls(e) = Controls(d) /\ LayerHandles(e) = LayerHandles(d)
        /\ BlockHandles(e) = BlockHandles(d) /\ MarkerHandles(e) = MarkerHandles(d)
        /\ Members(e) = Members(d) /\ Ids(e) = Ids(d) /\ e.objs = d.objs
    BY <1>7 DEF Controls, LayerHandles, BlockHandles, MarkerHandles, Members, Ids
  <2>3. Stored(e) \subseteq Stored(d) \cup {h}
    BY <2>1, <2>2 DEF Stored
  <2>4. \A g \in Stored(e) : g < h + 1
    BY <1>1, <2>3
  <2>. QED
    BY <1>7, <1>9, <2>4 DEF Above
<1>. QED
  BY <1>1, <1>3, <1>4, <1>7, <1>8, <1>9, <1>10, <1>11 DEF h, t

LEMMA WithListed ==
    ASSUME NEW g \in BlockRecord, NEW l \in Seq(Nat)
    PROVE  LET e == [g EXCEPT !.listed = l]
           IN /\ e \in BlockRecord /\ e.listed = l /\ e.handle = g.handle
              /\ e.begin = g.begin /\ e.end = g.end
BY DEF BlockRecord

\* A member of a block under the handle of an entity.
LEMMA MemberNamed ==
    ASSUME NEW d, Drawing(d), Above(d), NEW b \in DOMAIN d.blocks,
           NEW j \in DOMAIN d.blocks[b].listed, NEW h \in Nat, h < d.next
    PROVE  LET e == [d EXCEPT !.blocks[b].listed[j] = h]
           IN /\ Drawing(e) /\ Above(e)
              /\ DOMAIN e.blocks = DOMAIN d.blocks
              /\ \A c \in DOMAIN d.blocks :
                    /\ e.blocks[c].handle = d.blocks[c].handle
                    /\ e.blocks[c].begin = d.blocks[c].begin
                    /\ e.blocks[c].end = d.blocks[c].end
                    /\ DOMAIN e.blocks[c].listed = DOMAIN d.blocks[c].listed
                    /\ \A k \in DOMAIN d.blocks[c].listed :
                          \/ e.blocks[c].listed[k] = d.blocks[c].listed[k]
                          \/ c = b /\ k = j /\ e.blocks[c].listed[k] = h
              /\ e.ctl = d.ctl /\ e.layers = d.layers /\ e.ents = d.ents
              /\ e.index = d.index /\ e.objs = d.objs
              /\ e.xdicOf = d.xdicOf /\ e.dict = d.dict /\ e.model = d.model
              /\ e.paper = d.paper /\ e.next = d.next
<1>. DEFINE l == [d.blocks[b].listed EXCEPT ![j] = h]
            r == [d.blocks[b] EXCEPT !.listed = l]
            e == [d EXCEPT !.blocks = [d.blocks EXCEPT ![b] = r]]
<1>1. /\ Fields(d) /\ d.blocks \in Seq(BlockRecord) /\ d.blocks[b] \in BlockRecord
      /\ d.blocks[b].listed \in Seq(Nat)
  <2>1. d.blocks \in Seq(BlockRecord) /\ Fields(d)
    BY DEF Drawing, Fields
  <2>2. d.blocks[b] \in BlockRecord
    BY <2>1
  <2>. QED
    BY <2>1, <2>2 DEF BlockRecord
<1>2. [d EXCEPT !.blocks[b].listed[j] = h] = e
  BY <1>1 DEF Fields
<1>3. /\ l \in Seq(Nat) /\ DOMAIN l = DOMAIN d.blocks[b].listed /\ l[j] = h
      /\ \A k \in DOMAIN l : k # j => l[k] = d.blocks[b].listed[k]
  BY <1>1
<1>4. r = [d.blocks[b] EXCEPT !.listed = l] /\ e = [d EXCEPT !.blocks = [d.blocks EXCEPT ![b] = r]]
  OBVIOUS
<1>. HIDE DEF l, r, e
<1>5. /\ r \in BlockRecord /\ r.listed = l /\ r.handle = d.blocks[b].handle
      /\ r.begin = d.blocks[b].begin /\ r.end = d.blocks[b].end
  BY <1>1, <1>3, <1>4, WithListed
<1>6. /\ Fields(e) /\ e.blocks = [d.blocks EXCEPT ![b] = r]
      /\ e.ctl = d.ctl /\ e.layers = d.layers /\ e.ents = d.ents /\ e.index = d.index
      /\ e.objs = d.objs /\ e.xdicOf = d.xdicOf /\ e.dict = d.dict
      /\ e.model = d.model /\ e.paper = d.paper /\ e.next = d.next /\ e.seed = d.seed
  BY <1>1, <1>4 DEF Fields
<1>7. /\ e.blocks \in Seq(BlockRecord) /\ DOMAIN e.blocks = DOMAIN d.blocks
      /\ e.blocks[b] = r /\ \A i \in DOMAIN d.blocks : i # b => e.blocks[i] = d.blocks[i]
  BY <1>1, <1>5, <1>6
<1>8. Drawing(e)
  BY <1>6, <1>7 DEF Drawing, Fields
<1>9. ASSUME NEW c \in DOMAIN d.blocks
      PROVE  /\ e.blocks[c].handle = d.blocks[c].handle
             /\ e.blocks[c].begin = d.blocks[c].begin
             /\ e.blocks[c].end = d.blocks[c].end
             /\ DOMAIN e.blocks[c].listed = DOMAIN d.blocks[c].listed
             /\ \A k \in DOMAIN d.blocks[c].listed :
                   \/ e.blocks[c].listed[k] = d.blocks[c].listed[k]
                   \/ c = b /\ k = j /\ e.blocks[c].listed[k] = h
  <2>1. CASE c = b
    BY <1>3, <1>5, <1>7, <2>1
  <2>2. CASE c # b
    BY <1>7, <2>2
  <2>. QED
    BY <2>1, <2>2
<1>10. Above(e)
  <2>1. Members(e) \subseteq Members(d) \cup {h}
    <3>1. \A c \in DOMAIN d.blocks : Listed(e.blocks[c]) \subseteq Listed(d.blocks[c]) \cup {h}
      BY <1>9 DEF Listed
    <3>. QED
      BY <1>7, <3>1 DEF Members
  <2>2. BlockHandles(e) = BlockHandles(d) /\ MarkerHandles(e) = MarkerHandles(d)
    BY <1>7, <1>9 DEF BlockHandles, MarkerHandles
  <2>3. /\ Controls(e) = Controls(d) /\ LayerHandles(e) = LayerHandles(d)
        /\ EntityHandles(e) = EntityHandles(d) /\ Ids(e) = Ids(d) /\ e.objs = d.objs
    BY <1>6 DEF Controls, LayerHandles, EntityHandles, Ids
  <2>4. Stored(e) \subseteq Stored(d) \cup {h}
    BY <2>1, <2>2, <2>3 DEF Stored
  <2>. QED
    BY <1>6, <2>4 DEF Above
<1>. QED
  BY <1>2, <1>6, <1>7, <1>8, <1>9, <1>10

\* The members of the blocks of a document are numbers, and so are the handles
\* of its entities.
LEMMA HandlesAre ==
    ASSUME NEW d, Drawing(d)
    PROVE  /\ \A b \in DOMAIN d.blocks : /\ d.blocks[b] \in BlockRecord
                                         /\ d.blocks[b].handle \in Nat
                                         /\ d.blocks[b].listed \in Seq(Nat)
                                         /\ \A j \in DOMAIN d.blocks[b].listed :
                                               d.blocks[b].listed[j] \in Nat
           /\ \A i \in DOMAIN d.ents : /\ d.ents[i] \in Entity /\ d.ents[i].handle \in Nat
                                       /\ d.ents[i].owner \in Nat /\ d.ents[i].xdic \in Nat
           /\ d.next \in Nat /\ d.seed \in Nat
           /\ DOMAIN d.blocks \subseteq Nat /\ DOMAIN d.ents \subseteq Nat
<1>1. d.blocks \in Seq(BlockRecord) /\ d.ents \in Seq(Entity) /\ d.next \in Nat /\ d.seed \in Nat
  BY DEF Drawing
<1>2. \A b \in DOMAIN d.blocks : d.blocks[b] \in BlockRecord
  BY <1>1
<1>3. \A g \in BlockRecord : g.handle \in Nat /\ g.listed \in Seq(Nat)
  BY DEF BlockRecord
<1>4. \A l \in Seq(Nat) : \A j \in DOMAIN l : l[j] \in Nat
  OBVIOUS
<1>5. \A i \in DOMAIN d.ents : d.ents[i] \in Entity
  BY <1>1
<1>. QED
  BY <1>1, <1>2, <1>3, <1>4, <1>5, EntityType

\* A member of block b of e is the one of d, or names no entity of d and is the
\* allocator's.
MemberKept(e, d, b, k) ==
    \/ e.blocks[b].listed[k] = d.blocks[b].listed[k]
    \/ /\ d.next <= e.blocks[b].listed[k]
       /\ d.blocks[b].listed[k] \notin EntityHandles(d) \ {Null}

\* e is d with handles for entities that had none, in the lists of the blocks
\* too, and other counters.
EntitiesMayDiffer(e, d) ==
    /\ e.ctl = d.ctl /\ e.layers = d.layers /\ e.index = d.index /\ e.objs = d.objs
    /\ e.xdicOf = d.xdicOf /\ e.dict = d.dict /\ e.model = d.model
    /\ e.paper = d.paper /\ d.next <= e.next
    /\ DOMAIN e.blocks = DOMAIN d.blocks
    /\ \A b \in DOMAIN d.blocks :
          /\ e.blocks[b].handle = d.blocks[b].handle
          /\ DOMAIN e.blocks[b].listed = DOMAIN d.blocks[b].listed
          /\ \A k \in DOMAIN d.blocks[b].listed : MemberKept(e, d, b, k)
    /\ DOMAIN e.ents = DOMAIN d.ents
    /\ \A i \in DOMAIN d.ents :
          /\ EntitySame(e.ents[i], d.ents[i])
          /\ d.ents[i].handle # Null => e.ents[i] = d.ents[i]
          /\ e.ents[i].handle = d.ents[i].handle \/ d.next <= e.ents[i].handle

LEMMA EntitiesChain ==
    ASSUME NEW d, NEW e, NEW f, Drawing(d), Drawing(e), Drawing(f),
           EntitiesMayDiffer(e, d), EntitiesMayDiffer(f, e)
    PROVE  EntitiesMayDiffer(f, d)
<1>1. /\ d.next \in Nat /\ e.next \in Nat /\ f.next \in Nat
      /\ d.next <= e.next /\ e.next <= f.next /\ d.next <= f.next
  <2>1. d.next \in Nat /\ e.next \in Nat /\ f.next \in Nat
    BY HandlesAre
  <2>2. d.next <= e.next /\ e.next <= f.next
    BY DEF EntitiesMayDiffer
  <2>. QED
    BY <2>1, <2>2
<1>2. EntityHandles(d) \ {Null} \subseteq EntityHandles(e) \ {Null}
  BY DEF EntitiesMayDiffer, EntityHandles
<1>3. ASSUME NEW b \in DOMAIN d.blocks
      PROVE  /\ f.blocks[b].handle = d.blocks[b].handle
             /\ DOMAIN f.blocks[b].listed = DOMAIN d.blocks[b].listed
             /\ \A k \in DOMAIN d.blocks[b].listed : MemberKept(f, d, b, k)
  <2>1. /\ b \in DOMAIN e.blocks /\ b \in DOMAIN f.blocks
        /\ e.blocks[b].handle = d.blocks[b].handle /\ f.blocks[b].handle = e.blocks[b].handle
        /\ DOMAIN e.blocks[b].listed = DOMAIN d.blocks[b].listed
        /\ DOMAIN f.blocks[b].listed = DOMAIN e.blocks[b].listed
    BY DEF EntitiesMayDiffer
  <2>2. ASSUME NEW k \in DOMAIN d.blocks[b].listed PROVE MemberKept(f, d, b, k)
    <3>1. MemberKept(e, d, b, k)
      BY DEF EntitiesMayDiffer
    <3>2. MemberKept(f, e, b, k)
      BY <2>1 DEF EntitiesMayDiffer
    <3>3. f.blocks[b].listed[k] \in Nat
      BY <2>1, HandlesAre
    <3>4. e.next <= f.blocks[b].listed[k] => d.next <= f.blocks[b].listed[k]
      BY <1>1, <3>3
    <3>. QED
      BY <1>2, <3>1, <3>2, <3>4 DEF MemberKept
  <2>. QED
    BY <2>1, <2>2
<1>4. ASSUME NEW i \in DOMAIN d.ents
      PROVE  /\ EntitySame(f.ents[i], d.ents[i])
             /\ d.ents[i].handle # Null => f.ents[i] = d.ents[i]
             /\ f.ents[i].handle = d.ents[i].handle \/ d.next <= f.ents[i].handle
  <2>1. /\ i \in DOMAIN e.ents /\ i \in DOMAIN f.ents
        /\ EntitySame(e.ents[i], d.ents[i])
        /\ d.ents[i].handle # Null => e.ents[i] = d.ents[i]
        /\ e.ents[i].handle = d.ents[i].handle \/ d.next <= e.ents[i].handle
    BY DEF EntitiesMayDiffer
  <2>2. /\ EntitySame(f.ents[i], e.ents[i])
        /\ e.ents[i].handle # Null => f.ents[i] = e.ents[i]
        /\ f.ents[i].handle = e.ents[i].handle \/ e.next <= f.ents[i].handle
    BY <2>1 DEF EntitiesMayDiffer
  <2>3. f.ents[i].handle \in Nat
    BY <2>1, HandlesAre
  <2>4. e.next <= f.ents[i].handle => d.next <= f.ents[i].handle
    BY <1>1, <2>3
  <2>5. EntitySame(f.ents[i], d.ents[i])
    BY <2>1, <2>2 DEF EntitySame, EntityKept
  <2>. QED
    BY <2>1, <2>2, <2>4, <2>5
<1>. QED
  BY <1>1, <1>3, <1>4 DEF EntitiesMayDiffer

\* One entity.
LEMMA EntityStep ==
    ASSUME NEW d, Drawing(d), Above(d), NEW i \in DOMAIN d.ents, d.ents[i].handle = Null
    PROVE  LET e == AssignEntity(d, i)
           IN /\ Drawing(e) /\ Above(e) /\ EntitiesMayDiffer(e, d) /\ e.ents[i].handle # Null
              /\ \A k \in DOMAIN d.ents \ {i} : e.ents[k] = d.ents[k]
<1>. DEFINE h == Fresh(d)
            owners == {c \in DOMAIN d.blocks : d.blocks[c].handle = d.ents[i].owner}
            b == Lowest(owners)
            u == [Taken(d) EXCEPT !.ents[i].handle = h, !.ents[i].raw = NoRaw]
            j == Lowest(Unnamed(d, b))
            v == [u EXCEPT !.blocks[b].listed[j] = h]
            e == AssignEntity(d, i)
<1>1. /\ Drawing(u) /\ Above(u) /\ d.next <= h /\ h < u.next
      /\ h \in Nat \ {Null} /\ u.ents[i].handle = h
      /\ DOMAIN u.ents = DOMAIN d.ents /\ EntitySame(u.ents[i], d.ents[i])
      /\ \A k \in DOMAIN d.ents \ {i} : u.ents[k] = d.ents[k]
      /\ u.ctl = d.ctl /\ u.layers = d.layers /\ u.blocks = d.blocks
      /\ u.index = d.index /\ u.objs = d.objs
      /\ u.xdicOf = d.xdicOf /\ u.dict = d.dict /\ u.model = d.model
      /\ u.paper = d.paper
  BY EntityNamed
<1>2. /\ owners = {} \/ Unnamed(d, b) = {} => e = u
      /\ ~(owners = {} \/ Unnamed(d, b) = {}) => e = v
  BY DEF AssignEntity
<1>3. owners # {} => b \in DOMAIN d.blocks
  <2>1. owners \in SUBSET Nat /\ owners \subseteq DOMAIN d.blocks
    BY HandlesAre
  <2>. HIDE DEF owners
  <2>. QED
    BY <2>1, LowestIs
<1>. HIDE DEF b, u, owners, e
<1>4. d.next \in Nat /\ u.next \in Nat /\ d.next <= u.next
  <2>1. d.next \in Nat /\ u.next \in Nat
    BY <1>1, HandlesAre
  <2>. QED
    BY <1>1, <2>1
<1>5. \A k \in DOMAIN d.ents :
         /\ EntitySame(u.ents[k], d.ents[k])
         /\ d.ents[k].handle # Null => u.ents[k] = d.ents[k]
         /\ u.ents[k].handle = d.ents[k].handle \/ d.next <= u.ents[k].handle
  BY <1>1 DEF EntitySame, EntityKept
<1>6. CASE owners = {} \/ Unnamed(d, b) = {}
  <2>1. EntitiesMayDiffer(u, d)
    BY <1>1, <1>4, <1>5 DEF EntitiesMayDiffer, MemberKept
  <2>. QED
    BY <1>1, <1>2, <1>6, <2>1 DEF e
<1>7. CASE ~(owners = {} \/ Unnamed(d, b) = {})
  <2>1. /\ j \in DOMAIN d.blocks[b].listed
        /\ d.blocks[b].listed[j] \notin EntityHandles(d)
    <3>1. Unnamed(d, b) \in SUBSET Nat
      <4>1. d.blocks[b].listed \in Seq(Nat)
        BY <1>3, <1>7, HandlesAre
      <4>2. DOMAIN d.blocks[b].listed \subseteq Nat
        BY <4>1
      <4>. QED
        BY <4>2 DEF Unnamed
    <3>2. j \in Unnamed(d, b)
      BY <1>7, <3>1, LowestIs
    <3>. HIDE DEF j
    <3>. QED
      BY <3>2 DEF Unnamed
  <2>. HIDE DEF j, h
  <2>2. /\ b \in DOMAIN u.blocks /\ j \in DOMAIN u.blocks[b].listed /\ h \in Nat
    BY <1>1, <1>3, <1>7, <2>1
  <2>3. /\ Drawing(v) /\ Above(v)
        /\ DOMAIN v.blocks = DOMAIN u.blocks
        /\ \A c \in DOMAIN u.blocks :
              /\ v.blocks[c].handle = u.blocks[c].handle
              /\ DOMAIN v.blocks[c].listed = DOMAIN u.blocks[c].listed
              /\ \A k \in DOMAIN u.blocks[c].listed :
                    \/ v.blocks[c].listed[k] = u.blocks[c].listed[k]
                    \/ c = b /\ k = j /\ v.blocks[c].listed[k] = h
        /\ v.ctl = u.ctl /\ v.layers = u.layers /\ v.ents = u.ents
        /\ v.index = u.index /\ v.objs = u.objs
        /\ v.xdicOf = u.xdicOf /\ v.dict = u.dict /\ v.model = u.model
        /\ v.paper = u.paper /\ v.next = u.next
    BY <1>1, <2>2, MemberNamed
  <2>. HIDE DEF v
  <2>4. \A c \in DOMAIN d.blocks : \A k \in DOMAIN d.blocks[c].listed : MemberKept(v, d, c, k)
    <3>. TAKE c \in DOMAIN d.blocks
    <3>. TAKE k \in DOMAIN d.blocks[c].listed
    <3>1. \/ v.blocks[c].listed[k] = d.blocks[c].listed[k]
          \/ c = b /\ k = j /\ v.blocks[c].listed[k] = h
      BY <1>1, <2>3
    <3>. QED
      BY <1>1, <2>1, <3>1 DEF MemberKept
  <2>5. EntitiesMayDiffer(v, d)
    BY <1>1, <1>4, <1>5, <2>3, <2>4 DEF EntitiesMayDiffer
  <2>. QED
    BY <1>1, <1>2, <1>7, <2>3, <2>5 DEF e
<1>. QED
  BY <1>6, <1>7

\* What the pass over the entities leaves.
LEMMA EntitiesAre ==
    ASSUME NEW d, Drawing(d), Above(d)
    PROVE  LET e == AssignEntities(d)
           IN /\ Drawing(e) /\ Above(e) /\ EntitiesMayDiffer(e, d)
              /\ Null \notin EntityHandles(e)
<1>1. Len(d.ents) \in Nat /\ DOMAIN d.ents = 1 .. Len(d.ents) /\ d.next <= d.next
  BY DEF Drawing
<1>2. PICK f : EntityRun(f, d) /\ AssignEntities(d) = f[Len(d.ents)]
  BY <1>1, EntitiesRun
<1>. DEFINE n == Len(d.ents)
            some == NullEntities(d)
            Done(x, k) == /\ Drawing(x) /\ Above(x) /\ EntitiesMayDiffer(x, d)
                          /\ \A i \in 1 .. k : x.ents[i].handle # Null
                          /\ \A i \in k + 1 .. n : x.ents[i] = d.ents[i]
<1>3. f[0] = d /\ \A i \in 1 .. n : f[i] = Step("entities", some, f[i - 1], i)
  BY <1>1, <1>2, RunsAt DEF EntityRun
<1>4. \A i \in 1 .. n : f[i] = IF i \in some THEN AssignEntity(f[i - 1], i) ELSE f[i - 1]
  BY <1>3 DEF Step
<1>5. \A i \in 1 .. n : i \in some <=> d.ents[i].handle = Null
  BY <1>1 DEF NullEntities
<1>6. f[0] = d
  BY <1>3
<1>. HIDE DEF n, some
<1>7. n \in Nat /\ DOMAIN d.ents = 1 .. n
  BY <1>1 DEF n
<1>8. Done(f[n], n)
  <2>. DEFINE S == {k \in Nat : k <= n => Done(f[k], k)}
  <2>1. 0 \in S
    <3>1. EntitiesMayDiffer(d, d)
      BY <1>1 DEF EntitiesMayDiffer, EntitySame, EntityKept, MemberKept
    <3>. QED
      BY <1>6, <3>1
  <2>2. ASSUME NEW k \in Nat, k \in S PROVE k + 1 \in S
    <3>. SUFFICES ASSUME k + 1 <= n PROVE Done(f[k + 1], k + 1)
      OBVIOUS
    <3>. DEFINE x == f[k]
                e == AssignEntity(x, k + 1)
    <3>1. Done(x, k) /\ k + 1 \in 1 .. n /\ (k + 1) - 1 = k
      BY <1>7, <2>2
    <3>2. f[k + 1] = IF k + 1 \in some THEN e ELSE x
      BY <1>4, <3>1
    <3>3. k + 1 \in DOMAIN x.ents /\ x.ents[k + 1] = d.ents[k + 1] /\ DOMAIN x.ents = 1 .. n
      BY <1>7, <3>1 DEF EntitiesMayDiffer
    <3>. HIDE DEF x
    <3>4. CASE k + 1 \in some
      <4>1. x.ents[k + 1].handle = Null
        BY <1>5, <3>1, <3>3, <3>4
      <4>2. /\ Drawing(e) /\ Above(e) /\ EntitiesMayDiffer(e, x)
            /\ e.ents[k + 1].handle # Null
            /\ \A i \in DOMAIN x.ents \ {k + 1} : e.ents[i] = x.ents[i]
        BY <3>1, <3>3, <4>1, EntityStep
      <4>. HIDE DEF e
      <4>3. EntitiesMayDiffer(e, d)
        BY <3>1, <4>2, EntitiesChain
      <4>4. \A i \in 1 .. k + 1 : e.ents[i].handle # Null
        <5>1. \A i \in 1 .. k : i \in DOMAIN x.ents \ {k + 1} /\ x.ents[i].handle # Null
          BY <1>7, <3>1, <3>3
        <5>. QED
          BY <4>2, <5>1
      <4>5. \A i \in (k + 1) + 1 .. n : e.ents[i] = d.ents[i]
        <5>1. \A i \in (k + 1) + 1 .. n : i \in DOMAIN x.ents \ {k + 1} /\ i \in k + 1 .. n
          BY <1>7, <3>3
        <5>. QED
          BY <3>1, <4>2, <5>1
      <4>. QED
        BY <3>2, <3>4, <4>2, <4>3, <4>4, <4>5
    <3>5. CASE k + 1 \notin some
      <4>1. x.ents[k + 1].handle # Null
        BY <1>5, <3>1, <3>3, <3>5
      <4>2. \A i \in 1 .. k + 1 : x.ents[i].handle # Null
        BY <3>1, <4>1
      <4>3. \A i \in (k + 1) + 1 .. n : x.ents[i] = d.ents[i]
        BY <1>7, <3>1
      <4>. QED
        BY <3>1, <3>2, <3>5, <4>2, <4>3
    <3>. QED
      BY <3>4, <3>5
  <2>. HIDE DEF S
  <2>3. Nat \subseteq S
    BY <2>1, <2>2, NatSetInduction
  <2>4. n \in S /\ n <= n
    BY <1>7, <2>3
  <2>. HIDE DEF Done
  <2>. QED
    BY <2>4 DEF S
<1>9. Null \notin EntityHandles(f[n])
  BY <1>7, <1>8 DEF EntityHandles, EntitiesMayDiffer
<1>. QED
  BY <1>2, <1>8, <1>9 DEF n

\* Where every entity has a handle there is nothing to assign.
LEMMA EntitiesStable ==
    ASSUME NEW d, Drawing(d), Null \notin EntityHandles(d)
    PROVE  AssignEntities(d) = d
<1>1. Len(d.ents) \in Nat /\ NullEntities(d) = {}
  BY DEF Drawing, NullEntities, EntityHandles
<1>2. PICK f : EntityRun(f, d) /\ AssignEntities(d) = f[Len(d.ents)]
  BY <1>1, EntitiesRun
<1>. DEFINE n == Len(d.ents)
            S == {k \in Nat : k <= n => f[k] = d}
<1>3. f[0] = d /\ \A i \in 1 .. n : f[i] = f[i - 1]
  BY <1>1, <1>2, RunsAt DEF EntityRun, Step
<1>. HIDE DEF n
<1>4. n \in Nat
  BY <1>1 DEF n
<1>5. 0 \in S
  BY <1>3
<1>6. ASSUME NEW k \in Nat, k \in S PROVE k + 1 \in S
  <2>. SUFFICES ASSUME k + 1 <= n PROVE f[k + 1] = d
    OBVIOUS
  <2>1. k + 1 \in 1 .. n /\ (k + 1) - 1 = k /\ f[k] = d
    BY <1>4, <1>6
  <2>. QED
    BY <1>3, <2>1
<1>. HIDE DEF S
<1>7. Nat \subseteq S
  BY <1>5, <1>6, NatSetInduction
<1>8. n \in S /\ n <= n
  BY <1>4, <1>7
<1>. QED
  BY <1>2, <1>8 DEF S, n

-----------------------------------------------------------------------------
(* Repair: the object without a key, missing owners, the index.            *)

\* What moving the object under the NULL key leaves.
LEMMA NullMovedIs ==
    ASSUME NEW d, Drawing(d), Above(d)
    PROVE  LET e == MoveNullObject(d)
           IN /\ Drawing(e) /\ Above(e) /\ ObjectsMayDiffer(e, d) /\ Null \notin DOMAIN e.objs
              /\ Null \notin DOMAIN d.xdicOf => e.xdicOf = d.xdicOf
<1>. DEFINE m == AssignNullObject(d)
            h == Fresh(d)
            others == [x \in DOMAIN d.xdicOf \ {Null} |-> d.xdicOf[x]]
            x == With(others, h, m.xdicOf[Null])
            e == [m EXCEPT !.xdicOf = x]
<1>1. /\ Drawing(m) /\ Above(m) /\ ObjectsMayDiffer(m, d) /\ m.xdicOf = d.xdicOf
      /\ Null \notin DOMAIN m.objs
  BY NullObjectIs
<1>2. CASE ~(Null \in DOMAIN d.objs /\ Null \in DOMAIN d.xdicOf)
  <2>1. MoveNullObject(d) = m
    BY <1>2 DEF MoveNullObject
  <2>. QED
    BY <1>1, <2>1
<1>3. CASE Null \in DOMAIN d.objs /\ Null \in DOMAIN d.xdicOf
  <2>1. MoveNullObject(d) = e
    BY <1>3, Zenon DEF MoveNullObject
  <2>2. /\ MapFrom(d.xdicOf, Nat) /\ \A y \in DOMAIN d.xdicOf : d.xdicOf[y] \in Nat
    BY DEF Drawing
  <2>3. /\ DOMAIN d.xdicOf \subseteq Nat /\ IsFiniteSet(DOMAIN d.xdicOf)
        /\ m.xdicOf[Null] \in Nat /\ h \in Nat
    BY <1>1, <1>3, <2>2, TakenIs DEF MapFrom
  <2>4. /\ DOMAIN others = DOMAIN d.xdicOf \ {Null}
        /\ \A y \in DOMAIN others : others[y] \in Nat
    BY <2>2
  <2>5. e = [m EXCEPT !.xdicOf = x] /\ x = With(others, h, m.xdicOf[Null])
    OBVIOUS
  <2>6. Fields(m)
    BY <1>1 DEF Drawing, Fields
  <2>. HIDE DEF e, x, others, m, h
  <2>7. /\ DOMAIN x = DOMAIN others \cup {h} /\ x = [y \in DOMAIN x |-> x[y]]
        /\ \A y \in DOMAIN x : x[y] = IF y = h THEN m.xdicOf[Null] ELSE others[y]
    BY <2>5 DEF With
  <2>8. MapFrom(x, Nat) /\ \A y \in DOMAIN x : x[y] \in Nat
    <3>1. IsFiniteSet(DOMAIN others)
      BY <2>3, <2>4, FS_Subset
    <3>2. IsFiniteSet(DOMAIN x)
      BY <2>7, <3>1, FS_AddElement
    <3>3. DOMAIN x \subseteq Nat /\ \A y \in DOMAIN x : x[y] \in Nat
      BY <2>3, <2>4, <2>7
    <3>. QED
      BY <2>7, <3>2, <3>3 DEF MapFrom
  <2>9. /\ Fields(e) /\ e.xdicOf = x
        /\ e.ctl = m.ctl /\ e.layers = m.layers /\ e.blocks = m.blocks /\ e.ents = m.ents
        /\ e.index = m.index /\ e.objs = m.objs /\ e.dict = m.dict
        /\ e.model = m.model /\ e.paper = m.paper /\ e.next = m.next /\ e.seed = m.seed
    BY <2>5, <2>6 DEF Fields
  <2>10. Drawing(e)
    BY <1>1, <2>8, <2>9 DEF Drawing, Fields
  <2>11. Above(e)
    <3>1. Stored(e) = Stored(m)
      BY <2>9, StoredSame
    <3>. QED
      BY <1>1, <2>9, <3>1 DEF Above
  <2>12. ObjectsMayDiffer(e, d)
    BY <1>1, <2>9 DEF ObjectsMayDiffer
  <2>. QED
    BY <1>1, <1>3, <2>1, <2>9, <2>10, <2>11, <2>12
<1>. QED
  BY <1>2, <1>3

\* e is d with missing owners claimed by the one block that lists the entity.
OwnersClaimed(e, d) ==
    /\ e.ctl = d.ctl /\ e.layers = d.layers /\ e.blocks = d.blocks /\ e.index = d.index
    /\ e.objs = d.objs /\ e.xdicOf = d.xdicOf /\ e.dict = d.dict
    /\ e.model = d.model /\ e.paper = d.paper /\ e.next = d.next /\ e.seed = d.seed
    /\ DOMAIN e.ents = DOMAIN d.ents
    /\ \A i \in DOMAIN d.ents :
          /\ EntityKept(e.ents[i], d.ents[i])
          /\ e.ents[i].handle = d.ents[i].handle
          /\ d.ents[i].owner # Null => e.ents[i].owner = d.ents[i].owner
          /\ d.ents[i].owner = Null /\ Cardinality(Lists(d, d.ents[i].handle)) = 1 =>
                \E p \in Lists(d, d.ents[i].handle) :
                    e.ents[i].owner = d.blocks[p[1]].handle

\* p is the entity g with an owner.
ClaimedAs(p, g, w) == p \in Entity /\ EntityKept(p, g) /\ p.handle = g.handle /\ p.owner = w

LEMMA WithClaim ==
    ASSUME NEW g \in Entity, NEW w \in Nat
    PROVE  ClaimedAs([[g EXCEPT !.owner = w] EXCEPT !.raw = NoRaw], g, w)
BY DEF Entity, EntityKept, ClaimedAs

LEMMA ClaimIs ==
    ASSUME NEW d, Drawing(d)
    PROVE  LET e == ClaimOwners(d)
           IN Drawing(e) /\ OwnersClaimed(e, d) /\ Stored(e) = Stored(d)
<1>. DEFINE places(i) == Lists(d, d.ents[i].handle)
            pick(i) == CHOOSE q \in places(i) : TRUE
            C(i) == [[d.ents[i] EXCEPT !.owner = d.blocks[pick(i)[1]].handle] EXCEPT !.raw = NoRaw]
            alone(i) == d.ents[i].owner = Null /\ Cardinality(places(i)) = 1
            ents == [i \in DOMAIN d.ents |-> IF alone(i) THEN C(i) ELSE d.ents[i]]
            e == [d EXCEPT !.ents = ents]
<1>0. Fields(d) /\ d.ents \in Seq(Entity)
  BY DEF Drawing, Fields
<1>1. ClaimOwners(d) = e
  BY DEF ClaimOwners
<1>2. ASSUME NEW i \in DOMAIN d.ents, alone(i)
      PROVE  pick(i) \in places(i) /\ ClaimedAs(C(i), d.ents[i], d.blocks[pick(i)[1]].handle)
  <2>1. places(i) # {}
    <3>. DEFINE P == places(i)
    <3>1. Cardinality(P) = 1
      BY <1>2
    <3>. HIDE DEF P
    <3>2. P # {}
      BY <3>1, FS_EmptySet
    <3>. QED
      BY <3>2 DEF P
  <2>2. pick(i) \in places(i)
    BY <2>1
  <2>. DEFINE p == pick(i)
              g == d.ents[i]
              w == d.blocks[p[1]].handle
  <2>3. p[1] \in DOMAIN d.blocks
    <3>1. p \in ListPlaces(d)
      BY <2>2 DEF Lists
    <3>. HIDE DEF p
    <3>. QED
      BY <3>1 DEF ListPlaces
  <2>4. g \in Entity /\ w \in Nat
    <3>. HIDE DEF p
    <3>. QED
      BY <2>3, HandlesAre
  <2>5. C(i) = [[g EXCEPT !.owner = w] EXCEPT !.raw = NoRaw]
    OBVIOUS
  <2>. HIDE DEF C, p, g, w
  <2>6. ClaimedAs(C(i), g, w)
    BY <2>4, <2>5, WithClaim
  <2>. QED
    BY <2>2, <2>6 DEF g, w, p
<1>4. e = [d EXCEPT !.ents = ents]
  OBVIOUS
<1>5. \A i : alone(i) <=> (d.ents[i].owner = Null /\ Cardinality(Lists(d, d.ents[i].handle)) = 1)
  OBVIOUS
<1>6. \A i : places(i) = Lists(d, d.ents[i].handle)
  OBVIOUS
<1>. HIDE DEF places, pick, C, alone, e
<1>3. /\ DOMAIN ents = DOMAIN d.ents /\ ents = [i \in DOMAIN d.ents |-> ents[i]]
      /\ \A i \in DOMAIN d.ents : ents[i] = IF alone(i) THEN C(i) ELSE d.ents[i]
  OBVIOUS
<1>. HIDE DEF ents
<1>7. /\ Fields(e) /\ e.ents = ents
      /\ e.ctl = d.ctl /\ e.layers = d.layers /\ e.blocks = d.blocks /\ e.index = d.index
      /\ e.objs = d.objs /\ e.xdicOf = d.xdicOf /\ e.dict = d.dict
      /\ e.model = d.model /\ e.paper = d.paper /\ e.next = d.next /\ e.seed = d.seed
  BY <1>0, <1>4 DEF Fields
<1>8. ASSUME NEW i \in DOMAIN d.ents
      PROVE  /\ ents[i] \in Entity /\ EntityKept(ents[i], d.ents[i])
             /\ ents[i].handle = d.ents[i].handle
             /\ d.ents[i].owner # Null => ents[i].owner = d.ents[i].owner
             /\ alone(i) => \E p \in places(i) : ents[i].owner = d.blocks[p[1]].handle
  <2>1. CASE alone(i)
    <3>1. ents[i] = C(i) /\ d.ents[i].owner = Null
      BY <1>3, <1>5, <2>1
    <3>2. pick(i) \in places(i) /\ ClaimedAs(C(i), d.ents[i], d.blocks[pick(i)[1]].handle)
      BY <1>2, <2>1
    <3>. QED
      BY <3>1, <3>2 DEF ClaimedAs
  <2>2. CASE ~alone(i)
    <3>1. ents[i] = d.ents[i] /\ d.ents[i] \in Entity
      BY <1>0, <1>3, <2>2
    <3>. QED
      BY <2>2, <3>1 DEF EntityKept
  <2>. QED
    BY <2>1, <2>2
<1>9. ents \in Seq(Entity)
  <2>1. DOMAIN d.ents = 1 .. Len(d.ents) /\ Len(d.ents) \in Nat
    BY <1>0
  <2>2. ents \in [1 .. Len(d.ents) -> Entity]
    BY <1>3, <1>8, <2>1
  <2>. QED
    BY <2>1, <2>2
<1>10. Drawing(e)
  BY <1>3, <1>7, <1>9 DEF Drawing, Fields
<1>11. OwnersClaimed(e, d)
  <2>1. DOMAIN e.ents = DOMAIN d.ents
    BY <1>3, <1>7
  <2>2. ASSUME NEW i \in DOMAIN d.ents
        PROVE  /\ EntityKept(e.ents[i], d.ents[i])
               /\ e.ents[i].handle = d.ents[i].handle
               /\ d.ents[i].owner # Null => e.ents[i].owner = d.ents[i].owner
               /\ d.ents[i].owner = Null /\ Cardinality(Lists(d, d.ents[i].handle)) = 1 =>
                     \E p \in Lists(d, d.ents[i].handle) :
                         e.ents[i].owner = d.blocks[p[1]].handle
    BY <1>5, <1>6, <1>7, <1>8
  <2>. QED
    BY <1>7, <2>1, <2>2 DEF OwnersClaimed
<1>12. Stored(e) = Stored(d)
  <2>1. EntityHandles(e) = EntityHandles(d)
    BY <1>11 DEF OwnersClaimed, EntityHandles
  <2>2. /\ Controls(e) = Controls(d) /\ LayerHandles(e) = LayerHandles(d)
        /\ BlockHandles(e) = BlockHandles(d) /\ Ids(e) = Ids(d) /\ e.objs = d.objs
        /\ MarkerHandles(e) = MarkerHandles(d)
        /\ Members(e) = Members(d)
    BY <1>7 DEF Controls, LayerHandles, BlockHandles, MarkerHandles, Members, Ids
  <2>. QED
    BY <2>1, <2>2 DEF Stored
<1>. QED
  BY <1>1, <1>10, <1>11, <1>12

\* Where every entity has an owner there is nothing to claim.
LEMMA ClaimStable ==
    ASSUME NEW d, Drawing(d), \A i \in DOMAIN d.ents : d.ents[i].owner # Null
    PROVE  ClaimOwners(d) = d
<1>1. /\ d.ents = [i \in DOMAIN d.ents |-> d.ents[i]] /\ Fields(d)
  BY DEF Drawing, Fields
<1>2. ClaimOwners(d) = [d EXCEPT !.ents = [i \in DOMAIN d.ents |-> d.ents[i]]]
  BY DEF ClaimOwners
<1>3. [d EXCEPT !.ents = d.ents] = d
  BY <1>1 DEF Fields
<1>. QED
  BY <1>1, <1>2, <1>3

\* The index repair() builds is a function of the entities.
LEMMA ReindexIs ==
    ASSUME NEW d, Drawing(d)
    PROVE  LET e == Reindexed(d)
           IN /\ Drawing(e) /\ Fields(e) /\ Reindexed(e) = e
              /\ e.ctl = d.ctl /\ e.layers = d.layers /\ e.blocks = d.blocks /\ e.ents = d.ents
              /\ e.objs = d.objs /\ e.xdicOf = d.xdicOf /\ e.dict = d.dict
              /\ e.model = d.model /\ e.paper = d.paper /\ e.next = d.next /\ e.seed = d.seed
<1>. DEFINE I(x) == [h \in EntityHandles(x) \ {Null} |->
                        Lowest({i \in DOMAIN x.ents : x.ents[i].handle = h})]
            e == Reindexed(d)
<1>1. \A x : Reindexed(x) = [x EXCEPT !.index = I(x)]
  BY Zenon DEF Reindexed
<1>2. MapFrom(I(d), Nat) /\ \A h \in DOMAIN I(d) : I(d)[h] \in DOMAIN d.ents
  <2>1. d.ents \in Seq(Entity) /\ DOMAIN d.ents \subseteq Nat
    BY DEF Drawing
  <2>2. IsFiniteSet(EntityHandles(d)) /\ EntityHandles(d) \subseteq Nat
    <3>1. EntityHandles(d) \subseteq Stored(d)
      BY DEF Stored
    <3>. QED
      BY <3>1, StoredFinite, FS_Subset
  <2>3. IsFiniteSet(EntityHandles(d) \ {Null})
    BY <2>2, FS_Subset
  <2>4. ASSUME NEW h \in EntityHandles(d) \ {Null}
        PROVE  Lowest({i \in DOMAIN d.ents : d.ents[i].handle = h}) \in DOMAIN d.ents
    <3>. DEFINE J == {i \in DOMAIN d.ents : d.ents[i].handle = h}
    <3>1. J \in SUBSET Nat /\ J # {} /\ J \subseteq DOMAIN d.ents
      BY <2>1 DEF EntityHandles
    <3>. HIDE DEF J
    <3>2. Lowest(J) \in J
      BY <3>1, LowestIs
    <3>3. Lowest(J) \in DOMAIN d.ents
      BY <3>1, <3>2
    <3>. QED
      BY <3>3 DEF J
  <2>5. /\ DOMAIN I(d) = EntityHandles(d) \ {Null} /\ I(d) = [h \in DOMAIN I(d) |-> I(d)[h]]
        /\ \A h \in DOMAIN I(d) : I(d)[h] \in DOMAIN d.ents
    BY <2>4
  <2>. HIDE DEF I
  <2>. QED
    BY <2>2, <2>3, <2>5 DEF MapFrom
<1>3. Fields(d)
  BY DEF Drawing, Fields
<1>4. e = [d EXCEPT !.index = I(d)]
  BY <1>1
<1>5. \A x : x.ents = d.ents => I(x) = I(d)
  BY DEF EntityHandles
<1>. HIDE DEF I, e
<1>6. /\ Fields(e) /\ e.index = I(d)
      /\ e.ctl = d.ctl /\ e.layers = d.layers /\ e.blocks = d.blocks /\ e.ents = d.ents
      /\ e.objs = d.objs /\ e.xdicOf = d.xdicOf /\ e.dict = d.dict
      /\ e.model = d.model /\ e.paper = d.paper /\ e.next = d.next /\ e.seed = d.seed
  BY <1>3, <1>4 DEF Fields
<1>7. Drawing(e)
  BY <1>2, <1>6 DEF Drawing, Fields
<1>8. Reindexed(e) = e
  <2>1. I(e) = e.index
    BY <1>5, <1>6
  <2>2. [e EXCEPT !.index = e.index] = e
    BY <1>6 DEF Fields
  <2>. QED
    BY <1>1, <2>1, <2>2
<1>. QED
  BY <1>6, <1>7, <1>8 DEF e

-----------------------------------------------------------------------------
(* Repair as a whole.                                                      *)

\* The document repair() resolves the references of.
Claimed(d) ==
    ClaimOwners(MoveNullObject(AlignObjects(AssignEntities(AssignTables(Synchronize(d))))))

\* c is d with identities for what had none, and owners for members of a block.
ClaimedFrom(c, d) ==
    /\ DOMAIN c.ents = DOMAIN d.ents /\ DOMAIN c.blocks = DOMAIN d.blocks
    /\ c.dict = d.dict /\ c.index = d.index
    /\ Null \notin DOMAIN d.xdicOf => c.xdicOf = d.xdicOf
    /\ \A h \in Stored(d) : h < c.next
    /\ Null \notin EntityHandles(c) /\ TablesNamed(c)
    /\ \A i \in DOMAIN d.ents :
          /\ c.ents[i].kind = d.ents[i].kind /\ c.ents[i].xdic = d.ents[i].xdic
          /\ d.ents[i].handle # Null => c.ents[i].handle = d.ents[i].handle
          /\ d.ents[i].owner # Null => c.ents[i].owner = d.ents[i].owner
          /\ /\ d.ents[i].handle # Null /\ d.ents[i].owner = Null
             /\ Cardinality(Lists(d, d.ents[i].handle)) = 1
             => \E p \in Lists(d, d.ents[i].handle) : c.ents[i].owner = c.blocks[p[1]].handle
    /\ \A b \in DOMAIN d.blocks :
          /\ DOMAIN c.blocks[b].listed = DOMAIN d.blocks[b].listed
          /\ \A k \in DOMAIN d.blocks[b].listed :
                d.blocks[b].listed[k] \in EntityHandles(d) \ {Null} =>
                    c.blocks[b].listed[k] = d.blocks[b].listed[k]

\* The objects of e are those of d; an object that had a key keeps it.
ObjectsKept(e, d) ==
    /\ DOMAIN d.objs \ {Null} \subseteq DOMAIN e.objs
    /\ \A l \in DOMAIN e.objs : \E k \in DOMAIN d.objs :
          /\ SameObject(e.objs[l], d.objs[k]) /\ (k # Null => l = k)
          /\ (k = Null => l \notin DOMAIN d.objs \ {Null})

LEMMA ObjectsKeptChain ==
    ASSUME NEW d, NEW e, NEW f, ObjectsKept(e, d), ObjectsKept(f, e)
    PROVE  ObjectsKept(f, d)
<1>1. ASSUME NEW l \in DOMAIN f.objs
      PROVE  \E k \in DOMAIN d.objs :
                /\ SameObject(f.objs[l], d.objs[k]) /\ (k # Null => l = k)
                /\ (k = Null => l \notin DOMAIN d.objs \ {Null})
  <2>1. PICK j \in DOMAIN e.objs :
                /\ SameObject(f.objs[l], e.objs[j]) /\ (j # Null => l = j)
                /\ (j = Null => l \notin DOMAIN e.objs \ {Null})
    BY DEF ObjectsKept
  <2>2. PICK k \in DOMAIN d.objs :
                /\ SameObject(e.objs[j], d.objs[k]) /\ (k # Null => j = k)
                /\ (k = Null => j \notin DOMAIN d.objs \ {Null})
    BY DEF ObjectsKept
  <2>3. SameObject(f.objs[l], d.objs[k])
    BY <2>1, <2>2 DEF SameObject
  <2>4. DOMAIN d.objs \ {Null} \subseteq DOMAIN e.objs \ {Null}
    BY DEF ObjectsKept
  <2>. QED
    BY <2>1, <2>2, <2>3, <2>4
<1>2. DOMAIN d.objs \ {Null} \subseteq DOMAIN f.objs
  BY DEF ObjectsKept
<1>. QED
  BY <1>1, <1>2 DEF ObjectsKept

LEMMA ClaimedIs ==
    ASSUME NEW d, Drawing(d)
    PROVE  LET c == Claimed(d) IN Drawing(c) /\ ClaimedFrom(c, d) /\ ObjectsKept(c, d)
<1>. DEFINE s == Synchronize(d)
            t == AssignTables(s)
            n == AssignEntities(t)
            g == AlignObjects(n)
            u == MoveNullObject(g)
            c == ClaimOwners(u)
<1>1. Claimed(d) = c
  BY DEF Claimed
<1>2. /\ Drawing(s) /\ Above(s)
      /\ s.layers = d.layers /\ s.blocks = d.blocks /\ s.ents = d.ents /\ s.index = d.index
      /\ s.objs = d.objs /\ s.dict = d.dict /\ s.xdicOf = d.xdicOf /\ Stored(s) = Stored(d)
  <2>1. /\ Drawing(s) /\ Above(s) /\ s = [d EXCEPT !.next = s.next, !.seed = s.seed]
        /\ Stored(s) = Stored(d)
    BY SyncIs
  <2>2. Fields(d)
    BY DEF Drawing, Fields
  <2>. HIDE DEF s
  <2>. QED
    BY <2>1, <2>2 DEF Fields
<1>. HIDE DEF s
<1>3. Drawing(t) /\ Above(t) /\ TablesMayDiffer(t, s) /\ TablesNamed(t)
  BY <1>2, TablesAre
<1>. HIDE DEF t
<1>4. Drawing(n) /\ Above(n) /\ EntitiesMayDiffer(n, t) /\ Null \notin EntityHandles(n)
  BY <1>3, EntitiesAre
<1>. HIDE DEF n
<1>5. /\ Drawing(g) /\ Above(g) /\ ObjectsMayDiffer(g, n) /\ DOMAIN g.objs = DOMAIN n.objs
      /\ \A k \in DOMAIN g.objs : SameObject(g.objs[k], n.objs[k])
      /\ g.xdicOf = n.xdicOf
  BY <1>4, AlignIs
<1>. HIDE DEF g
<1>6. /\ Drawing(u) /\ ObjectsMayDiffer(u, g) /\ Null \notin DOMAIN u.objs
      /\ Null \notin DOMAIN g.xdicOf => u.xdicOf = g.xdicOf
  BY <1>5, NullMovedIs
<1>. HIDE DEF u
<1>7. Drawing(c) /\ OwnersClaimed(c, u)
  BY <1>6, ClaimIs
<1>. HIDE DEF c
<1>8. /\ t.ents = d.ents /\ t.index = d.index /\ t.objs = d.objs /\ t.dict = d.dict
      /\ DOMAIN t.blocks = DOMAIN d.blocks
      /\ \A b \in DOMAIN d.blocks : t.blocks[b].listed = d.blocks[b].listed
  BY <1>2, <1>3 DEF TablesMayDiffer
<1>9. /\ u.ents = n.ents /\ u.index = n.index /\ u.dict = n.dict
      /\ u.blocks = n.blocks /\ u.layers = n.layers
  BY <1>5, <1>6 DEF ObjectsMayDiffer
<1>10. /\ n.index = t.index /\ n.dict = t.dict /\ n.layers = t.layers /\ n.objs = t.objs
       /\ DOMAIN n.blocks = DOMAIN t.blocks /\ DOMAIN n.ents = DOMAIN t.ents
       /\ \A b \in DOMAIN t.blocks :
             /\ n.blocks[b].handle = t.blocks[b].handle
             /\ DOMAIN n.blocks[b].listed = DOMAIN t.blocks[b].listed
             /\ \A k \in DOMAIN t.blocks[b].listed : MemberKept(n, t, b, k)
       /\ \A i \in DOMAIN t.ents :
             /\ EntitySame(n.ents[i], t.ents[i])
             /\ t.ents[i].handle # Null => n.ents[i] = t.ents[i]
  BY <1>4 DEF EntitiesMayDiffer
<1>11. /\ c.index = u.index /\ c.dict = u.dict /\ c.layers = u.layers /\ c.blocks = u.blocks
       /\ c.objs = u.objs
       /\ DOMAIN c.ents = DOMAIN u.ents
       /\ \A i \in DOMAIN u.ents :
             /\ EntityKept(c.ents[i], u.ents[i])
             /\ c.ents[i].handle = u.ents[i].handle
             /\ u.ents[i].owner # Null => c.ents[i].owner = u.ents[i].owner
             /\ u.ents[i].owner = Null /\ Cardinality(Lists(u, u.ents[i].handle)) = 1 =>
                   \E p \in Lists(u, u.ents[i].handle) :
                       c.ents[i].owner = u.blocks[p[1]].handle
  BY <1>7 DEF OwnersClaimed
<1>12. /\ DOMAIN c.ents = DOMAIN d.ents /\ DOMAIN c.blocks = DOMAIN d.blocks
       /\ c.dict = d.dict /\ c.index = d.index
  BY <1>8, <1>9, <1>10, <1>11
<1>13. Null \notin EntityHandles(c) /\ TablesNamed(c)
  <2>1. EntityHandles(c) = EntityHandles(n)
    BY <1>9, <1>11 DEF EntityHandles
  <2>2. c.layers = t.layers /\ DOMAIN c.blocks = DOMAIN t.blocks
        /\ \A b \in DOMAIN t.blocks : c.blocks[b].handle = t.blocks[b].handle
    BY <1>9, <1>10, <1>11
  <2>. QED
    BY <1>3, <1>4, <2>1, <2>2 DEF TablesNamed, LayerHandles, BlockHandles
<1>14. ASSUME NEW b \in DOMAIN d.blocks
       PROVE  /\ DOMAIN u.blocks[b].listed = DOMAIN d.blocks[b].listed
              /\ \A k \in DOMAIN d.blocks[b].listed :
                    \/ u.blocks[b].listed[k] = d.blocks[b].listed[k]
                    \/ /\ t.next <= u.blocks[b].listed[k]
                       /\ d.blocks[b].listed[k] \notin EntityHandles(d) \ {Null}
  <2>1. EntityHandles(t) = EntityHandles(d)
    BY <1>8 DEF EntityHandles
  <2>. QED
    BY <1>8, <1>9, <1>10, <2>1 DEF MemberKept
<1>15. ASSUME NEW i \in DOMAIN d.ents, d.ents[i].handle # Null
       PROVE  Lists(u, d.ents[i].handle) = Lists(d, d.ents[i].handle)
  <2>. DEFINE h == d.ents[i].handle
  <2>1. h \in EntityHandles(d) \ {Null} /\ h \in Nat /\ t.next \in Nat /\ h < t.next
    <3>1. h \in EntityHandles(d) \ {Null}
      BY <1>15 DEF EntityHandles
    <3>2. h \in Stored(t)
      BY <1>8 DEF Stored, EntityHandles
    <3>3. h \in Nat /\ t.next \in Nat
      BY <1>3, HandlesAre
    <3>. QED
      BY <1>3, <3>1, <3>2, <3>3 DEF Above
  <2>. HIDE DEF h
  <2>2. ListPlaces(u) = ListPlaces(d)
    BY <1>8, <1>9, <1>10, <1>14 DEF ListPlaces
  <2>3. ASSUME NEW p \in ListPlaces(d)
        PROVE  u.blocks[p[1]].listed[p[2]] = h <=> d.blocks[p[1]].listed[p[2]] = h
    <3>1. p[1] \in DOMAIN d.blocks /\ p[2] \in DOMAIN d.blocks[p[1]].listed
      BY DEF ListPlaces
    <3>2. \/ u.blocks[p[1]].listed[p[2]] = d.blocks[p[1]].listed[p[2]]
          \/ /\ t.next <= u.blocks[p[1]].listed[p[2]]
             /\ d.blocks[p[1]].listed[p[2]] \notin EntityHandles(d) \ {Null}
      BY <1>14, <3>1
    <3>. QED
      BY <2>1, <3>2
  <2>4. Lists(u, h) = Lists(d, h)
    BY <2>2, <2>3 DEF Lists
  <2>. QED
    BY <2>4 DEF h
<1>16. ASSUME NEW i \in DOMAIN d.ents
       PROVE  /\ c.ents[i].kind = d.ents[i].kind /\ c.ents[i].xdic = d.ents[i].xdic
              /\ d.ents[i].handle # Null => c.ents[i].handle = d.ents[i].handle
              /\ d.ents[i].owner # Null => c.ents[i].owner = d.ents[i].owner
              /\ u.ents[i].owner = d.ents[i].owner
              /\ d.ents[i].handle # Null => u.ents[i].handle = d.ents[i].handle
  BY <1>8, <1>9, <1>10, <1>11 DEF EntitySame, EntityKept
<1>17. ASSUME NEW i \in DOMAIN d.ents, d.ents[i].handle # Null, d.ents[i].owner = Null,
              Cardinality(Lists(d, d.ents[i].handle)) = 1
       PROVE  \E p \in Lists(d, d.ents[i].handle) : c.ents[i].owner = c.blocks[p[1]].handle
  <2>1. i \in DOMAIN u.ents /\ u.ents[i].owner = Null /\ u.ents[i].handle = d.ents[i].handle
    BY <1>11, <1>12, <1>16, <1>17
  <2>2. Lists(u, u.ents[i].handle) = Lists(d, d.ents[i].handle)
    BY <1>15, <1>17, <2>1
  <2>. QED
    BY <1>11, <1>17, <2>1, <2>2
<1>20. Null \notin DOMAIN d.xdicOf => c.xdicOf = d.xdicOf
  BY <1>2, <1>3, <1>4, <1>5, <1>6, <1>7
     DEF TablesMayDiffer, EntitiesMayDiffer, OwnersClaimed
<1>21. \A h \in Stored(d) : h < c.next
  <2>1. /\ s.next \in Nat /\ t.next \in Nat /\ n.next \in Nat /\ g.next \in Nat
        /\ u.next \in Nat /\ c.next \in Nat
    <3>1. \A x : Drawing(x) => x.next \in Nat
      BY DEF Drawing
    <3>. QED
      BY <1>2, <1>3, <1>4, <1>5, <1>6, <1>7, <3>1
  <2>2. s.next <= t.next /\ t.next <= n.next /\ n.next <= g.next /\ g.next <= u.next
        /\ c.next = u.next
    BY <1>3, <1>4, <1>5, <1>6, <1>7
       DEF TablesMayDiffer, EntitiesMayDiffer, ObjectsMayDiffer, OwnersClaimed
  <2>3. \A h \in Stored(d) : h \in Nat /\ h < s.next
    BY <1>2, StoredFinite DEF Above
  <2>. QED
    BY <2>1, <2>2, <2>3
<1>18. ClaimedFrom(c, d)
  <2>1. ASSUME NEW b \in DOMAIN d.blocks
        PROVE  /\ DOMAIN c.blocks[b].listed = DOMAIN d.blocks[b].listed
               /\ \A k \in DOMAIN d.blocks[b].listed :
                     d.blocks[b].listed[k] \in EntityHandles(d) \ {Null} =>
                         c.blocks[b].listed[k] = d.blocks[b].listed[k]
    BY <1>11, <1>14
  <2>. QED
    BY <1>12, <1>13, <1>16, <1>17, <1>20, <1>21, <2>1 DEF ClaimedFrom
<1>19. ObjectsKept(c, d)
  <2>1. ObjectsKept(g, n)
    BY <1>5 DEF ObjectsKept, SameObject
  <2>2. ObjectsKept(u, g)
    BY <1>6 DEF ObjectsKept, ObjectsMayDiffer
  <2>3. ObjectsKept(u, n)
    BY <2>1, <2>2, ObjectsKeptChain
  <2>4. n.objs = d.objs /\ c.objs = u.objs
    BY <1>8, <1>10, <1>11
  <2>. QED
    BY <2>3, <2>4 DEF ObjectsKept
<1>. QED
  BY <1>1, <1>7, <1>18, <1>19

\* Nothing is left to do, for repair() either.
Repairless(d) ==
    Tidy(d) /\ Null \notin EntityHandles(d) /\ (IndexIssues(d) = {} \/ Reindexed(d) = d)

\* e is r but for the index.
IndexMayDiffer(e, r) ==
    /\ e.ctl = r.ctl /\ e.layers = r.layers /\ e.blocks = r.blocks /\ e.ents = r.ents
    /\ e.objs = r.objs /\ e.xdicOf = r.xdicOf /\ e.dict = r.dict
    /\ e.model = r.model /\ e.paper = r.paper /\ e.next = r.next /\ e.seed = r.seed

\* The index is no identity.
LEMMA IndexIgnored ==
    ASSUME NEW r, Tidy(r), NEW e, Drawing(e), IndexMayDiffer(e, r)
    PROVE  Tidy(e) /\ EntityHandles(e) = EntityHandles(r)
<1>1. /\ Drawing(r) /\ Above(r) /\ TablesNamed(r) /\ ObjectsNamed(r) /\ Separate(r) /\ Owned(r)
  BY DEF Tidy
<1>2. /\ e.ctl = r.ctl /\ e.layers = r.layers /\ e.blocks = r.blocks /\ e.ents = r.ents
      /\ e.objs = r.objs /\ e.next = r.next /\ e.seed = r.seed /\ e.model = r.model
  BY DEF IndexMayDiffer
<1>3. /\ NonObjects(e) = NonObjects(r) /\ Used(e) = Used(r) /\ Controls(e) = Controls(r)
      /\ EntityHandles(e) = EntityHandles(r)
      /\ TablesNamed(e) /\ ObjectsNamed(e) /\ (MarkersApart(e) <=> MarkersApart(r))
  BY <1>1, <1>2, IdentitiesSame
<1>4. Separate(e)
  BY <1>1, <1>2, <1>3, SeparateIs
<1>5. Above(e)
  <2>1. Stored(e) = Stored(r)
    BY <1>2, StoredSame
  <2>. QED
    BY <1>1, <1>2, <2>1 DEF Above
<1>6. Owned(e)
  BY <1>1, <1>2 DEF Owned, ModeOf
<1>. QED
  BY <1>3, <1>4, <1>5, <1>6 DEF Tidy

\* What repair() leaves.
LEMMA RepairedIs ==
    ASSUME NEW d, Drawing(d)
    PROVE  LET e == Repaired(d)
               r == ResolveReferences(Claimed(d))
           IN Repairless(e) /\ IndexMayDiffer(e, r)
<1>. DEFINE c == Claimed(d)
            r == ResolveReferences(c)
            some == NullEntities(d) # {} \/ IndexIssues(d) # {}
            i == IF some THEN Reindexed(r) ELSE r
<1>1. Repaired(d) = Synchronize(i)
  BY Zenon DEF Repaired, Claimed
<1>2. Drawing(c) /\ ClaimedFrom(c, d)
  BY ClaimedIs
<1>3. Tidy(r) /\ Resolves(r, c)
  BY <1>2, ResolveIs
<1>4. Drawing(r)
  BY <1>3 DEF Tidy
<1>5. some <=> NullEntities(d) # {} \/ IndexIssues(d) # {}
  OBVIOUS
<1>6. i = IF some THEN Reindexed(r) ELSE r
  OBVIOUS
<1>. HIDE DEF c, r, some, i
<1>7. Null \notin EntityHandles(r)
  BY <1>2, <1>3 DEF ClaimedFrom, Resolves, EntityHandles
<1>8. CASE some
  <2>1. i = Reindexed(r)
    BY <1>6, <1>8
  <2>2. Drawing(i) /\ Reindexed(i) = i /\ IndexMayDiffer(i, r)
    BY <1>4, <2>1, ReindexIs DEF IndexMayDiffer
  <2>3. Tidy(i) /\ EntityHandles(i) = EntityHandles(r)
    BY <1>3, <2>2, IndexIgnored
  <2>4. Synchronize(i) = i
    BY <2>3, SyncStable DEF Tidy
  <2>. QED
    BY <1>1, <1>7, <2>2, <2>3, <2>4 DEF Repairless, r, c
<1>9. CASE ~some
  <2>1. i = r /\ NullEntities(d) = {} /\ IndexSound(d)
    BY <1>5, <1>6, <1>9, IndexSoundIs
  <2>2. IndexSound(c)
    <3>1. \A k \in DOMAIN d.ents : d.ents[k].handle # Null
      BY <2>1 DEF NullEntities
    <3>2. DOMAIN c.ents = DOMAIN d.ents /\ c.index = d.index
          /\ \A k \in DOMAIN d.ents : c.ents[k].handle = d.ents[k].handle
      BY <1>2, <3>1 DEF ClaimedFrom
    <3>. QED
      BY <2>1, <3>2 DEF IndexSound
  <2>3. IndexIssues(r) = {}
    BY <1>3, <2>2, IndexSoundIs DEF Resolves
  <2>4. Synchronize(r) = r
    BY <1>3, SyncStable DEF Tidy
  <2>. QED
    BY <1>1, <1>3, <1>7, <2>1, <2>3, <2>4 DEF Repairless, IndexMayDiffer, r, c
<1>. QED
  BY <1>8, <1>9

\* It leaves alone what is in order.
LEMMA RepairFix ==
    ASSUME NEW d, Repairless(d)
    PROVE  Repaired(d) = d
<1>1. /\ Tidy(d) /\ Drawing(d) /\ Above(d) /\ TablesNamed(d) /\ ObjectsNamed(d) /\ Owned(d)
      /\ Null \notin EntityHandles(d)
  BY DEF Repairless, Tidy
<1>2. Synchronize(d) = d /\ AssignTables(d) = d /\ AssignEntities(d) = d
  BY <1>1, SyncStable, TablesStable, EntitiesStable
<1>3. AlignObjects(d) = d /\ MoveNullObject(d) = d
  BY <1>1, ObjectsStable DEF ObjectsNamed
<1>4. ClaimOwners(d) = d
  BY <1>1, ClaimStable DEF Owned
<1>5. ResolveReferences(d) = d
  BY <1>1, ResolveStable
<1>6. NullEntities(d) = {}
  BY <1>1 DEF NullEntities, EntityHandles
<1>7. ~(IndexIssues(d) = {}) => Reindexed(d) = d
  BY DEF Repairless
<1>. QED
  BY <1>2, <1>3, <1>4, <1>5, <1>6, <1>7, Zenon DEF Repaired

\* What was loaded is in order.
LEMMA SettledIs ==
    ASSUME NEW d, Drawing(d)
    PROVE  Settled(d) <=> Repairless(d)
BY DEF Settled, Repairless, Tidy, Above, TablesNamed, ObjectsNamed, Owned

-----------------------------------------------------------------------------
(* Damage: another value in one field leaves a document.                   *)

\* A document with another field of the right kind is one.
LEMMA FieldDrawing ==
    ASSUME NEW d, Drawing(d)
    PROVE  /\ \A x \in [layer : Nat, block : Nat] : Drawing([d EXCEPT !.ctl = x])
           /\ \A x \in Seq(Nat) : Drawing([d EXCEPT !.layers = x])
           /\ \A x \in Seq(BlockRecord) : Drawing([d EXCEPT !.blocks = x])
           /\ \A x \in Seq(Entity) : DOMAIN x = DOMAIN d.ents => Drawing([d EXCEPT !.ents = x])
           /\ \A x : MapFrom(x, Nat) /\ (\A k \in DOMAIN x : x[k] \in Object)
                        => Drawing([d EXCEPT !.objs = x])
           /\ \A x \in Nat : Drawing([d EXCEPT !.seed = x])
<1>1. Fields(d)
  BY DEF Drawing, Fields
<1>2. ASSUME NEW x \in [layer : Nat, block : Nat] PROVE Drawing([d EXCEPT !.ctl = x])
  <2>. DEFINE e == [d EXCEPT !.ctl = x]
  <2>1. e = [d EXCEPT !.ctl = x]
    OBVIOUS
  <2>. HIDE DEF e
  <2>2. /\ Fields(e) /\ e.ctl = x /\ e.layers = d.layers /\ e.blocks = d.blocks
        /\ e.ents = d.ents /\ e.index = d.index /\ e.objs = d.objs /\ e.xdicOf = d.xdicOf
        /\ e.dict = d.dict /\ e.model = d.model /\ e.paper = d.paper
        /\ e.next = d.next /\ e.seed = d.seed
    BY <1>1, <2>1 DEF Fields
  <2>. QED
    BY <2>1, <2>2 DEF Drawing, Fields
<1>3. ASSUME NEW x \in Seq(Nat) PROVE Drawing([d EXCEPT !.layers = x])
  <2>. DEFINE e == [d EXCEPT !.layers = x]
  <2>1. e = [d EXCEPT !.layers = x]
    OBVIOUS
  <2>. HIDE DEF e
  <2>2. /\ Fields(e) /\ e.layers = x /\ e.ctl = d.ctl /\ e.blocks = d.blocks
        /\ e.ents = d.ents /\ e.index = d.index /\ e.objs = d.objs /\ e.xdicOf = d.xdicOf
        /\ e.dict = d.dict /\ e.model = d.model /\ e.paper = d.paper
        /\ e.next = d.next /\ e.seed = d.seed
    BY <1>1, <2>1 DEF Fields
  <2>. QED
    BY <2>1, <2>2 DEF Drawing, Fields
<1>4. ASSUME NEW x \in Seq(BlockRecord) PROVE Drawing([d EXCEPT !.blocks = x])
  <2>. DEFINE e == [d EXCEPT !.blocks = x]
  <2>1. e = [d EXCEPT !.blocks = x]
    OBVIOUS
  <2>. HIDE DEF e
  <2>2. /\ Fields(e) /\ e.blocks = x /\ e.ctl = d.ctl /\ e.layers = d.layers
        /\ e.ents = d.ents /\ e.index = d.index /\ e.objs = d.objs /\ e.xdicOf = d.xdicOf
        /\ e.dict = d.dict /\ e.model = d.model /\ e.paper = d.paper
        /\ e.next = d.next /\ e.seed = d.seed
    BY <1>1, <2>1 DEF Fields
  <2>. QED
    BY <2>1, <2>2 DEF Drawing, Fields
<1>5. ASSUME NEW x \in Seq(Entity), DOMAIN x = DOMAIN d.ents PROVE Drawing([d EXCEPT !.ents = x])
  <2>. DEFINE e == [d EXCEPT !.ents = x]
  <2>1. e = [d EXCEPT !.ents = x]
    OBVIOUS
  <2>. HIDE DEF e
  <2>2. /\ Fields(e) /\ e.ents = x /\ e.ctl = d.ctl /\ e.layers = d.layers
        /\ e.blocks = d.blocks /\ e.index = d.index /\ e.objs = d.objs /\ e.xdicOf = d.xdicOf
        /\ e.dict = d.dict /\ e.model = d.model /\ e.paper = d.paper
        /\ e.next = d.next /\ e.seed = d.seed
    BY <1>1, <2>1 DEF Fields
  <2>. QED
    BY <1>5, <2>1, <2>2 DEF Drawing, Fields
<1>6. ASSUME NEW x, MapFrom(x, Nat), \A k \in DOMAIN x : x[k] \in Object
      PROVE  Drawing([d EXCEPT !.objs = x])
  <2>. DEFINE e == [d EXCEPT !.objs = x]
  <2>1. e = [d EXCEPT !.objs = x]
    OBVIOUS
  <2>. HIDE DEF e
  <2>2. /\ Fields(e) /\ e.objs = x /\ e.ctl = d.ctl /\ e.layers = d.layers
        /\ e.blocks = d.blocks /\ e.index = d.index /\ e.ents = d.ents /\ e.xdicOf = d.xdicOf
        /\ e.dict = d.dict /\ e.model = d.model /\ e.paper = d.paper
        /\ e.next = d.next /\ e.seed = d.seed
    BY <1>1, <2>1 DEF Fields
  <2>. QED
    BY <1>6, <2>1, <2>2 DEF Drawing, Fields
<1>7. ASSUME NEW x \in Nat PROVE Drawing([d EXCEPT !.seed = x])
  <2>. DEFINE e == [d EXCEPT !.seed = x]
  <2>1. e = [d EXCEPT !.seed = x]
    OBVIOUS
  <2>. HIDE DEF e
  <2>2. /\ Fields(e) /\ e.seed = x /\ e.ctl = d.ctl /\ e.layers = d.layers
        /\ e.blocks = d.blocks /\ e.index = d.index /\ e.ents = d.ents /\ e.xdicOf = d.xdicOf
        /\ e.objs = d.objs /\ e.dict = d.dict /\ e.model = d.model /\ e.paper = d.paper
        /\ e.next = d.next
    BY <1>1, <2>1 DEF Fields
  <2>. QED
    BY <2>1, <2>2 DEF Drawing, Fields
<1>. QED
  BY <1>2, <1>3, <1>4, <1>5, <1>6, <1>7

\* A member of a list replaced by another.
LEMMA ListReplaced ==
    ASSUME NEW T, NEW s \in Seq(T), NEW i \in DOMAIN s, NEW x \in T
    PROVE  [s EXCEPT ![i] = x] \in Seq(T) /\ DOMAIN [s EXCEPT ![i] = x] = DOMAIN s
OBVIOUS

\* One field of a record damaged.
LEMMA RecordDamaged ==
    ASSUME NEW v \in Nat
    PROVE  /\ \A b \in BlockRecord : \A field \in {"handle", "begin", "end"} :
                  [b EXCEPT ![field] = v] \in BlockRecord
           /\ \A b \in BlockRecord : \A l \in Seq(Nat) : [b EXCEPT !.listed = l] \in BlockRecord
           /\ \A e \in Entity : \A field \in {"handle", "owner", "xdic"} :
                  [[e EXCEPT ![field] = v] EXCEPT !.raw = NoRaw] \in Entity
           /\ \A e \in Entity : [[e EXCEPT !.nested = {v}] EXCEPT !.raw = NoRaw] \in Entity
           /\ \A o \in Object : \A field \in {"id", "owner"} : [o EXCEPT ![field] = v] \in Object
<1>1. ASSUME NEW b \in BlockRecord, NEW field \in {"handle", "begin", "end"}
      PROVE  [b EXCEPT ![field] = v] \in BlockRecord
  <2>1. [b EXCEPT !.handle = v] \in BlockRecord
    BY DEF BlockRecord
  <2>2. [b EXCEPT !.begin = v] \in BlockRecord
    BY DEF BlockRecord
  <2>3. [b EXCEPT !.end = v] \in BlockRecord
    BY DEF BlockRecord
  <2>. QED
    BY <2>1, <2>2, <2>3
<1>2. ASSUME NEW b \in BlockRecord, NEW l \in Seq(Nat) PROVE [b EXCEPT !.listed = l] \in BlockRecord
  BY DEF BlockRecord
<1>3. ASSUME NEW e \in Entity, NEW field \in {"handle", "owner", "xdic"}
      PROVE  [[e EXCEPT ![field] = v] EXCEPT !.raw = NoRaw] \in Entity
  <2>1. [[e EXCEPT !.handle = v] EXCEPT !.raw = NoRaw] \in Entity
    BY DEF Entity
  <2>2. [[e EXCEPT !.owner = v] EXCEPT !.raw = NoRaw] \in Entity
    BY DEF Entity
  <2>3. [[e EXCEPT !.xdic = v] EXCEPT !.raw = NoRaw] \in Entity
    BY DEF Entity
  <2>. QED
    BY <2>1, <2>2, <2>3
<1>4. ASSUME NEW e \in Entity PROVE [[e EXCEPT !.nested = {v}] EXCEPT !.raw = NoRaw] \in Entity
  BY DEF Entity
<1>5. ASSUME NEW o \in Object, NEW field \in {"id", "owner"} PROVE [o EXCEPT ![field] = v] \in Object
  <2>1. [o EXCEPT !.id = v] \in Object
    BY DEF Object
  <2>2. [o EXCEPT !.owner = v] \in Object
    BY DEF Object
  <2>. QED
    BY <2>1, <2>2
<1>. QED
  BY <1>1, <1>2, <1>3, <1>4, <1>5

LEMMA TablesDamaged ==
    ASSUME Drawing(doc), NEW v \in Nat, DamageTables(v)
    PROVE  Drawing(doc')
<1>0. /\ Fields(doc) /\ doc.ctl \in [layer : Nat, block : Nat] /\ doc.layers \in Seq(Nat)
      /\ doc.blocks \in Seq(BlockRecord)
      /\ \A b \in DOMAIN doc.blocks : doc.blocks[b] \in BlockRecord
                                      /\ doc.blocks[b].listed \in Seq(Nat)
  BY HandlesAre DEF Drawing, Fields
<1>1. ASSUME NEW t \in DOMAIN doc.ctl, doc' = [doc EXCEPT !.ctl[t] = v]
      PROVE  Drawing(doc')
  <2>1. [doc.ctl EXCEPT ![t] = v] \in [layer : Nat, block : Nat]
    BY <1>0
  <2>2. doc' = [doc EXCEPT !.ctl = [doc.ctl EXCEPT ![t] = v]]
    BY <1>0, <1>1 DEF Fields
  <2>. QED
    BY <2>1, <2>2, FieldDrawing
<1>2. ASSUME NEW i \in DOMAIN doc.layers, doc' = [doc EXCEPT !.layers[i] = v]
      PROVE  Drawing(doc')
  <2>1. [doc.layers EXCEPT ![i] = v] \in Seq(Nat)
    BY <1>0, ListReplaced
  <2>2. doc' = [doc EXCEPT !.layers = [doc.layers EXCEPT ![i] = v]]
    BY <1>0, <1>2 DEF Fields
  <2>. QED
    BY <2>1, <2>2, FieldDrawing
<1>3. ASSUME NEW i \in DOMAIN doc.blocks, NEW r \in BlockRecord,
             doc' = [doc EXCEPT !.blocks = [doc.blocks EXCEPT ![i] = r]]
      PROVE  Drawing(doc')
  <2>1. [doc.blocks EXCEPT ![i] = r] \in Seq(BlockRecord)
    BY <1>0, ListReplaced
  <2>. QED
    BY <1>3, <2>1, FieldDrawing
<1>4. ASSUME NEW i \in DOMAIN doc.blocks, NEW field \in {"handle", "begin", "end"},
             doc' = [doc EXCEPT !.blocks[i][field] = v]
      PROVE  Drawing(doc')
  <2>. DEFINE r == [doc.blocks[i] EXCEPT ![field] = v]
  <2>1. r \in BlockRecord
    BY <1>0, RecordDamaged
  <2>2. doc' = [doc EXCEPT !.blocks = [doc.blocks EXCEPT ![i] = r]]
    BY <1>0, <1>4 DEF Fields
  <2>. HIDE DEF r
  <2>. QED
    BY <1>3, <2>1, <2>2
<1>5. ASSUME NEW i \in DOMAIN doc.blocks, NEW j \in DOMAIN doc.blocks[i].listed,
             doc' = [doc EXCEPT !.blocks[i].listed[j] = v]
      PROVE  Drawing(doc')
  <2>. DEFINE l == [doc.blocks[i].listed EXCEPT ![j] = v]
              r == [doc.blocks[i] EXCEPT !.listed = l]
  <2>1. l \in Seq(Nat)
    BY <1>0, ListReplaced
  <2>2. doc' = [doc EXCEPT !.blocks = [doc.blocks EXCEPT ![i] = r]]
    BY <1>0, <1>5 DEF Fields
  <2>. HIDE DEF l
  <2>3. r \in BlockRecord
    BY <1>0, <2>1, RecordDamaged
  <2>. HIDE DEF r
  <2>. QED
    BY <1>3, <2>2, <2>3
<1>6. ASSUME NEW i \in DOMAIN doc.blocks, doc' = [doc EXCEPT !.blocks[i].listed = Append(@, v)]
      PROVE  Drawing(doc')
  <2>. DEFINE l == Append(doc.blocks[i].listed, v)
              r == [doc.blocks[i] EXCEPT !.listed = l]
  <2>1. l \in Seq(Nat)
    BY <1>0
  <2>2. doc' = [doc EXCEPT !.blocks = [doc.blocks EXCEPT ![i] = r]]
    BY <1>0, <1>6 DEF Fields
  <2>. HIDE DEF l
  <2>3. r \in BlockRecord
    BY <1>0, <2>1, RecordDamaged
  <2>. HIDE DEF r
  <2>. QED
    BY <1>3, <2>2, <2>3
<1>7. ASSUME doc' = [doc EXCEPT !.seed = v] PROVE Drawing(doc')
  BY <1>7, FieldDrawing
<1>. QED
  BY <1>1, <1>2, <1>4, <1>5, <1>6, <1>7 DEF DamageTables

LEMMA EntityDamaged ==
    ASSUME Drawing(doc), NEW v \in Nat, DamageEntity(v)
    PROVE  Drawing(doc')
<1>. PICK h \in DOMAIN doc.index :
        \/ \E field \in {"handle", "owner", "xdic"} :
              doc' = [doc EXCEPT !.ents[doc.index[h]][field] = v,
                                 !.ents[doc.index[h]].raw = NoRaw]
        \/ /\ doc.ents[doc.index[h]].kind = "insert"
           /\ doc' = [doc EXCEPT !.ents[doc.index[h]].nested = {v},
                                 !.ents[doc.index[h]].raw = NoRaw]
  BY DEF DamageEntity
<1>. DEFINE i == doc.index[h]
<1>0. /\ Fields(doc) /\ doc.ents \in Seq(Entity) /\ i \in DOMAIN doc.ents
      /\ doc.ents[i] \in Entity /\ doc.ents = [k \in DOMAIN doc.ents |-> doc.ents[k]]
  <2>1. doc.ents \in Seq(Entity) /\ i \in DOMAIN doc.ents /\ Fields(doc)
    BY DEF Drawing, Fields
  <2>. QED
    BY <2>1
<1>1. /\ \/ \E field \in {"handle", "owner", "xdic"} :
               doc' = [doc EXCEPT !.ents[i][field] = v, !.ents[i].raw = NoRaw]
         \/ doc' = [doc EXCEPT !.ents[i].nested = {v}, !.ents[i].raw = NoRaw]
  OBVIOUS
<1>. HIDE DEF i
<1>2. ASSUME NEW r \in Entity, doc' = [doc EXCEPT !.ents = [doc.ents EXCEPT ![i] = r]]
      PROVE  Drawing(doc')
  <2>1. [doc.ents EXCEPT ![i] = r] \in Seq(Entity)
        /\ DOMAIN [doc.ents EXCEPT ![i] = r] = DOMAIN doc.ents
    BY <1>0, ListReplaced
  <2>. QED
    BY <1>2, <2>1, FieldDrawing
<1>3. ASSUME NEW q, doc' = [doc EXCEPT !.ents = [[doc.ents EXCEPT ![i] = q]
                                EXCEPT ![i] = [q EXCEPT !.raw = NoRaw]]]
      PROVE  doc' = [doc EXCEPT !.ents = [doc.ents EXCEPT ![i] = [q EXCEPT !.raw = NoRaw]]]
  <2>1. [[doc.ents EXCEPT ![i] = q] EXCEPT ![i] = [q EXCEPT !.raw = NoRaw]]
        = [doc.ents EXCEPT ![i] = [q EXCEPT !.raw = NoRaw]]
    BY <1>0
  <2>. QED
    BY <1>3, <2>1
<1>4. ASSUME NEW field \in {"handle", "owner", "xdic"},
             doc' = [doc EXCEPT !.ents[i][field] = v, !.ents[i].raw = NoRaw]
      PROVE  Drawing(doc')
  <2>. DEFINE q == [doc.ents[i] EXCEPT ![field] = v]
              r == [q EXCEPT !.raw = NoRaw]
  <2>1. r \in Entity
    BY <1>0, RecordDamaged
  <2>2. doc' = [doc EXCEPT !.ents = [[doc.ents EXCEPT ![i] = q] EXCEPT ![i] = [q EXCEPT !.raw = NoRaw]]]
    BY <1>0, <1>4 DEF Fields
  <2>. HIDE DEF q
  <2>3. doc' = [doc EXCEPT !.ents = [doc.ents EXCEPT ![i] = r]]
    BY <1>3, <2>2
  <2>. HIDE DEF r
  <2>. QED
    BY <1>2, <2>1, <2>3
<1>5. ASSUME doc' = [doc EXCEPT !.ents[i].nested = {v}, !.ents[i].raw = NoRaw]
      PROVE  Drawing(doc')
  <2>. DEFINE q == [doc.ents[i] EXCEPT !.nested = {v}]
              r == [q EXCEPT !.raw = NoRaw]
  <2>1. r \in Entity
    BY <1>0, RecordDamaged
  <2>2. doc' = [doc EXCEPT !.ents = [[doc.ents EXCEPT ![i] = q] EXCEPT ![i] = [q EXCEPT !.raw = NoRaw]]]
    BY <1>0, <1>5 DEF Fields
  <2>. HIDE DEF q
  <2>3. doc' = [doc EXCEPT !.ents = [doc.ents EXCEPT ![i] = r]]
    BY <1>3, <2>2
  <2>. HIDE DEF r
  <2>. QED
    BY <1>2, <2>1, <2>3
<1>. QED
  BY <1>1, <1>4, <1>5

LEMMA ObjectDamaged ==
    ASSUME Drawing(doc), NEW v \in Nat, DamageObject(v)
    PROVE  Drawing(doc')
<1>0. /\ Fields(doc) /\ MapFrom(doc.objs, Nat)
      /\ \A k \in DOMAIN doc.objs : k \in Nat /\ doc.objs[k] \in Object
  BY DEF Drawing, Fields, MapFrom
<1>1. PICK k \in DOMAIN doc.objs :
        \/ doc' = [doc EXCEPT !.objs = Rekeyed(@, k, v)]
        \/ \E field \in {"id", "owner"} : doc' = [doc EXCEPT !.objs[k][field] = v]
  BY DEF DamageObject
<1>2. ASSUME NEW x, MapFrom(x, Nat), \A l \in DOMAIN x : x[l] \in Object,
             doc' = [doc EXCEPT !.objs = x]
      PROVE  Drawing(doc')
  BY <1>2, FieldDrawing
<1>3. CASE doc' = [doc EXCEPT !.objs = Rekeyed(@, k, v)]
  <2>. DEFINE r == [doc.objs[k] EXCEPT !.id = v]
              keys == (DOMAIN doc.objs \ {k}) \cup {v}
              x == [l \in keys |-> IF l = v THEN r ELSE doc.objs[l]]
  <2>1. doc' = [doc EXCEPT !.objs = x]
    BY <1>3 DEF Rekeyed
  <2>2. r \in Object
    BY <1>0, WithId
  <2>3. IsFiniteSet(keys) /\ keys \subseteq Nat
    <3>1. IsFiniteSet(DOMAIN doc.objs)
      BY <1>0 DEF MapFrom
    <3>2. IsFiniteSet(DOMAIN doc.objs \ {k})
      BY <3>1, FS_Subset
    <3>. QED
      BY <1>0, <3>2, FS_AddElement
  <2>4. DOMAIN x = keys /\ x = [l \in DOMAIN x |-> x[l]]
    OBVIOUS
  <2>. HIDE DEF r
  <2>5. \A l \in DOMAIN x : x[l] \in Object
    BY <1>0, <2>2
  <2>. HIDE DEF x, keys
  <2>6. MapFrom(x, Nat)
    BY <2>3, <2>4 DEF MapFrom
  <2>. QED
    BY <1>2, <2>1, <2>5, <2>6
<1>4. ASSUME NEW field \in {"id", "owner"}, doc' = [doc EXCEPT !.objs[k][field] = v]
      PROVE  Drawing(doc')
  <2>. DEFINE r == [doc.objs[k] EXCEPT ![field] = v]
              x == [doc.objs EXCEPT ![k] = r]
  <2>1. doc' = [doc EXCEPT !.objs = x]
    BY <1>0, <1>4 DEF Fields
  <2>2. r \in Object
    BY <1>0, RecordDamaged
  <2>. HIDE DEF r
  <2>3. /\ DOMAIN x = DOMAIN doc.objs /\ x = [l \in DOMAIN x |-> x[l]]
        /\ \A l \in DOMAIN x : x[l] \in Object
    BY <1>0, <2>2 DEF MapFrom
  <2>. HIDE DEF x
  <2>4. MapFrom(x, Nat)
    BY <1>0, <2>3 DEF MapFrom
  <2>. QED
    BY <1>2, <2>1, <2>3, <2>4
<1>. QED
  BY <1>1, <1>3, <1>4

-----------------------------------------------------------------------------
(* Theorems.                                                               *)

\* What holds throughout: a document; until the first damage it is the sound one.
Intact == Drawing(doc) /\ faults \in Nat /\ (faults = 0 => doc = Sound)

LEMMA IntactStep ==
    ASSUME Intact, [Next]_vars
    PROVE  Intact'
<1>1. /\ Drawing(Sound) /\ Repairless(Sound) /\ Tidy(Sound)
  BY SoundAssumption, SettledIs DEF Repairless
<1>2. CASE Damage
  <2>1. PICK v \in Values : DamageTables(v) \/ DamageEntity(v) \/ DamageObject(v)
    BY <1>2 DEF Damage
  <2>2. v \in Nat
    BY DamageAssumption
  <2>3. Drawing(doc')
    BY <2>1, <2>2, TablesDamaged, EntityDamaged, ObjectDamaged DEF Intact
  <2>. QED
    BY <1>2, <2>3 DEF Damage, Intact
<1>3. CASE Resolve
  <2>1. Drawing(ResolveReferences(doc))
    BY ResolveIs DEF Intact, Tidy
  <2>2. ResolveReferences(Sound) = Sound
    BY <1>1, ResolveStable
  <2>. QED
    BY <1>3, <2>1, <2>2 DEF Resolve, Intact
<1>4. CASE Repair
  <2>1. Drawing(Repaired(doc))
    BY RepairedIs DEF Intact, Repairless, Tidy
  <2>2. Repaired(Sound) = Sound
    BY <1>1, RepairFix
  <2>. QED
    BY <1>4, <2>1, <2>2 DEF Repair, Intact
<1>5. CASE UNCHANGED vars
  BY <1>5 DEF Intact, vars
<1>. QED
  BY <1>2, <1>3, <1>4, <1>5 DEF Next

LEMMA IntactAlways == Spec => []Intact
<1>1. Init => Intact
  BY SoundAssumption DEF Init, Intact
<1>. QED
  BY <1>1, IntactStep, PTL DEF Spec

\* Whatever fields are damaged, both operations leave a document whose index,
\* lists and maps lead to what they hold; a drawing nobody damaged stays free of
\* issues however often it is resolved and repaired.
THEOREM DrawingStaysSound == Spec => []TypeOk
<1>1. Intact => TypeOk
  BY SoundAssumption DEF Intact, TypeOk
<1>. QED
  BY <1>1, IntactAlways, PTL

\* What an operation just done leaves.
LEMMA Done ==
    ASSUME Intact, [Next]_vars, ~UNCHANGED vars, last' \in {"repair", "resolve"}
    PROVE  /\ \/ last' = "resolve" /\ doc' = ResolveReferences(doc)
              \/ last' = "repair" /\ doc' = Repaired(doc)
           /\ Tidy(doc')
<1>1. Next /\ ~Damage
  BY DEF Damage
<1>2. Resolve \/ Repair
  BY <1>1 DEF Next
<1>3. Tidy(ResolveReferences(doc)) /\ Tidy(Repaired(doc))
  BY ResolveIs, RepairedIs DEF Intact, Repairless
<1>. QED
  BY <1>2, <1>3 DEF Resolve, Repair

\* After resolve_references or repair() no object has the handle of another
\* record, no table control that of a record, and every BLOCK and ENDBLK one of
\* its own, whatever was damaged.
THEOREM KindsStayApart == Spec => Apart
<1>1. Intact /\ [Next]_vars => [Afterwards => Separate(doc')]_vars
  BY Done DEF Tidy, Afterwards
<1>. QED
  BY <1>1, IntactAlways, PTL DEF Spec, Apart

\* The allocator and HANDSEED end above every identity but those nested in an
\* INSERT, so that the next handle given out is new.
THEOREM AllocatorEndsAbove == Spec => SeedAbove
<1>1. ASSUME NEW d, Tidy(d), NEW h \in Known(d), h >= d.next \/ h >= d.seed
      PROVE  h \in Nested(d)
  <2>1. Drawing(d) /\ Above(d)
    BY <1>1 DEF Tidy
  <2>2. h \in Stored(d) \/ h \in Nested(d)
    BY DEF Known, Records, Stored, Nested, LayerHandles, BlockHandles, EntityHandles
  <2>3. ASSUME h \in Stored(d) PROVE FALSE
    <3>1. h \in Nat /\ d.next \in Nat /\ d.seed \in Nat
      BY <2>1, <2>3, StoredFinite, HandlesAre
    <3>2. h < d.next /\ d.next <= d.seed
      BY <2>1, <2>3 DEF Above
    <3>. QED
      BY <1>1, <3>1, <3>2
  <2>. QED
    BY <2>2, <2>3
<1>2. Intact /\ [Next]_vars
        => [Afterwards => \A h \in Known(doc') :
              h >= doc'.next \/ h >= doc'.seed => h \in Nested(doc')]_vars
  BY <1>1, Done DEF Afterwards
<1>. QED
  BY <1>2, IntactAlways, PTL DEF Spec, SeedAbove

\* A second repair() changes nothing.
THEOREM RepairIsStable == Spec => RepairStable
<1>1. Intact /\ [Next]_vars => [last' = "repair" => Repaired(doc') = doc']_vars
  <2>. SUFFICES ASSUME Intact, [Next]_vars, ~UNCHANGED vars, last' = "repair"
                PROVE  Repaired(doc') = doc'
    OBVIOUS
  <2>1. doc' = Repaired(doc)
    BY Done
  <2>2. Repairless(doc')
    BY <2>1, RepairedIs DEF Intact
  <2>. QED
    BY <2>2, RepairFix
<1>. QED
  BY <1>1, IntactAlways, PTL DEF Spec, RepairStable

-----------------------------------------------------------------------------
(* Membership.                                                             *)

\* Blocks that list a handle that stands in one list once.
LEMMA OneBlock ==
    ASSUME NEW d, Drawing(d), NEW h, Cardinality(Lists(d, h)) = 1,
           NEW b \in DOMAIN d.blocks, h \in Listed(d.blocks[b])
    PROVE  \A p \in Lists(d, h) : p[1] = b
<1>1. PICK j \in DOMAIN d.blocks[b].listed : d.blocks[b].listed[j] = h
  BY DEF Listed
<1>2. <<b, j>> \in Lists(d, h)
  BY <1>1 DEF Lists, ListPlaces
<1>3. IsFiniteSet(Lists(d, h))
  <2>1. d.blocks \in Seq(BlockRecord)
    BY DEF Drawing
  <2>2. IsFiniteSet(DOMAIN d.blocks)
    BY <2>1, ListFinite
  <2>. DEFINE P == [c \in DOMAIN d.blocks |-> {c} \X (DOMAIN d.blocks[c].listed)]
  <2>3. \A c \in DOMAIN d.blocks : IsFiniteSet(P[c])
    <3>. TAKE c \in DOMAIN d.blocks
    <3>1. IsFiniteSet(DOMAIN d.blocks[c].listed) /\ IsFiniteSet({c})
      BY HandlesAre, ListFinite, FS_Singleton
    <3>. QED
      BY <3>1, FS_Product
  <2>4. DOMAIN P = DOMAIN d.blocks /\ P = [c \in DOMAIN P |-> P[c]]
    OBVIOUS
  <2>5. ListPlaces(d) = UNION {P[c] : c \in DOMAIN P}
    BY DEF ListPlaces
  <2>. HIDE DEF P
  <2>6. IsFiniteSet({P[c] : c \in DOMAIN P})
    BY <2>2, <2>4, ImageFinite
  <2>7. \A S \in {P[c] : c \in DOMAIN P} : IsFiniteSet(S)
    BY <2>3, <2>4
  <2>8. IsFiniteSet(ListPlaces(d))
    BY <2>5, <2>6, <2>7, FS_UNION
  <2>. QED
    BY <2>8, FS_Subset DEF Lists
<1>4. PICK q : Lists(d, h) = {q}
  BY <1>3, FS_Singleton
<1>. QED
  BY <1>2, <1>4

\* The members of a block of a document with its references resolved.
LEMMA ResolveMembers ==
    ASSUME NEW d, Drawing(d), NEW i \in DOMAIN d.ents, ~Marker(d.ents[i]),
           NEW e, Resolves(e, d), NEW b \in DOMAIN d.blocks
    PROVE  /\ e.ents[i].handle = d.ents[i].handle
           /\ Listed(e.blocks[b]) = Listed(d.blocks[b])
BY DEF Resolves, Listed

\* An entity a block lists stays in that list under its handle; one without an
\* owner that a single list has once goes to the block of that list and not to
\* model space, after resolve_references too when the index is sound.
THEOREM BlocksDecide == Spec => MembershipDecides
<1>1. ASSUME NEW d, Drawing(d), NEW e, e = ResolveReferences(d) \/ e = Repaired(d),
             NEW i \in DOMAIN d.ents
      PROVE  e.ents[i].owner # Null
  <2>1. Owned(e) /\ DOMAIN e.ents = DOMAIN d.ents
    <3>1. CASE e = ResolveReferences(d)
      <4>1. Tidy(e) /\ Resolves(e, d)
        BY <1>1, <3>1, ResolveIs
      <4>. QED
        BY <4>1 DEF Tidy, Resolves
    <3>2. CASE e = Repaired(d)
      <4>. DEFINE c == Claimed(d)
                  r == ResolveReferences(c)
      <4>1. Drawing(c) /\ ClaimedFrom(c, d)
        BY <1>1, ClaimedIs
      <4>2. Resolves(r, c)
        BY <4>1, ResolveIs
      <4>3. Repairless(e) /\ IndexMayDiffer(e, r)
        BY <1>1, <3>2, RepairedIs
      <4>. HIDE DEF c, r
      <4>4. DOMAIN c.ents = DOMAIN d.ents /\ DOMAIN r.ents = DOMAIN c.ents /\ e.ents = r.ents
        BY <4>1, <4>2, <4>3 DEF ClaimedFrom, Resolves, IndexMayDiffer
      <4>. QED
        BY <4>3, <4>4 DEF Repairless, Tidy
    <3>. QED
      BY <1>1, <3>1, <3>2
  <2>. QED
    BY <2>1 DEF Owned
<1>2. ASSUME NEW d, Drawing(d), NEW e, e = ResolveReferences(d), NEW i \in DOMAIN d.ents,
             ~Marker(d.ents[i]), NEW b \in DOMAIN d.blocks,
             d.ents[i].handle \in Listed(d.blocks[b])
      PROVE  /\ e.ents[i].handle \in Listed(e.blocks[b])
             /\ /\ d.ents[i].owner = Null /\ Cardinality(Lists(d, d.ents[i].handle)) = 1
                /\ IndexIssues(d) = {}
                => e.ents[i].owner = e.blocks[b].handle
  <2>1. Resolves(e, d)
    BY <1>2, ResolveIs
  <2>2. e.ents[i].handle \in Listed(e.blocks[b])
    BY <1>2, <2>1, ResolveMembers
  <2>3. ASSUME d.ents[i].owner = Null, Cardinality(Lists(d, d.ents[i].handle)) = 1,
               IndexIssues(d) = {}
        PROVE  e.ents[i].owner = e.blocks[b].handle
    <3>1. BlocksOf(d, i) = {b}
      <4>1. ASSUME NEW x \in BlocksOf(d, i) PROVE x = b
        <5>1. x \in DOMAIN d.blocks /\ d.ents[i].handle \in Listed(d.blocks[x])
          BY DEF BlocksOf
        <5>2. PICK j \in DOMAIN d.blocks[x].listed : d.blocks[x].listed[j] = d.ents[i].handle
          BY <5>1 DEF Listed
        <5>3. <<x, j>> \in Lists(d, d.ents[i].handle)
          BY <5>1, <5>2 DEF Lists, ListPlaces
        <5>. QED
          BY <1>2, <2>3, <5>3, OneBlock
      <4>. QED
        BY <1>2, <4>1 DEF BlocksOf
    <3>2. Lowest({b}) = b
      <4>1. {b} \in SUBSET Nat
        BY <1>2, HandlesAre
      <4>. QED
        BY <4>1, LowestIs
    <3>3. IndexSound(d) /\ BlocksOf(d, i) # {}
      BY <2>3, <3>1, IndexSoundIs
    <3>4. e.ents[i].owner = e.blocks[Lowest(BlocksOf(d, i))].handle
      BY <1>2, <2>1, <2>3, <3>3 DEF Resolves
    <3>. QED
      BY <3>1, <3>2, <3>4
  <2>. QED
    BY <2>2, <2>3
<1>3. ASSUME NEW d, Drawing(d), NEW e, e = Repaired(d), NEW i \in DOMAIN d.ents,
             ~Marker(d.ents[i]), d.ents[i].handle # Null, NEW b \in DOMAIN d.blocks,
             d.ents[i].handle \in Listed(d.blocks[b])
      PROVE  /\ e.ents[i].handle \in Listed(e.blocks[b])
             /\ d.ents[i].owner = Null /\ Cardinality(Lists(d, d.ents[i].handle)) = 1
                => e.ents[i].owner = e.blocks[b].handle
  <2>. DEFINE c == Claimed(d)
              r == ResolveReferences(c)
              h == d.ents[i].handle
  <2>1. Drawing(c) /\ ClaimedFrom(c, d)
    BY <1>3, ClaimedIs
  <2>2. Tidy(r) /\ Resolves(r, c)
    BY <2>1, ResolveIs
  <2>3. e.blocks = r.blocks /\ e.ents = r.ents
    BY <1>3, RepairedIs DEF IndexMayDiffer
  <2>. HIDE DEF c, r
  <2>4. /\ i \in DOMAIN c.ents /\ ~Marker(c.ents[i]) /\ b \in DOMAIN c.blocks
        /\ c.ents[i].handle = h
    BY <1>3, <2>1 DEF ClaimedFrom, Marker
  <2>5. /\ r.ents[i].handle = h /\ Listed(r.blocks[b]) = Listed(c.blocks[b])
    BY <2>1, <2>2, <2>4, ResolveMembers
  <2>6. h \in EntityHandles(d) \ {Null}
    BY <1>3 DEF EntityHandles
  <2>7. h \in Listed(c.blocks[b])
    <3>1. PICK k \in DOMAIN d.blocks[b].listed : d.blocks[b].listed[k] = h
      BY <1>3 DEF Listed
    <3>2. k \in DOMAIN c.blocks[b].listed /\ c.blocks[b].listed[k] = h
      BY <1>3, <2>1, <2>6, <3>1 DEF ClaimedFrom
    <3>. QED
      BY <3>2 DEF Listed
  <2>8. ASSUME d.ents[i].owner = Null, Cardinality(Lists(d, h)) = 1
        PROVE  e.ents[i].owner = e.blocks[b].handle
    <3>1. PICK p \in Lists(d, h) : c.ents[i].owner = c.blocks[p[1]].handle
      BY <1>3, <2>1, <2>8 DEF ClaimedFrom
    <3>2. p[1] = b
      BY <1>3, <2>8, OneBlock
    <3>3. c.blocks[b].handle # Null
      BY <2>1, <2>4 DEF ClaimedFrom, TablesNamed, BlockHandles
    <3>4. r.blocks[b].handle = c.blocks[b].handle /\ r.ents[i].owner = c.ents[i].owner
      BY <2>2, <2>4, <3>1, <3>2, <3>3 DEF Resolves
    <3>. QED
      BY <2>3, <3>1, <3>2, <3>4
  <2>. QED
    BY <2>3, <2>5, <2>7, <2>8
<1>4. Intact /\ [Next]_vars
        => [Afterwards =>
             \A i \in DOMAIN doc.ents :
                LET e == doc.ents[i]
                    after == doc'.ents[i]
                    blocks == {b \in DOMAIN doc.blocks : e.handle \in Listed(doc.blocks[b])}
                IN /\ after.owner # Null
                   /\ ~Marker(e) /\ e.handle # Null =>
                         /\ \A b \in blocks : after.handle \in Listed(doc'.blocks[b])
                         /\ /\ e.owner = Null /\ Cardinality(Lists(doc, e.handle)) = 1
                            /\ last' = "repair" \/ IndexIssues(doc) = {}
                            => \A b \in blocks : after.owner = doc'.blocks[b].handle]_vars
  <2>. SUFFICES ASSUME Intact, [Next]_vars, ~UNCHANGED vars, Afterwards,
                       NEW i \in DOMAIN doc.ents
                PROVE  /\ doc'.ents[i].owner # Null
                       /\ \A b \in DOMAIN doc.blocks :
                            /\ ~Marker(doc.ents[i]) /\ doc.ents[i].handle # Null
                            /\ doc.ents[i].handle \in Listed(doc.blocks[b])
                            => /\ doc'.ents[i].handle \in Listed(doc'.blocks[b])
                               /\ /\ doc.ents[i].owner = Null
                                  /\ Cardinality(Lists(doc, doc.ents[i].handle)) = 1
                                  /\ last' = "repair" \/ IndexIssues(doc) = {}
                                  => doc'.ents[i].owner = doc'.blocks[b].handle
    OBVIOUS
  <2>1. /\ Drawing(doc)
        /\ \/ last' = "resolve" /\ doc' = ResolveReferences(doc)
           \/ last' = "repair" /\ doc' = Repaired(doc)
    BY Done DEF Afterwards, Intact
  <2>2. doc'.ents[i].owner # Null
    BY <1>1, <2>1
  <2>. QED
    BY <1>2, <1>3, <2>1, <2>2
<1>. QED
  BY <1>4, IntactAlways, PTL DEF Spec, MembershipDecides

-----------------------------------------------------------------------------
(* References.                                                             *)

\* Another key for an object keeps the tags apart.
LEMMA RekeyedTagged ==
    ASSUME NEW o, NEW k \in DOMAIN o, NEW h, h \notin DOMAIN o,
           \A x, y \in DOMAIN o : o[x].tag = o[y].tag => x = y, o[k] \in Object
    PROVE  LET p == Rekeyed(o, k, h)
           IN \A x, y \in DOMAIN p : p[x].tag = p[y].tag => x = y
<1>. DEFINE r == [o[k] EXCEPT !.id = h]
            p == Rekeyed(o, k, h)
<1>1. r.tag = o[k].tag
  BY DEF Object
<1>. HIDE DEF r
<1>2. p = [x \in (DOMAIN o \ {k}) \cup {h} |-> IF x = h THEN r ELSE o[x]]
  BY DEF Rekeyed, r
<1>. HIDE DEF p
<1>3. /\ DOMAIN p = (DOMAIN o \ {k}) \cup {h} /\ p[h] = r
      /\ \A x \in DOMAIN o \ {k} : p[x] = o[x]
  BY <1>2
<1>4. \A x \in DOMAIN p : p[x].tag = o[IF x = h THEN k ELSE x].tag
  BY <1>1, <1>3
<1>5. \A x, y \in DOMAIN p : p[x].tag = p[y].tag => x = y
  BY <1>3, <1>4
<1>. QED
  BY <1>5 DEF p

\* The object under the NULL key keeps its tag under the next number.
LEMMA NullTagged ==
    ASSUME NEW d, Drawing(d), Above(d), Tagged(d)
    PROVE  Tagged(AssignNullObject(d)) /\ Tagged(MoveNullObject(d))
<1>. DEFINE m == AssignNullObject(d)
            h == Fresh(d)
<1>1. MoveNullObject(d).objs = m.objs
  <2>1. Fields(m)
    BY NullObjectIs DEF Drawing, Fields
  <2>2. \A x : [m EXCEPT !.xdicOf = x].objs = m.objs
    <3>. HIDE DEF m
    <3>. QED
      BY <2>1 DEF Fields
  <2>3. \/ MoveNullObject(d) = m
        \/ MoveNullObject(d) = [m EXCEPT !.xdicOf = With([x \in DOMAIN d.xdicOf \ {Null} |-> d.xdicOf[x]], h, @[Null])]
    BY Zenon DEF MoveNullObject
  <2>. HIDE DEF m
  <2>. QED
    BY <2>2, <2>3
<1>2. Tagged(m)
  <2>1. CASE Null \notin DOMAIN d.objs
    BY <2>1 DEF AssignNullObject
  <2>2. CASE Null \in DOMAIN d.objs
    <3>. DEFINE t == Taken(d)
                o == Rekeyed(d.objs, Null, h)
    <3>1. Fields(t) /\ t.objs = d.objs /\ h \in Nat /\ \A g \in Stored(d) : g < h
      BY TakenIs
    <3>2. m = [t EXCEPT !.objs = o]
      BY <2>2, <3>1 DEF AssignNullObject
    <3>3. h \notin DOMAIN d.objs
      <4>1. DOMAIN d.objs \subseteq Stored(d)
        BY DEF Stored
      <4>. QED
        BY <3>1, <4>1
    <3>4. d.objs[Null] \in Object
      BY <2>2 DEF Drawing
    <3>. HIDE DEF t, h, m
    <3>5. \A x, y \in DOMAIN o : o[x].tag = o[y].tag => x = y
      BY <2>2, <3>3, <3>4, RekeyedTagged DEF Tagged
    <3>. HIDE DEF o
    <3>6. m.objs = o
      BY <3>1, <3>2 DEF Fields
    <3>. QED
      BY <3>5, <3>6 DEF Tagged
  <2>. QED
    BY <2>1, <2>2
<1>. QED
  BY <1>1, <1>2 DEF Tagged

LEMMA AlignTagged ==
    ASSUME NEW d, Drawing(d), Tagged(d)
    PROVE  Tagged(AlignObjects(d))
<1>. DEFINE e == AlignObjects(d)
<1>1. DOMAIN e.objs = DOMAIN d.objs /\ \A k \in DOMAIN e.objs : SameObject(e.objs[k], d.objs[k])
  BY AlignIs
<1>. HIDE DEF e
<1>2. Tagged(e)
  BY <1>1 DEF Tagged, SameObject
<1>. QED
  BY <1>2 DEF e

\* No step of either operation confuses the objects.
LEMMA StepsTagged ==
    ASSUME NEW d, Drawing(d), Tagged(d)
    PROVE  Tagged(Aligned(d)) /\ Tagged(Claimed(d))
<1>. DEFINE s == Synchronize(d)
            t == AssignTables(s)
            n == AssignEntities(t)
            g == AlignObjects(n)
            u == MoveNullObject(g)
            c == ClaimOwners(u)
            z == AssignNullObject(t)
<1>1. Drawing(s) /\ Above(s) /\ s.objs = d.objs
  <2>1. Drawing(s) /\ Above(s) /\ s = [d EXCEPT !.next = s.next, !.seed = s.seed]
    BY SyncIs
  <2>2. Fields(d)
    BY DEF Drawing, Fields
  <2>. HIDE DEF s
  <2>. QED
    BY <2>1, <2>2 DEF Fields
<1>2. Aligned(d) = AlignObjects(z) /\ Claimed(d) = c
  BY DEF Aligned, Claimed
<1>. HIDE DEF s
<1>3. Drawing(t) /\ Above(t) /\ TablesMayDiffer(t, s)
  BY <1>1, TablesAre
<1>. HIDE DEF t
<1>4. t.objs = d.objs /\ Tagged(t)
  BY <1>1, <1>3 DEF TablesMayDiffer, Tagged
<1>5. Tagged(AlignObjects(z))
  <2>1. Tagged(z) /\ Drawing(z)
    BY <1>3, <1>4, NullTagged, NullObjectIs
  <2>. HIDE DEF z
  <2>. QED
    BY <2>1, AlignTagged
<1>6. Drawing(n) /\ Above(n) /\ EntitiesMayDiffer(n, t)
  BY <1>3, EntitiesAre
<1>. HIDE DEF n
<1>7. Tagged(n)
  BY <1>4, <1>6 DEF EntitiesMayDiffer, Tagged
<1>8. Drawing(g) /\ Above(g) /\ Tagged(g)
  BY <1>6, <1>7, AlignIs, AlignTagged
<1>. HIDE DEF g
<1>9. Drawing(u) /\ Tagged(u)
  BY <1>8, NullMovedIs, NullTagged
<1>. HIDE DEF u
<1>10. OwnersClaimed(c, u)
  BY <1>9, ClaimIs
<1>. HIDE DEF c
<1>11. Tagged(c)
  BY <1>9, <1>10 DEF OwnersClaimed, Tagged
<1>. QED
  BY <1>2, <1>5, <1>11

LEMMA ResolveTagged ==
    ASSUME NEW d, Drawing(d), Tagged(d)
    PROVE  Tagged(ResolveReferences(d)) /\ Tagged(Repaired(d))
<1>1. ASSUME NEW c, Drawing(c), Tagged(c) PROVE Tagged(ResolveReferences(c))
  <2>. DEFINE e == ResolveReferences(c)
              a == Aligned(c)
              r == Lead(c)
  <2>1. Resolves(e, c) /\ Tagged(a)
    BY <1>1, ResolveIs, StepsTagged
  <2>2. /\ \A k \in DOMAIN a.objs : e.objs[To(r, k)].tag = a.objs[k].tag
        /\ DOMAIN e.objs = {To(r, k) : k \in DOMAIN a.objs}
    <3>. HIDE DEF e
    <3>. QED
      BY <2>1 DEF Resolves
  <2>. HIDE DEF e, a, r
  <2>3. Tagged(e)
    BY <2>1, <2>2 DEF Tagged
  <2>. QED
    BY <2>3 DEF e
<1>2. Tagged(ResolveReferences(d))
  BY <1>1
<1>3. Tagged(ResolveReferences(Claimed(d)))
  <2>1. Drawing(Claimed(d)) /\ Tagged(Claimed(d))
    BY ClaimedIs, StepsTagged
  <2>. QED
    BY <1>1, <2>1
<1>4. Repaired(d).objs = ResolveReferences(Claimed(d)).objs
  <2>1. IndexMayDiffer(Repaired(d), ResolveReferences(Claimed(d)))
    BY RepairedIs
  <2>. QED
    BY <2>1 DEF IndexMayDiffer
<1>. QED
  BY <1>2, <1>3, <1>4 DEF Tagged

\* A reference h of d leads where g leads in e.
Leads(e, d, h, g) == h \in DOMAIN d.objs \ {Null} => Tag(d, h) = Tag(e, g)

\* References of e lead where those of d led.
Follows(e, d) ==
    /\ Leads(e, d, d.dict, e.dict)
    /\ \A i \in DOMAIN d.ents : Leads(e, d, d.ents[i].xdic, e.ents[i].xdic)
    /\ \A k \in DOMAIN d.objs, l \in DOMAIN e.objs :
          d.objs[k].tag = e.objs[l].tag =>
              /\ d.objs[k].kind = "dictionary" =>
                    {Tag(d, h) : h \in d.objs[k].refs \ {Null}} \ {"none"}
                    \subseteq {Tag(e, h) : h \in e.objs[l].refs}
              /\ d.objs[k].kind \in {"dictionary", "xrecord"} =>
                    Leads(e, d, d.objs[k].owner, e.objs[l].owner)
    /\ DOMAIN d.xdicOf \subseteq Stored(d) \ {Null} =>
          \A h \in DOMAIN d.xdicOf : \E g \in DOMAIN e.xdicOf :
              Leads(e, d, h, g) /\ Leads(e, d, d.xdicOf[h], e.xdicOf[g])

LEMMA FollowIs ==
    ASSUME NEW d, NEW c, NEW e, Drawing(c), Tagged(d), ObjectsKept(c, d),
           c.dict = d.dict, DOMAIN c.ents = DOMAIN d.ents,
           Null \notin DOMAIN d.xdicOf => c.xdicOf = d.xdicOf,
           \A h \in Stored(d) : h < Aligned(c).next,
           \A i \in DOMAIN d.ents : c.ents[i].xdic = d.ents[i].xdic, Resolves(e, c)
    PROVE  Follows(e, d)
<1>. DEFINE a == Aligned(c)
            r == Lead(c)
<1>1. /\ DOMAIN e.objs = {To(r, k) : k \in DOMAIN a.objs}
      /\ \A k \in DOMAIN a.objs :
            /\ To(r, k) \in DOMAIN e.objs
            /\ e.objs[To(r, k)].tag = a.objs[k].tag
            /\ e.objs[To(r, k)].refs = IF a.objs[k].kind = "dictionary"
                                       THEN {To(r, h) : h \in a.objs[k].refs} ELSE a.objs[k].refs
            /\ e.objs[To(r, k)].owner = OwnerAlong(a.objs[k], r)
      /\ e.dict = To(r, c.dict)
      /\ \A i \in DOMAIN c.ents : e.ents[i].xdic = To(r, c.ents[i].xdic)
      /\ (\A h \in DOMAIN c.xdicOf : h < a.next) => TableMoved(e, c, r)
      /\ \A h \in Stored(d) : h < a.next
  BY DEF Resolves
<1>2. ObjectsKept(a, d)
  <2>1. ObjectsKept(a, c)
    <3>1. AlignedFrom(a, c)
      BY AlignedIs
    <3>. HIDE DEF a
    <3>. QED
      BY <3>1 DEF AlignedFrom, ObjectsKept
  <2>. QED
    BY <2>1, ObjectsKeptChain
<1>. HIDE DEF a, r
<1>3. ASSUME NEW h \in DOMAIN d.objs \ {Null} PROVE Tag(d, h) = Tag(e, To(r, h))
  <2>1. h \in DOMAIN a.objs
    BY <1>2 DEF ObjectsKept
  <2>2. PICK k \in DOMAIN d.objs : /\ SameObject(a.objs[h], d.objs[k]) /\ (k # Null => h = k)
                                   /\ (k = Null => h \notin DOMAIN d.objs \ {Null})
    BY <1>2, <2>1 DEF ObjectsKept
  <2>3. k = h
    BY <2>2
  <2>. QED
    BY <1>1, <2>1, <2>2, <2>3 DEF Tag, SameObject
<1>4. \A h : Leads(e, d, h, To(r, h))
  BY <1>3 DEF Leads
<1>5. ASSUME NEW k \in DOMAIN d.objs, NEW l \in DOMAIN e.objs, d.objs[k].tag = e.objs[l].tag
      PROVE  /\ d.objs[k].kind = "dictionary" =>
                   {Tag(d, h) : h \in d.objs[k].refs \ {Null}} \ {"none"}
                   \subseteq {Tag(e, h) : h \in e.objs[l].refs}
             /\ d.objs[k].kind \in {"dictionary", "xrecord"} =>
                   Leads(e, d, d.objs[k].owner, e.objs[l].owner)
  <2>1. PICK j \in DOMAIN a.objs : l = To(r, j)
    BY <1>1
  <2>2. PICK x \in DOMAIN d.objs : SameObject(a.objs[j], d.objs[x])
    BY <1>2 DEF ObjectsKept
  <2>3. x = k
    <3>1. e.objs[l].tag = a.objs[j].tag
      BY <1>1, <2>1
    <3>2. d.objs[x].tag = d.objs[k].tag
      BY <1>5, <2>2, <3>1 DEF SameObject
    <3>. QED
      BY <3>2 DEF Tagged
  <2>4. d.objs[k].kind = "dictionary" =>
            e.objs[l].refs = {To(r, h) : h \in d.objs[k].refs}
    BY <1>1, <2>1, <2>2, <2>3 DEF SameObject
  <2>5. ASSUME d.objs[k].kind = "dictionary",
               NEW h \in d.objs[k].refs \ {Null}, Tag(d, h) # "none"
        PROVE  \E g \in e.objs[l].refs : Tag(d, h) = Tag(e, g)
    <3>1. h \in DOMAIN d.objs \ {Null}
      BY <2>5 DEF Tag
    <3>2. To(r, h) \in e.objs[l].refs
      BY <2>4, <2>5
    <3>. QED
      BY <1>3, <3>1, <3>2
  <2>6. d.objs[k].kind \in {"dictionary", "xrecord"} =>
            e.objs[l].owner = To(r, d.objs[k].owner)
    BY <1>1, <2>1, <2>2, <2>3 DEF SameObject, OwnerAlong
  <2>7. d.objs[k].kind \in {"dictionary", "xrecord"} =>
            Leads(e, d, d.objs[k].owner, e.objs[l].owner)
    BY <1>4, <2>6
  <2>. QED
    BY <2>5, <2>7
<1>6. ASSUME DOMAIN d.xdicOf \subseteq Stored(d) \ {Null}, NEW h \in DOMAIN d.xdicOf
      PROVE  \E g \in DOMAIN e.xdicOf :
                 Leads(e, d, h, g) /\ Leads(e, d, d.xdicOf[h], e.xdicOf[g])
  <2>1. c.xdicOf = d.xdicOf
    BY <1>6
  <2>2. TableMoved(e, c, r)
    BY <1>1, <1>6, <2>1
  <2>3. To(r, h) \in DOMAIN e.xdicOf /\ e.xdicOf[To(r, h)] = To(r, d.xdicOf[h])
    BY <2>1, <2>2 DEF TableMoved
  <2>. QED
    BY <1>4, <2>3
<1>. QED
  BY <1>1, <1>4, <1>5, <1>6 DEF Follows

\* A tag stands for one object throughout.
TagsApart == Tagged(doc)

LEMMA TaggedStep ==
    ASSUME Intact, Tagged(doc), [Next]_vars
    PROVE  Tagged(doc')
<1>0. Drawing(doc) /\ Fields(doc) /\ MapFrom(doc.objs, Nat)
      /\ \A k \in DOMAIN doc.objs : k \in Nat /\ doc.objs[k] \in Object
  BY DEF Intact, Drawing, Fields, MapFrom
<1>1. CASE Damage
  <2>1. PICK v \in Values : DamageTables(v) \/ DamageEntity(v) \/ DamageObject(v)
    BY <1>1 DEF Damage
  <2>2. CASE DamageTables(v) \/ DamageEntity(v)
    <3>1. doc'.objs = doc.objs
      BY <1>0, <2>2 DEF Fields, DamageTables, DamageEntity
    <3>. QED
      BY <3>1 DEF Tagged
  <2>3. CASE DamageObject(v)
    <3>1. PICK k \in DOMAIN doc.objs :
            \/ v \notin DOMAIN doc.objs /\ doc' = [doc EXCEPT !.objs = Rekeyed(@, k, v)]
            \/ \E field \in {"id", "owner"} : doc' = [doc EXCEPT !.objs[k][field] = v]
      BY <2>3 DEF DamageObject
    <3>2. CASE v \notin DOMAIN doc.objs /\ doc' = [doc EXCEPT !.objs = Rekeyed(@, k, v)]
      <4>. DEFINE o == Rekeyed(doc.objs, k, v)
      <4>1. \A x, y \in DOMAIN o : o[x].tag = o[y].tag => x = y
        BY <1>0, <3>2, RekeyedTagged DEF Tagged
      <4>. HIDE DEF o
      <4>2. doc' = [doc EXCEPT !.objs = o]
        BY <3>2 DEF o
      <4>3. doc'.objs = o
        BY <1>0, <4>2 DEF Fields
      <4>. QED
        BY <4>1, <4>3 DEF Tagged
    <3>3. ASSUME NEW field \in {"id", "owner"}, doc' = [doc EXCEPT !.objs[k][field] = v]
          PROVE  Tagged(doc')
      <4>. DEFINE r == [doc.objs[k] EXCEPT ![field] = v]
      <4>1. r.tag = doc.objs[k].tag
        <5>1. CASE field = "id"
          BY <1>0, <5>1 DEF Object
        <5>2. CASE field = "owner"
          BY <1>0, <5>2 DEF Object
        <5>. QED
          BY <5>1, <5>2
      <4>2. doc'.objs = [doc.objs EXCEPT ![k] = r]
        BY <1>0, <3>3 DEF Fields
      <4>. HIDE DEF r
      <4>3. DOMAIN doc'.objs = DOMAIN doc.objs
            /\ \A x \in DOMAIN doc.objs : doc'.objs[x].tag = doc.objs[x].tag
        BY <1>0, <4>1, <4>2
      <4>. QED
        BY <4>3 DEF Tagged
    <3>. QED
      BY <3>1, <3>2, <3>3
  <2>. QED
    BY <2>1, <2>2, <2>3
<1>2. CASE Resolve
  BY <1>0, <1>2, ResolveTagged DEF Resolve
<1>3. CASE Repair
  BY <1>0, <1>3, ResolveTagged DEF Repair
<1>4. CASE UNCHANGED vars
  BY <1>4 DEF Tagged, vars
<1>. QED
  BY <1>1, <1>2, <1>3, <1>4 DEF Next

\* The header's dictionary, the extension dictionaries of entities, the entries
\* and owners of dictionaries, the owners of extension records and the side table
\* of extension dictionaries lead to the objects they led to, whatever objects had
\* to move.
THEOREM ReferencesLeadOn == Spec => ReferencesFollow
<1>1. Init => TagsApart
  BY TagAssumption DEF Init, TagsApart
<1>2. Intact /\ TagsApart /\ [Next]_vars => TagsApart'
  BY TaggedStep DEF TagsApart
<1>3. Spec => []TagsApart
  BY <1>1, <1>2, IntactAlways, PTL DEF Spec
<1>4. Intact /\ TagsApart /\ [Next]_vars
        => [Afterwards =>
             LET Same(h, g) ==
                     h \in DOMAIN doc.objs \ {Null} => Tag(doc, h) = Tag(doc', g)
             IN /\ Same(doc.dict, doc'.dict)
                /\ \A i \in DOMAIN doc.ents : Same(doc.ents[i].xdic, doc'.ents[i].xdic)
                /\ \A k \in DOMAIN doc.objs, l \in DOMAIN doc'.objs :
                      doc.objs[k].tag = doc'.objs[l].tag =>
                         /\ doc.objs[k].kind = "dictionary" =>
                               {Tag(doc, h) : h \in doc.objs[k].refs \ {Null}} \ {"none"}
                               \subseteq {Tag(doc', h) : h \in doc'.objs[l].refs}
                         /\ doc.objs[k].kind \in {"dictionary", "xrecord"} =>
                               Same(doc.objs[k].owner, doc'.objs[l].owner)
                /\ DOMAIN doc.xdicOf \subseteq Stored(doc) \ {Null} =>
                      \A h \in DOMAIN doc.xdicOf : \E g \in DOMAIN doc'.xdicOf :
                          Same(h, g) /\ Same(doc.xdicOf[h], doc'.xdicOf[g])]_vars
  <2>. SUFFICES ASSUME Intact, Tagged(doc), [Next]_vars, ~UNCHANGED vars, Afterwards
                PROVE  Follows(doc', doc)
    BY Zenon DEF Follows, Leads, TagsApart
  <2>1. /\ Drawing(doc)
        /\ \/ last' = "resolve" /\ doc' = ResolveReferences(doc)
           \/ last' = "repair" /\ doc' = Repaired(doc)
    BY Done DEF Afterwards, Intact
  <2>2. CASE doc' = ResolveReferences(doc)
    <3>1. Resolves(doc', doc) /\ ObjectsKept(doc, doc)
      BY <2>1, <2>2, ResolveIs DEF ObjectsKept, SameObject
    <3>2. \A h \in Stored(doc) : h < Aligned(doc).next
      BY <2>1, AlignedIs DEF AlignedFrom
    <3>. QED
      BY <2>1, <3>1, <3>2, FollowIs
  <2>3. CASE doc' = Repaired(doc)
    <3>. DEFINE c == Claimed(doc)
                r == ResolveReferences(c)
    <3>1. Drawing(c) /\ ClaimedFrom(c, doc) /\ ObjectsKept(c, doc)
      BY <2>1, ClaimedIs
    <3>2. Resolves(r, c)
      BY <3>1, ResolveIs
    <3>3. IndexMayDiffer(doc', r)
      BY <2>1, <2>3, RepairedIs
    <3>. HIDE DEF c, r
    <3>4. \A h \in Stored(doc) : h < Aligned(c).next
      <4>1. AlignedFrom(Aligned(c), c) /\ Drawing(Aligned(c))
        BY <3>1, AlignedIs
      <4>2. c.next \in Nat /\ Aligned(c).next \in Nat /\ c.next <= Aligned(c).next
        BY <3>1, <4>1 DEF AlignedFrom, Drawing
      <4>3. \A h \in Stored(doc) : h \in Nat /\ h < c.next
        BY <2>1, <3>1, StoredFinite DEF ClaimedFrom
      <4>. QED
        BY <4>2, <4>3
    <3>5. Follows(r, doc)
      BY <3>1, <3>2, <3>4, FollowIs DEF ClaimedFrom
    <3>. QED
      BY <3>3, <3>5 DEF Follows, Leads, Tag, IndexMayDiffer
  <2>. QED
    BY <2>1, <2>2, <2>3
<1>. QED
  BY <1>3, <1>4, IntactAlways, PTL DEF Spec, ReferencesFollow
=============================================================================
