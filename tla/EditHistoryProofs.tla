-------------------------- MODULE EditHistoryProofs --------------------------
(***************************************************************************)
(* Theorems about the entity store, for every set of blocks, handles,      *)
(* drawing data and images, with and without duplicate handles; and about  *)
(* transactions, undo and redo over it, for every number of transactions.  *)
(***************************************************************************)
EXTENDS EditHistory, TLAPS, DataInduction

-----------------------------------------------------------------------------
(* The building blocks of the operations.                                  *)

\* The allocator only moves up, and past the handle it hands out or adopts.
LEMMA AllocateRaises ==
    ASSUME TypeOk, NEW h0 \in Nat, Allocate(h0)
    PROVE  /\ next' \in Nat \ {Null}
           /\ seed' \in Nat
           /\ HandleFor(h0) \in Nat \ {Null}
           /\ Fresh <= Fresh'
           /\ HandleFor(h0) < Fresh'
  BY DEF TypeOk, Allocate, HandleFor, Fresh, MaxOf, Null

\* Recording keeps the recorder's type and remembers at most one handle more.
LEMMA RecordKeepsType ==
    ASSUME TypeOk, NEW h \in Nat, NEW image \in Image, Record(h, image)
    PROVE  /\ DOMAIN before' \subseteq DOMAIN before \cup {h}
           /\ DOMAIN before' \subseteq Handles
           /\ before' \in [DOMAIN before' -> Image]
  BY DEF TypeOk, Record, Handles

\* A pushed entity extends the slots by one and its handle leads to it.
LEMMA PushKeepsIndex ==
    ASSUME TypeOk, IndexSound, NEW e \in Entity, e.handle # Null, Push(e)
    PROVE  /\ entities' \in Seq(Entity)
           /\ Len(entities') = Len(entities) + 1
           /\ \A i \in Slots : entities'[i] = entities[i]
           /\ entities'[Len(entities) + 1] = e
           /\ Live' = Live \cup {e.handle}
           /\ Live' \subseteq Handles \ {Null}
           /\ index' \in [Live' -> Slots']
           /\ IndexSound'
<1>1. /\ entities' \in Seq(Entity)
      /\ Len(entities') = Len(entities) + 1
      /\ \A i \in Slots : entities'[i] = entities[i]
      /\ entities'[Len(entities) + 1] = e
  BY DEF TypeOk, Push, Slots
<1>2. /\ Live' = Live \cup {e.handle}
      /\ \A h \in Live' : index'[h] = IF h = e.handle THEN Len(entities) + 1
                                      ELSE index[h]
  BY DEF Push, Live
<1>3. Slots' = 1 .. Len(entities) + 1
  BY <1>1 DEF Slots
<1>4. Live' \subseteq Handles \ {Null}
  BY <1>2 DEF TypeOk, Entity, Handles
<1>5. index' \in [Live' -> Slots']
  <2>1. \A h \in Live' : index'[h] \in Slots'
    BY <1>2, <1>3 DEF TypeOk, Slots
  <2>2. index' = [h \in Live' |-> index'[h]]
    BY <1>2 DEF Push
  <2>. QED
    BY <2>1, <2>2
<1>6. IndexSound'
  <2>. SUFFICES ASSUME NEW h \in Live'
                PROVE  Stored(h)'.handle = h
    BY DEF IndexSound
  <2>1. CASE h = e.handle
    BY <2>1, <1>1, <1>2 DEF Stored
  <2>2. CASE h # e.handle
    <3>1. h \in Live /\ index'[h] = index[h] /\ index[h] \in Slots
      BY <2>2, <1>2 DEF TypeOk
    <3>. QED
      BY <3>1, <1>1 DEF Stored, IndexSound
  <2>. QED
    BY <2>1, <2>2
<1>. QED
  BY <1>1, <1>2, <1>4, <1>5, <1>6

\* Swap-removal: the last slot fills the hole, every other slot stays.
LEMMA SwapRemoveKeepsSlots ==
    ASSUME TypeOk, NEW i \in Slots
    PROVE  /\ SwapRemove(i) \in Seq(Entity)
           /\ Len(SwapRemove(i)) = Len(entities) - 1
           /\ \A j \in 1 .. Len(entities) - 1 :
                 SwapRemove(i)[j] = IF j = i THEN entities[Len(entities)]
                                    ELSE entities[j]
<1>1. Len(entities) - 1 \in Nat /\ entities \in Seq(Entity)
  BY DEF TypeOk, Slots
<1>2. \A j \in 1 .. Len(entities) - 1 :
        (IF j = i THEN entities[Len(entities)] ELSE entities[j]) \in Entity
  BY <1>1
<1>. QED
  BY <1>1, <1>2 DEF SwapRemove

-----------------------------------------------------------------------------
(* The inductive invariant.  IndexSound is what makes a removal safe: the   *)
(* redirected index entry belongs to the entity that moved.  AllocatorAbove *)
(* needs it too, because a recorded or replaced handle is below the         *)
(* allocator only as the handle of the slot it leads to.                    *)

StoreInv == TypeOk /\ IndexSound /\ AllocatorAbove

LEMMA InitEstablishes == StoreInit => StoreInv
<1>. SUFFICES ASSUME StoreInit PROVE StoreInv
  OBVIOUS
<1>1. /\ entities = << >> /\ index = << >> /\ before = << >>
      /\ members = [b \in Blocks |-> << >>]
  BY DEF StoreInit
<1>2. Live = {} /\ DOMAIN before = {} /\ Slots = {}
  BY <1>1 DEF Live, Slots
<1>3. \A b \in Blocks : Listed(b) = {}
  BY <1>1 DEF Listed
<1>4. entities \in Seq(Entity) /\ members \in [Blocks -> Seq(Handles \ {Null})]
  BY <1>1
<1>5. index \in [Live -> Slots] /\ before \in [DOMAIN before -> Image]
  <2>1. index = [h \in {} |-> index[h]] /\ before = [h \in {} |-> before[h]]
    BY <1>1
  <2>. QED
    BY <1>2, <2>1
<1>6. /\ next \in Nat \ {Null}
      /\ seed \in Nat
      /\ recording \in BOOLEAN
  BY HandlesAssumption DEF StoreInit
<1>7. TypeOk
  BY <1>2, <1>4, <1>5, <1>6 DEF TypeOk
<1>8. IndexSound /\ AllocatorAbove
  BY <1>2, <1>3 DEF IndexSound, AllocatorAbove
<1>. QED
  BY <1>7, <1>8 DEF StoreInv

\* What an add does once its handle is chosen: push, record, maybe list.
LEMMA AddingPreserves ==
    ASSUME StoreInv, NEW h0 \in Nat, Allocate(h0),
           NEW e \in Entity, e.handle = HandleFor(h0), Push(e),
           \/ Record(HandleFor(h0), Absent)
           \/ UNCHANGED before,
           \/ UNCHANGED members
           \/ \E b \in Blocks : List(b, HandleFor(h0)),
           UNCHANGED recording
    PROVE  StoreInv'
<1>. DEFINE h == HandleFor(h0)
<1>1. TypeOk /\ IndexSound /\ AllocatorAbove
  BY DEF StoreInv
<1>2. /\ next' \in Nat \ {Null}
      /\ seed' \in Nat
      /\ h \in Nat \ {Null}
      /\ Fresh <= Fresh'
      /\ h < Fresh'
  BY <1>1, AllocateRaises
<1>3. /\ entities' \in Seq(Entity)
      /\ Len(entities') = Len(entities) + 1
      /\ \A i \in Slots : entities'[i] = entities[i]
      /\ entities'[Len(entities) + 1] = e
      /\ Live' \subseteq Handles \ {Null}
      /\ index' \in [Live' -> Slots']
      /\ IndexSound'
  BY <1>1, <1>2, PushKeepsIndex
<1>4. /\ DOMAIN before' \subseteq DOMAIN before \cup {h}
      /\ DOMAIN before' \subseteq Handles
      /\ before' \in [DOMAIN before' -> Image]
  <2>1. CASE Record(h, Absent)
    <3>1. Absent \in Image
      BY DEF Image
    <3>. QED
      BY <1>1, <1>2, <2>1, <3>1, RecordKeepsType
  <2>2. CASE UNCHANGED before
    BY <1>1, <2>2 DEF TypeOk
  <2>. QED
    BY <2>1, <2>2
<1>5. /\ members' \in [Blocks -> Seq(Handles \ {Null})]
      /\ \A b \in Blocks : Listed(b)' \subseteq Listed(b) \cup {h}
  <2>1. CASE UNCHANGED members
    BY <1>1, <2>1 DEF TypeOk, Listed
  <2>2. ASSUME NEW b \in Blocks, List(b, h)
        PROVE  <1>5
    <3>1. members' = [members EXCEPT ![b] = Append(members[b], h)]
      BY <2>2 DEF List
    <3>2. \A c \in Blocks : members[c] \in Seq(Handles \ {Null})
      BY <1>1 DEF TypeOk
    <3>3. members' \in [Blocks -> Seq(Handles \ {Null})]
      BY <1>1, <1>2, <3>1, <3>2 DEF TypeOk, Handles
    <3>4. ASSUME NEW c \in Blocks PROVE Listed(c)' \subseteq Listed(c) \cup {h}
      <4>1. CASE c = b
        <5>1. members'[c] = Append(members[c], h)
          BY <1>1, <3>1, <4>1 DEF TypeOk
        <5>2. ASSUME NEW k \in 1 .. Len(members'[c])
              PROVE  members'[c][k] \in Listed(c) \cup {h}
          BY <3>2, <5>1 DEF Listed
        <5>. QED
          BY <5>2 DEF Listed
      <4>2. CASE c # b
        BY <1>1, <3>1, <4>2 DEF TypeOk, Listed
      <4>. QED
        BY <4>1, <4>2
    <3>. QED
      BY <3>3, <3>4
  <2>. QED
    BY <2>1, <2>2
<1>6. TypeOk'
  BY <1>1, <1>2, <1>3, <1>4, <1>5 DEF TypeOk
<1>7. AllocatorAbove'
  <2>1. Fresh \in Nat /\ Fresh' \in Nat
    BY <1>1, <1>6 DEF TypeOk, Fresh, MaxOf
  <2>2. \A i \in Slots' : entities'[i].handle < Fresh'
    <3>1. Slots' = Slots \cup {Len(entities) + 1}
      BY <1>1, <1>3 DEF TypeOk, Slots
    <3>2. \A i \in Slots : entities[i] \in Entity
      BY <1>1 DEF TypeOk, Slots
    <3>3. \A i \in Slots : entities[i].handle \in Nat
      BY <3>2 DEF Entity, Handles
    <3>. QED
      BY <1>1, <1>2, <1>3, <2>1, <3>1, <3>3 DEF AllocatorAbove
  <2>3. \A b \in Blocks : \A k \in Listed(b)' : k < Fresh'
    <3>1. \A b \in Blocks : \A k \in Listed(b) : k \in Nat
      BY <1>1 DEF TypeOk, Listed, Handles
    <3>. QED
      BY <1>1, <1>2, <1>5, <2>1, <3>1 DEF AllocatorAbove
  <2>4. \A k \in DOMAIN before' : k < Fresh'
    <3>1. \A k \in DOMAIN before : k \in Nat
      BY <1>1 DEF TypeOk, Handles
    <3>. QED
      BY <1>1, <1>2, <1>4, <2>1, <3>1 DEF AllocatorAbove
  <2>. QED
    BY <2>2, <2>3, <2>4 DEF AllocatorAbove
<1>. QED
  BY <1>3, <1>6, <1>7 DEF StoreInv

LEMMA AddPreserves ==
    ASSUME StoreInv, NEW h0 \in BringHandles, NEW o \in Owners,
           NEW sub \in BOOLEAN, NEW onPaper \in BOOLEAN, NEW v \in Vals,
           AddEntity(h0, o, sub, onPaper, v)
    PROVE  StoreInv'
<1>. DEFINE h == HandleFor(h0)
            owner == IF o # Null THEN o
                     ELSE IF onPaper THEN PaperSpace ELSE ModelSpace
            home == IF owner \in Blocks THEN owner ELSE ModelSpace
            e == [handle |-> h, owner |-> IF sub THEN owner ELSE home,
                  sub |-> sub, val |-> v, raw |-> NoRaw]
<1>1. h0 \in Nat
  BY HandlesAssumption DEF BringHandles, Null
<1>2. Allocate(h0) /\ Record(h, Absent) /\ Push(e) /\ UNCHANGED recording
  BY DEF AddEntity
<1>3. UNCHANGED members \/ List(home, h)
  BY DEF AddEntity
<1>4. owner \in Nat /\ home \in Blocks /\ home \in Nat
  BY BlocksAssumption, HandlesAssumption DEF Owners, Null
<1>5. h \in Nat \ {Null}
  BY <1>1, <1>2, AllocateRaises DEF StoreInv
<1>6. e \in Entity /\ e.handle = h
  BY <1>4, <1>5 DEF Entity, Handles
<1>. HIDE DEF h, owner, home, e
<1>7. h = HandleFor(h0)
  BY DEF h
<1>. QED
  BY <1>1, <1>2, <1>3, <1>4, <1>6, <1>7, AddingPreserves

LEMMA AddToBlockPreserves ==
    ASSUME StoreInv, NEW h0 \in BringHandles, NEW b \in Blocks,
           NEW sub \in BOOLEAN, NEW v \in Vals, AddEntityToBlock(h0, b, sub, v)
    PROVE  StoreInv'
<1>. DEFINE h == HandleFor(h0)
            e == [handle |-> h, owner |-> b, sub |-> sub, val |-> v,
                  raw |-> NoRaw]
<1>1. h0 \in Nat
  BY HandlesAssumption DEF BringHandles, Null
<1>2. /\ Allocate(h0) /\ Record(h, Absent) /\ List(b, h) /\ Push(e)
      /\ UNCHANGED recording
  BY DEF AddEntityToBlock
<1>3. h \in Nat \ {Null} /\ b \in Nat
  BY <1>1, <1>2, AllocateRaises, BlocksAssumption DEF StoreInv
<1>4. e \in Entity /\ e.handle = h
  BY <1>3 DEF Entity, Handles
<1>. HIDE DEF h, e
<1>5. h = HandleFor(h0)
  BY DEF h
<1>. QED
  BY <1>1, <1>2, <1>4, <1>5, AddingPreserves

LEMMA AddLoadedPreserves ==
    ASSUME StoreInv, NEW h0 \in BringHandles, NEW o \in Owners,
           NEW sub \in BOOLEAN, NEW v \in Vals, AddLoadedEntity(h0, o, sub, v)
    PROVE  StoreInv'
<1>. DEFINE h == HandleFor(h0)
            e == [handle |-> h, owner |-> o, sub |-> sub, val |-> v, raw |-> v]
<1>1. h0 \in Nat
  BY HandlesAssumption DEF BringHandles, Null
<1>2. Allocate(h0) /\ Push(e) /\ UNCHANGED <<members, recording, before>>
  BY DEF AddLoadedEntity
<1>3. h \in Nat \ {Null} /\ o \in Nat
  BY <1>1, <1>2, AllocateRaises, BlocksAssumption, HandlesAssumption
  DEF StoreInv, Owners, Null
<1>4. e \in Entity /\ e.handle = h
  BY <1>3 DEF Entity, Handles
<1>. HIDE DEF h, e
<1>5. h = HandleFor(h0)
  BY DEF h
<1>. QED
  BY <1>1, <1>2, <1>4, <1>5, AddingPreserves

LEMMA RestorePreserves ==
    ASSUME StoreInv, NEW e \in Images, RestoreEntityArc(e)
    PROVE  StoreInv'
<1>1. e \in Entity /\ e.handle \in Nat /\ e.handle # Null
  BY ImagesAssumption DEF Entity, Handles
<1>2. HandleFor(e.handle) = e.handle
  BY <1>1 DEF HandleFor
<1>3. /\ Allocate(e.handle) /\ Record(e.handle, Absent) /\ Push(e)
      /\ UNCHANGED <<members, recording>>
  BY DEF RestoreEntityArc
<1>. QED
  BY <1>1, <1>2, <1>3, AddingPreserves

\* Writing a slot in place, with an image of the same handle.
LEMMA WritingPreserves ==
    ASSUME StoreInv, NEW h \in Live, NEW e \in Entity, e.handle = h,
           Record(h, Stored(h)), entities' = [entities EXCEPT ![index[h]] = e],
           UNCHANGED <<index, members, next, seed, recording>>
    PROVE  StoreInv'
<1>1. TypeOk /\ IndexSound /\ AllocatorAbove
  BY DEF StoreInv
<1>2. /\ index[h] \in Slots /\ Stored(h) \in Entity /\ Stored(h).handle = h
      /\ h \in Nat
  BY <1>1 DEF TypeOk, IndexSound, Stored, Slots, Handles
<1>3. /\ entities' \in Seq(Entity) /\ Slots' = Slots
      /\ \A i \in Slots : entities'[i] = IF i = index[h] THEN e ELSE entities[i]
  BY <1>1, <1>2 DEF TypeOk, Slots
<1>4. /\ DOMAIN before' \subseteq DOMAIN before \cup {h}
      /\ DOMAIN before' \subseteq Handles
      /\ before' \in [DOMAIN before' -> Image]
  <2>1. Stored(h) \in Image
    BY <1>2 DEF Image
  <2>. QED
    BY <1>1, <1>2, <2>1, RecordKeepsType
<1>5. Fresh' = Fresh /\ Live' = Live /\ \A b \in Blocks : Listed(b)' = Listed(b)
  BY DEF Fresh, MaxOf, Live, Listed
<1>6. \A i \in Slots : entities'[i].handle = entities[i].handle
  BY <1>2, <1>3 DEF Stored
<1>7. TypeOk'
  BY <1>1, <1>3, <1>4, <1>5 DEF TypeOk
<1>8. IndexSound'
  <2>1. ASSUME NEW k \in Live PROVE Stored(k)'.handle = k
    <3>1. index[k] \in Slots /\ entities[index[k]].handle = k
      BY <1>1 DEF TypeOk, IndexSound, Stored
    <3>. QED
      BY <3>1, <1>6 DEF Stored
  <2>. QED
    BY <2>1, <1>5 DEF IndexSound
<1>9. AllocatorAbove'
  <2>1. h < Fresh
    BY <1>1, <1>2 DEF AllocatorAbove, Stored
  <2>. QED
    BY <1>1, <1>3, <1>4, <1>5, <1>6, <2>1 DEF AllocatorAbove
<1>. QED
  BY <1>7, <1>8, <1>9 DEF StoreInv

LEMMA MutatePreserves ==
    ASSUME StoreInv, NEW h \in Live, NEW v \in Vals, GetEntityMut(h, v)
    PROVE  StoreInv'
<1>. DEFINE e == [Stored(h) EXCEPT !.val = v, !.raw = NoRaw]
<1>1. /\ entities \in Seq(Entity) /\ index[h] \in Slots
      /\ Stored(h) \in Entity /\ Stored(h).handle = h
  BY DEF StoreInv, TypeOk, IndexSound, Stored, Slots
<1>2. e \in Entity /\ e.handle = h
  BY <1>1 DEF Entity
<1>3. entities' = [entities EXCEPT ![index[h]] = e]
  BY <1>1 DEF GetEntityMut, Stored, Slots, Entity
<1>4. Record(h, Stored(h)) /\ UNCHANGED <<index, members, next, seed, recording>>
  BY DEF GetEntityMut
<1>. HIDE DEF e
<1>. QED
  BY <1>2, <1>3, <1>4, WritingPreserves

LEMMA ReplacePreserves ==
    ASSUME StoreInv, NEW h \in Live, NEW e \in Images, ReplaceEntityArc(h, e)
    PROVE  StoreInv'
  BY ImagesAssumption, WritingPreserves DEF ReplaceEntityArc

LEMMA RemovePreserves ==
    ASSUME StoreInv, NEW h \in Live, RemoveEntityArc(h)
    PROVE  StoreInv'
<1>. DEFINE i == index[h]
            last == Len(entities)
            moved == entities[last].handle
<1>1. TypeOk /\ IndexSound /\ AllocatorAbove
  BY DEF StoreInv
<1>2. /\ i \in Slots /\ last \in Slots
      /\ entities[i].handle = h
      /\ entities[last] \in Entity /\ moved \in Nat \ {Null}
      /\ h \in Nat
  <2>1. i \in Slots /\ entities \in Seq(Entity) /\ h \in Nat
    BY <1>1 DEF TypeOk, Handles
  <2>2. last \in Slots
    BY <2>1 DEF Slots
  <2>3. entities[last] \in Entity
    BY <2>1, <2>2 DEF Slots
  <2>4. entities[i].handle = h
    BY <1>1 DEF IndexSound, Stored
  <2>. QED
    BY <2>1, <2>2, <2>3, <2>4 DEF Entity, Handles
<1>3. /\ entities' \in Seq(Entity)
      /\ Slots' = 1 .. last - 1
      /\ \A j \in Slots' : entities'[j] = IF j = i THEN entities[last]
                                          ELSE entities[j]
  <2>1. entities' = SwapRemove(i)
    BY DEF RemoveEntityArc
  <2>. QED
    BY <1>1, <1>2, <2>1, SwapRemoveKeepsSlots DEF Slots
<1>4. /\ DOMAIN before' \subseteq DOMAIN before \cup {h}
      /\ DOMAIN before' \subseteq Handles
      /\ before' \in [DOMAIN before' -> Image]
  <2>1. Stored(h) \in Image /\ Record(h, Stored(h))
    BY <1>1 DEF Image, Stored, RemoveEntityArc, TypeOk, Slots
  <2>. QED
    BY <1>1, <1>2, <2>1, RecordKeepsType
<1>5. /\ UNCHANGED <<members, next, seed, recording>>
      /\ Fresh' = Fresh /\ \A b \in Blocks : Listed(b)' = Listed(b)
  BY DEF RemoveEntityArc, Fresh, MaxOf, Listed
\* No handle but the removed one leads to the hole, and none but the moved one
\* to the last slot: IndexSound.
<1>6. \A k \in Live \ {h} :
        /\ index[k] \in Slots /\ entities[index[k]].handle = k
        /\ index[k] # i /\ (k # moved => index[k] # last)
  BY <1>1, <1>2 DEF TypeOk, IndexSound, Stored
<1>7. /\ Live' \subseteq Handles \ {Null}
      /\ index' \in [Live' -> Slots']
      /\ \A k \in Live' : entities'[index'[k]].handle = k
  <2>1. CASE i < last
    <3>1. index' = [k \in (Live \ {h}) \cup {moved} |->
                       IF k = moved THEN i ELSE index[k]]
      BY <2>1 DEF RemoveEntityArc
    <3>2. Live' = (Live \ {h}) \cup {moved}
      BY <3>1 DEF Live
    <3>3. Live' \subseteq Handles \ {Null}
      BY <1>1, <1>2, <3>2 DEF TypeOk, Handles
    <3>4. ASSUME NEW k \in Live'
          PROVE  index'[k] \in Slots' /\ entities'[index'[k]].handle = k
      <4>1. CASE k = moved
        BY <1>2, <1>3, <2>1, <3>1, <3>2, <4>1 DEF Slots
      <4>2. CASE k # moved
        <5>1. k \in Live \ {h} /\ index'[k] = index[k]
          BY <3>1, <3>2, <4>2
        <5>2. index[k] \in 1 .. last - 1 /\ index[k] # i
          BY <1>6, <4>2, <5>1 DEF Slots
        <5>. QED
          BY <1>3, <1>6, <5>1, <5>2
      <4>. QED
        BY <4>1, <4>2
    <3>. QED
      BY <3>1, <3>2, <3>3, <3>4
  <2>2. CASE ~(i < last)
    <3>1. index' = [k \in Live \ {h} |-> index[k]]
      BY <2>2 DEF RemoveEntityArc
    <3>2. Live' = Live \ {h} /\ i = last
      BY <1>2, <2>2, <3>1 DEF Live, Slots
    <3>3. Live' \subseteq Handles \ {Null}
      BY <1>1, <3>2 DEF TypeOk
    <3>4. ASSUME NEW k \in Live'
          PROVE  index'[k] \in Slots' /\ entities'[index'[k]].handle = k
      <4>1. index'[k] = index[k] /\ index[k] \in 1 .. last - 1
        BY <1>6, <3>1, <3>2 DEF Slots
      <4>. QED
        BY <1>3, <1>6, <3>2, <4>1
    <3>. QED
      BY <3>1, <3>2, <3>3, <3>4
  <2>. QED
    BY <2>1, <2>2
<1>8. TypeOk'
  BY <1>1, <1>3, <1>4, <1>5, <1>7 DEF TypeOk
<1>9. IndexSound'
  BY <1>7 DEF IndexSound, Stored
<1>10. AllocatorAbove'
  <2>1. h < Fresh
    BY <1>1, <1>2 DEF AllocatorAbove
  <2>2. \A j \in Slots' : entities'[j].handle < Fresh
    BY <1>1, <1>2, <1>3 DEF AllocatorAbove, Slots
  <2>. QED
    BY <1>1, <1>4, <1>5, <2>1, <2>2 DEF AllocatorAbove
<1>. QED
  BY <1>8, <1>9, <1>10 DEF StoreInv

\* Recording every slot keeps the recorder's images and adds the stored ones.
LEMMA EverySlotRecorded ==
    ASSUME StoreInv, RecordEverySlot
    PROVE  /\ DOMAIN before' = DOMAIN before \cup {entities[i].handle : i \in Slots}
           /\ DOMAIN before' \subseteq Handles
           /\ before' \in [DOMAIN before' -> Image]
           /\ \A h \in DOMAIN before' : h < Fresh
           /\ \A h \in DOMAIN before' \ DOMAIN before : \E i \in Slots :
                 before'[h] = entities[i] /\ entities[i].handle = h
           /\ \A h \in DOMAIN before : before'[h] = before[h]
<1>. DEFINE handles == {entities[i].handle : i \in Slots}
<1>1. TypeOk /\ AllocatorAbove
  BY DEF StoreInv
<1>2. \A i \in Slots : entities[i] \in Entity /\ entities[i].handle \in Nat
  <2>1. \A i \in Slots : entities[i] \in Entity
    BY <1>1 DEF TypeOk, Slots
  <2>. QED
    BY <2>1 DEF Entity, Handles
<1>3. PICK first \in [handles -> Slots] :
        /\ \A h \in handles : entities[first[h]].handle = h
        /\ before' = [h \in DOMAIN before \cup handles |->
                         IF h \in DOMAIN before THEN before[h]
                         ELSE entities[first[h]]]
  BY DEF RecordEverySlot
<1>4. DOMAIN before' = DOMAIN before \cup handles
  BY <1>3
<1>5. DOMAIN before' \subseteq Handles
  BY <1>1, <1>2, <1>4 DEF TypeOk, Handles
<1>6. before' \in [DOMAIN before' -> Image]
  <2>1. \A h \in handles : entities[first[h]] \in Image
    BY <1>2, <1>3 DEF Image
  <2>2. \A h \in DOMAIN before' : before'[h] \in Image
    BY <1>1, <1>3, <1>4, <2>1 DEF TypeOk
  <2>3. before' = [h \in DOMAIN before' |-> before'[h]]
    BY <1>3
  <2>. QED
    BY <2>2, <2>3
<1>7. \A h \in DOMAIN before' : h < Fresh
  BY <1>1, <1>4 DEF AllocatorAbove
<1>8. \A h \in DOMAIN before' \ DOMAIN before : \E i \in Slots :
         before'[h] = entities[i] /\ entities[i].handle = h
  <2>. SUFFICES ASSUME NEW h \in DOMAIN before' \ DOMAIN before
                PROVE  \E i \in Slots : before'[h] = entities[i] /\ entities[i].handle = h
    OBVIOUS
  <2>1. h \in handles
    BY <1>4
  <2>. HIDE DEF handles
  <2>2. first[h] \in Slots /\ entities[first[h]].handle = h /\ before'[h] = entities[first[h]]
    BY <1>3, <2>1
  <2>. QED
    BY <2>2
<1>9. \A h \in DOMAIN before : before'[h] = before[h]
  BY <1>3
<1>. QED
  BY <1>4, <1>5, <1>6, <1>7, <1>8, <1>9

LEMMA RecordAllPreserves ==
    ASSUME StoreInv, RecordAll
    PROVE  StoreInv'
<1>1. TypeOk /\ IndexSound /\ AllocatorAbove
  BY DEF StoreInv
<1>2. /\ DOMAIN before' \subseteq Handles
      /\ before' \in [DOMAIN before' -> Image]
      /\ \A h \in DOMAIN before' : h < Fresh
  BY EverySlotRecorded DEF RecordAll
<1>3. /\ UNCHANGED <<entities, index, members, next, seed, recording>>
      /\ Fresh' = Fresh
  BY DEF RecordAll, Fresh, MaxOf
<1>4. TypeOk' /\ IndexSound'
  BY <1>1, <1>2, <1>3 DEF TypeOk, IndexSound, Live, Slots, Stored
<1>5. AllocatorAbove'
  BY <1>1, <1>2, <1>3 DEF AllocatorAbove, Slots, Listed
<1>. QED
  BY <1>4, <1>5 DEF StoreInv

\* A bulk write leaves every entity in its slot, under its handle and with its
\* owner, and drops the record of each one it hands out.
LEMMA PassWrites ==
    ASSUME TypeOk, NEW n \in Nat, NEW v \in Vals, EntitiesMut(n, v)
    PROVE  /\ entities' \in Seq(Entity) /\ Len(entities') = Len(entities) /\ Slots' = Slots
           /\ \A i \in Slots :
                 /\ entities'[i] \in Entity
                 /\ entities'[i].handle = entities[i].handle
                 /\ entities'[i].owner = entities[i].owner
                 /\ entities'[i].sub = entities[i].sub
                 /\ entities'[i] = entities[i] \/ entities'[i].raw = NoRaw
<1>1. Len(entities) \in Nat /\ \A i \in Slots : entities[i] \in Entity
  BY DEF TypeOk, Slots
<1>2. ASSUME NEW e \in Entity, NEW w, w = [e EXCEPT !.val = v, !.raw = NoRaw]
      PROVE  /\ w \in Entity /\ w.handle = e.handle /\ w.owner = e.owner
             /\ w.sub = e.sub /\ w.raw = NoRaw
  BY <1>2 DEF Entity
<1>3. entities' = [i \in Slots |->
                      IF i <= n THEN [entities[i] EXCEPT !.val = v, !.raw = NoRaw]
                      ELSE entities[i]]
  BY DEF EntitiesMut
<1>4. ASSUME NEW i \in Slots
      PROVE  /\ entities'[i] \in Entity
             /\ entities'[i].handle = entities[i].handle
             /\ entities'[i].owner = entities[i].owner
             /\ entities'[i].sub = entities[i].sub
             /\ entities'[i] = entities[i] \/ entities'[i].raw = NoRaw
  <2>. DEFINE w == [entities[i] EXCEPT !.val = v, !.raw = NoRaw]
  <2>1. entities'[i] = IF i <= n THEN w ELSE entities[i]
    BY <1>3
  <2>2. /\ w \in Entity /\ w.handle = entities[i].handle /\ w.owner = entities[i].owner
        /\ w.sub = entities[i].sub /\ w.raw = NoRaw
    BY <1>1, <1>2
  <2>. HIDE DEF w
  <2>. QED
    BY <1>1, <2>1, <2>2
<1>5. entities' \in [1 .. Len(entities) -> Entity]
  <2>1. DOMAIN entities' = 1 .. Len(entities) /\ entities' = [i \in Slots |-> entities'[i]]
    BY <1>3 DEF Slots
  <2>. QED
    BY <1>4, <2>1 DEF Slots
<1>6. entities' \in Seq(Entity) /\ Len(entities') = Len(entities)
  BY <1>1, <1>5
<1>. QED
  BY <1>4, <1>6 DEF Slots

LEMMA EntitiesMutPreserves ==
    ASSUME StoreInv, EntitiesMutAny
    PROVE  StoreInv'
<1>1. PICK n \in Nat, v \in Vals : EntitiesMut(n, v)
  BY DEF EntitiesMutAny, StoreInv, TypeOk
<1>2. TypeOk /\ IndexSound /\ AllocatorAbove
  BY DEF StoreInv
<1>3. /\ entities' \in Seq(Entity) /\ Slots' = Slots
      /\ \A i \in Slots : entities'[i].handle = entities[i].handle
  BY <1>1, <1>2, PassWrites
<1>4. /\ UNCHANGED <<index, members, next, seed, recording>>
      /\ Fresh' = Fresh /\ Live' = Live
  BY <1>1 DEF EntitiesMut, Fresh, MaxOf, Live
<1>5. /\ DOMAIN before' \subseteq Handles
      /\ before' \in [DOMAIN before' -> Image]
      /\ \A h \in DOMAIN before' : h < Fresh
  <2>1. CASE RecordEverySlot
    BY <2>1, EverySlotRecorded
  <2>2. CASE UNCHANGED before
    BY <1>2, <2>2 DEF TypeOk, AllocatorAbove
  <2>. QED
    BY <1>1, <2>1, <2>2 DEF EntitiesMut
<1>6. TypeOk' /\ IndexSound'
  BY <1>2, <1>3, <1>4, <1>5 DEF TypeOk, IndexSound, Live, Stored
<1>7. AllocatorAbove'
  BY <1>2, <1>3, <1>4, <1>5 DEF AllocatorAbove, Listed
<1>. QED
  BY <1>6, <1>7 DEF StoreInv

LEMMA RecordingPreserves ==
    ASSUME StoreInv, BeginRecording \/ EndRecording
    PROVE  StoreInv'
<1>1. /\ recording' \in BOOLEAN /\ before' = << >>
      /\ UNCHANGED <<entities, index, members, next, seed>>
  BY DEF BeginRecording, EndRecording
<1>2. DOMAIN before' = {} /\ before' \in [DOMAIN before' -> Image]
  <2>1. DOMAIN before' = {} /\ before' = [h \in {} |-> before'[h]]
    BY <1>1
  <2>. QED
    BY <2>1
<1>. QED
  BY <1>1, <1>2
  DEF StoreInv, TypeOk, IndexSound, AllocatorAbove, Live, Slots, Stored,
      Listed, Fresh, MaxOf

LEMMA NextPreserves == StoreInv /\ [Next]_storeVars => StoreInv'
<1>. SUFFICES ASSUME StoreInv, [Next]_storeVars PROVE StoreInv'
  OBVIOUS
<1>1. CASE AddAny
  BY <1>1, AddPreserves DEF AddAny
<1>2. CASE AddToBlockAny
  BY <1>2, AddToBlockPreserves DEF AddToBlockAny
<1>3. CASE AddLoadedAny
  BY <1>3, AddLoadedPreserves DEF AddLoadedAny
<1>4. CASE MutateAny
  BY <1>4, MutatePreserves DEF MutateAny
<1>5. CASE ReplaceAny
  BY <1>5, ReplacePreserves DEF ReplaceAny
<1>6. CASE RestoreAny
  BY <1>6, RestorePreserves DEF RestoreAny
<1>7. CASE RemoveAny
  BY <1>7, RemovePreserves DEF RemoveAny
<1>8. CASE BeginRecording \/ EndRecording
  BY <1>8, RecordingPreserves
<1>9. CASE RecordAll
  BY <1>9, RecordAllPreserves
<1>10. CASE EntitiesMutAny
  BY <1>10, EntitiesMutPreserves
<1>11. CASE UNCHANGED storeVars
  BY <1>11
  DEF storeVars, StoreInv, TypeOk, IndexSound, AllocatorAbove, Live, Slots,
      Stored, Listed, Fresh, MaxOf
<1>. QED
  BY <1>1, <1>2, <1>3, <1>4, <1>5, <1>6, <1>7, <1>8, <1>9, <1>10, <1>11 DEF Next

\* The store never loses track of an entity by its handle, never re-issues a
\* handle that is stored, listed by a block or remembered by the recorder,
\* and keeps its types: for any blocks, handles, drawing data and images,
\* duplicate handles included.
THEOREM StoreCorrect == Spec => [](TypeOk /\ IndexSound /\ AllocatorAbove)
<1>1. StoreInit => StoreInv
  BY InitEstablishes
<1>2. StoreInv /\ [Next]_storeVars => StoreInv'
  BY NextPreserves
<1>3. StoreInv => TypeOk /\ IndexSound /\ AllocatorAbove
  BY DEF StoreInv
<1>. QED
  BY <1>1, <1>2, <1>3, PTL DEF Spec

\* By itself: no operation of the store puts anything but entities in its slots,
\* anything but slots in the index, or anything but handles in a block's list.
THEOREM StoreTyped == Spec => []TypeOk
<1>1. TypeOk /\ IndexSound /\ AllocatorAbove => TypeOk
  OBVIOUS
<1>. QED
  BY <1>1, StoreCorrect, PTL

-----------------------------------------------------------------------------
(* Verbatim records.                                                       *)

\* A pushed entity whose record fits its drawing data.
LEMMA PushKeepsRaw ==
    ASSUME StoreInv, RawFaithful, NEW e \in Entity, Push(e),
           e.raw \in {NoRaw, e.val}
    PROVE  RawFaithful'
<1>1. TypeOk /\ IndexSound /\ e.handle # Null
  BY DEF StoreInv, Entity
<1>2. /\ entities' \in Seq(Entity)
      /\ Len(entities') = Len(entities) + 1
      /\ \A i \in Slots : entities'[i] = entities[i]
      /\ entities'[Len(entities) + 1] = e
  BY <1>1, PushKeepsIndex
<1>3. Slots' = Slots \cup {Len(entities) + 1}
  BY <1>1, <1>2 DEF TypeOk, Slots
<1>. QED
  BY <1>2, <1>3 DEF RawFaithful

\* A slot written with an image whose record fits.
LEMMA WriteKeepsRaw ==
    ASSUME StoreInv, RawFaithful, NEW h \in Live, NEW e \in Entity,
           entities' = [entities EXCEPT ![index[h]] = e],
           e.raw \in {NoRaw, e.val}
    PROVE  RawFaithful'
<1>1. entities \in Seq(Entity) /\ index[h] \in Slots
  BY DEF StoreInv, TypeOk
<1>2. /\ Slots' = Slots
      /\ \A i \in Slots : entities'[i] = IF i = index[h] THEN e ELSE entities[i]
  BY <1>1 DEF Slots
<1>. QED
  BY <1>2 DEF RawFaithful

LEMMA RawPreserves ==
    StoreInv /\ RawFaithful /\ [Next]_storeVars => RawFaithful'
<1>. SUFFICES ASSUME StoreInv, RawFaithful, [Next]_storeVars PROVE RawFaithful'
  OBVIOUS
<1>1. CASE AddAny
  <2>1. PICK h0 \in BringHandles, o \in Owners, sub \in BOOLEAN,
             onPaper \in BOOLEAN, v \in Vals : AddEntity(h0, o, sub, onPaper, v)
    BY <1>1 DEF AddAny
  <2>2. PICK owner \in Nat :
          Push([handle |-> HandleFor(h0), owner |-> owner, sub |-> sub,
                val |-> v, raw |-> NoRaw])
    BY <2>1, BlocksAssumption, HandlesAssumption DEF AddEntity, Owners, Null
  <2>3. HandleFor(h0) \in Nat \ {Null}
    BY <2>1, AllocateRaises, HandlesAssumption
    DEF StoreInv, AddEntity, BringHandles, Null
  <2>. QED
    BY <2>2, <2>3, PushKeepsRaw DEF Entity, Handles
<1>2. CASE AddToBlockAny
  <2>1. PICK h0 \in BringHandles, b \in Blocks, sub \in BOOLEAN,
             v \in Vals : AddEntityToBlock(h0, b, sub, v)
    BY <1>2 DEF AddToBlockAny
  <2>2. HandleFor(h0) \in Nat \ {Null} /\ b \in Nat
    BY <2>1, AllocateRaises, HandlesAssumption, BlocksAssumption
    DEF StoreInv, AddEntityToBlock, BringHandles, Null
  <2>. QED
    BY <2>1, <2>2, PushKeepsRaw DEF Entity, Handles, AddEntityToBlock
<1>3. CASE AddLoadedAny
  <2>1. PICK h0 \in BringHandles, o \in Owners, sub \in BOOLEAN,
             v \in Vals : AddLoadedEntity(h0, o, sub, v)
    BY <1>3 DEF AddLoadedAny
  <2>2. HandleFor(h0) \in Nat \ {Null} /\ o \in Nat
    BY <2>1, AllocateRaises, HandlesAssumption, BlocksAssumption
    DEF StoreInv, AddLoadedEntity, BringHandles, Owners, Null
  <2>. QED
    BY <2>1, <2>2, PushKeepsRaw DEF Entity, Handles, AddLoadedEntity
<1>4. CASE MutateAny
  <2>1. PICK h \in Live, v \in Vals : GetEntityMut(h, v)
    BY <1>4 DEF MutateAny
  <2>2. entities \in Seq(Entity) /\ index[h] \in Slots /\ Stored(h) \in Entity
    BY DEF StoreInv, TypeOk, Stored, Slots
  <2>3. /\ [Stored(h) EXCEPT !.val = v, !.raw = NoRaw] \in Entity
        /\ [Stored(h) EXCEPT !.val = v, !.raw = NoRaw].raw = NoRaw
    BY <2>2 DEF Entity
  <2>4. entities' = [entities EXCEPT
                        ![index[h]] = [Stored(h) EXCEPT !.val = v, !.raw = NoRaw]]
    BY <2>1, <2>2 DEF GetEntityMut, Stored, Slots, Entity
  <2>. QED
    BY <2>3, <2>4, WriteKeepsRaw
<1>5. CASE ReplaceAny
  BY <1>5, WriteKeepsRaw, ImagesAssumption DEF ReplaceAny, ReplaceEntityArc
<1>6. CASE RestoreAny
  BY <1>6, PushKeepsRaw, ImagesAssumption DEF RestoreAny, RestoreEntityArc
<1>7. CASE RemoveAny
  <2>1. PICK h \in Live : RemoveEntityArc(h)
    BY <1>7 DEF RemoveAny
  <2>2. index[h] \in Slots /\ TypeOk
    BY DEF StoreInv, TypeOk
  <2>3. /\ Len(entities') = Len(entities) - 1
        /\ \A j \in 1 .. Len(entities) - 1 :
              entities'[j] = IF j = index[h] THEN entities[Len(entities)]
                             ELSE entities[j]
    BY <2>1, <2>2, SwapRemoveKeepsSlots DEF RemoveEntityArc
  <2>4. Len(entities) \in Slots /\ Slots' = 1 .. Len(entities) - 1
    BY <2>2, <2>3 DEF Slots, TypeOk
  <2>. QED
    BY <2>2, <2>3, <2>4 DEF RawFaithful, Slots
<1>8. CASE RecordAll \/ BeginRecording \/ EndRecording \/ UNCHANGED storeVars
  BY <1>8 DEF RecordAll, BeginRecording, EndRecording, storeVars, RawFaithful, Slots
<1>9. CASE EntitiesMutAny
  <2>1. PICK n \in Nat, v \in Vals : EntitiesMut(n, v)
    BY <1>9 DEF EntitiesMutAny, StoreInv, TypeOk
  <2>. QED
    BY <2>1, PassWrites DEF StoreInv, RawFaithful
<1>. QED
  BY <1>1, <1>2, <1>3, <1>4, <1>5, <1>6, <1>7, <1>8, <1>9 DEF Next

\* No operation of the store leaves a verbatim record on an entity whose
\* drawing data it no longer encodes, so the writer never emits stale bytes.
THEOREM RawNeverStale == Spec => []RawFaithful
<1>1. StoreInit => StoreInv /\ RawFaithful
  BY InitEstablishes DEF StoreInit, RawFaithful, Slots
<1>2. StoreInv /\ RawFaithful /\ [Next]_storeVars => StoreInv' /\ RawFaithful'
  BY NextPreserves, RawPreserves
<1>. QED
  BY <1>1, <1>2, PTL DEF Spec

-----------------------------------------------------------------------------
(* No stranded slots, when callers bring no handle the store holds.        *)

\* Two slots never share a handle, because each is where its handle leads.
LEMMA PushKeepsReachable ==
    ASSUME StoreInv, SlotsReachable, ~AllowDuplicates, NEW e \in Entity,
           e.handle \notin Live, Push(e)
    PROVE  SlotsReachable'
<1>1. TypeOk /\ IndexSound /\ e.handle # Null
  BY DEF StoreInv, Entity
<1>2. /\ Len(entities') = Len(entities) + 1
      /\ \A i \in Slots : entities'[i] = entities[i]
      /\ entities'[Len(entities) + 1] = e
  BY <1>1, PushKeepsIndex
<1>3. Slots' = Slots \cup {Len(entities) + 1}
  BY <1>1, <1>2 DEF TypeOk, Slots
<1>4. /\ Live' = Live \cup {e.handle}
      /\ \A h \in Live' : index'[h] = IF h = e.handle THEN Len(entities) + 1
                                      ELSE index[h]
  BY DEF Push, Live
<1>. QED
  BY <1>2, <1>3, <1>4 DEF SlotsReachable

\* A handle the allocator hands out, and one a caller may bring, is not live.
LEMMA BroughtIsFree ==
    ASSUME StoreInv, ~AllowDuplicates, NEW h0 \in Nat, MayBring(h0)
    PROVE  HandleFor(h0) \notin Live
<1>1. CASE h0 = Null
  <2>1. ASSUME Fresh \in Live PROVE FALSE
    <3>1. index[Fresh] \in Slots /\ entities[index[Fresh]].handle = Fresh
      BY <2>1 DEF StoreInv, TypeOk, IndexSound, Stored
    <3>2. entities[index[Fresh]].handle < Fresh /\ Fresh \in Nat
      BY <3>1 DEF StoreInv, AllocatorAbove, TypeOk, Fresh, MaxOf
    <3>. QED
      BY <3>1, <3>2
  <2>. QED
    BY <1>1, <2>1 DEF HandleFor
<1>2. CASE h0 # Null
  BY <1>2 DEF HandleFor, MayBring
<1>. QED
  BY <1>1, <1>2

LEMMA ReachablePreserves ==
    StoreInv /\ SlotsReachable /\ [Next]_storeVars => SlotsReachable'
<1>. SUFFICES ASSUME StoreInv, SlotsReachable, [Next]_storeVars, ~AllowDuplicates
              PROVE  SlotsReachable'
  BY DEF SlotsReachable
<1>1. CASE AddAny
  <2>1. PICK h0 \in BringHandles, o \in Owners, sub \in BOOLEAN,
             onPaper \in BOOLEAN, v \in Vals : AddEntity(h0, o, sub, onPaper, v)
    BY <1>1 DEF AddAny
  <2>2. PICK owner \in Nat :
          Push([handle |-> HandleFor(h0), owner |-> owner, sub |-> sub,
                val |-> v, raw |-> NoRaw])
    BY <2>1, BlocksAssumption, HandlesAssumption DEF AddEntity, Owners, Null
  <2>3. HandleFor(h0) \in Nat \ {Null} /\ HandleFor(h0) \notin Live
    BY <2>1, AllocateRaises, BroughtIsFree, HandlesAssumption
    DEF StoreInv, AddEntity, BringHandles, Null
  <2>. QED
    BY <2>2, <2>3, PushKeepsReachable DEF Entity, Handles
<1>2. CASE AddToBlockAny
  <2>1. PICK h0 \in BringHandles, b \in Blocks, sub \in BOOLEAN,
             v \in Vals : AddEntityToBlock(h0, b, sub, v)
    BY <1>2 DEF AddToBlockAny
  <2>2. HandleFor(h0) \in Nat \ {Null} /\ HandleFor(h0) \notin Live /\ b \in Nat
    BY <2>1, AllocateRaises, BroughtIsFree, HandlesAssumption, BlocksAssumption
    DEF StoreInv, AddEntityToBlock, BringHandles, Null
  <2>. QED
    BY <2>1, <2>2, PushKeepsReachable DEF Entity, Handles, AddEntityToBlock
<1>3. CASE AddLoadedAny
  <2>1. PICK h0 \in BringHandles, o \in Owners, sub \in BOOLEAN,
             v \in Vals : AddLoadedEntity(h0, o, sub, v)
    BY <1>3 DEF AddLoadedAny
  <2>2. HandleFor(h0) \in Nat \ {Null} /\ HandleFor(h0) \notin Live /\ o \in Nat
    BY <2>1, AllocateRaises, BroughtIsFree, HandlesAssumption, BlocksAssumption
    DEF StoreInv, AddLoadedEntity, BringHandles, Owners, Null
  <2>. QED
    BY <2>1, <2>2, PushKeepsReachable DEF Entity, Handles, AddLoadedEntity
<1>4. CASE RestoreAny
  BY <1>4, PushKeepsReachable, ImagesAssumption DEF RestoreAny, RestoreEntityArc
\* A write leaves every slot the handle it had.
<1>5. ASSUME NEW h \in Live, NEW e \in Entity, e.handle = h,
             entities' = [entities EXCEPT ![index[h]] = e], UNCHANGED index
      PROVE  SlotsReachable'
  <2>1. entities \in Seq(Entity) /\ index[h] \in Slots /\ Stored(h).handle = h
    BY DEF StoreInv, TypeOk, IndexSound
  <2>2. /\ Slots' = Slots
        /\ \A i \in Slots : entities'[i].handle = entities[i].handle
    BY <1>5, <2>1 DEF Slots, Stored
  <2>. QED
    BY <1>5, <2>2 DEF SlotsReachable, Live
<1>6. CASE MutateAny
  <2>1. PICK h \in Live, v \in Vals : GetEntityMut(h, v)
    BY <1>6 DEF MutateAny
  <2>2. /\ entities \in Seq(Entity) /\ index[h] \in Slots
        /\ Stored(h) \in Entity /\ Stored(h).handle = h
    BY DEF StoreInv, TypeOk, IndexSound, Stored, Slots
  <2>3. /\ [Stored(h) EXCEPT !.val = v, !.raw = NoRaw] \in Entity
        /\ [Stored(h) EXCEPT !.val = v, !.raw = NoRaw].handle = h
    BY <2>2 DEF Entity
  <2>4. entities' = [entities EXCEPT
                        ![index[h]] = [Stored(h) EXCEPT !.val = v, !.raw = NoRaw]]
    BY <2>1, <2>2 DEF GetEntityMut, Stored, Slots, Entity
  <2>. QED
    BY <2>1, <2>3, <2>4, <1>5 DEF GetEntityMut
<1>7. CASE ReplaceAny
  BY <1>7, <1>5, ImagesAssumption DEF ReplaceAny, ReplaceEntityArc
<1>8. CASE RemoveAny
  <2>1. PICK h \in Live : RemoveEntityArc(h)
    BY <1>8 DEF RemoveAny
  <2>. DEFINE hole == index[h]
              last == Len(entities)
              moved == entities[last].handle
  <2>2. hole \in Slots /\ entities[hole].handle = h /\ TypeOk
    BY DEF StoreInv, TypeOk, IndexSound, Stored
  <2>3. /\ Len(entities') = last - 1
        /\ \A j \in 1 .. last - 1 :
              entities'[j] = IF j = hole THEN entities[last] ELSE entities[j]
    BY <2>1, <2>2, SwapRemoveKeepsSlots DEF RemoveEntityArc
  <2>4. last \in Slots /\ Slots' = 1 .. last - 1
    BY <2>2, <2>3 DEF Slots, TypeOk
  \* Distinct slots carry distinct handles.
  <2>5. \A i, j \in Slots : entities[i].handle = entities[j].handle => i = j
    BY DEF SlotsReachable
  <2>6. SUFFICES ASSUME NEW j \in 1 .. last - 1
                 PROVE  /\ entities'[j].handle \in Live'
                        /\ index'[entities'[j].handle] = j
    BY <2>4 DEF SlotsReachable
  <2>7. CASE j = hole
    <3>1. hole < last /\ entities'[j].handle = moved
      BY <2>2, <2>3, <2>4, <2>7 DEF Slots
    <3>2. index' = [k \in (Live \ {h}) \cup {moved} |->
                       IF k = moved THEN hole ELSE index[k]]
      BY <2>1, <3>1 DEF RemoveEntityArc
    <3>. QED
      BY <2>7, <3>1, <3>2 DEF Live
  <2>8. CASE j # hole
    <3>1. j \in Slots /\ entities'[j] = entities[j] /\ j # last
      BY <2>3, <2>4, <2>8 DEF Slots
    <3>2. /\ entities[j].handle \in Live \ {h}
          /\ index[entities[j].handle] = j
          /\ entities[j].handle # moved
      BY <2>2, <2>4, <2>5, <2>8, <3>1 DEF SlotsReachable
    <3>3. CASE hole < last
      <4>1. index' = [k \in (Live \ {h}) \cup {moved} |->
                         IF k = moved THEN hole ELSE index[k]]
        BY <2>1, <3>3 DEF RemoveEntityArc
      <4>. QED
        BY <3>1, <3>2, <4>1 DEF Live
    <3>4. CASE ~(hole < last)
      <4>1. index' = [k \in Live \ {h} |-> index[k]]
        BY <2>1, <3>4 DEF RemoveEntityArc
      <4>. QED
        BY <3>1, <3>2, <4>1 DEF Live
    <3>. QED
      BY <3>3, <3>4
  <2>. QED
    BY <2>7, <2>8
<1>9. CASE RecordAll \/ BeginRecording \/ EndRecording \/ UNCHANGED storeVars
  BY <1>9
  DEF RecordAll, BeginRecording, EndRecording, storeVars, SlotsReachable, Slots, Live
<1>10. CASE EntitiesMutAny
  <2>1. PICK n \in Nat, v \in Vals : EntitiesMut(n, v)
    BY <1>10, SMTT(30) DEF EntitiesMutAny, StoreInv, TypeOk
  <2>2. /\ Slots' = Slots /\ index' = index
        /\ \A i \in Slots : entities'[i].handle = entities[i].handle
    BY <2>1, PassWrites DEF StoreInv, EntitiesMut
  <2>. QED
    BY <2>2 DEF SlotsReachable, Live
<1>. QED
  BY <1>1, <1>2, <1>3, <1>4, <1>6, <1>7, <1>8, <1>9, <1>10 DEF Next

\* As long as callers bring no handle the store already holds, every slot is
\* the one its handle leads to: no entity is drawn that cannot be edited.
THEOREM NoStrandedSlot == Spec => []SlotsReachable
<1>1. StoreInit => StoreInv /\ SlotsReachable
  BY InitEstablishes DEF StoreInit, SlotsReachable, Slots
<1>2. StoreInv /\ SlotsReachable /\ [Next]_storeVars
        => StoreInv' /\ SlotsReachable'
  BY NextPreserves, ReachablePreserves
<1>. QED
  BY <1>1, <1>2, PTL DEF Spec

-----------------------------------------------------------------------------
(* The store implements the abstract map of EntityMap, as long as callers    *)
(* bring no handle it already holds: each operation maps to one step of the  *)
(* map or to a stutter.                                                     *)

\* The abstract map a state of the store stands for.
Contents == [h \in Live |-> Stored(h)]

LEMMA InitMaps == StoreInit => Map!Init
<1>. SUFFICES ASSUME StoreInit PROVE Contents = << >>
  BY DEF Map!Init, Contents
<1>1. Live = {}
  BY DEF StoreInit, Live
<1>. QED
  BY <1>1 DEF Contents

\* A push leaves every other handle with what it led to.
LEMMA PushContents ==
    ASSUME StoreInv, NEW e \in Entity, Push(e)
    PROVE  Contents' = [h \in Live \cup {e.handle} |->
                           IF h = e.handle THEN e ELSE Contents[h]]
<1>1. TypeOk /\ IndexSound /\ e.handle # Null
  BY DEF StoreInv, Entity
<1>2. /\ \A i \in Slots : entities'[i] = entities[i]
      /\ entities'[Len(entities) + 1] = e
      /\ Live' = Live \cup {e.handle}
  BY <1>1, PushKeepsIndex
<1>3. \A h \in Live' : index'[h] = IF h = e.handle THEN Len(entities) + 1
                                   ELSE index[h]
  BY <1>2 DEF Push, Live
<1>4. \A h \in Live' : Stored(h)' = IF h = e.handle THEN e ELSE Stored(h)
  BY <1>1, <1>2, <1>3 DEF Stored, TypeOk
<1>. QED
  BY <1>2, <1>4 DEF Contents

\* So the push of an entity whose handle is free puts it in.
LEMMA PushPuts ==
    ASSUME StoreInv, NEW e \in Entity, e.handle \notin Live, Push(e)
    PROVE  Map!Next
<1>1. Contents' = [h \in Live \cup {e.handle} |->
                      IF h = e.handle THEN e ELSE Contents[h]]
  BY PushContents
<1>2. DOMAIN Contents = Live /\ e.handle \in DOMAIN Contents' /\ Contents'[e.handle] = e
  BY <1>1 DEF Contents
<1>3. Map!Put(e)
  BY <1>1, <1>2 DEF Map!Put, Contents
<1>. QED
  BY <1>2, <1>3 DEF Map!Next, Contents

\* A slot written with an image of the same handle changes that entity only:
\* no other handle leads to the slot.
LEMMA WriteContents ==
    ASSUME StoreInv, NEW h \in Live, NEW e \in Entity, e.handle = h,
           entities' = [entities EXCEPT ![index[h]] = e], UNCHANGED index
    PROVE  Contents' = [Contents EXCEPT ![h] = e]
<1>1. /\ TypeOk
      /\ entities \in Seq(Entity) /\ index[h] \in Slots
      /\ \A k \in Live : index[k] \in Slots /\ entities[index[k]].handle = k
  BY DEF StoreInv, TypeOk, IndexSound, Stored
<1>2. \A i \in Slots : entities'[i] = IF i = index[h] THEN e ELSE entities[i]
  BY <1>1 DEF Slots
<1>3. \A k \in Live : k # h => index[k] # index[h]
  BY <1>1
<1>4. \A k \in Live : Stored(k)' = IF k = h THEN e ELSE Stored(k)
  BY <1>1, <1>2, <1>3 DEF Stored
<1>5. Live' = Live
  BY DEF Live
<1>. QED
  BY <1>4, <1>5 DEF Contents

\* So the write is a change of the map.
LEMMA WriteChanges ==
    ASSUME StoreInv, NEW h \in Live, NEW e \in Entity, e.handle = h,
           entities' = [entities EXCEPT ![index[h]] = e], UNCHANGED index
    PROVE  Map!Next
<1>1. Contents' = [Contents EXCEPT ![h] = e]
  BY WriteContents
<1>2. DOMAIN Contents = Live /\ h \in DOMAIN Contents' /\ Contents'[h] = e
  BY <1>1 DEF Contents
<1>3. Map!Change(h, e)
  BY <1>1, <1>2 DEF Map!Change, Contents
<1>. QED
  BY <1>2, <1>3 DEF Map!Next, Contents

\* A swap-removal takes one entity out; the one that moved is still found.
LEMMA RemoveContents ==
    ASSUME StoreInv, SlotsReachable, ~AllowDuplicates, NEW h \in Live,
           RemoveEntityArc(h)
    PROVE  Contents' = [k \in Live \ {h} |-> Contents[k]]
<1>. DEFINE hole == index[h]
            last == Len(entities)
            moved == entities[last].handle
<1>1. /\ TypeOk /\ hole \in Slots /\ entities[hole].handle = h
      /\ \A k \in Live : index[k] \in Slots /\ entities[index[k]].handle = k
  BY DEF StoreInv, TypeOk, IndexSound, Stored
<1>2. /\ Len(entities') = last - 1
      /\ \A j \in 1 .. last - 1 :
            entities'[j] = IF j = hole THEN entities[last] ELSE entities[j]
  BY <1>1, SwapRemoveKeepsSlots DEF RemoveEntityArc
<1>3. last \in Slots /\ moved \in Live /\ index[moved] = last
  BY <1>1 DEF Slots, TypeOk, SlotsReachable
<1>4. \A k \in Live \ {h} : index[k] # hole /\ (k # moved => index[k] # last)
  BY <1>1
<1>5. Live' = Live \ {h} /\ \A k \in Live \ {h} : Stored(k)' = Stored(k)
  <2>1. CASE hole < last
    <3>1. index' = [k \in (Live \ {h}) \cup {moved} |->
                       IF k = moved THEN hole ELSE index[k]]
      BY <2>1 DEF RemoveEntityArc
    <3>2. moved # h
      BY <1>3, <2>1
    <3>3. Live' = Live \ {h}
      BY <1>3, <3>1, <3>2 DEF Live
    <3>4. ASSUME NEW k \in Live \ {h} PROVE Stored(k)' = Stored(k)
      <4>1. CASE k = moved
        <5>1. index'[k] = hole /\ hole \in 1 .. last - 1
          BY <1>1, <2>1, <3>1, <4>1 DEF Slots
        <5>. QED
          BY <1>2, <1>3, <4>1, <5>1 DEF Stored
      <4>2. CASE k # moved
        <5>1. index'[k] = index[k] /\ index[k] \in 1 .. last - 1 /\ index[k] # hole
          BY <1>1, <1>4, <3>1, <4>2 DEF Slots
        <5>. QED
          BY <1>2, <5>1 DEF Stored
      <4>. QED
        BY <4>1, <4>2
    <3>. QED
      BY <3>3, <3>4
  <2>2. CASE ~(hole < last)
    <3>1. index' = [k \in Live \ {h} |-> index[k]] /\ hole = last
      BY <1>1, <2>2 DEF RemoveEntityArc, Slots
    <3>2. Live' = Live \ {h}
      BY <3>1 DEF Live
    <3>3. ASSUME NEW k \in Live \ {h} PROVE Stored(k)' = Stored(k)
      <4>1. index'[k] = index[k] /\ index[k] \in 1 .. last - 1 /\ index[k] # hole
        BY <1>1, <1>4, <3>1 DEF Slots
      <4>. QED
        BY <1>2, <4>1 DEF Stored
    <3>. QED
      BY <3>2, <3>3
  <2>. QED
    BY <2>1, <2>2
<1>. QED
  BY <1>5 DEF Contents

\* So the removal takes the entity out of the map.
LEMMA RemoveTakes ==
    ASSUME StoreInv, SlotsReachable, ~AllowDuplicates, NEW h \in Live,
           RemoveEntityArc(h)
    PROVE  Map!Next
<1>1. DOMAIN Contents = Live
  BY DEF Contents
<1>2. Contents' = [k \in DOMAIN Contents \ {h} |-> Contents[k]]
  BY <1>1, RemoveContents
<1>. QED
  BY <1>1, <1>2 DEF Map!Next, Map!Take, Contents

\* A bulk write rewrites entities under their own handles and owners.
LEMMA PassRewrites ==
    ASSUME StoreInv, EntitiesMutAny
    PROVE  /\ DOMAIN Contents' = DOMAIN Contents
           /\ \A h \in DOMAIN Contents :
                 /\ Contents'[h] \in Entity /\ Contents'[h].handle = h
                 /\ Contents'[h].owner = Contents[h].owner
                 /\ Contents'[h].sub = Contents[h].sub
<1>1. PICK n \in Nat, v \in Vals : EntitiesMut(n, v)
  BY DEF EntitiesMutAny, StoreInv, TypeOk
<1>2. \A i \in Slots : /\ entities'[i] \in Entity
                       /\ entities'[i].handle = entities[i].handle
                       /\ entities'[i].owner = entities[i].owner
                       /\ entities'[i].sub = entities[i].sub
  BY <1>1, PassWrites DEF StoreInv
<1>3. index' = index /\ Live' = Live
  BY <1>1 DEF EntitiesMut, Live
<1>4. \A h \in Live : index[h] \in Slots /\ entities[index[h]].handle = h
  BY DEF StoreInv, TypeOk, IndexSound, Stored
<1>5. /\ DOMAIN Contents = Live /\ DOMAIN Contents' = Live
      /\ \A h \in Live : Contents[h] = entities[index[h]] /\ Contents'[h] = entities'[index[h]]
  BY <1>3 DEF Contents, Stored
<1>. QED
  BY <1>2, <1>4, <1>5

\* Every step of the store is a step of the map or leaves the map alone.
LEMMA StepMaps ==
    ASSUME ~AllowDuplicates
    PROVE  StoreInv /\ SlotsReachable /\ [Next]_storeVars
             => [Map!Next]_Contents
<1>. SUFFICES ASSUME StoreInv, SlotsReachable, [Next]_storeVars
              PROVE  Map!Next \/ UNCHANGED Contents
  OBVIOUS
<1>1. CASE AddAny
  <2>1. PICK h0 \in BringHandles, o \in Owners, sub \in BOOLEAN,
             onPaper \in BOOLEAN, v \in Vals : AddEntity(h0, o, sub, onPaper, v)
    BY <1>1 DEF AddAny
  <2>2. PICK owner \in Nat :
          Push([handle |-> HandleFor(h0), owner |-> owner, sub |-> sub,
                val |-> v, raw |-> NoRaw])
    BY <2>1, BlocksAssumption, HandlesAssumption DEF AddEntity, Owners, Null
  <2>3. HandleFor(h0) \in Nat \ {Null} /\ HandleFor(h0) \notin Live
    BY <2>1, AllocateRaises, BroughtIsFree, HandlesAssumption
    DEF StoreInv, AddEntity, BringHandles, Null
  <2>. QED
    BY <2>2, <2>3, PushPuts DEF Entity, Handles
<1>2. CASE AddToBlockAny
  <2>1. PICK h0 \in BringHandles, b \in Blocks, sub \in BOOLEAN,
             v \in Vals : AddEntityToBlock(h0, b, sub, v)
    BY <1>2 DEF AddToBlockAny
  <2>2. HandleFor(h0) \in Nat \ {Null} /\ HandleFor(h0) \notin Live /\ b \in Nat
    BY <2>1, AllocateRaises, BroughtIsFree, HandlesAssumption, BlocksAssumption
    DEF StoreInv, AddEntityToBlock, BringHandles, Null
  <2>. QED
    BY <2>1, <2>2, PushPuts DEF Entity, Handles, AddEntityToBlock
<1>3. CASE AddLoadedAny
  <2>1. PICK h0 \in BringHandles, o \in Owners, sub \in BOOLEAN,
             v \in Vals : AddLoadedEntity(h0, o, sub, v)
    BY <1>3 DEF AddLoadedAny
  <2>2. HandleFor(h0) \in Nat \ {Null} /\ HandleFor(h0) \notin Live /\ o \in Nat
    BY <2>1, AllocateRaises, BroughtIsFree, HandlesAssumption, BlocksAssumption
    DEF StoreInv, AddLoadedEntity, BringHandles, Owners, Null
  <2>. QED
    BY <2>1, <2>2, PushPuts DEF Entity, Handles, AddLoadedEntity
<1>4. CASE MutateAny
  <2>1. PICK h \in Live, v \in Vals : GetEntityMut(h, v)
    BY <1>4 DEF MutateAny
  <2>2. /\ entities \in Seq(Entity) /\ index[h] \in Slots
        /\ Stored(h) \in Entity /\ Stored(h).handle = h
    BY DEF StoreInv, TypeOk, IndexSound, Stored, Slots
  <2>3. /\ [Stored(h) EXCEPT !.val = v, !.raw = NoRaw] \in Entity
        /\ [Stored(h) EXCEPT !.val = v, !.raw = NoRaw].handle = h
    BY <2>2 DEF Entity
  <2>4. entities' = [entities EXCEPT
                        ![index[h]] = [Stored(h) EXCEPT !.val = v, !.raw = NoRaw]]
    BY <2>1, <2>2 DEF GetEntityMut, Stored, Slots, Entity
  <2>. QED
    BY <2>1, <2>3, <2>4, WriteChanges DEF GetEntityMut
<1>5. CASE ReplaceAny
  BY <1>5, WriteChanges, ImagesAssumption DEF ReplaceAny, ReplaceEntityArc
<1>6. CASE RestoreAny
  BY <1>6, PushPuts, ImagesAssumption DEF RestoreAny, RestoreEntityArc
<1>7. CASE RemoveAny
  BY <1>7, RemoveTakes DEF RemoveAny
<1>8. CASE RecordAll \/ BeginRecording \/ EndRecording \/ UNCHANGED storeVars
  <2>1. UNCHANGED <<entities, index>>
    BY <1>8 DEF RecordAll, BeginRecording, EndRecording, storeVars
  <2>. QED
    BY <2>1 DEF Contents, Live, Stored
<1>9. CASE EntitiesMutAny
  BY <1>9, PassRewrites DEF Map!Next, Map!Rewrite, Contents
<1>. QED
  BY <1>1, <1>2, <1>3, <1>4, <1>5, <1>6, <1>7, <1>8, <1>9 DEF Next

\* With unique handles the store behaves as a map from handles to entities:
\* an operation puts in, changes or takes out one entity, and whatever slots
\* it moves, every other handle leads to what it led to before.
THEOREM StoreImplementsMap ==
    ASSUME ~AllowDuplicates
    PROVE  Spec => ImplementsMap
<1>1. StoreInit => StoreInv /\ SlotsReachable /\ Map!Init
  BY InitEstablishes, InitMaps DEF StoreInit, SlotsReachable, Slots
<1>2. StoreInv /\ SlotsReachable /\ [Next]_storeVars
        => StoreInv' /\ SlotsReachable'
  BY NextPreserves, ReachablePreserves
<1>3. StoreInv /\ SlotsReachable /\ [Next]_storeVars => [Map!Next]_Contents
  BY StepMaps
<1>. QED
  BY <1>1, <1>2, <1>3, PTL DEF Spec, ImplementsMap, Map!Spec, Contents

-----------------------------------------------------------------------------
(* What an operation does to the drawing: it touches one handle, of which   *)
(* the recorder keeps the image from before.                                *)

Touches(h, image) ==
    /\ Record(h, ImageIn(Contents, h))
    /\ \A k \in Handles : ImageIn(Contents', k) =
                             IF k = h THEN image ELSE ImageIn(Contents, k)

\* An entity that belongs under a handle, with a record that encodes its data.
Faithful(e, h) == e \in Entity /\ e.handle = h /\ e.raw \in {NoRaw, e.val}

StoreGood == StoreInv /\ SlotsReachable /\ RawFaithful

LEMMA AbsentIsNoEntity == Absent \notin Entity
<1>. SUFFICES ASSUME Absent \in Entity PROVE FALSE
  OBVIOUS
<1>1. DOMAIN Absent = {"absent"}
  BY DEF Absent
<1>2. "handle" \in DOMAIN Absent
  BY DEF Entity
<1>. QED
  BY <1>1, <1>2

\* The entities of the store are faithful and below the allocator.
LEMMA StoredFaithful ==
    ASSUME StoreGood
    PROVE  /\ DOMAIN Contents = Live /\ Live \subseteq Handles \ {Null}
           /\ \A h \in Live : /\ Contents[h] = Stored(h)
                              /\ Faithful(Contents[h], h)
                              /\ h < Fresh
<1>1. DOMAIN Contents = Live /\ \A h \in Live : Contents[h] = Stored(h)
  BY DEF Contents
<1>2. Live \subseteq Handles \ {Null}
  BY DEF StoreGood, StoreInv, TypeOk
<1>3. ASSUME NEW h \in Live PROVE Faithful(Stored(h), h) /\ h < Fresh
  <2>1. index[h] \in Slots /\ entities[index[h]].handle = h
    BY DEF StoreGood, StoreInv, TypeOk, IndexSound, Stored
  <2>. QED
    BY <2>1 DEF StoreGood, StoreInv, TypeOk, Faithful, AllocatorAbove, RawFaithful,
                Stored, Slots
<1>. QED
  BY <1>1, <1>2, <1>3

\* A push under a free handle that the recorder was told about.
LEMMA PushTouches ==
    ASSUME StoreGood, NEW e \in Entity, e.handle \notin Live, Push(e),
           Record(e.handle, Absent)
    PROVE  Touches(e.handle, e)
<1>1. Contents' = [h \in Live \cup {e.handle} |->
                      IF h = e.handle THEN e ELSE Contents[h]]
  BY PushContents DEF StoreGood
<1>2. DOMAIN Contents = Live
  BY DEF Contents
<1>3. ImageIn(Contents, e.handle) = Absent
  BY <1>2 DEF ImageIn
<1>. QED
  BY <1>1, <1>2, <1>3 DEF Touches, ImageIn

\* A write in place.
LEMMA WriteTouches ==
    ASSUME StoreGood, NEW h \in Live, NEW e \in Entity, e.handle = h,
           entities' = [entities EXCEPT ![index[h]] = e], UNCHANGED index,
           Record(h, Stored(h))
    PROVE  Touches(h, e)
<1>1. Contents' = [Contents EXCEPT ![h] = e]
  BY WriteContents DEF StoreGood
<1>2. DOMAIN Contents = Live /\ Contents[h] = Stored(h)
  BY DEF Contents
<1>3. ImageIn(Contents, h) = Stored(h)
  BY <1>2 DEF ImageIn
<1>. QED
  BY <1>1, <1>2, <1>3 DEF Touches, ImageIn

\* A removal.
LEMMA RemoveTouches ==
    ASSUME StoreGood, ~AllowDuplicates, NEW h \in Live, RemoveEntityArc(h)
    PROVE  Touches(h, Absent)
<1>1. Contents' = [k \in Live \ {h} |-> Contents[k]]
  BY RemoveContents DEF StoreGood
<1>2. DOMAIN Contents = Live /\ Contents[h] = Stored(h)
  BY DEF Contents
<1>3. ImageIn(Contents, h) = Stored(h) /\ Record(h, Stored(h))
  BY <1>2 DEF ImageIn, RemoveEntityArc
<1>. QED
  BY <1>1, <1>2, <1>3 DEF Touches, ImageIn

-----------------------------------------------------------------------------
(* What an operation of the user does, CLEAR set aside.                    *)

\* An entity that no block lists, or that another block does.
Elsewhere(image, b) == image.sub \/ image.owner # b

\* Where the touched entity is listed, when callers bring no handle: an added
\* one has a new handle, which its owner lists at the end; the others keep
\* their owner and their kind.
Places(h, image) ==
    \/ /\ h >= Fresh /\ image \in Entity
       /\ \A b \in Blocks :
             \/ members'[b] = members[b] /\ Elsewhere(image, b)
             \/ members'[b] = Append(members[b], h) /\ image.owner = b
    \/ /\ h \in DOMAIN Contents
       /\ UNCHANGED members
       /\ \/ image = Absent
          \/ /\ image \in Entity /\ image.owner = Contents[h].owner
             /\ image.sub = Contents[h].sub

\* A pass over every entity: all are recorded, none moves.
Sweep ==
    /\ UNCHANGED members
    /\ DOMAIN Contents' = DOMAIN Contents
    /\ \A h \in DOMAIN Contents : /\ Contents'[h].owner = Contents[h].owner
                                  /\ Contents'[h].sub = Contents[h].sub
    /\ recording => /\ DOMAIN before' = DOMAIN before \cup DOMAIN Contents
                    /\ \A h \in DOMAIN before' :
                          before'[h] = IF h \in DOMAIN before THEN before[h]
                                       ELSE ImageIn(Contents, h)

Edits ==
    /\ StoreGood'
    /\ Fresh <= Fresh'
    /\ UNCHANGED recording
    /\ \/ /\ UNCHANGED <<before, Contents>>
          /\ \A b \in Blocks : members'[b] \in {members[b], Reverse(members[b])}
       \/ \E h \in Handles, image \in Image :
             Touches(h, image) /\ (Explicit = {} => Places(h, image))
       \/ Sweep

\* The operations of the store keep it good.
LEMMA StoreStepGood ==
    ASSUME StoreGood, Next
    PROVE  StoreGood'
BY NextPreserves, ReachablePreserves, RawPreserves DEF StoreGood

\* The handle of an addition is free, and new when the caller brought none.
LEMMA AddedHandle ==
    ASSUME StoreGood, ~AllowDuplicates, NEW h0 \in BringHandles, MayBring(h0),
           Allocate(h0)
    PROVE  /\ HandleFor(h0) \in Handles \ {Null} /\ HandleFor(h0) \notin Live
           /\ Explicit = {} => HandleFor(h0) = Fresh
           /\ Fresh \in Nat /\ Fresh <= Fresh'
<1>1. h0 \in Nat /\ (Explicit = {} => h0 = Null)
  BY HandlesAssumption DEF BringHandles, Null
<1>2. HandleFor(h0) \in Handles \ {Null} /\ Fresh <= Fresh'
  BY <1>1, AllocateRaises DEF StoreGood, StoreInv, Handles
<1>3. HandleFor(h0) \notin Live
  BY <1>1, BroughtIsFree DEF StoreGood
<1>4. Fresh \in Nat
  BY DEF StoreGood, StoreInv, TypeOk, Fresh, MaxOf, Null
<1>. QED
  BY <1>1, <1>2, <1>3, <1>4 DEF HandleFor

LEMMA AddEdits ==
    ASSUME StoreGood, ~AllowDuplicates, AddAny
    PROVE  Edits
<1>1. PICK h0 \in BringHandles, o \in Owners, sub \in BOOLEAN,
           onPaper \in BOOLEAN, v \in Vals : AddEntity(h0, o, sub, onPaper, v)
  BY DEF AddAny
<1>. DEFINE h == HandleFor(h0)
            owner == IF o # Null THEN o
                     ELSE IF onPaper THEN PaperSpace ELSE ModelSpace
            home == IF owner \in Blocks THEN owner ELSE ModelSpace
            e == [handle |-> h, owner |-> IF sub THEN owner ELSE home,
                  sub |-> sub, val |-> v, raw |-> NoRaw]
<1>2. /\ MayBring(h0) /\ Allocate(h0) /\ Record(h, Absent) /\ Push(e)
      /\ IF sub THEN UNCHANGED members ELSE List(home, h)
      /\ UNCHANGED recording
  BY <1>1 DEF AddEntity
<1>3. /\ h \in Handles \ {Null} /\ h \notin Live /\ (Explicit = {} => h = Fresh)
      /\ Fresh \in Nat /\ Fresh <= Fresh'
  BY <1>2, AddedHandle
<1>4. owner \in Nat /\ home \in Blocks /\ home \in Nat
  BY BlocksAssumption, HandlesAssumption DEF Owners, Null
<1>5. e \in Entity /\ e.handle = h /\ e.sub = sub /\ (~sub => e.owner = home)
  BY <1>3, <1>4 DEF Entity, Handles
<1>6. StoreGood'
  BY StoreStepGood DEF Next
<1>7. Touches(h, e)
  <2>. HIDE DEF h, e
  <2>. QED
    BY <1>2, <1>3, <1>5, PushTouches
<1>8. \A b \in Blocks : \/ members'[b] = members[b] /\ Elsewhere(e, b)
                        \/ members'[b] = Append(members[b], h) /\ e.owner = b
  <2>1. members \in [Blocks -> Seq(Handles \ {Null})]
    BY DEF StoreGood, StoreInv, TypeOk
  <2>2. CASE sub
    <3>1. members' = members /\ e.sub
      BY <1>2, <1>5, <2>2
    <3>. HIDE DEF h, e
    <3>. QED
      BY <3>1 DEF Elsewhere
  <2>3. CASE ~sub
    <3>1. members' = [members EXCEPT ![home] = Append(@, h)] /\ e.owner = home
      BY <1>2, <1>5, <2>3 DEF List
    <3>. HIDE DEF h, e, home
    <3>. QED
      BY <1>4, <2>1, <3>1 DEF Elsewhere
  <2>. QED
    BY <2>2, <2>3
<1>. HIDE DEF h, e
<1>9. Explicit = {} => Places(h, e)
  BY <1>3, <1>5, <1>8 DEF Places
<1>. QED
  BY <1>2, <1>3, <1>5, <1>6, <1>7, <1>9 DEF Edits, Image

LEMMA AddToBlockEdits ==
    ASSUME StoreGood, ~AllowDuplicates, AddToBlockAny
    PROVE  Edits
<1>1. PICK h0 \in BringHandles, b \in Blocks, sub \in BOOLEAN, v \in Vals :
          AddEntityToBlock(h0, b, sub, v)
  BY DEF AddToBlockAny
<1>. DEFINE h == HandleFor(h0)
            e == [handle |-> h, owner |-> b, sub |-> sub, val |-> v, raw |-> NoRaw]
<1>2. /\ MayBring(h0) /\ Allocate(h0) /\ Record(h, Absent) /\ Push(e)
      /\ members' = [members EXCEPT ![b] = Append(@, h)]
      /\ UNCHANGED recording
  BY <1>1 DEF AddEntityToBlock, List
<1>3. /\ h \in Handles \ {Null} /\ h \notin Live /\ (Explicit = {} => h = Fresh)
      /\ Fresh \in Nat /\ Fresh <= Fresh'
  BY <1>2, AddedHandle
<1>4. e \in Entity /\ e.handle = h /\ e.owner = b
  BY <1>3, BlocksAssumption DEF Entity, Handles
<1>. HIDE DEF h, e
<1>5. StoreGood'
  BY StoreStepGood DEF Next
<1>6. Touches(h, e)
  BY <1>2, <1>3, <1>4, PushTouches
<1>7. members \in [Blocks -> Seq(Handles \ {Null})]
  BY DEF StoreGood, StoreInv, TypeOk
<1>8. Explicit = {} => Places(h, e)
  BY <1>2, <1>3, <1>4, <1>7 DEF Places, Elsewhere
<1>. QED
  BY <1>2, <1>3, <1>4, <1>5, <1>6, <1>8 DEF Edits, Image

LEMMA MutateEdits ==
    ASSUME StoreGood, MutateAny
    PROVE  Edits
<1>1. PICK h \in Live, v \in Vals : GetEntityMut(h, v)
  BY DEF MutateAny
<1>. DEFINE e == [Stored(h) EXCEPT !.val = v, !.raw = NoRaw]
<1>2. /\ entities \in Seq(Entity) /\ index[h] \in Slots
      /\ Stored(h) \in Entity /\ Stored(h).handle = h /\ h \in Handles
      /\ Fresh \in Nat
  BY DEF StoreGood, StoreInv, TypeOk, IndexSound, Stored, Slots, Fresh, MaxOf, Null, Handles
<1>3. e \in Entity /\ e.handle = h /\ e.owner = Stored(h).owner /\ e.sub = Stored(h).sub
  BY <1>2 DEF Entity
<1>4. entities' = [entities EXCEPT ![index[h]] = e]
  BY <1>1, <1>2 DEF GetEntityMut, Stored, Slots, Entity
<1>. HIDE DEF e
<1>5. StoreGood'
  BY StoreStepGood DEF Next
<1>6. /\ Record(h, Stored(h))
      /\ UNCHANGED <<index, members, next, seed, recording>>
  BY <1>1 DEF GetEntityMut
<1>7. Touches(h, e)
  BY <1>3, <1>4, <1>6, WriteTouches
<1>8. Fresh' = Fresh
  BY <1>6 DEF Fresh
<1>9. Places(h, e)
  BY <1>3, <1>6, StoredFaithful DEF Places
<1>. QED
  BY <1>2, <1>3, <1>5, <1>6, <1>7, <1>8, <1>9 DEF Edits, Image

LEMMA SweepEdits ==
    ASSUME StoreGood, ~AllowDuplicates, EntitiesMutAny
    PROVE  Edits
<1>1. StoreGood'
  BY StoreStepGood DEF Next
<1>2. /\ UNCHANGED <<index, members, next, seed, recording>>
      /\ IF recording THEN RecordEverySlot ELSE UNCHANGED before
  BY DEF EntitiesMutAny, EntitiesMut
<1>3. Fresh' = Fresh /\ Fresh \in Nat
  BY <1>2 DEF Fresh, StoreGood, StoreInv, TypeOk, MaxOf, Null
<1>4. /\ DOMAIN Contents' = DOMAIN Contents
      /\ \A h \in DOMAIN Contents : /\ Contents'[h].owner = Contents[h].owner
                                    /\ Contents'[h].sub = Contents[h].sub
  BY PassRewrites DEF StoreGood
<1>5. ASSUME recording
      PROVE  /\ DOMAIN before' = DOMAIN before \cup DOMAIN Contents
             /\ \A h \in DOMAIN before' :
                   before'[h] = IF h \in DOMAIN before THEN before[h]
                                ELSE ImageIn(Contents, h)
  <2>1. /\ DOMAIN before' = DOMAIN before \cup {entities[i].handle : i \in Slots}
        /\ \A h \in DOMAIN before' \ DOMAIN before : \E i \in Slots :
              before'[h] = entities[i] /\ entities[i].handle = h
        /\ \A h \in DOMAIN before : before'[h] = before[h]
    BY <1>2, <1>5, EverySlotRecorded DEF StoreGood
  <2>2. /\ DOMAIN Contents = Live
        /\ \A h \in Live : Contents[h] = entities[index[h]]
    BY DEF Contents, Stored
  <2>3. /\ \A i \in Slots : entities[i].handle \in Live /\ index[entities[i].handle] = i
        /\ \A h \in Live : index[h] \in Slots /\ entities[index[h]].handle = h
    BY DEF StoreGood, StoreInv, TypeOk, SlotsReachable, IndexSound, Stored
  <2>4. {entities[i].handle : i \in Slots} = Live
    BY <2>3
  <2>5. \A h \in DOMAIN before' \ DOMAIN before :
           before'[h] = ImageIn(Contents, h)
    BY <2>1, <2>2, <2>3 DEF ImageIn
  <2>. QED
    BY <2>1, <2>2, <2>4, <2>5
<1>6. Sweep
  BY <1>2, <1>4, <1>5 DEF Sweep
<1>. QED
  BY <1>1, <1>2, <1>3, <1>6 DEF Edits

LEMMA RemoveEdits ==
    ASSUME StoreGood, ~AllowDuplicates, RemoveAny
    PROVE  Edits
<1>1. PICK h \in Live : RemoveEntityArc(h)
  BY DEF RemoveAny
<1>2. Touches(h, Absent)
  BY <1>1, RemoveTouches
<1>3. StoreGood'
  BY StoreStepGood DEF Next
<1>4. UNCHANGED <<members, next, seed, recording>>
  BY <1>1 DEF RemoveEntityArc
<1>5. Fresh' = Fresh /\ Fresh \in Nat
  BY <1>4 DEF Fresh, StoreGood, StoreInv, TypeOk, MaxOf, Null
<1>6. h \in Handles /\ h \in DOMAIN Contents /\ Absent \in Image
  BY StoredFaithful DEF Image
<1>7. Places(h, Absent)
  BY <1>4, <1>6 DEF Places
<1>. QED
  BY <1>2, <1>3, <1>4, <1>5, <1>6, <1>7 DEF Edits

\* A list is reversed in place.
LEMMA ReverseAt ==
    ASSUME NEW T, NEW s \in Seq(T)
    PROVE  /\ Reverse(s) \in Seq(T) /\ Len(Reverse(s)) = Len(s)
           /\ \A i \in 1 .. Len(s) : /\ Reverse(s)[i] = s[Len(s) - i + 1]
                                     /\ Len(s) - i + 1 \in 1 .. Len(s)
BY DEF Reverse

LEMMA ReorderEdits ==
    ASSUME StoreGood, EditReorder
    PROVE  Edits
<1>1. PICK b \in Blocks : members' = [members EXCEPT ![b] = Reverse(@)]
  BY DEF EditReorder
<1>2. UNCHANGED <<entities, index, next, seed, recording, before>>
  BY DEF EditReorder
<1>3. members \in [Blocks -> Seq(Handles \ {Null})]
  BY DEF StoreGood, StoreInv, TypeOk
<1>4. Contents' = Contents
  BY <1>2 DEF Contents, Live, Stored
<1>5. /\ members' \in [Blocks -> Seq(Handles \ {Null})]
      /\ \A c \in Blocks : members'[c] = IF c = b THEN Reverse(members[c]) ELSE members[c]
  BY <1>1, <1>3, ReverseAt
<1>6. \A c \in Blocks : Listed(c)' \subseteq Listed(c)
  <2>. SUFFICES ASSUME NEW c \in Blocks, c = b PROVE Listed(c)' \subseteq Listed(c)
    BY <1>5 DEF Listed
  <2>. DEFINE s == members[c]
  <2>1. s \in Seq(Handles \ {Null}) /\ members'[c] = Reverse(s)
    BY <1>3, <1>5
  <2>. HIDE DEF s
  <2>2. /\ Len(Reverse(s)) = Len(s) /\ Len(s) \in Nat
        /\ \A i \in 1 .. Len(s) : /\ Reverse(s)[i] = s[Len(s) - i + 1]
                                  /\ Len(s) - i + 1 \in 1 .. Len(s)
    BY <2>1, ReverseAt
  <2>. DEFINE r == Reverse(s)
  <2>3. \A h \in Listed(c)' : \E i \in 1 .. Len(r) : h = r[i]
    BY <2>1 DEF Listed
  <2>. HIDE DEF r
  <2>4. \A h \in Listed(c)' : \E i \in 1 .. Len(s) : h = s[i]
    BY <2>2, <2>3, SMTT(30) DEF r
  <2>. QED
    BY <2>4 DEF Listed, s
<1>7. StoreGood'
  BY <1>2, <1>5, <1>6 DEF StoreGood, StoreInv, TypeOk, IndexSound, AllocatorAbove,
     SlotsReachable, RawFaithful, Live, Stored, Slots, Fresh
<1>8. Fresh' = Fresh /\ Fresh \in Nat
  BY <1>2 DEF Fresh, StoreGood, StoreInv, TypeOk, MaxOf, Null
<1>. QED
  BY <1>2, <1>4, <1>5, <1>7, <1>8 DEF Edits

-----------------------------------------------------------------------------
(* The inductive invariant, in parts.                                      *)

Structures == [members : [Blocks -> Seq(Handles \ {Null})],
               next : Nat \ {Null}, seed : Nat]
StoredMaps == UNION {[H -> Entity] : H \in SUBSET Handles}
ImageMaps == UNION {[H -> Image] : H \in SUBSET Handles}
Drawings == [stored : StoredMaps, blocks : [Blocks -> Seq(Handles \ {Null})]]
Entries == [before : ImageMaps, after : ImageMaps, structure : Structures,
            was : Drawings, becomes : Drawings]

\* The stored entities of a list are the block's, each listed once.
WellListed(b, list, stored) ==
    \A i \in 1 .. Len(list) : list[i] \in DOMAIN stored =>
        /\ stored[list[i]].owner = b
        /\ \A j \in 1 .. Len(list) : list[j] = list[i] => j = i

\* No stored entity of the block is missing from the list.
Complete(b, list, stored) ==
    \A h \in DOMAIN stored :
        Elsewhere(stored[h], b) \/ \E i \in 1 .. Len(list) : list[i] = h

\* A caller that brings a removed handle back to another block leaves it in
\* the list of the first.
Listing(lists, stored) ==
    Explicit = {} => \A b \in Blocks : /\ WellListed(b, lists[b], stored)
                                       /\ Complete(b, lists[b], stored)

AllFaithful(stored) == \A h \in DOMAIN stored : Faithful(stored[h], h)

\* A structure that goes with a drawing: swapped in over the drawing's
\* entities it shows that drawing, and its allocator is above all it names.
Shows(s, d) ==
    /\ s \in Structures
    /\ \A b \in Blocks : d.blocks[b] = Kept(s.members[b], DOMAIN d.stored)
    /\ \A h \in DOMAIN d.stored : h < FreshOf(s)
    /\ \A b \in Blocks : \A i \in 1 .. Len(s.members[b]) : s.members[b][i] < FreshOf(s)
    /\ Listing(s.members, d.stored)

\* The images of a transaction tell its two drawings apart.
Tells(e) ==
    /\ AllFaithful(e.was.stored)
    /\ AllFaithful(e.becomes.stored)
    /\ DOMAIN e.after = DOMAIN e.before
    /\ \A h \in DOMAIN e.before : /\ e.before[h] = ImageIn(e.was.stored, h)
                                  /\ e.after[h] = ImageIn(e.becomes.stored, h)
    /\ \A h \in Handles \ DOMAIN e.before :
          ImageIn(e.was.stored, h) = ImageIn(e.becomes.stored, h)

HistoryTyped ==
    /\ phase \in {"idle", "open", "undoing", "redoing"}
    /\ undo \in Seq(Entries)
    /\ redo \in Seq(Entries)
    /\ recording = (phase = "open")
    /\ phase # "open" => DOMAIN before = {}

\* Each transaction can be undone, or redone, over the drawing it left.
EntriesGood ==
    /\ \A i \in 1 .. Len(undo) : Tells(undo[i]) /\ Shows(undo[i].structure, undo[i].was)
    /\ \A i \in 1 .. Len(redo) : Tells(redo[i]) /\ Shows(redo[i].structure, redo[i].becomes)

\* The transactions follow on each other, and the drawing stands between the
\* last one done and the last one undone.
Joined(base) ==
    /\ undo # << >> => Last(undo).becomes = base
    /\ \A i \in 1 .. Len(undo) - 1 : undo[i].becomes = undo[i + 1].was
    /\ redo # << >> => Last(redo).was = base
    /\ \A i \in 1 .. Len(redo) - 1 : redo[i].was = redo[i + 1].becomes

IdleGood == phase = "idle" => Joined(Drawing) /\ Listing(members, Contents)

\* The recorder has the image from the start of every handle that is not as it
\* was then; the allocator has only moved up.
OpenGood ==
    phase = "open" =>
        /\ start \in [structure : Structures, drawing : Drawings]
        /\ Joined(start.drawing)
        /\ AllFaithful(start.drawing.stored)
        /\ Shows(start.structure, start.drawing)
        /\ FreshOf(start.structure) <= Fresh
        /\ \A h \in Handles :
              ImageIn(start.drawing.stored, h) =
                 IF h \in DOMAIN before THEN before[h] ELSE ImageIn(Contents, h)
        /\ Listing(members, start.drawing.stored)
        /\ Listing(members, Contents)

\* What is not put back yet is as it was, and the lists are still those of the
\* drawing that is left.
Halfway(images, from, to) ==
    /\ DOMAIN work \subseteq DOMAIN images
    /\ \A h \in DOMAIN work : work[h] = images[h]
    /\ \A h \in Handles \ DOMAIN work : ImageIn(Contents, h) = ImageIn(to.stored, h)
    /\ Shows(Structure, from)

UndoingGood ==
    phase = "undoing" =>
        /\ undo # << >>
        /\ Joined(Last(undo).becomes)
        /\ Halfway(Last(undo).before, Last(undo).becomes, Last(undo).was)

RedoingGood ==
    phase = "redoing" =>
        /\ redo # << >>
        /\ Joined(Last(redo).was)
        /\ Halfway(Last(redo).after, Last(redo).was, Last(redo).becomes)

HistoryInv ==
    /\ StoreGood
    /\ HistoryTyped
    /\ EntriesGood
    /\ IdleGood
    /\ OpenGood
    /\ UndoingGood
    /\ RedoingGood

-----------------------------------------------------------------------------
(* Drawings and structures.                                                *)

LEMMA StoredMapType ==
    ASSUME NEW s
    PROVE  s \in StoredMaps <=> DOMAIN s \subseteq Handles /\ s \in [DOMAIN s -> Entity]
BY DEF StoredMaps

LEMMA ImageMapType ==
    ASSUME NEW s
    PROVE  s \in ImageMaps <=> DOMAIN s \subseteq Handles /\ s \in [DOMAIN s -> Image]
BY DEF ImageMaps

\* The structure of a good store goes with its drawing.
DrawingShown ==
    /\ Drawing \in Drawings
    /\ Structure \in Structures
    /\ Drawing.stored = Contents
    /\ AllFaithful(Contents)
    /\ FreshOf(Structure) = Fresh
    /\ Listing(members, Contents) => Shows(Structure, Drawing)

LEMMA NowShown == ASSUME StoreGood PROVE DrawingShown
<1>1. /\ DOMAIN Contents = Live /\ Live \subseteq Handles \ {Null}
      /\ \A h \in Live : Faithful(Contents[h], h) /\ h < Fresh
  BY StoredFaithful
<1>2. Drawing.stored = Contents /\ DOMAIN Drawing = {"stored", "blocks"}
      /\ Drawing.blocks = [b \in Blocks |-> Kept(members[b], Live)]
  BY DEF Drawing, Contents
<1>3. /\ members \in [Blocks -> Seq(Handles \ {Null})]
      /\ next \in Nat \ {Null} /\ seed \in Nat
  BY DEF StoreGood, StoreInv, TypeOk
<1>4. Structure \in Structures /\ Structure.members = members
      /\ Structure.next = next /\ Structure.seed = seed
  BY <1>3 DEF Structure, Structures
<1>5. Contents \in StoredMaps
  <2>1. Contents = [h \in DOMAIN Contents |-> Contents[h]]
    BY <1>1 DEF Contents
  <2>2. \A h \in DOMAIN Contents : Contents[h] \in Entity
    BY <1>1 DEF Faithful
  <2>. QED
    BY <1>1, <2>1, <2>2, StoredMapType
<1>6. Drawing.blocks \in [Blocks -> Seq(Handles \ {Null})]
  BY <1>2, <1>3, KeptTyped
<1>7. Drawing \in Drawings
  BY <1>2, <1>5, <1>6 DEF Drawings, Drawing, Contents
<1>8. FreshOf(Structure) = Fresh
  BY <1>4 DEF FreshOf, Fresh
<1>9. \A b \in Blocks : \A i \in 1 .. Len(members[b]) : members[b][i] < Fresh
  BY DEF StoreGood, StoreInv, AllocatorAbove, Listed
<1>10. AllFaithful(Contents)
  BY <1>1 DEF AllFaithful
<1>11. ASSUME Listing(members, Contents) PROVE Shows(Structure, Drawing)
  BY <1>1, <1>2, <1>4, <1>8, <1>9, <1>11 DEF Shows
<1>. QED
  BY <1>2, <1>4, <1>7, <1>8, <1>10, <1>11 DEF DrawingShown

\* The same of the next state.
LEMMA NowShownNext == StoreGood' => DrawingShown'
<1>1. StoreGood => DrawingShown
  BY NowShown
<1>. QED
  BY <1>1, PTL

\* A drawing is its images and its lists.
LEMMA SameDrawing ==
    ASSUME NEW c \in Drawings, NEW d \in Drawings,
           \A h \in Handles : ImageIn(c.stored, h) = ImageIn(d.stored, h),
           \A b \in Blocks : c.blocks[b] = d.blocks[b]
    PROVE  c = d
<1>1. /\ c.stored \in StoredMaps /\ d.stored \in StoredMaps
      /\ c.blocks \in [Blocks -> Seq(Handles \ {Null})]
      /\ d.blocks \in [Blocks -> Seq(Handles \ {Null})]
      /\ c = [stored |-> c.stored, blocks |-> c.blocks]
      /\ d = [stored |-> d.stored, blocks |-> d.blocks]
  BY DEF Drawings
<1>2. /\ DOMAIN c.stored \subseteq Handles /\ c.stored \in [DOMAIN c.stored -> Entity]
      /\ DOMAIN d.stored \subseteq Handles /\ d.stored \in [DOMAIN d.stored -> Entity]
  BY <1>1, StoredMapType
<1>3. \A h \in Handles : h \in DOMAIN c.stored <=> h \in DOMAIN d.stored
  BY <1>2, AbsentIsNoEntity DEF ImageIn
<1>4. DOMAIN c.stored = DOMAIN d.stored
  BY <1>2, <1>3
<1>5. \A h \in DOMAIN c.stored : c.stored[h] = d.stored[h]
  BY <1>2, <1>4 DEF ImageIn
<1>6. c.stored = d.stored
  BY <1>2, <1>4, <1>5
<1>7. c.blocks = d.blocks
  BY <1>1
<1>. QED
  BY <1>1, <1>6, <1>7

\* swap_structure over the entities of a drawing brings that drawing back.
LEMMA SwapShows ==
    ASSUME StoreGood, ~AllowDuplicates, DOMAIN before = {},
           UNCHANGED <<recording, before>>,
           NEW d \in Drawings, AllFaithful(d.stored), NEW s, Shows(s, d),
           \A h \in Handles : ImageIn(Contents, h) = ImageIn(d.stored, h),
           SwapStructure(s)
    PROVE  /\ StoreGood' /\ Drawing' = d /\ Contents' = Contents
           /\ Fresh' = FreshOf(s) /\ Listing(members', Contents')
<1>1. /\ members' = s.members /\ next' = s.next /\ seed' = s.seed
      /\ UNCHANGED <<entities, index>>
  BY DEF SwapStructure
<1>2. s \in Structures /\ Fresh' = FreshOf(s)
  BY <1>1 DEF Shows, Fresh, FreshOf
<1>3. Contents' = Contents /\ Live' = Live /\ Slots' = Slots
  BY <1>1 DEF Contents, Live, Stored, Slots
<1>4. Drawing.stored = Contents /\ Drawing \in Drawings
  BY NowShown DEF DrawingShown
<1>5. Contents = d.stored
  <2>. DEFINE c == [stored |-> Contents, blocks |-> d.blocks]
  <2>1. c \in Drawings
    BY <1>4 DEF Drawings
  <2>2. c.stored = Contents /\ c.blocks = d.blocks
    OBVIOUS
  <2>. HIDE DEF c
  <2>3. c = d
    BY <2>1, <2>2, SameDrawing
  <2>. QED
    BY <2>2, <2>3
<1>6. DOMAIN Contents = Live
  BY StoredFaithful
<1>7. Drawing' = d
  <2>1. d = [stored |-> d.stored, blocks |-> d.blocks]
        /\ d.blocks = [b \in Blocks |-> d.blocks[b]]
    BY DEF Drawings
  <2>2. \A b \in Blocks : d.blocks[b] = Kept(members'[b], Live')
    BY <1>1, <1>3, <1>5, <1>6 DEF Shows
  <2>3. Drawing' = [stored |-> Contents', blocks |-> [b \in Blocks |-> Kept(members'[b], Live')]]
    BY DEF Drawing, Contents
  <2>. QED
    BY <1>3, <1>5, <2>1, <2>2, <2>3
<1>8. TypeOk' /\ IndexSound' /\ SlotsReachable' /\ RawFaithful'
  BY <1>1, <1>2, <1>3 DEF StoreGood, StoreInv, TypeOk, IndexSound, SlotsReachable,
     RawFaithful, Structures, Live, Stored, Slots
<1>9. AllocatorAbove'
  <2>1. \A i \in Slots : entities[i].handle \in Live
    BY DEF StoreGood, SlotsReachable
  <2>. QED
    BY <1>1, <1>2, <1>3, <1>5, <1>6, <2>1 DEF AllocatorAbove, Shows, Listed
<1>. QED
  BY <1>1, <1>2, <1>3, <1>5, <1>7, <1>8, <1>9 DEF StoreGood, StoreInv, Shows

-----------------------------------------------------------------------------
(* The lists under an operation of the user.                               *)

\* A list keeps its place while the owners of its entities stay the same.
LEMMA ListStays ==
    ASSUME NEW b, NEW list, NEW stored, NEW after, WellListed(b, list, stored),
           \A i \in 1 .. Len(list) : list[i] \in DOMAIN after =>
               list[i] \in DOMAIN stored /\ after[list[i]].owner = stored[list[i]].owner
    PROVE  WellListed(b, list, after)
BY DEF WellListed

\* A handle the list does not hold is appended.
LEMMA ListGrows ==
    ASSUME NEW b, NEW list \in Seq(Handles), NEW stored, NEW h \in Handles,
           WellListed(b, list, stored), \A i \in 1 .. Len(list) : list[i] # h,
           h \in DOMAIN stored => stored[h].owner = b
    PROVE  WellListed(b, Append(list, h), stored)
<1>. DEFINE more == Append(list, h)
<1>1. /\ Len(more) = Len(list) + 1 /\ Len(list) \in Nat
      /\ more[Len(list) + 1] = h
      /\ \A i \in 1 .. Len(list) : more[i] = list[i]
  OBVIOUS
<1>. HIDE DEF more
<1>2. ASSUME NEW i \in 1 .. Len(more), more[i] \in DOMAIN stored
      PROVE  /\ stored[more[i]].owner = b
             /\ \A j \in 1 .. Len(more) : more[j] = more[i] => j = i
  <2>1. CASE i \in 1 .. Len(list)
    BY <1>1, <1>2, <2>1 DEF WellListed
  <2>2. CASE i = Len(list) + 1
    BY <1>1, <1>2, <2>2
  <2>. QED
    BY <1>1, <2>1, <2>2
<1>. QED
  BY <1>2 DEF WellListed, more

LEMMA ListReversed ==
    ASSUME NEW b, NEW list \in Seq(Handles), NEW stored, WellListed(b, list, stored)
    PROVE  WellListed(b, Reverse(list), stored)
<1>. DEFINE r == Reverse(list)
<1>1. /\ Len(r) = Len(list) /\ Len(list) \in Nat
      /\ \A i \in 1 .. Len(list) : /\ r[i] = list[Len(list) - i + 1]
                                   /\ Len(list) - i + 1 \in 1 .. Len(list)
  BY ReverseAt
<1>. HIDE DEF r
<1>2. ASSUME NEW i \in 1 .. Len(r), r[i] \in DOMAIN stored
      PROVE  /\ stored[r[i]].owner = b
             /\ \A j \in 1 .. Len(r) : r[j] = r[i] => j = i
  <2>1. ASSUME NEW j \in 1 .. Len(r), r[j] = r[i] PROVE j = i
    <3>. DEFINE m == Len(list) - i + 1
                n == Len(list) - j + 1
    <3>1. /\ m \in 1 .. Len(list) /\ list[m] \in DOMAIN stored
          /\ n \in 1 .. Len(list) /\ list[n] = list[m]
      BY <1>1, <1>2, <2>1
    <3>2. m = n => i = j
      BY <1>1
    <3>. HIDE DEF m, n
    <3>3. m = n
      BY <3>1 DEF WellListed
    <3>. QED
      BY <3>2, <3>3
  <2>. QED
    BY <1>1, <1>2, <2>1 DEF WellListed
<1>. QED
  BY <1>2 DEF WellListed, r

\* A complete list stays complete when its elements go on being listed and
\* no other entity comes to the block.
LEMMA StaysComplete ==
    ASSUME NEW b, NEW list, NEW more, NEW stored, NEW after, Complete(b, list, stored),
           \A i \in 1 .. Len(list) : \E j \in 1 .. Len(more) : more[j] = list[i],
           \A h \in DOMAIN after :
               \/ Elsewhere(after[h], b)
               \/ \E j \in 1 .. Len(more) : more[j] = h
               \/ h \in DOMAIN stored /\ ~Elsewhere(stored[h], b)
    PROVE  Complete(b, more, after)
BY DEF Complete

\* Reversing loses no element, nor does appending.
LEMMA NoneLost ==
    ASSUME NEW list \in Seq(Handles), NEW h \in Handles, NEW i \in 1 .. Len(list)
    PROVE  /\ \E j \in 1 .. Len(Reverse(list)) : Reverse(list)[j] = list[i]
           /\ \E j \in 1 .. Len(Append(list, h)) : Append(list, h)[j] = list[i]
<1>1. \E j \in 1 .. Len(Reverse(list)) : Reverse(list)[j] = list[i]
  <2>. DEFINE r == Reverse(list)
              j == Len(list) - i + 1
  <2>1. /\ Len(r) = Len(list) /\ Len(list) \in Nat
        /\ \A k \in 1 .. Len(list) : r[k] = list[Len(list) - k + 1]
    BY ReverseAt
  <2>2. j \in 1 .. Len(list) /\ Len(list) - j + 1 = i
    BY <2>1
  <2>. HIDE DEF r, j
  <2>3. r[j] = list[i] /\ j \in 1 .. Len(r)
    BY <2>1, <2>2
  <2>. QED
    BY <2>3 DEF r
<1>2. Append(list, h)[i] = list[i] /\ i \in 1 .. Len(Append(list, h))
  OBVIOUS
<1>. QED
  BY <1>1, <1>2

\* An operation of the user keeps the lists good for the drawing it changes,
\* and for the one the transaction began with, whose handles it never reuses.
LEMMA EditsKeepLists ==
    ASSUME StoreGood, Edits, Listing(members, Contents),
           NEW old \in StoredMaps, Listing(members, old),
           \A h \in DOMAIN old : h < Fresh
    PROVE  Listing(members', Contents') /\ Listing(members', old)
<1>. SUFFICES ASSUME Explicit = {}, NEW b \in Blocks
              PROVE  /\ WellListed(b, members'[b], Contents')
                     /\ Complete(b, members'[b], Contents')
                     /\ WellListed(b, members'[b], old)
                     /\ Complete(b, members'[b], old)
  BY DEF Listing
<1>1. /\ WellListed(b, members[b], Contents) /\ Complete(b, members[b], Contents)
      /\ WellListed(b, members[b], old) /\ Complete(b, members[b], old)
  BY DEF Listing
<1>2. /\ members[b] \in Seq(Handles)
      /\ \A i \in 1 .. Len(members[b]) : members[b][i] < Fresh /\ members[b][i] \in Handles
      /\ Fresh \in Nat
  BY DEF StoreGood, StoreInv, AllocatorAbove, Listed, TypeOk, Fresh, MaxOf, Null, Handles
<1>3. /\ DOMAIN Contents = Live /\ Live \subseteq Handles \ {Null}
      /\ \A k \in Live : Contents[k] \in Entity
      /\ Contents' \in StoredMaps
  BY StoredFaithful, NowShownNext DEF Faithful, Edits, Drawings, DrawingShown
<1>4. CASE UNCHANGED <<before, Contents>>
           /\ members'[b] \in {members[b], Reverse(members[b])}
  <2>1. \A i \in 1 .. Len(members[b]) :
           \E j \in 1 .. Len(Reverse(members[b])) : Reverse(members[b])[j] = members[b][i]
    <3>1. Len(members[b]) \in Handles
      BY <1>2 DEF Handles
    <3>. QED
      BY <1>2, <3>1, NoneLost
  <2>2. \A i \in 1 .. Len(members[b]) :
           \E j \in 1 .. Len(members'[b]) : members'[b][j] = members[b][i]
    BY <1>4, <2>1
  <2>3. Complete(b, members'[b], Contents) /\ Complete(b, members'[b], old)
    BY <1>1, <2>2, StaysComplete
  <2>. QED
    BY <1>1, <1>2, <1>4, <2>3, ListReversed
<1>5. CASE Sweep
  <2>1. /\ members' = members /\ DOMAIN Contents' = DOMAIN Contents
        /\ \A h \in DOMAIN Contents : /\ Contents'[h].owner = Contents[h].owner
                                      /\ Contents'[h].sub = Contents[h].sub
    BY <1>5 DEF Sweep
  <2>2. WellListed(b, members[b], Contents')
    BY <1>1, <2>1, ListStays
  <2>3. Complete(b, members[b], Contents')
    BY <1>1, <2>1 DEF Complete, Elsewhere
  <2>. QED
    BY <1>1, <2>1, <2>2, <2>3
<1>6. ASSUME NEW h \in Handles, NEW image \in Image, Touches(h, image), Places(h, image)
      PROVE  /\ WellListed(b, members'[b], Contents')
             /\ Complete(b, members'[b], Contents')
             /\ WellListed(b, members'[b], old)
             /\ Complete(b, members'[b], old)
  <2>1. /\ \A k \in Handles \ {h} : ImageIn(Contents', k) = ImageIn(Contents, k)
        /\ ImageIn(Contents', h) = image
        /\ DOMAIN Contents' \subseteq Handles
        /\ \A k \in DOMAIN Contents' : Contents'[k] \in Entity
    BY <1>3, <1>6, StoredMapType DEF Touches
  <2>2. \A k \in DOMAIN Contents' \ {h} : k \in DOMAIN Contents /\ Contents'[k] = Contents[k]
    BY <1>3, <2>1, AbsentIsNoEntity DEF ImageIn
  <2>3. h \in DOMAIN Contents' => Contents'[h] = image /\ image # Absent
    BY <2>1, AbsentIsNoEntity DEF ImageIn
  <2>4. CASE /\ h >= Fresh /\ image \in Entity
             /\ \/ members'[b] = members[b] /\ Elsewhere(image, b)
                \/ members'[b] = Append(members[b], h) /\ image.owner = b
    <3>1. \A i \in 1 .. Len(members[b]) : members[b][i] # h
      BY <1>2, <2>4 DEF Handles
    <3>2. WellListed(b, members[b], Contents')
      BY <1>1, <2>2, <3>1, ListStays
    <3>3. h \notin DOMAIN old
      BY <1>2, <2>4, StoredMapType DEF Handles
    <3>4. CASE members'[b] = members[b] /\ Elsewhere(image, b)
      <4>1. Complete(b, members[b], Contents')
        BY <1>1, <2>2, <2>3, <3>4 DEF Complete
      <4>. QED
        BY <1>1, <3>2, <3>4, <4>1
    <3>5. CASE members'[b] = Append(members[b], h) /\ image.owner = b
      <4>. DEFINE more == Append(members[b], h)
      <4>1. WellListed(b, more, Contents')
        BY <1>2, <2>3, <3>1, <3>2, <3>5, ListGrows
      <4>2. WellListed(b, more, old)
        BY <1>1, <1>2, <3>1, <3>3, ListGrows
      <4>3. \A i \in 1 .. Len(members[b]) : \E j \in 1 .. Len(more) : more[j] = members[b][i]
        BY <1>2, NoneLost
      <4>4. \E j \in 1 .. Len(more) : more[j] = h
        BY <1>2
      <4>. HIDE DEF more
      <4>5. Complete(b, more, old)
        BY <1>1, <4>3, StaysComplete
      <4>6. Complete(b, more, Contents')
        BY <1>1, <2>2, <4>3, <4>4, StaysComplete
      <4>. QED
        BY <3>5, <4>1, <4>2, <4>5, <4>6 DEF more
    <3>. QED
      BY <2>4, <3>4, <3>5
  <2>5. CASE /\ h \in DOMAIN Contents
             /\ UNCHANGED members
             /\ \/ image = Absent
                \/ /\ image \in Entity /\ image.owner = Contents[h].owner
                   /\ image.sub = Contents[h].sub
    <3>1. WellListed(b, members[b], Contents')
      BY <1>1, <2>2, <2>3, <2>5, ListStays
    <3>2. Complete(b, members[b], Contents')
      BY <1>1, <2>2, <2>3, <2>5 DEF Complete, Elsewhere
    <3>. QED
      BY <1>1, <2>5, <3>1, <3>2
  <2>. QED
    BY <1>6, <2>4, <2>5 DEF Places
<1>. QED
  BY <1>4, <1>5, <1>6 DEF Edits

-----------------------------------------------------------------------------
(* One step at a time.                                                     *)

LEMMA InitGood == HistoryInit => HistoryInv
<1>. SUFFICES ASSUME HistoryInit PROVE HistoryInv
  OBVIOUS
<1>. DEFINE all == {LoadedHandle(i) : i \in 1 .. Len(Loaded)}
            mine(b) == Kept(Loaded, {e \in Range(Loaded) : e.owner = b /\ ~e.sub})
<1>1. /\ entities = Loaded
      /\ index = [h \in all |-> CHOOSE i \in 1 .. Len(Loaded) : LoadedHandle(i) = h]
      /\ members = [b \in Blocks |-> [i \in 1 .. Len(mine(b)) |-> mine(b)[i].handle]]
      /\ next = FirstHandle /\ seed \in Seeds /\ recording = FALSE /\ before = << >>
  BY DEF HistoryInit
<1>. HIDE DEF all, mine
<1>2. /\ Loaded \in Seq(Entity) /\ Len(Loaded) \in Nat
      /\ \A i \in 1 .. Len(Loaded) :
            /\ Loaded[i] \in Entity /\ Loaded[i].handle \in Handles \ {Null}
            /\ LoadedHandle(i) = Loaded[i].handle /\ LoadedHandle(i) < FirstHandle
            /\ Loaded[i].raw \in {NoRaw, Loaded[i].val}
      /\ \A i, j \in 1 .. Len(Loaded) : LoadedHandle(i) = LoadedHandle(j) => i = j
  <2>1. Loaded \in Seq(Entity) /\ Len(Loaded) \in Nat
    BY LoadedAssumption
  <2>2. \A i \in 1 .. Len(Loaded) : Loaded[i] \in Entity /\ LoadedHandle(i) = Loaded[i].handle
    BY <2>1 DEF LoadedHandle
  <2>3. \A e \in Entity : e.handle \in Handles \ {Null}
    BY DEF Entity
  <2>. QED
    BY <2>1, <2>2, <2>3, LoadedAssumption
<1>3. /\ Live = all
      /\ \A h \in all : index[h] \in 1 .. Len(Loaded) /\ LoadedHandle(index[h]) = h
      /\ index \in [all -> 1 .. Len(Loaded)]
  BY <1>1 DEF Live, all
<1>4. \A i \in 1 .. Len(Loaded) : LoadedHandle(i) \in Live /\ index[LoadedHandle(i)] = i
  BY <1>2, <1>3 DEF all
<1>5. ASSUME NEW b \in Blocks
      PROVE  /\ members[b] \in Seq(Handles \ {Null})
             /\ \A i \in 1 .. Len(members[b]) : members[b][i] < FirstHandle
             /\ WellListed(b, members[b], Contents)
             /\ Complete(b, members[b], Contents)
  <2>. DEFINE owned == {e \in Range(Loaded) : e.owner = b /\ ~e.sub}
              list == Kept(Loaded, owned)
  <2>1. list \in Seq(Entity) /\ Len(list) \in Nat
    BY <1>2, KeptTyped
  <2>2. \A i, j \in 1 .. Len(Loaded) : Loaded[i] = Loaded[j] => i = j
    BY <1>2
  <2>3. /\ Once(list)
        /\ \A i \in 1 .. Len(list) :
              list[i] \in owned /\ \E j \in 1 .. Len(Loaded) : Loaded[j] = list[i]
        /\ \A j \in 1 .. Len(Loaded) :
              Loaded[j] \in owned => \E i \in 1 .. Len(list) : list[i] = Loaded[j]
    <3>1. Once(Loaded)
      BY <2>2 DEF Once
    <3>2. Loaded \in Seq(Entity)
      BY <1>2
    <3>3. Once(list)
      BY <3>1, <3>2, KeptOnce
    <3>4. PartOf(list, Loaded, owned)
      BY <3>2, KeptOrder
    <3>. HIDE DEF list, owned
    <3>. QED
      BY <3>3, <3>4 DEF PartOf
  <2>4. members[b] = [i \in 1 .. Len(list) |-> list[i].handle]
    BY <1>1 DEF mine
  <2>. HIDE DEF list
  <2>5. ASSUME NEW i \in 1 .. Len(list)
        PROVE  /\ list[i].handle \in Handles \ {Null}
               /\ list[i].handle < FirstHandle
               /\ list[i].owner = b
               /\ Stored(list[i].handle) = list[i]
    <3>1. PICK j \in 1 .. Len(Loaded) : Loaded[j] = list[i]
      BY <2>3
    <3>2. list[i].owner = b
      BY <2>3
    <3>3. /\ list[i].handle = LoadedHandle(j) /\ LoadedHandle(j) < FirstHandle
          /\ list[i].handle \in Handles \ {Null}
      BY <1>2, <3>1
    <3>4. index[LoadedHandle(j)] = j /\ entities[j] = list[i]
      BY <1>1, <1>4, <3>1
    <3>. QED
      BY <3>2, <3>3, <3>4 DEF Stored
  <2>6. /\ members[b] \in Seq(Handles \ {Null}) /\ Len(members[b]) = Len(list)
        /\ \A i \in 1 .. Len(list) : members[b][i] = list[i].handle
    BY <2>1, <2>4, <2>5
  <2>7. \A i, j \in 1 .. Len(list) : list[i].handle = list[j].handle => i = j
    BY <2>3, <2>5 DEF Once
  <2>8. \A h \in DOMAIN Contents : Contents[h] = Stored(h)
    BY DEF Contents
  <2>9. Complete(b, members[b], Contents)
    <3>. SUFFICES ASSUME NEW h \in DOMAIN Contents, ~Elsewhere(Contents[h], b)
                  PROVE  \E i \in 1 .. Len(members[b]) : members[b][i] = h
      BY DEF Complete
    <3>1. /\ index[h] \in 1 .. Len(Loaded) /\ LoadedHandle(index[h]) = h
          /\ Contents[h] = Loaded[index[h]]
      BY <1>1, <1>3 DEF Contents, Stored
    <3>2. Loaded[index[h]] \in owned
      BY <3>1, <1>2 DEF Elsewhere, Range
    <3>3. PICK i \in 1 .. Len(list) : list[i] = Loaded[index[h]]
      BY <2>3, <3>1, <3>2
    <3>4. list[i].handle = h
      BY <1>2, <3>1, <3>3
    <3>. QED
      BY <2>6, <3>4
  <2>. QED
    BY <2>5, <2>6, <2>7, <2>8, <2>9 DEF WellListed
<1>6. TypeOk
  <2>1. members \in [Blocks -> Seq(Handles \ {Null})]
    <3>1. members = [b \in Blocks |-> members[b]]
      BY <1>1
    <3>. QED
      BY <1>5, <3>1
  <2>2. Live \subseteq Handles \ {Null}
    BY <1>2, <1>3 DEF all
  <2>3. DOMAIN before = {} /\ before \in [DOMAIN before -> Image]
    BY <1>1
  <2>. QED
    BY <1>1, <1>2, <1>3, <2>1, <2>2, <2>3, HandlesAssumption DEF TypeOk, Slots
<1>7. FirstHandle \in Nat /\ Fresh \in Nat /\ FirstHandle <= Fresh
  BY <1>1, HandlesAssumption DEF Fresh, MaxOf
<1>8. StoreGood
  <2>1. IndexSound
    BY <1>1, <1>2, <1>3 DEF IndexSound, Stored
  <2>2. SlotsReachable /\ RawFaithful
    BY <1>1, <1>2, <1>4 DEF SlotsReachable, RawFaithful, Slots
  <2>3. \A i \in Slots : entities[i].handle < Fresh
    BY <1>1, <1>2, <1>7 DEF Slots, Handles
  <2>4. \A b \in Blocks : \A h \in Listed(b) : h < Fresh
    <3>. SUFFICES ASSUME NEW b \in Blocks, NEW i \in 1 .. Len(members[b])
                  PROVE  members[b][i] < Fresh
      BY DEF Listed
    <3>1. members[b][i] \in Nat /\ members[b][i] < FirstHandle
      BY <1>5 DEF Handles
    <3>. QED
      BY <1>7, <3>1
  <2>5. \A h \in DOMAIN before : h < Fresh
    BY <1>1
  <2>. QED
    BY <1>6, <2>1, <2>2, <2>3, <2>4, <2>5 DEF StoreGood, StoreInv, AllocatorAbove
<1>9. Listing(members, Contents)
  BY <1>5 DEF Listing
<1>10. /\ phase = "idle" /\ undo = << >> /\ redo = << >> /\ DOMAIN before = {}
       /\ Len(undo) = 0 /\ Len(redo) = 0
  BY <1>1 DEF HistoryInit
<1>11. HistoryTyped
  <2>1. << >> \in Seq(Entries)
    OBVIOUS
  <2>2. recording = (phase = "open")
    BY <1>1, <1>10
  <2>. QED
    BY <1>10, <2>1, <2>2 DEF HistoryTyped
<1>12. EntriesGood /\ Joined(Drawing)
  BY <1>10 DEF EntriesGood, Joined
<1>. QED
  BY <1>8, <1>9, <1>10, <1>11, <1>12
  DEF HistoryInv, IdleGood, OpenGood, UndoingGood, RedoingGood

LEMMA BeginGood ==
    ASSUME HistoryInv, Begin
    PROVE  HistoryInv'
<1>1. /\ phase = "idle" /\ phase' = "open" /\ BeginRecording
      /\ start' = [structure |-> Structure, drawing |-> Drawing]
      /\ UNCHANGED <<undo, redo>>
  BY DEF Begin
<1>2. /\ UNCHANGED <<entities, index, members, next, seed>>
      /\ recording' = TRUE /\ before' = << >> /\ DOMAIN before' = {}
  BY <1>1 DEF BeginRecording
<1>3. StoreGood /\ StoreGood'
  BY <1>1, StoreStepGood DEF HistoryInv, Next
<1>4. Contents' = Contents /\ Drawing' = Drawing /\ Fresh' = Fresh
  BY <1>2 DEF Contents, Drawing, Live, Stored, Fresh
<1>5. Joined(Drawing) /\ Listing(members, Contents)
  BY <1>1 DEF HistoryInv, IdleGood
<1>6. /\ Drawing \in Drawings /\ Structure \in Structures
      /\ Drawing.stored = Contents /\ AllFaithful(Contents)
      /\ FreshOf(Structure) = Fresh /\ Shows(Structure, Drawing)
      /\ Fresh \in Nat
  BY <1>3, <1>5, NowShown
  DEF DrawingShown, StoreGood, StoreInv, TypeOk, Fresh, MaxOf, Null
<1>7. /\ start'.structure = Structure /\ start'.drawing = Drawing
      /\ start' \in [structure : Structures, drawing : Drawings]
  BY <1>1, <1>6
<1>8. OpenGood'
  BY <1>1, <1>2, <1>4, <1>5, <1>6, <1>7 DEF OpenGood, Joined
<1>9. HistoryTyped' /\ EntriesGood'
  BY <1>1, <1>2 DEF HistoryInv, HistoryTyped, EntriesGood
<1>. QED
  BY <1>1, <1>3, <1>8, <1>9 DEF HistoryInv, IdleGood, UndoingGood, RedoingGood

\* An operation of the user keeps the images of the start within reach.
LEMMA EditGood ==
    ASSUME HistoryInv, Editing, Edits
    PROVE  HistoryInv'
<1>1. /\ phase = "open" /\ phase' = "open" /\ UNCHANGED <<start, undo, redo>>
  BY DEF Editing
<1>2. /\ StoreGood /\ StoreGood' /\ Fresh <= Fresh' /\ recording' = recording
      /\ recording = TRUE
  BY <1>1 DEF Edits, HistoryInv, HistoryTyped
<1>3. /\ start \in [structure : Structures, drawing : Drawings]
      /\ Joined(start.drawing)
      /\ AllFaithful(start.drawing.stored)
      /\ Shows(start.structure, start.drawing)
      /\ FreshOf(start.structure) <= Fresh
      /\ \A h \in Handles :
            ImageIn(start.drawing.stored, h) =
               IF h \in DOMAIN before THEN before[h] ELSE ImageIn(Contents, h)
      /\ Listing(members, start.drawing.stored)
      /\ Listing(members, Contents)
  BY <1>1 DEF HistoryInv, OpenGood
<1>4. /\ start.drawing.stored \in StoredMaps /\ start.structure \in Structures
      /\ start.drawing \in Drawings
  BY <1>3 DEF Drawings
<1>5. Fresh \in Nat /\ Fresh' \in Nat /\ FreshOf(start.structure) \in Nat
  BY <1>2, <1>4 DEF StoreGood, StoreInv, TypeOk, Fresh, FreshOf, MaxOf, Null, Structures
<1>6. \A h \in DOMAIN start.drawing.stored : h < Fresh
  BY <1>3, <1>4, <1>5, StoredMapType DEF Shows, Handles
<1>7. Listing(members', Contents') /\ Listing(members', start.drawing.stored)
  BY <1>2, <1>3, <1>4, <1>6, EditsKeepLists
<1>8. \A h \in Handles :
         ImageIn(start.drawing.stored, h) =
            IF h \in DOMAIN before' THEN before'[h] ELSE ImageIn(Contents', h)
  <2>1. CASE UNCHANGED <<before, Contents>>
    BY <1>3, <2>1
  <2>2. ASSUME NEW h \in Handles, NEW image \in Image, Touches(h, image)
        PROVE  \A k \in Handles :
                  ImageIn(start.drawing.stored, k) =
                     IF k \in DOMAIN before' THEN before'[k] ELSE ImageIn(Contents', k)
    <3>1. \A k \in Handles \ {h} : ImageIn(Contents', k) = ImageIn(Contents, k)
      BY <2>2 DEF Touches
    <3>2. CASE h \in DOMAIN before
      <4>1. before' = before
        BY <2>2, <3>2 DEF Touches, Record
      <4>. QED
        BY <1>3, <3>1, <3>2, <4>1
    <3>3. CASE h \notin DOMAIN before
      <4>1. before' = [k \in DOMAIN before \cup {h} |->
                          IF k = h THEN ImageIn(Contents, h) ELSE before[k]]
        BY <1>2, <2>2, <3>3 DEF Touches, Record
      <4>2. /\ DOMAIN before' = DOMAIN before \cup {h}
            /\ before'[h] = ImageIn(Contents, h)
            /\ \A k \in DOMAIN before : k # h => before'[k] = before[k]
        BY <4>1
      <4>. QED
        BY <1>3, <3>1, <3>3, <4>2
    <3>. QED
      BY <3>2, <3>3
  <2>3. CASE Sweep
    <3>1. /\ DOMAIN Contents' = DOMAIN Contents
          /\ DOMAIN before' = DOMAIN before \cup DOMAIN Contents
          /\ \A h \in DOMAIN before' :
                before'[h] = IF h \in DOMAIN before THEN before[h] ELSE ImageIn(Contents, h)
      BY <1>2, <2>3 DEF Sweep
    <3>. QED
      BY <1>3, <3>1 DEF ImageIn
  <2>. QED
    BY <2>1, <2>2, <2>3 DEF Edits
<1>9. OpenGood'
  BY <1>1, <1>2, <1>3, <1>4, <1>5, <1>7, <1>8, SMTT(30) DEF OpenGood, Joined
<1>10. HistoryTyped' /\ EntriesGood'
  BY <1>1, <1>2 DEF HistoryInv, HistoryTyped, EntriesGood
<1>. QED
  BY <1>1, <1>2, <1>9, <1>10 DEF HistoryInv, IdleGood, UndoingGood, RedoingGood

\* align_added_entity_structure: the structure from before the transaction,
\* with the handles the additions took, goes with the drawing from before.
LEMMA AlignShows ==
    ASSUME StoreGood, NEW s, NEW d \in Drawings, Shows(s, d), NEW added,
           \A h \in DOMAIN d.stored : h \notin added,
           FreshOf(s) <= Fresh, Listing(members, d.stored)
    PROVE  /\ Shows(Align(s, Structure, added), d)
           /\ FreshOf(s) <= FreshOf(Align(s, Structure, added))
           /\ added # {} => FreshOf(Align(s, Structure, added)) = Fresh
<1>1. /\ s \in Structures /\ s.members \in [Blocks -> Seq(Handles \ {Null})]
      /\ FreshOf(s) \in Nat
  BY DEF Shows, Structures, FreshOf, MaxOf, Null
<1>2. CASE added = {}
  BY <1>1, <1>2 DEF Align
<1>3. CASE added # {}
  <2>. DEFINE old == Handles \ added
              lists == [b \in Blocks |->
                          IF Kept(s.members[b], old) = Kept(members[b], old)
                          THEN members[b] ELSE s.members[b]]
              aligned == [members |-> lists, next |-> next, seed |-> seed]
  <2>1. Align(s, Structure, added) = aligned
    BY <1>3 DEF Align, Structure
  <2>2. /\ members \in [Blocks -> Seq(Handles \ {Null})]
        /\ next \in Nat \ {Null} /\ seed \in Nat /\ Fresh \in Nat
        /\ \A b \in Blocks : \A i \in 1 .. Len(members[b]) : members[b][i] < Fresh
    BY DEF StoreGood, StoreInv, TypeOk, AllocatorAbove, Listed, Fresh, MaxOf, Null
  <2>3. /\ lists \in [Blocks -> Seq(Handles \ {Null})]
        /\ \A b \in Blocks : lists[b] = members[b] \/ lists[b] = s.members[b]
    BY <1>1, <2>2
  <2>4. DOMAIN d.stored \subseteq old
    BY StoredMapType DEF Drawings
  <2>5. ASSUME NEW b \in Blocks
        PROVE  Kept(lists[b], DOMAIN d.stored) = Kept(s.members[b], DOMAIN d.stored)
    <3>1. CASE Kept(s.members[b], old) = Kept(members[b], old)
      <4>1. Kept(Kept(members[b], old), DOMAIN d.stored) = Kept(members[b], DOMAIN d.stored)
        BY <2>2, <2>4, KeptKept
      <4>2. Kept(Kept(s.members[b], old), DOMAIN d.stored)
              = Kept(s.members[b], DOMAIN d.stored)
        BY <1>1, <2>4, KeptKept
      <4>. QED
        BY <3>1, <4>1, <4>2
    <3>2. CASE Kept(s.members[b], old) # Kept(members[b], old)
      BY <3>2
    <3>. QED
      BY <3>1, <3>2
  <2>. HIDE DEF lists
  <2>6. /\ aligned \in Structures /\ aligned.members = lists
        /\ FreshOf(aligned) = Fresh
    BY <2>2, <2>3 DEF Structures, FreshOf, Fresh
  <2>. HIDE DEF aligned
  <2>7. \A b \in Blocks : \A i \in 1 .. Len(lists[b]) : lists[b][i] < Fresh
    <3>. SUFFICES ASSUME NEW b \in Blocks, NEW i \in 1 .. Len(lists[b])
                  PROVE  lists[b][i] < Fresh
      OBVIOUS
    <3>1. CASE lists[b] = members[b]
      BY <2>2, <3>1
    <3>2. CASE lists[b] = s.members[b]
      <4>1. s.members[b][i] \in Nat /\ s.members[b][i] < FreshOf(s)
        BY <1>1, <3>2 DEF Shows, Handles
      <4>. QED
        BY <1>1, <2>2, <3>2, <4>1
    <3>. QED
      BY <2>3, <3>1, <3>2
  <2>8. \A h \in DOMAIN d.stored : h < Fresh
    <3>1. \A h \in DOMAIN d.stored : h \in Nat /\ h < FreshOf(s)
      BY <2>4 DEF Shows, Handles
    <3>. QED
      BY <1>1, <2>2, <3>1
  <2>9. Listing(lists, d.stored)
    <3>1. Listing(s.members, d.stored)
      BY DEF Shows
    <3>. QED
      BY <2>3, <3>1 DEF Listing
  <2>10. Shows(aligned, d)
    BY <2>5, <2>6, <2>7, <2>8, <2>9 DEF Shows
  <2>. QED
    BY <2>1, <2>6, <2>10
<1>. QED
  BY <1>2, <1>3

\* The sequence of transactions with one more.
LEMMA Appended ==
    ASSUME NEW T, NEW s \in Seq(T), NEW e \in T
    PROVE  /\ Append(s, e) \in Seq(T) /\ Append(s, e) # << >>
           /\ Len(Append(s, e)) = Len(s) + 1 /\ Len(s) \in Nat
           /\ Last(Append(s, e)) = e
           /\ \A i \in 1 .. Len(s) : Append(s, e)[i] = s[i]
           /\ s # << >> => s[Len(s)] = Last(s) /\ Len(s) > 0
BY DEF Last

\* And with the last one taken off.
LEMMA TakenOff ==
    ASSUME NEW T, NEW s \in Seq(T), s # << >>
    PROVE  /\ Front(s) \in Seq(T) /\ Len(Front(s)) = Len(s) - 1
           /\ Len(s) \in Nat \ {0}
           /\ \A i \in 1 .. Len(s) - 1 : Front(s)[i] = s[i]
           /\ Last(s) = s[Len(s)] /\ Last(s) \in T
           /\ Front(s) # << >> => Len(s) - 1 \in 1 .. Len(s) /\ Last(Front(s)) = s[Len(s) - 1]
<1>. DEFINE n == Len(s)
            f == SubSeq(s, 1, n - 1)
<1>1. n \in Nat \ {0} /\ n - 1 \in Nat /\ Last(s) = s[n] /\ s[n] \in T
  BY DEF Last
<1>. HIDE DEF n
<1>2. f \in Seq(T) /\ Len(f) = n - 1 /\ \A i \in 1 .. n - 1 : f[i] = s[i]
  <2>1. \A i \in 1 .. n - 1 : s[i] \in T
    BY <1>1 DEF n
  <2>2. f \in Seq(T)
    BY <1>1, <2>1 DEF n
  <2>3. Len(f) = n - 1
    BY <1>1
  <2>4. \A i \in 1 .. n - 1 : f[i] = s[i]
    BY <1>1
  <2>. QED
    BY <2>2, <2>3, <2>4
<1>3. Front(s) = f
  BY DEF Front, n
<1>. HIDE DEF f
<1>4. f # << >> => n - 1 \in 1 .. n /\ n - 1 \in 1 .. n - 1 /\ Last(f) = f[n - 1]
  BY <1>1, <1>2 DEF Last
<1>. QED
  BY <1>1, <1>2, <1>3, <1>4 DEF n

\* The images an undo or a redo brings back under a handle below f.
Below(images, f) == \A h \in Returning(images) : h < f

\* The transaction that is committed.
LEMMA CommitEntry ==
    ASSUME HistoryInv, Commit
    PROVE  \E e \in Entries :
              /\ undo' = Append(undo, e)
              /\ Tells(e) /\ Shows(e.structure, e.was)
              /\ e.was = start.drawing /\ e.becomes = Drawing
              /\ FreshOf(start.structure) <= FreshOf(e.structure)
              /\ Below(e.after, FreshOf(e.structure))
<1>. DEFINE after == [h \in DOMAIN before |-> IF h \in Live THEN Stored(h) ELSE Absent]
            added == {h \in DOMAIN before : before[h] = Absent /\ after[h] # Absent}
            aligned == Align(start.structure, Structure, added)
            entry == [before |-> before, after |-> after, structure |-> aligned,
                      was |-> start.drawing, becomes |-> Drawing]
<1>1. phase = "open" /\ undo' = Append(undo, entry)
  BY DEF Commit
<1>3. StoreGood
  BY DEF HistoryInv
<1>5. /\ start \in [structure : Structures, drawing : Drawings]
      /\ Joined(start.drawing)
      /\ AllFaithful(start.drawing.stored)
      /\ Shows(start.structure, start.drawing)
      /\ FreshOf(start.structure) <= Fresh
      /\ \A h \in Handles :
            ImageIn(start.drawing.stored, h) =
               IF h \in DOMAIN before THEN before[h] ELSE ImageIn(Contents, h)
      /\ Listing(members, start.drawing.stored)
      /\ Listing(members, Contents)
  BY <1>1 DEF HistoryInv, OpenGood
<1>6. /\ Drawing \in Drawings /\ Drawing.stored = Contents /\ AllFaithful(Contents)
  BY <1>3, NowShown DEF DrawingShown
<1>7. DOMAIN before \subseteq Handles /\ before \in [DOMAIN before -> Image]
  BY <1>3 DEF StoreGood, StoreInv, TypeOk
<1>8. /\ DOMAIN after = DOMAIN before
      /\ \A h \in DOMAIN before : after[h] = ImageIn(Contents, h)
  BY DEF ImageIn, Contents
<1>9. /\ start.drawing \in Drawings /\ start.structure \in Structures
      /\ start.drawing.stored \in StoredMaps
  BY <1>5 DEF Drawings
<1>10. \A h \in DOMAIN start.drawing.stored : h \notin added
  <2>. SUFFICES ASSUME NEW h \in DOMAIN start.drawing.stored, h \in added PROVE FALSE
    OBVIOUS
  <2>1. h \in Handles /\ start.drawing.stored[h] \in Entity
    BY <1>9, StoredMapType
  <2>2. ImageIn(start.drawing.stored, h) = Absent
    BY <1>5, <2>1
  <2>. QED
    BY <2>1, <2>2, AbsentIsNoEntity DEF ImageIn
<1>. HIDE DEF after, added
<1>11. /\ Shows(aligned, start.drawing) /\ aligned \in Structures
       /\ FreshOf(start.structure) <= FreshOf(aligned)
       /\ added # {} => FreshOf(aligned) = Fresh
  <2>1. /\ Shows(aligned, start.drawing)
        /\ FreshOf(start.structure) <= FreshOf(aligned)
        /\ added # {} => FreshOf(aligned) = Fresh
    BY <1>3, <1>5, <1>9, <1>10, AlignShows
  <2>. QED
    BY <2>1 DEF Shows
<1>12. before \in ImageMaps /\ after \in ImageMaps
  <2>1. \A h \in Handles : ImageIn(Contents, h) \in Image
    BY <1>6, StoredMapType DEF ImageIn, Image, Drawings
  <2>2. after = [h \in DOMAIN before |-> after[h]]
    BY DEF after
  <2>3. after \in [DOMAIN after -> Image]
    BY <1>7, <1>8, <2>1, <2>2
  <2>. QED
    BY <1>7, <1>8, <2>3, ImageMapType
<1>. HIDE DEF aligned
<1>13. /\ entry \in Entries
       /\ entry.before = before /\ entry.after = after /\ entry.structure = aligned
       /\ entry.was = start.drawing /\ entry.becomes = Drawing
  BY <1>6, <1>9, <1>11, <1>12 DEF Entries
<1>. HIDE DEF entry
<1>14. Tells(entry)
  BY <1>5, <1>6, <1>7, <1>8, <1>13 DEF Tells
<1>15. Below(after, FreshOf(aligned))
  <2>. SUFFICES ASSUME NEW h \in DOMAIN after, after[h] # Absent
                PROVE  h < FreshOf(aligned)
    BY DEF Below, Returning
  <2>1. CASE before[h] = Absent
    <3>1. h \in added
      BY <1>8, <2>1 DEF added
    <3>2. h \in Live
      BY <1>8 DEF ImageIn, Contents
    <3>. QED
      BY <1>3, <1>11, <3>1, <3>2, StoredFaithful
  <2>2. CASE before[h] # Absent
    <3>1. h \in DOMAIN start.drawing.stored
      BY <1>5, <1>7, <1>8, <2>2 DEF ImageIn
    <3>. QED
      BY <1>11, <3>1 DEF Shows
  <2>. QED
    BY <2>1, <2>2
<1>. QED
  BY <1>1, <1>11, <1>13, <1>14, <1>15

LEMMA CommitGood ==
    ASSUME HistoryInv, Commit
    PROVE  HistoryInv'
<1>1. /\ phase = "open" /\ phase' = "idle" /\ EndRecording /\ redo' = << >>
  BY DEF Commit
<1>2. /\ UNCHANGED <<entities, index, members, next, seed>>
      /\ recording' = FALSE /\ before' = << >> /\ DOMAIN before' = {}
  BY <1>1 DEF EndRecording
<1>3. /\ StoreGood /\ StoreGood' /\ HistoryTyped /\ EntriesGood
  BY <1>1, StoreStepGood DEF HistoryInv, Next
<1>4. Contents' = Contents /\ Drawing' = Drawing /\ Fresh' = Fresh
  BY <1>2 DEF Contents, Drawing, Live, Stored, Fresh
<1>5. Joined(start.drawing) /\ Listing(members, Contents)
  BY <1>1 DEF HistoryInv, OpenGood
<1>6. PICK e \in Entries : /\ undo' = Append(undo, e)
                           /\ Tells(e) /\ Shows(e.structure, e.was)
                           /\ e.was = start.drawing /\ e.becomes = Drawing
  BY CommitEntry
<1>7. undo \in Seq(Entries)
  BY <1>3 DEF HistoryTyped
<1>8. /\ undo' \in Seq(Entries) /\ Len(undo') = Len(undo) + 1 /\ Len(undo) \in Nat
      /\ Last(undo') = e /\ undo'[Len(undo) + 1] = e
      /\ \A i \in 1 .. Len(undo) : undo'[i] = undo[i]
      /\ undo # << >> => undo[Len(undo)] = Last(undo) /\ Len(undo) > 0
      /\ Len(redo') = 0 /\ redo' = << >>
  BY <1>1, <1>6, <1>7, Appended
<1>9. EntriesGood'
  BY <1>3, <1>6, <1>8 DEF EntriesGood
<1>10. Joined(Drawing)'
  <2>1. \A i \in 1 .. Len(undo) : undo'[i].becomes = undo'[i + 1].was
    <3>. SUFFICES ASSUME NEW i \in 1 .. Len(undo) PROVE undo'[i].becomes = undo'[i + 1].was
      OBVIOUS
    <3>1. CASE i = Len(undo)
      BY <1>5, <1>6, <1>8, <3>1 DEF Joined
    <3>2. CASE i < Len(undo)
      BY <1>5, <1>8, <3>2 DEF Joined
    <3>. QED
      BY <1>8, <3>1, <3>2
  <2>. QED
    BY <1>4, <1>6, <1>8, <2>1 DEF Joined
<1>11. IdleGood'
  BY <1>2, <1>4, <1>5, <1>10 DEF IdleGood
<1>12. HistoryTyped'
  <2>1. redo' \in Seq(Entries)
    BY <1>8
  <2>. QED
    BY <1>1, <1>2, <1>8, <2>1 DEF HistoryTyped
<1>. QED
  BY <1>1, <1>3, <1>9, <1>11, <1>12
  DEF HistoryInv, OpenGood, UndoingGood, RedoingGood

LEMMA BeginUndoGood ==
    ASSUME HistoryInv, BeginUndo
    PROVE  HistoryInv'
<1>1. /\ phase = "idle" /\ phase' = "undoing" /\ undo # << >>
      /\ work' = Last(undo).before
      /\ UNCHANGED <<entities, index, members, next, seed, recording, before>>
      /\ UNCHANGED <<undo, redo>>
  BY DEF BeginUndo, storeVars
<1>2. /\ StoreGood /\ HistoryTyped /\ EntriesGood
      /\ Joined(Drawing) /\ Listing(members, Contents)
  BY <1>1 DEF HistoryInv, IdleGood
<1>3. StoreGood'
  BY <1>1, <1>2 DEF StoreGood, StoreInv, TypeOk, IndexSound, AllocatorAbove, SlotsReachable,
     RawFaithful, Live, Stored, Slots, Listed, Fresh
<1>4. Contents' = Contents /\ Structure' = Structure
  BY <1>1 DEF Contents, Structure, Live, Stored
<1>5. Shows(Structure, Drawing) /\ Drawing.stored = Contents
  BY <1>2, NowShown DEF DrawingShown
<1>6. Len(undo) \in 1 .. Len(undo) /\ Last(undo) = undo[Len(undo)]
  <2>1. undo \in Seq(Entries)
    BY <1>2 DEF HistoryTyped
  <2>. QED
    BY <1>1, <2>1 DEF Last
<1>7. Tells(Last(undo)) /\ Last(undo).becomes = Drawing
  BY <1>1, <1>2, <1>6 DEF EntriesGood, Joined
<1>8. Halfway(Last(undo).before, Last(undo).becomes, Last(undo).was)'
  BY <1>1, <1>4, <1>5, <1>7 DEF Halfway, Tells
<1>9. Joined(Last(undo).becomes)'
  BY <1>1, <1>2, <1>7 DEF Joined
<1>10. UndoingGood'
  BY <1>1, <1>8, <1>9 DEF UndoingGood
<1>11. HistoryTyped' /\ EntriesGood'
  BY <1>1, <1>2 DEF HistoryTyped, EntriesGood
<1>. QED
  BY <1>1, <1>3, <1>10, <1>11 DEF HistoryInv, IdleGood, OpenGood, RedoingGood

LEMMA BeginRedoGood ==
    ASSUME HistoryInv, BeginRedo
    PROVE  HistoryInv'
<1>1. /\ phase = "idle" /\ phase' = "redoing" /\ redo # << >>
      /\ work' = Last(redo).after
      /\ UNCHANGED <<entities, index, members, next, seed, recording, before>>
      /\ UNCHANGED <<undo, redo>>
  BY DEF BeginRedo, storeVars
<1>2. /\ StoreGood /\ HistoryTyped /\ EntriesGood
      /\ Joined(Drawing) /\ Listing(members, Contents)
  BY <1>1 DEF HistoryInv, IdleGood
<1>3. StoreGood'
  BY <1>1, <1>2 DEF StoreGood, StoreInv, TypeOk, IndexSound, AllocatorAbove, SlotsReachable,
     RawFaithful, Live, Stored, Slots, Listed, Fresh
<1>4. Contents' = Contents /\ Structure' = Structure
  BY <1>1 DEF Contents, Structure, Live, Stored
<1>5. Shows(Structure, Drawing) /\ Drawing.stored = Contents
  BY <1>2, NowShown DEF DrawingShown
<1>6. Len(redo) \in 1 .. Len(redo) /\ Last(redo) = redo[Len(redo)]
  <2>1. redo \in Seq(Entries)
    BY <1>2 DEF HistoryTyped
  <2>. QED
    BY <1>1, <2>1 DEF Last
<1>7. Tells(Last(redo)) /\ Last(redo).was = Drawing
  BY <1>1, <1>2, <1>6 DEF EntriesGood, Joined
<1>8. Halfway(Last(redo).after, Last(redo).was, Last(redo).becomes)'
  BY <1>1, <1>4, <1>5, <1>7 DEF Halfway, Tells
<1>9. Joined(Last(redo).was)'
  BY <1>1, <1>2, <1>7 DEF Joined
<1>10. RedoingGood'
  BY <1>1, <1>8, <1>9 DEF RedoingGood
<1>11. HistoryTyped' /\ EntriesGood'
  BY <1>1, <1>2 DEF HistoryTyped, EntriesGood
<1>. QED
  BY <1>1, <1>3, <1>10, <1>11 DEF HistoryInv, IdleGood, OpenGood, UndoingGood

\* One image put back: the store is good again, its lists are untouched, and
\* the handle is as the image says.
LEMMA PutBackStep ==
    ASSUME StoreGood, ~AllowDuplicates, recording = FALSE,
           NEW h \in Handles, NEW image,
           image = Absent \/ Faithful(image, h),
           \/ image = Absent /\ RemoveEntityArc(h)
           \/ image = Absent /\ h \notin Live /\ UNCHANGED storeVars
           \/ image # Absent /\ ReplaceEntityArc(h, image)
           \/ image # Absent /\ RestoreEntityArc(image)
    PROVE  /\ StoreGood' /\ Fresh <= Fresh' /\ UNCHANGED <<members, recording, before>>
           /\ \A k \in Handles : ImageIn(Contents', k) =
                                    IF k = h THEN image ELSE ImageIn(Contents, k)
<1>1. StoreInv /\ Fresh \in Nat /\ DOMAIN Contents = Live
  BY DEF StoreGood, StoreInv, TypeOk, Fresh, MaxOf, Null, Contents
<1>2. CASE image = Absent /\ RemoveEntityArc(h)
  <2>1. h \in Live /\ Next
    BY <1>2 DEF RemoveEntityArc, Next, RemoveAny
  <2>2. StoreGood' /\ Touches(h, Absent)
    BY <1>2, <2>1, StoreStepGood, RemoveTouches
  <2>3. UNCHANGED <<members, next, seed, recording, before>>
    BY <1>2 DEF RemoveEntityArc, Record
  <2>. QED
    BY <1>1, <1>2, <2>2, <2>3 DEF Touches, Fresh
<1>3. CASE image = Absent /\ h \notin Live /\ UNCHANGED storeVars
  <2>1. UNCHANGED <<entities, index, members, next, seed, recording, before>>
    BY <1>3 DEF storeVars
  <2>2. StoreGood' /\ Contents' = Contents /\ Fresh' = Fresh
    BY <2>1 DEF StoreGood, StoreInv, TypeOk, IndexSound, AllocatorAbove, SlotsReachable,
       RawFaithful, Live, Stored, Slots, Listed, Fresh, Contents
  <2>. QED
    BY <1>1, <1>3, <2>1, <2>2 DEF ImageIn
<1>4. CASE image # Absent /\ ReplaceEntityArc(h, image)
  <2>1. /\ h \in Live /\ image \in Entity /\ image.handle = h
        /\ image.raw \in {NoRaw, image.val}
        /\ Record(h, Stored(h))
        /\ entities' = [entities EXCEPT ![index[h]] = image]
        /\ UNCHANGED <<index, members, next, seed, recording>>
        /\ UNCHANGED before
    BY <1>4 DEF ReplaceEntityArc, Faithful, Record
  <2>2. StoreInv'
    BY <1>1, <2>1, WritingPreserves
  <2>3. RawFaithful'
    BY <1>1, <2>1, WriteKeepsRaw DEF StoreGood
  <2>4. SlotsReachable'
    <3>1. index[h] \in Slots /\ Stored(h).handle = h /\ entities \in Seq(Entity)
      BY <1>1, <2>1 DEF StoreInv, TypeOk, IndexSound, Slots
    <3>2. /\ Slots' = Slots
          /\ \A i \in Slots : entities'[i].handle = entities[i].handle
      BY <2>1, <3>1 DEF Slots, Stored
    <3>. QED
      BY <2>1, <3>2 DEF StoreGood, SlotsReachable, Live
  <2>5. Touches(h, image)
    BY <2>1, WriteTouches
  <2>. QED
    BY <1>1, <2>1, <2>2, <2>3, <2>4, <2>5 DEF StoreGood, Touches, Fresh
<1>5. CASE image # Absent /\ RestoreEntityArc(image)
  <2>1. /\ image \in Entity /\ image.handle = h /\ h # Null /\ h \notin Live
        /\ image.raw \in {NoRaw, image.val}
        /\ Record(h, Absent) /\ Allocate(h) /\ Push(image)
        /\ UNCHANGED <<members, recording>> /\ UNCHANGED before
    BY <1>5 DEF RestoreEntityArc, Faithful, Record
  <2>2. HandleFor(h) = h /\ h \in Nat
    BY <2>1 DEF HandleFor, Handles
  <2>3. StoreInv'
    BY <1>1, <2>1, <2>2, AddingPreserves
  <2>4. RawFaithful' /\ SlotsReachable'
    BY <1>1, <2>1, PushKeepsRaw, PushKeepsReachable DEF StoreGood
  <2>5. Touches(h, image)
    BY <2>1, PushTouches
  <2>6. Fresh <= Fresh'
    BY <1>1, <2>1, <2>2, AllocateRaises DEF StoreInv
  <2>. QED
    BY <2>1, <2>3, <2>4, <2>5, <2>6 DEF StoreGood, Touches
<1>. QED
  BY <1>2, <1>3, <1>4, <1>5

\* A structure goes on showing what it shows while its allocator moves up.
LEMMA ShowsStays ==
    ASSUME StoreGood', NEW d \in Drawings, Shows(Structure, d), UNCHANGED members,
           Fresh \in Nat, Fresh <= Fresh'
    PROVE  Shows(Structure', d)
<1>1. Structure' \in Structures /\ FreshOf(Structure') = Fresh' /\ Fresh' \in Nat
  BY NowShownNext DEF DrawingShown, StoreGood, StoreInv, TypeOk, Fresh, MaxOf, Null
<1>2. /\ Structure.members = members /\ Structure'.members = members
      /\ FreshOf(Structure) = Fresh
  BY DEF Structure, FreshOf, Fresh
<1>3. \A h \in DOMAIN d.stored : h \in Nat
  BY StoredMapType DEF Drawings, Handles
<1>4. \A b \in Blocks : \A i \in 1 .. Len(members[b]) : members[b][i] \in Nat
  BY <1>2 DEF Shows, Structures, Handles
<1>. QED
  BY <1>1, <1>2, <1>3, <1>4 DEF Shows

LEMMA PutBackGood ==
    ASSUME HistoryInv, ~AllowDuplicates, PutBack
    PROVE  HistoryInv' /\ Fresh <= Fresh'
<1>1. PICK h \in DOMAIN work :
          /\ \/ work[h] = Absent /\ RemoveEntityArc(h)
             \/ work[h] = Absent /\ h \notin Live /\ UNCHANGED storeVars
             \/ work[h] # Absent /\ ReplaceEntityArc(h, work[h])
             \/ work[h] # Absent /\ RestoreEntityArc(work[h])
          /\ work' = [k \in DOMAIN work \ {h} |-> work[k]]
  BY DEF PutBack
<1>2. /\ phase \in {"undoing", "redoing"} /\ phase' = phase
      /\ UNCHANGED <<undo, redo>>
  BY DEF PutBack
<1>3. /\ StoreGood /\ HistoryTyped /\ EntriesGood
      /\ recording = FALSE /\ DOMAIN before = {}
      /\ Fresh \in Nat
  BY <1>2 DEF HistoryInv, HistoryTyped, StoreGood, StoreInv, TypeOk, Fresh, MaxOf, Null
<1>4. /\ DOMAIN work' = DOMAIN work \ {h}
      /\ \A k \in DOMAIN work' : work'[k] = work[k]
  BY <1>1
<1>5. ASSUME NEW images, NEW from \in Drawings, NEW to \in Drawings,
             Halfway(images, from, to), DOMAIN images \subseteq Handles,
             AllFaithful(to.stored),
             \A k \in DOMAIN images : images[k] = ImageIn(to.stored, k)
      PROVE  /\ StoreGood' /\ Fresh <= Fresh' /\ UNCHANGED <<recording, before>>
             /\ DOMAIN work' \subseteq DOMAIN images
             /\ \A k \in DOMAIN work' : work'[k] = images[k]
             /\ \A k \in Handles \ DOMAIN work' :
                   ImageIn(Contents', k) = ImageIn(to.stored, k)
             /\ Shows(Structure', from)
  <2>1. h \in Handles /\ work[h] = ImageIn(to.stored, h)
    BY <1>5 DEF Halfway
  <2>2. work[h] = Absent \/ Faithful(work[h], h)
    BY <1>5, <2>1 DEF ImageIn, AllFaithful
  <2>3. /\ StoreGood' /\ Fresh <= Fresh' /\ UNCHANGED <<members, recording, before>>
        /\ \A k \in Handles : ImageIn(Contents', k) =
                                 IF k = h THEN work[h] ELSE ImageIn(Contents, k)
    BY <1>1, <1>3, <2>1, <2>2, PutBackStep
  <2>4. Shows(Structure', from)
    BY <1>3, <1>5, <2>3, ShowsStays DEF Halfway
  <2>. QED
    BY <1>4, <1>5, <2>1, <2>3, <2>4 DEF Halfway
<1>6. CASE phase = "undoing"
  <2>. DEFINE e == Last(undo)
  <2>1. /\ undo # << >> /\ Joined(e.becomes) /\ Halfway(e.before, e.becomes, e.was)
    BY <1>6 DEF HistoryInv, UndoingGood
  <2>2. e = undo[Len(undo)] /\ Len(undo) \in 1 .. Len(undo) /\ e \in Entries
    BY <1>3, <2>1, TakenOff DEF HistoryTyped
  <2>. HIDE DEF e
  <2>3. /\ Tells(e) /\ e.becomes \in Drawings /\ e.was \in Drawings
        /\ DOMAIN e.before \subseteq Handles
    BY <1>3, <2>2, ImageMapType DEF EntriesGood, Entries
  <2>4. AllFaithful(e.was.stored) /\ \A k \in DOMAIN e.before : e.before[k] = ImageIn(e.was.stored, k)
    BY <2>3 DEF Tells
  <2>5. /\ StoreGood' /\ Fresh <= Fresh' /\ UNCHANGED <<recording, before>>
        /\ DOMAIN work' \subseteq DOMAIN e.before
        /\ \A k \in DOMAIN work' : work'[k] = e.before[k]
        /\ \A k \in Handles \ DOMAIN work' :
              ImageIn(Contents', k) = ImageIn(e.was.stored, k)
        /\ Shows(Structure', e.becomes)
    BY <1>5, <2>1, <2>3, <2>4
  <2>6. e' = e
    BY <1>2 DEF e
  <2>7. Halfway(e.before, e.becomes, e.was)'
    BY <2>5, <2>6 DEF Halfway
  <2>8. Joined(e.becomes)'
    BY <1>2, <2>1, <2>6 DEF Joined
  <2>9. UndoingGood'
    BY <1>2, <2>1, <2>7, <2>8 DEF UndoingGood, e
  <2>10. HistoryTyped' /\ EntriesGood'
    BY <1>2, <1>3, <2>5 DEF HistoryTyped, EntriesGood
  <2>. QED
    BY <1>2, <1>6, <2>5, <2>9, <2>10 DEF HistoryInv, IdleGood, OpenGood, RedoingGood
<1>7. CASE phase = "redoing"
  <2>. DEFINE e == Last(redo)
  <2>1. /\ redo # << >> /\ Joined(e.was) /\ Halfway(e.after, e.was, e.becomes)
    BY <1>7 DEF HistoryInv, RedoingGood
  <2>2. e = redo[Len(redo)] /\ Len(redo) \in 1 .. Len(redo) /\ e \in Entries
    BY <1>3, <2>1, TakenOff DEF HistoryTyped
  <2>. HIDE DEF e
  <2>3. /\ Tells(e) /\ e.becomes \in Drawings /\ e.was \in Drawings
        /\ DOMAIN e.after \subseteq Handles
    BY <1>3, <2>2, ImageMapType DEF EntriesGood, Entries
  <2>4. /\ AllFaithful(e.becomes.stored)
        /\ \A k \in DOMAIN e.after : e.after[k] = ImageIn(e.becomes.stored, k)
    BY <2>3 DEF Tells
  <2>5. /\ StoreGood' /\ Fresh <= Fresh' /\ UNCHANGED <<recording, before>>
        /\ DOMAIN work' \subseteq DOMAIN e.after
        /\ \A k \in DOMAIN work' : work'[k] = e.after[k]
        /\ \A k \in Handles \ DOMAIN work' :
              ImageIn(Contents', k) = ImageIn(e.becomes.stored, k)
        /\ Shows(Structure', e.was)
    BY <1>5, <2>1, <2>3, <2>4
  <2>6. e' = e
    BY <1>2 DEF e
  <2>7. Halfway(e.after, e.was, e.becomes)'
    BY <2>5, <2>6 DEF Halfway
  <2>8. Joined(e.was)'
    BY <1>2, <2>1, <2>6 DEF Joined
  <2>9. RedoingGood'
    BY <1>2, <2>1, <2>7, <2>8 DEF RedoingGood, e
  <2>10. HistoryTyped' /\ EntriesGood'
    BY <1>2, <1>3, <2>5 DEF HistoryTyped, EntriesGood
  <2>. QED
    BY <1>2, <1>7, <2>5, <2>9, <2>10 DEF HistoryInv, IdleGood, OpenGood, UndoingGood
<1>. QED
  BY <1>2, <1>6, <1>7

\* The last transaction of one stack becomes the last of the other, with the
\* structure it displaced.
Moves(from, rest, to, more) ==
    /\ Len(from) \in Nat \ {0} /\ Len(to) \in Nat
    /\ Last(from) = from[Len(from)] /\ Last(from) \in Entries
    /\ to # << >> => Len(to) > 0 /\ Last(to) = to[Len(to)]
    /\ rest \in Seq(Entries) /\ Len(rest) = Len(from) - 1
    /\ \A i \in 1 .. Len(from) - 1 : rest[i] = from[i]
    /\ rest # << >> => Len(from) > 1 /\ Last(rest) = from[Len(from) - 1]
    /\ more \in Seq(Entries) /\ Len(more) = Len(to) + 1
    /\ \A i \in 1 .. Len(to) : more[i] = to[i]
    /\ more # << >> /\ Last(more) = more[Len(to) + 1]
    /\ Last(more).structure = Structure
    /\ Last(more).before = Last(from).before /\ Last(more).after = Last(from).after
    /\ Last(more).was = Last(from).was /\ Last(more).becomes = Last(from).becomes

LEMMA MovesOver ==
    ASSUME NEW from \in Seq(Entries), NEW to \in Seq(Entries), from # << >>,
           Structure \in Structures
    PROVE  Moves(from, Front(from), to,
                 Append(to, [Last(from) EXCEPT !.structure = Structure]))
<1>. DEFINE e == Last(from)
            moved == [e EXCEPT !.structure = Structure]
            more == Append(to, moved)
<1>1. /\ Front(from) \in Seq(Entries) /\ Len(Front(from)) = Len(from) - 1
      /\ Len(from) \in Nat \ {0}
      /\ \A i \in 1 .. Len(from) - 1 : Front(from)[i] = from[i]
      /\ e = from[Len(from)] /\ e \in Entries
      /\ Front(from) # << >> => Len(from) - 1 \in 1 .. Len(from)
                                /\ Last(Front(from)) = from[Len(from) - 1]
  BY TakenOff
<1>. HIDE DEF e
<1>2. /\ moved \in Entries /\ moved.before = e.before /\ moved.after = e.after
      /\ moved.structure = Structure /\ moved.was = e.was /\ moved.becomes = e.becomes
  BY <1>1 DEF Entries
<1>. HIDE DEF moved
<1>3. /\ more \in Seq(Entries) /\ Len(more) = Len(to) + 1 /\ Len(to) \in Nat
      /\ Last(more) = moved /\ more # << >>
      /\ \A i \in 1 .. Len(to) : more[i] = to[i]
      /\ to # << >> => to[Len(to)] = Last(to) /\ Len(to) > 0
  BY <1>2, Appended
<1>4. more[Len(to) + 1] = moved
  BY <1>2
<1>. HIDE DEF more
<1>5. Moves(from, Front(from), to, more)
  <2>1. e = Last(from)
    BY DEF e
  <2>. QED
    BY <1>1, <1>2, <1>3, <1>4, <2>1 DEF Moves
<1>. QED
  BY <1>5 DEF e, moved, more

\* The structure of the last transaction goes in, and the drawing it showed is
\* back; the displaced one shows the drawing that was left.
LEMMA FinishUndoMoves ==
    ASSUME HistoryInv, ~AllowDuplicates, FinishUndo
    PROVE  /\ Moves(undo, undo', redo, redo')
           /\ StoreGood' /\ Drawing' = Last(undo).was
           /\ Listing(members', Contents')
           /\ Fresh' = FreshOf(Last(undo).structure)
<1>. DEFINE e == Last(undo)
<1>1. /\ phase = "undoing" /\ work = << >> /\ DOMAIN work = {}
      /\ SwapStructure(e.structure) /\ UNCHANGED <<recording, before>>
      /\ redo' = Append(redo, [Last(undo) EXCEPT !.structure = Structure])
      /\ undo' = Front(undo)
  BY DEF FinishUndo
<1>2. /\ StoreGood /\ EntriesGood /\ undo \in Seq(Entries) /\ redo \in Seq(Entries)
      /\ recording = FALSE /\ DOMAIN before = {}
      /\ undo # << >> /\ Halfway(e.before, e.becomes, e.was)
  BY <1>1 DEF HistoryInv, UndoingGood, HistoryTyped
<1>3. Structure \in Structures
  BY <1>2 DEF Halfway, Shows
<1>4. Moves(undo, undo', redo, redo')
  BY <1>1, <1>2, <1>3, MovesOver
<1>5. e = undo[Len(undo)] /\ Len(undo) \in Nat \ {0} /\ e \in Entries
  BY <1>4 DEF Moves
<1>. HIDE DEF e
<1>6. Tells(e) /\ Shows(e.structure, e.was) /\ e.was \in Drawings
  BY <1>2, <1>5 DEF EntriesGood, Entries
<1>7. \A h \in Handles : ImageIn(Contents, h) = ImageIn(e.was.stored, h)
  BY <1>1, <1>2 DEF Halfway
<1>8. AllFaithful(e.was.stored)
  BY <1>6 DEF Tells
<1>9. /\ StoreGood' /\ Drawing' = e.was /\ Listing(members', Contents')
      /\ Fresh' = FreshOf(e.structure)
  BY <1>1, <1>2, <1>6, <1>7, <1>8, SwapShows
<1>. QED
  BY <1>4, <1>9 DEF e

LEMMA FinishUndoGood ==
    ASSUME HistoryInv, ~AllowDuplicates, FinishUndo
    PROVE  HistoryInv' /\ Drawing' = Last(undo).was
<1>. DEFINE e == Last(undo)
            moved == Last(redo')
<1>1. /\ phase = "undoing" /\ phase' = "idle" /\ UNCHANGED <<recording, before>>
  BY DEF FinishUndo
<1>2. /\ EntriesGood /\ HistoryTyped
      /\ Joined(e.becomes) /\ Halfway(e.before, e.becomes, e.was)
  BY <1>1 DEF HistoryInv, UndoingGood
<1>3. /\ Moves(undo, undo', redo, redo')
      /\ StoreGood' /\ Drawing' = e.was
      /\ Listing(members', Contents')
  BY FinishUndoMoves
<1>4. /\ e = undo[Len(undo)] /\ Len(undo) \in Nat \ {0} /\ Len(redo) \in Nat
      /\ moved = redo'[Len(redo) + 1] /\ moved.structure = Structure
      /\ moved.before = e.before /\ moved.after = e.after
      /\ moved.was = e.was /\ moved.becomes = e.becomes
      /\ Len(undo') = Len(undo) - 1 /\ Len(redo') = Len(redo) + 1
  BY <1>3 DEF Moves
<1>5. /\ \A i \in 1 .. Len(undo) - 1 : undo'[i] = undo[i]
      /\ \A i \in 1 .. Len(redo) : redo'[i] = redo[i]
      /\ undo' # << >> => Len(undo) > 1 /\ Last(undo') = undo[Len(undo) - 1]
      /\ redo # << >> => Len(redo) > 0 /\ Last(redo) = redo[Len(redo)]
      /\ redo' # << >>
  BY <1>3 DEF Moves
<1>. HIDE DEF e, moved
<1>6. Tells(moved) /\ Shows(moved.structure, moved.becomes)
  BY <1>2, <1>4 DEF EntriesGood, Tells, Halfway
<1>7. EntriesGood'
  BY <1>2, <1>4, <1>5, <1>6, SMTT(30) DEF EntriesGood
<1>8. Joined(Drawing)'
  <2>1. undo' # << >> => Last(undo').becomes = e.was
    BY <1>2, <1>4, <1>5 DEF Joined
  <2>2. \A i \in 1 .. Len(undo') - 1 : undo'[i].becomes = undo'[i + 1].was
    BY <1>2, <1>4, <1>5 DEF Joined
  <2>3. \A i \in 1 .. Len(redo) : redo'[i].was = redo'[i + 1].becomes
    <3>. SUFFICES ASSUME NEW i \in 1 .. Len(redo)
                  PROVE  redo'[i].was = redo'[i + 1].becomes
      OBVIOUS
    <3>1. CASE i = Len(redo)
      BY <1>2, <1>4, <1>5, <3>1 DEF Joined
    <3>2. CASE i < Len(redo)
      BY <1>2, <1>4, <1>5, <3>2 DEF Joined
    <3>. QED
      BY <1>4, <3>1, <3>2
  <2>4. Last(redo').becomes = e.becomes /\ Last(redo').was = e.was
    BY <1>4 DEF moved
  <2>. QED
    BY <1>3, <1>4, <2>1, <2>2, <2>3, <2>4 DEF Joined
<1>9. HistoryTyped'
  BY <1>1, <1>2, <1>3 DEF HistoryTyped, Moves
<1>10. IdleGood'
  BY <1>3, <1>8 DEF IdleGood
<1>. QED
  BY <1>1, <1>3, <1>7, <1>9, <1>10
  DEF HistoryInv, OpenGood, UndoingGood, RedoingGood, e

\* The same the other way.
LEMMA FinishRedoMoves ==
    ASSUME HistoryInv, ~AllowDuplicates, FinishRedo
    PROVE  /\ Moves(redo, redo', undo, undo')
           /\ StoreGood' /\ Drawing' = Last(redo).becomes
           /\ Listing(members', Contents')
           /\ Fresh' = FreshOf(Last(redo).structure)
<1>. DEFINE e == Last(redo)
<1>1. /\ phase = "redoing" /\ work = << >> /\ DOMAIN work = {}
      /\ SwapStructure(e.structure) /\ UNCHANGED <<recording, before>>
      /\ undo' = Append(undo, [Last(redo) EXCEPT !.structure = Structure])
      /\ redo' = Front(redo)
  BY DEF FinishRedo
<1>2. /\ StoreGood /\ EntriesGood /\ undo \in Seq(Entries) /\ redo \in Seq(Entries)
      /\ recording = FALSE /\ DOMAIN before = {}
      /\ redo # << >> /\ Halfway(e.after, e.was, e.becomes)
  BY <1>1 DEF HistoryInv, RedoingGood, HistoryTyped
<1>3. Structure \in Structures
  BY <1>2 DEF Halfway, Shows
<1>4. Moves(redo, redo', undo, undo')
  BY <1>1, <1>2, <1>3, MovesOver
<1>5. e = redo[Len(redo)] /\ Len(redo) \in Nat \ {0} /\ e \in Entries
  BY <1>4 DEF Moves
<1>. HIDE DEF e
<1>6. Tells(e) /\ Shows(e.structure, e.becomes) /\ e.becomes \in Drawings
  BY <1>2, <1>5 DEF EntriesGood, Entries
<1>7. \A h \in Handles : ImageIn(Contents, h) = ImageIn(e.becomes.stored, h)
  BY <1>1, <1>2 DEF Halfway
<1>8. AllFaithful(e.becomes.stored)
  BY <1>6 DEF Tells
<1>9. /\ StoreGood' /\ Drawing' = e.becomes /\ Listing(members', Contents')
      /\ Fresh' = FreshOf(e.structure)
  BY <1>1, <1>2, <1>6, <1>7, <1>8, SwapShows
<1>. QED
  BY <1>4, <1>9 DEF e

LEMMA FinishRedoGood ==
    ASSUME HistoryInv, ~AllowDuplicates, FinishRedo
    PROVE  HistoryInv' /\ Drawing' = Last(redo).becomes
<1>. DEFINE e == Last(redo)
            moved == Last(undo')
<1>1. /\ phase = "redoing" /\ phase' = "idle" /\ UNCHANGED <<recording, before>>
  BY DEF FinishRedo
<1>2. /\ EntriesGood /\ HistoryTyped
      /\ Joined(e.was) /\ Halfway(e.after, e.was, e.becomes)
  BY <1>1 DEF HistoryInv, RedoingGood
<1>3. /\ Moves(redo, redo', undo, undo')
      /\ StoreGood' /\ Drawing' = e.becomes
      /\ Listing(members', Contents')
  BY FinishRedoMoves
<1>4. /\ e = redo[Len(redo)] /\ Len(redo) \in Nat \ {0} /\ Len(undo) \in Nat
      /\ moved = undo'[Len(undo) + 1] /\ moved.structure = Structure
      /\ moved.before = e.before /\ moved.after = e.after
      /\ moved.was = e.was /\ moved.becomes = e.becomes
      /\ Len(redo') = Len(redo) - 1 /\ Len(undo') = Len(undo) + 1
  BY <1>3 DEF Moves
<1>5. /\ \A i \in 1 .. Len(redo) - 1 : redo'[i] = redo[i]
      /\ \A i \in 1 .. Len(undo) : undo'[i] = undo[i]
      /\ redo' # << >> => Len(redo) > 1 /\ Last(redo') = redo[Len(redo) - 1]
      /\ undo # << >> => Len(undo) > 0 /\ Last(undo) = undo[Len(undo)]
      /\ undo' # << >>
  BY <1>3 DEF Moves
<1>. HIDE DEF e, moved
<1>6. Tells(moved) /\ Shows(moved.structure, moved.was)
  BY <1>2, <1>4 DEF EntriesGood, Tells, Halfway
<1>7. EntriesGood'
  BY <1>2, <1>4, <1>5, <1>6, SMTT(30) DEF EntriesGood
<1>8. Joined(Drawing)'
  <2>1. redo' # << >> => Last(redo').was = e.becomes
    BY <1>2, <1>4, <1>5 DEF Joined
  <2>2. \A i \in 1 .. Len(redo') - 1 : redo'[i].was = redo'[i + 1].becomes
    BY <1>2, <1>4, <1>5, SMTT(30) DEF Joined
  <2>3. \A i \in 1 .. Len(undo) : undo'[i].becomes = undo'[i + 1].was
    <3>. SUFFICES ASSUME NEW i \in 1 .. Len(undo)
                  PROVE  undo'[i].becomes = undo'[i + 1].was
      OBVIOUS
    <3>1. CASE i = Len(undo)
      BY <1>2, <1>4, <1>5, <3>1 DEF Joined
    <3>2. CASE i < Len(undo)
      BY <1>2, <1>4, <1>5, <3>2 DEF Joined
    <3>. QED
      BY <1>4, <3>1, <3>2
  <2>4. Last(undo').was = e.was /\ Last(undo').becomes = e.becomes
    BY <1>4 DEF moved
  <2>. QED
    BY <1>3, <1>4, <2>1, <2>2, <2>3, <2>4 DEF Joined
<1>9. HistoryTyped'
  BY <1>1, <1>2, <1>3 DEF HistoryTyped, Moves
<1>10. IdleGood'
  BY <1>3, <1>8 DEF IdleGood
<1>. QED
  BY <1>1, <1>3, <1>7, <1>9, <1>10
  DEF HistoryInv, OpenGood, UndoingGood, RedoingGood, e

-----------------------------------------------------------------------------
(* The theorems.  CLEAR starts the allocator over, which the snapshots of   *)
(* earlier transactions do not survive, and a brought duplicate leaves two  *)
(* slots with one handle: both are set aside.                               *)

\* Every step keeps the invariant, and one that ends an undo or a redo brings
\* back the drawing it should.
LEMMA HistoryStep ==
    ASSUME ~AllowDuplicates, ~Clears, HistoryInv, [HistoryNext]_vars
    PROVE  /\ HistoryInv'
           /\ (phase = "undoing" /\ phase' = "idle") => Drawing' = Last(undo).was
           /\ (phase = "redoing" /\ phase' = "idle") => Drawing' = Last(redo).becomes
<1>1. CASE Begin
  BY <1>1, BeginGood DEF Begin
<1>2. CASE EditAdd \/ EditAddToBlock \/ EditMutate \/ EditMutateAll
        \/ EditRemove \/ EditReorder
  <2>1. StoreGood
    BY DEF HistoryInv
  <2>2. Edits /\ Editing
    BY <1>2, <2>1, AddEdits, AddToBlockEdits, MutateEdits, SweepEdits, RemoveEdits,
       ReorderEdits
    DEF EditAdd, EditAddToBlock, EditMutate, EditMutateAll, EditRemove, EditReorder
  <2>. QED
    BY <2>2, EditGood DEF Editing
<1>3. CASE EditClear
  BY <1>3 DEF EditClear
<1>4. CASE Commit
  BY <1>4, CommitGood DEF Commit
<1>5. CASE BeginUndo
  BY <1>5, BeginUndoGood DEF BeginUndo
<1>6. CASE BeginRedo
  BY <1>6, BeginRedoGood DEF BeginRedo
<1>7. CASE PutBack
  BY <1>7, PutBackGood DEF PutBack
<1>8. CASE FinishUndo
  BY <1>8, FinishUndoGood DEF FinishUndo
<1>9. CASE FinishRedo
  BY <1>9, FinishRedoGood DEF FinishRedo
<1>10. CASE UNCHANGED vars
  <2>1. UNCHANGED <<entities, index, members, next, seed, recording, before>>
        /\ UNCHANGED <<phase, start, undo, redo, work>>
    BY <1>10 DEF vars, storeVars, hostVars
  <2>2. StoreGood'
    BY <2>1 DEF HistoryInv, StoreGood, StoreInv, TypeOk, IndexSound, AllocatorAbove,
       SlotsReachable, RawFaithful, Live, Stored, Slots, Listed, Fresh
  <2>3. /\ Contents' = Contents /\ Drawing' = Drawing /\ Structure' = Structure
        /\ Fresh' = Fresh
    BY <2>1 DEF Contents, Drawing, Structure, Live, Stored, Fresh
  <2>4. HistoryTyped' /\ EntriesGood' /\ IdleGood' /\ OpenGood'
    BY <2>1, <2>3 DEF HistoryInv, HistoryTyped, EntriesGood, IdleGood, OpenGood, Joined
  <2>5. UndoingGood' /\ RedoingGood'
    BY <2>1, <2>3 DEF HistoryInv, UndoingGood, RedoingGood, Joined, Halfway
  <2>. QED
    BY <2>1, <2>2, <2>4, <2>5 DEF HistoryInv
<1>. QED
  BY <1>1, <1>2, <1>3, <1>4, <1>5, <1>6, <1>7, <1>8, <1>9, <1>10 DEF HistoryNext

\* Undo brings back exactly the drawing its transaction began with, entities,
\* verbatim records and the order of every block, and redo what the
\* transaction had made of it: take_before_images put back one by one, then
\* swap_structure with the snapshot align_added_entity_structure aligned.
THEOREM UndoRestoresDrawing ==
    ASSUME ~AllowDuplicates, ~Clears
    PROVE  HistorySpec => UndoRestores
<1>1. HistoryInit => HistoryInv
  BY InitGood
<1>2. HistoryInv /\ [HistoryNext]_vars
        => /\ HistoryInv'
           /\ [/\ (phase = "undoing" /\ phase' = "idle") => Drawing' = Last(undo).was
               /\ (phase = "redoing" /\ phase' = "idle") => Drawing' = Last(redo).becomes
              ]_vars
  BY HistoryStep
<1>. QED
  BY <1>1, <1>2, PTL DEF HistorySpec, UndoRestores

\* The recorder has, of every handle that is not as it was when the transaction
\* began, the image from then, however often and in whatever way it was touched
\* since; what it has no image of is in the store as it was.
THEOREM RecorderKeepsFirstImage ==
    ASSUME ~AllowDuplicates, ~Clears
    PROVE  HistorySpec => []BeforeImagesFaithful
<1>1. HistoryInit => HistoryInv
  BY InitGood
<1>2. HistoryInv /\ [HistoryNext]_vars => HistoryInv'
  BY HistoryStep
<1>3. HistoryInv => BeforeImagesFaithful
  <2>. DEFINE then == start.drawing.stored
  <2>. SUFFICES ASSUME HistoryInv, phase = "open",
                       NEW h \in DOMAIN then \cup Live \cup DOMAIN before
                PROVE  ImageIn(then, h) = IF h \in DOMAIN before THEN before[h]
                                          ELSE ImageIn(Contents, h)
    BY DEF BeforeImagesFaithful, Contents
  <2>1. start.drawing.stored \in StoredMaps
    BY DEF HistoryInv, OpenGood, Drawings
  <2>2. h \in Handles
    BY <2>1, StoredMapType DEF HistoryInv, StoreGood, StoreInv, TypeOk
  <2>. QED
    BY <2>2 DEF HistoryInv, OpenGood
<1>. QED
  BY <1>1, <1>2, <1>3, PTL DEF HistorySpec

\* No undo or redo brings a stale verbatim record back with an entity.
THEOREM UndoKeepsRawFaithful ==
    ASSUME ~AllowDuplicates, ~Clears
    PROVE  HistorySpec => []RawFaithful
<1>1. HistoryInit => HistoryInv
  BY InitGood
<1>2. HistoryInv /\ [HistoryNext]_vars => HistoryInv'
  BY HistoryStep
<1>3. HistoryInv => RawFaithful
  BY DEF HistoryInv, StoreGood
<1>. QED
  BY <1>1, <1>2, <1>3, PTL DEF HistorySpec

\* Every stored entity that blocks list at all is listed by the block that owns
\* it, exactly once, and by no other, between transactions and within one, when
\* callers bring no handle.
THEOREM OwnersListTheirEntities ==
    ASSUME ~AllowDuplicates, ~Clears, Explicit = {}
    PROVE  HistorySpec => []ListedByOwner
<1>1. HistoryInit => HistoryInv
  BY InitGood
<1>2. HistoryInv /\ [HistoryNext]_vars => HistoryInv'
  BY HistoryStep
<1>3. HistoryInv => ListedByOwner
  <2>. SUFFICES ASSUME HistoryInv, phase \in {"idle", "open"}
                PROVE  ListedByOwner
    BY DEF ListedByOwner
  <2>1. Listing(members, Contents)
    BY DEF HistoryInv, IdleGood, OpenGood
  <2>2. DOMAIN Contents = Live /\ \A h \in Live : Contents[h] = Stored(h)
    BY DEF Contents
  <2>3. ASSUME NEW b \in Blocks, NEW i \in 1 .. Len(members[b]), members[b][i] \in Live
        PROVE  /\ Stored(members[b][i]).owner = b
               /\ \A j \in 1 .. Len(members[b]) :
                     members[b][j] = members[b][i] => j = i
    BY <2>1, <2>2, <2>3 DEF Listing, WellListed
  <2>4. ASSUME NEW b \in Blocks, NEW h \in Live, ~Stored(h).sub, Stored(h).owner = b
        PROVE  h \in Listed(b)
    <3>1. Complete(b, members[b], Contents) /\ ~Elsewhere(Contents[h], b)
      BY <2>1, <2>2, <2>4 DEF Listing, Elsewhere
    <3>. QED
      BY <2>2, <3>1 DEF Complete, Listed
  <2>. QED
    BY <2>3, <2>4 DEF ListedByOwner
<1>. QED
  BY <1>1, <1>2, <1>3, PTL DEF HistorySpec

-----------------------------------------------------------------------------
(* The allocator.                                                          *)

\* The allocator is above the images undo would put back, and each snapshot's
\* above those that are left when it is swapped in.
UndoBelow(list, free) ==
    /\ \A j \in 1 .. Len(list) : Below(list[j].before, free)
    /\ \A i \in 1 .. Len(list) :
          /\ Below(list[i].after, FreshOf(list[i].structure))
          /\ \A j \in 1 .. i : Below(list[j].before, FreshOf(list[i].structure))

RedoBelow(done, list, free) ==
    /\ list # << >> => Below(Last(list).after, free)
    /\ \A i \in 1 .. Len(list) :
          /\ \A j \in 1 .. Len(done) : Below(done[j].before, FreshOf(list[i].structure))
          /\ \A j \in i .. Len(list) : Below(list[j].before, FreshOf(list[i].structure))
          /\ i > 1 => Below(list[i - 1].after, FreshOf(list[i].structure))

AllocatorGood ==
    /\ UndoBelow(undo, Fresh)
    /\ RedoBelow(undo, redo, Fresh)
    /\ phase = "open" => UndoBelow(undo, FreshOf(start.structure))

LEMMA BelowMore ==
    ASSUME NEW e \in Entries, NEW f \in Nat, NEW g \in Nat, f <= g
    PROVE  /\ Below(e.before, f) => Below(e.before, g)
           /\ Below(e.after, f) => Below(e.after, g)
<1>1. DOMAIN e.before \subseteq Nat /\ DOMAIN e.after \subseteq Nat
  BY ImageMapType DEF Entries, Handles
<1>. QED
  BY <1>1 DEF Below, Returning

LEMMA FreshNat ==
    ASSUME HistoryInv
    PROVE  /\ Fresh \in Nat
           /\ \A i \in 1 .. Len(undo) : undo[i] \in Entries /\ FreshOf(undo[i].structure) \in Nat
           /\ \A i \in 1 .. Len(redo) : redo[i] \in Entries /\ FreshOf(redo[i].structure) \in Nat
           /\ phase = "open" => FreshOf(start.structure) \in Nat
           /\ Len(undo) \in Nat /\ Len(redo) \in Nat
           /\ redo # << >> => Last(redo) \in Entries
<1>1. Fresh \in Nat
  BY DEF HistoryInv, StoreGood, StoreInv, TypeOk, Fresh, MaxOf, Null
<1>2. \A s \in Structures : FreshOf(s) \in Nat
  BY DEF Structures, FreshOf, MaxOf
<1>3. /\ undo \in Seq(Entries) /\ redo \in Seq(Entries)
      /\ \A e \in Entries : e.structure \in Structures
  BY DEF HistoryInv, HistoryTyped, Entries
<1>4. phase = "open" => start.structure \in Structures
  BY DEF HistoryInv, OpenGood
<1>. QED
  BY <1>1, <1>2, <1>3, <1>4 DEF Last

\* A snapshot that goes with a drawing is above the images of that drawing.
LEMMA BeforeBelow ==
    ASSUME NEW e, Tells(e), NEW s, Shows(s, e.was)
    PROVE  Below(e.before, FreshOf(s))
BY DEF Tells, Shows, Below, Returning, ImageIn

\* The allocator that moves up leaves what was below it there.
LEMMA AllocatorRises ==
    ASSUME HistoryInv, HistoryInv', AllocatorGood, UNCHANGED <<undo, redo>>,
           Fresh <= Fresh',
           phase' = "open" => UndoBelow(undo, FreshOf(start'.structure))
    PROVE  AllocatorGood'
<1>1. /\ Fresh \in Nat /\ Fresh' \in Nat
      /\ \A i \in 1 .. Len(undo) : undo[i] \in Entries
      /\ redo # << >> => Last(redo) \in Entries
  BY FreshNat DEF HistoryInv, StoreGood, StoreInv, TypeOk, Fresh, MaxOf, Null
<1>2. UndoBelow(undo, Fresh')
  BY <1>1, BelowMore DEF AllocatorGood, UndoBelow
<1>3. RedoBelow(undo, redo, Fresh')
  BY <1>1, BelowMore DEF AllocatorGood, RedoBelow
<1>. QED
  BY <1>2, <1>3 DEF AllocatorGood

LEMMA CommitAllocator ==
    ASSUME HistoryInv, AllocatorGood, Commit
    PROVE  AllocatorGood'
<1>1. /\ phase = "open" /\ phase' = "idle" /\ EndRecording /\ redo' = << >>
  BY DEF Commit
<1>2. Fresh' = Fresh
  BY <1>1 DEF EndRecording, Fresh
<1>3. PICK e \in Entries : /\ undo' = Append(undo, e)
                           /\ Tells(e) /\ Shows(e.structure, e.was)
                           /\ e.was = start.drawing
                           /\ FreshOf(start.structure) <= FreshOf(e.structure)
                           /\ Below(e.after, FreshOf(e.structure))
  BY CommitEntry
<1>4. /\ undo \in Seq(Entries) /\ Shows(start.structure, start.drawing)
      /\ FreshOf(start.structure) <= Fresh
      /\ UndoBelow(undo, Fresh) /\ UndoBelow(undo, FreshOf(start.structure))
  BY <1>1 DEF HistoryInv, HistoryTyped, OpenGood, AllocatorGood
<1>5. /\ Fresh \in Nat /\ FreshOf(start.structure) \in Nat /\ FreshOf(e.structure) \in Nat
      /\ \A i \in 1 .. Len(undo) : undo[i] \in Entries
  BY <1>1, FreshNat DEF Entries, Structures, FreshOf, MaxOf
<1>6. /\ Len(undo') = Len(undo) + 1 /\ Len(undo) \in Nat
      /\ undo'[Len(undo) + 1] = e
      /\ \A i \in 1 .. Len(undo) : undo'[i] = undo[i]
  BY <1>3, <1>4
<1>7. Below(e.before, FreshOf(e.structure)) /\ Below(e.before, Fresh)
  BY <1>3, <1>4, <1>5, BeforeBelow, BelowMore
<1>8. \A j \in 1 .. Len(undo) : Below(undo[j].before, FreshOf(e.structure))
  BY <1>3, <1>4, <1>5, BelowMore DEF UndoBelow
<1>9. UndoBelow(undo', Fresh)
  BY <1>3, <1>4, <1>6, <1>7, <1>8 DEF UndoBelow
<1>10. RedoBelow(undo', redo', Fresh)
  <2>1. Len(redo') = 0
    BY <1>1
  <2>. QED
    BY <1>1, <2>1 DEF RedoBelow
<1>. QED
  BY <1>1, <1>2, <1>9, <1>10 DEF AllocatorGood

LEMMA FinishUndoAllocator ==
    ASSUME HistoryInv, AllocatorGood, ~AllowDuplicates, FinishUndo
    PROVE  AllocatorGood'
<1>. DEFINE n == Len(undo)
            m == Len(redo)
            e == undo[n]
<1>1. Moves(undo, undo', redo, redo') /\ Fresh' = FreshOf(Last(undo).structure)
  BY FinishUndoMoves
<1>2. /\ n \in Nat \ {0} /\ m \in Nat /\ Fresh' = FreshOf(e.structure)
      /\ Len(undo') = n - 1 /\ \A i \in 1 .. n - 1 : undo'[i] = undo[i]
      /\ Len(redo') = m + 1 /\ \A i \in 1 .. m : redo'[i] = redo[i]
      /\ redo'[m + 1].structure = Structure /\ Last(redo') = redo'[m + 1]
      /\ redo'[m + 1].before = e.before /\ redo'[m + 1].after = e.after
      /\ redo # << >> => Last(redo) = redo[m]
  BY <1>1 DEF Moves
<1>3. m > 0 => redo # << >>
  OBVIOUS
<1>4. FreshOf(Structure) = Fresh
  BY DEF FreshOf, Structure, Fresh
<1>5. /\ UndoBelow(undo, Fresh) /\ RedoBelow(undo, redo, Fresh) /\ n \in 1 .. n
  BY <1>2 DEF AllocatorGood
<1>. HIDE DEF n, m, e
<1>6. phase' = "idle"
  BY DEF FinishUndo
<1>7. UndoBelow(undo', Fresh')
  <2>1. \A j \in 1 .. n : Below(undo[j].before, FreshOf(e.structure))
    BY <1>5 DEF UndoBelow, n, e
  <2>2. \A i \in 1 .. n - 1 :
           /\ Below(undo[i].after, FreshOf(undo[i].structure))
           /\ \A j \in 1 .. i : Below(undo[j].before, FreshOf(undo[i].structure))
    BY <1>2, <1>5 DEF UndoBelow, n
  <2>. QED
    BY <1>2, <2>1, <2>2 DEF UndoBelow
<1>8. RedoBelow(undo', redo', Fresh')
  <2>1. Below(Last(redo').after, Fresh')
    BY <1>2, <1>5 DEF UndoBelow, n, e
  <2>2. ASSUME NEW i \in 1 .. m
        PROVE  /\ \A j \in 1 .. n - 1 : Below(undo[j].before, FreshOf(redo[i].structure))
               /\ \A j \in i .. m : Below(redo[j].before, FreshOf(redo[i].structure))
               /\ Below(e.before, FreshOf(redo[i].structure))
               /\ i > 1 => Below(redo[i - 1].after, FreshOf(redo[i].structure))
    BY <1>2, <1>5 DEF RedoBelow, n, m, e
  <2>3. /\ \A j \in 1 .. n - 1 : Below(undo[j].before, Fresh)
        /\ Below(e.before, Fresh)
        /\ m > 0 => Below(redo[m].after, Fresh)
    BY <1>2, <1>3, <1>5 DEF UndoBelow, RedoBelow, n, e
  <2>4. ASSUME NEW i \in 1 .. m + 1
        PROVE  /\ \A j \in 1 .. n - 1 : Below(undo'[j].before, FreshOf(redo'[i].structure))
               /\ \A j \in i .. m + 1 : Below(redo'[j].before, FreshOf(redo'[i].structure))
               /\ i > 1 => Below(redo'[i - 1].after, FreshOf(redo'[i].structure))
    <3>1. CASE i \in 1 .. m
      <4>1. redo'[i] = redo[i] /\ \A j \in 1 .. n - 1 : undo'[j] = undo[j]
        BY <1>2, <3>1
      <4>2. \A j \in i .. m + 1 : Below(redo'[j].before, FreshOf(redo[i].structure))
        <5>1. \A j \in i .. m : j \in 1 .. m
          BY <1>2, <3>1
        <5>2. \A j \in i .. m + 1 : j \in i .. m \/ j = m + 1
          BY <1>2
        <5>. QED
          BY <1>2, <2>2, <3>1, <5>1, <5>2
      <4>3. i > 1 => redo'[i - 1] = redo[i - 1]
        BY <1>2, <3>1
      <4>. QED
        BY <2>2, <3>1, <4>1, <4>2, <4>3
    <3>2. CASE i = m + 1
      <4>1. (\A j \in i .. m + 1 : j = m + 1) /\ (i > 1 => m > 0 /\ i - 1 = m /\ m \in 1 .. m)
        BY <1>2, <3>2
      <4>. QED
        BY <1>2, <1>4, <2>3, <3>2, <4>1
    <3>. QED
      BY <1>2, <3>1, <3>2
  <2>. QED
    BY <1>2, <2>1, <2>4 DEF RedoBelow
<1>. QED
  BY <1>6, <1>7, <1>8 DEF AllocatorGood

LEMMA FinishRedoAllocator ==
    ASSUME HistoryInv, AllocatorGood, ~AllowDuplicates, FinishRedo
    PROVE  AllocatorGood'
<1>. DEFINE n == Len(redo)
            m == Len(undo)
            e == redo[n]
<1>1. Moves(redo, redo', undo, undo') /\ Fresh' = FreshOf(Last(redo).structure)
  BY FinishRedoMoves
<1>2. /\ n \in Nat \ {0} /\ m \in Nat /\ Fresh' = FreshOf(e.structure) /\ e = Last(redo)
      /\ Len(redo') = n - 1 /\ \A i \in 1 .. n - 1 : redo'[i] = redo[i]
      /\ Len(undo') = m + 1 /\ \A i \in 1 .. m : undo'[i] = undo[i]
      /\ undo'[m + 1].structure = Structure
      /\ undo'[m + 1].before = e.before /\ undo'[m + 1].after = e.after
      /\ redo # << >>
      /\ redo' # << >> => n > 1 /\ Last(redo') = redo[n - 1]
  BY <1>1 DEF Moves
<1>3. FreshOf(Structure) = Fresh
  BY DEF FreshOf, Structure, Fresh
<1>4. /\ UndoBelow(undo, Fresh) /\ RedoBelow(undo, redo, Fresh) /\ n \in 1 .. n
  BY <1>2 DEF AllocatorGood
<1>5. phase = "redoing" /\ phase' = "idle"
  BY DEF FinishRedo
<1>6. Tells(e) /\ Shows(Structure, e.was)
  BY <1>2, <1>5 DEF HistoryInv, EntriesGood, RedoingGood, Halfway
<1>7. Below(e.before, Fresh) /\ Below(e.after, Fresh)
  BY <1>2, <1>3, <1>4, <1>6, BeforeBelow DEF RedoBelow
<1>. HIDE DEF n, m, e
<1>8. ASSUME NEW i \in 1 .. n
      PROVE  /\ \A j \in 1 .. m : Below(undo[j].before, FreshOf(redo[i].structure))
             /\ \A j \in i .. n : Below(redo[j].before, FreshOf(redo[i].structure))
             /\ Below(e.before, FreshOf(redo[i].structure))
             /\ i > 1 => Below(redo[i - 1].after, FreshOf(redo[i].structure))
  BY <1>2, <1>4 DEF RedoBelow, n, m, e
<1>9. UndoBelow(undo', Fresh')
  <2>1. ASSUME NEW j \in 1 .. m + 1 PROVE Below(undo'[j].before, Fresh')
    <3>1. CASE j \in 1 .. m
      BY <1>2, <1>4, <1>8, <3>1 DEF e
    <3>2. CASE j = m + 1
      BY <1>2, <1>4, <1>8, <3>2 DEF e
    <3>. QED
      BY <1>2, <3>1, <3>2
  <2>2. ASSUME NEW i \in 1 .. m + 1
        PROVE  /\ Below(undo'[i].after, FreshOf(undo'[i].structure))
               /\ \A j \in 1 .. i : Below(undo'[j].before, FreshOf(undo'[i].structure))
    <3>1. CASE i \in 1 .. m
      <4>1. \A j \in 1 .. i : j \in 1 .. m
        BY <1>2, <3>1
      <4>. QED
        BY <1>2, <1>4, <3>1, <4>1 DEF UndoBelow, m
    <3>2. CASE i = m + 1
      <4>1. \A j \in 1 .. i : j \in 1 .. m \/ j = m + 1
        BY <1>2, <3>2
      <4>. QED
        BY <1>2, <1>3, <1>4, <1>7, <3>2, <4>1 DEF UndoBelow, m
    <3>. QED
      BY <1>2, <3>1, <3>2
  <2>. QED
    BY <1>2, <2>1, <2>2 DEF UndoBelow
<1>10. RedoBelow(undo', redo', Fresh')
  <2>1. redo' # << >> => Below(Last(redo').after, Fresh')
    BY <1>2, <1>4, <1>8 DEF e
  <2>2. ASSUME NEW i \in 1 .. n - 1
        PROVE  /\ \A j \in 1 .. m + 1 : Below(undo'[j].before, FreshOf(redo'[i].structure))
               /\ \A j \in i .. n - 1 : Below(redo'[j].before, FreshOf(redo'[i].structure))
               /\ i > 1 => Below(redo'[i - 1].after, FreshOf(redo'[i].structure))
    <3>1. /\ i \in 1 .. n /\ redo'[i] = redo[i]
          /\ \A j \in 1 .. m + 1 : j \in 1 .. m \/ j = m + 1
          /\ \A j \in i .. n - 1 : j \in i .. n /\ redo'[j] = redo[j]
          /\ i > 1 => redo'[i - 1] = redo[i - 1]
      BY <1>2
    <3>. QED
      BY <1>2, <1>8, <3>1
  <2>. QED
    BY <1>2, <2>1, <2>2 DEF RedoBelow
<1>. QED
  BY <1>5, <1>9, <1>10 DEF AllocatorGood

LEMMA AllocatorStep ==
    ASSUME ~AllowDuplicates, ~Clears, HistoryInv, AllocatorGood, [HistoryNext]_vars
    PROVE  AllocatorGood'
<1>1. HistoryInv' /\ Fresh \in Nat
  BY HistoryStep, FreshNat
<1>2. CASE Begin
  <2>1. /\ phase' = "open" /\ UNCHANGED <<undo, redo>> /\ start'.structure = Structure
        /\ UNCHANGED <<next, seed>>
    BY <1>2 DEF Begin, BeginRecording
  <2>2. Fresh' = Fresh /\ FreshOf(Structure) = Fresh
    BY <2>1 DEF Fresh, FreshOf, Structure
  <2>. QED
    BY <1>1, <2>1, <2>2, AllocatorRises DEF AllocatorGood
<1>3. CASE EditAdd \/ EditAddToBlock \/ EditMutate \/ EditMutateAll
        \/ EditRemove \/ EditReorder
  <2>1. Edits /\ Editing
    BY <1>3, AddEdits, AddToBlockEdits, MutateEdits, SweepEdits, RemoveEdits,
       ReorderEdits
    DEF EditAdd, EditAddToBlock, EditMutate, EditMutateAll, EditRemove, EditReorder, HistoryInv
  <2>2. phase = "open" /\ UNCHANGED <<phase, start, undo, redo>> /\ Fresh <= Fresh'
    BY <2>1 DEF Editing, Edits
  <2>. QED
    BY <1>1, <2>2, AllocatorRises DEF AllocatorGood
<1>4. CASE EditClear
  BY <1>4 DEF EditClear
<1>5. CASE Commit
  BY <1>5, CommitAllocator DEF Commit
<1>6. CASE BeginUndo \/ BeginRedo
  <2>1. phase' # "open" /\ UNCHANGED <<undo, redo, next, seed>>
    BY <1>6 DEF BeginUndo, BeginRedo, storeVars
  <2>. QED
    BY <1>1, <2>1, AllocatorRises DEF Fresh
<1>7. CASE PutBack
  <2>1. phase' # "open" /\ UNCHANGED <<undo, redo>>
    BY <1>7 DEF PutBack
  <2>2. Fresh <= Fresh'
    BY <1>7, PutBackGood
  <2>. QED
    BY <1>1, <2>1, <2>2, AllocatorRises
<1>8. CASE FinishUndo
  BY <1>8, FinishUndoAllocator
<1>9. CASE FinishRedo
  BY <1>9, FinishRedoAllocator
<1>10. CASE UNCHANGED vars
  BY <1>1, <1>10, AllocatorRises
  DEF vars, storeVars, hostVars, Fresh, AllocatorGood
<1>. QED
  BY <1>2, <1>3, <1>4, <1>5, <1>6, <1>7, <1>8, <1>9, <1>10 DEF HistoryNext

\* While no transaction is open, the allocator is above the stored handles,
\* above those an undo of any transaction puts back and above those the next
\* redo does, and each undone transaction's allocator above those of the redo
\* that follows it.  Handles of later redos may lie above the allocator of now:
\* they are out of reach until the redo before them has swapped its own in, and
\* a new transaction drops them.
THEOREM AllocatorAboveHistory ==
    ASSUME ~AllowDuplicates, ~Clears
    PROVE  HistorySpec => []HistoryBelowAllocator
<1>1. HistoryInit => HistoryInv
  BY InitGood
<1>2. HistoryInit => AllocatorGood
  <2>1. HistoryInit => /\ undo = << >> /\ redo = << >> /\ Len(undo) = 0 /\ Len(redo) = 0
                       /\ phase = "idle"
    BY DEF HistoryInit
  <2>. QED
    BY <2>1 DEF AllocatorGood, UndoBelow, RedoBelow
<1>3. HistoryInv /\ [HistoryNext]_vars => HistoryInv'
  BY HistoryStep
<1>4. HistoryInv /\ AllocatorGood /\ [HistoryNext]_vars => AllocatorGood'
  BY AllocatorStep
<1>5. HistoryInv /\ AllocatorGood => HistoryBelowAllocator
  <2>. SUFFICES ASSUME HistoryInv, AllocatorGood PROVE HistoryBelowAllocator
    OBVIOUS
  <2>1. \A h \in Live : h < Fresh
    BY StoredFaithful DEF HistoryInv
  <2>2. \A i \in 2 .. Len(redo) : i \in 1 .. Len(redo) /\ i > 1
    OBVIOUS
  <2>. QED
    BY <2>1, <2>2 DEF HistoryBelowAllocator, AllocatorGood, UndoBelow, RedoBelow, Below
<1>. QED
  BY <1>1, <1>2, <1>3, <1>4, <1>5, PTL DEF HistorySpec
=============================================================================
