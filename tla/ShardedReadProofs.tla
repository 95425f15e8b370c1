-------------------------- MODULE ShardedReadProofs --------------------------
(***************************************************************************)
(* Theorems about sharded reads, for every file: any records, owner        *)
(* chains, entity lists and limits.                                        *)
(***************************************************************************)
EXTENDS ShardedRead, FiniteSetTheorems, DataInduction

-----------------------------------------------------------------------------
(* Sorting.                                                                *)

\* A sequence of the elements of S in ascending order.
Sorts(s, S) ==
    /\ s \in [1 .. Cardinality(S) -> S]
    /\ ToSet(s) = S
    /\ \A i, j \in DOMAIN s : i < j => s[i] < s[j]

\* Every finite set of records has one.
LEMMA SortExists ==
    ASSUME NEW S \in SUBSET Nat, IsFiniteSet(S)
    PROVE  \E s : Sorts(s, S)
<1>. DEFINE P == {n \in Nat : \A U \in SUBSET Nat :
                     IsFiniteSet(U) /\ Cardinality(U) = n => \E s : Sorts(s, U)}
<1>1. 0 \in P
  <2>. SUFFICES ASSUME NEW U \in SUBSET Nat, IsFiniteSet(U), Cardinality(U) = 0
                PROVE  \E s : Sorts(s, U)
    OBVIOUS
  <2>1. U = {}
    BY FS_EmptySet
  <2>2. Sorts(<< >>, U)
    BY <2>1, FS_EmptySet DEF Sorts, ToSet
  <2>. QED
    BY <2>2
<1>2. ASSUME NEW n \in Nat, n \in P PROVE n + 1 \in P
  <2>. SUFFICES ASSUME NEW U \in SUBSET Nat, IsFiniteSet(U), Cardinality(U) = n + 1
                PROVE  \E s : Sorts(s, U)
    OBVIOUS
  <2>1. U # {}
    BY FS_EmptySet
  <2>2. PICK m \in U : \A y \in U : m <= y
    BY <2>1, NatLeast
  <2>. DEFINE rest == U \ {m}
  <2>3. rest \in SUBSET Nat /\ IsFiniteSet(rest) /\ Cardinality(rest) = n
    <3>1. IsFiniteSet(rest) /\ Cardinality(rest) = Cardinality(U) - 1
      BY FS_RemoveElement
    <3>. QED
      BY <3>1
  <2>4. PICK s : Sorts(s, rest)
    BY <1>2, <2>3
  <2>. HIDE DEF rest
  <2>5. s \in [1 .. n -> rest] /\ \A i, j \in 1 .. n : i < j => s[i] < s[j]
    BY <2>3, <2>4 DEF Sorts
  <2>6. \A y \in rest : \E i \in 1 .. n : s[i] = y
    BY <2>3, <2>4 DEF Sorts, ToSet
  <2>. DEFINE t == [i \in 1 .. n + 1 |-> IF i = 1 THEN m ELSE s[i - 1]]
  <2>7. /\ t \in [1 .. n + 1 -> U] /\ t[1] = m
        /\ \A i \in 1 .. n : t[i + 1] = s[i] /\ i + 1 \in 1 .. n + 1
        /\ \A i \in 2 .. n + 1 : t[i] = s[i - 1] /\ i - 1 \in 1 .. n
    BY <2>5 DEF rest
  <2>. HIDE DEF t
  <2>8. ToSet(t) = U
    <3>1. ASSUME NEW y \in U PROVE \E i \in 1 .. n + 1 : t[i] = y
      <4>1. CASE y = m
        BY <2>7, <4>1
      <4>2. CASE y # m
        <5>1. PICK i \in 1 .. n : s[i] = y
          BY <2>6, <4>2 DEF rest
        <5>. QED
          BY <2>7, <5>1
      <4>. QED
        BY <4>1, <4>2
    <3>. QED
      BY <2>7, <3>1 DEF ToSet
  <2>9. ASSUME NEW i \in 1 .. n + 1, NEW j \in 1 .. n + 1, i < j
        PROVE  t[i] < t[j]
    <3>1. j \in 2 .. n + 1 /\ t[j] = s[j - 1] /\ j - 1 \in 1 .. n
      BY <2>7, <2>9
    <3>2. s[j - 1] \in U /\ s[j - 1] # m /\ m \in Nat /\ s[j - 1] \in Nat
      BY <2>5, <3>1 DEF rest
    <3>3. CASE i = 1
      BY <2>2, <2>7, <3>1, <3>2, <3>3
    <3>4. CASE i # 1
      <4>1. i \in 2 .. n + 1 /\ i - 1 < j - 1
        BY <2>9, <3>4
      <4>2. t[i] = s[i - 1] /\ i - 1 \in 1 .. n
        BY <2>7, <4>1
      <4>. QED
        BY <2>5, <3>1, <4>1, <4>2
    <3>. QED
      BY <3>3, <3>4
  <2>10. Sorts(t, U)
    BY <2>7, <2>8, <2>9 DEF Sorts
  <2>. QED
    BY <2>10
<1>. HIDE DEF P
<1>3. Nat \subseteq P
  BY <1>1, <1>2, NatSetInduction
<1>4. Cardinality(S) \in Nat
  BY FS_CardinalityType
<1>. QED
  BY <1>3, <1>4 DEF P

\* So Ascending gives it: the elements of S, each once.
LEMMA AscendingSorts ==
    ASSUME NEW S \in SUBSET Nat, IsFiniteSet(S)
    PROVE  /\ Ascending(S) \in Seq(S)
           /\ Len(Ascending(S)) = Cardinality(S)
           /\ ToSet(Ascending(S)) = S
           /\ \A i, j \in 1 .. Len(Ascending(S)) :
                 i # j => Ascending(S)[i] # Ascending(S)[j]
<1>. DEFINE a == Ascending(S)
<1>1. Sorts(a, S)
  <2>1. \E s : Sorts(s, S)
    BY SortExists
  <2>. QED
    BY <2>1 DEF Ascending, Sorts
<1>2. Cardinality(S) \in Nat
  BY FS_CardinalityType
<1>. HIDE DEF a
<1>3. a \in Seq(S) /\ Len(a) = Cardinality(S) /\ DOMAIN a = 1 .. Len(a)
  BY <1>1, <1>2 DEF Sorts
<1>4. ToSet(a) = S
  BY <1>1 DEF Sorts
<1>5. ASSUME NEW i \in 1 .. Len(a), NEW j \in 1 .. Len(a), i # j PROVE a[i] # a[j]
  <2>1. a[i] \in S /\ a[j] \in S
    BY <1>1, <1>3 DEF Sorts
  <2>2. i < j => a[i] < a[j]
    BY <1>1, <1>3 DEF Sorts
  <2>3. j < i => a[j] < a[i]
    BY <1>1, <1>3 DEF Sorts
  <2>4. i < j \/ j < i
    BY <1>2, <1>3, <1>5
  <2>5. a[i] \in Nat /\ a[j] \in Nat
    BY <2>1
  <2>. QED
    BY <2>2, <2>3, <2>4, <2>5
<1>. QED
  BY <1>3, <1>4, <1>5 DEF a

-----------------------------------------------------------------------------
(* The order of the model space entities.                                  *)

FileOk ==
    file \in [placement : [Records -> Placements], list : Lists \cup {NoList},
              old : BOOLEAN]

\* What the placements say of the records.
LEMMA Placed ==
    ASSUME FileOk
    PROVE  /\ ModelSpace \subseteq Entities /\ Entities \subseteq Records
           /\ Owned \subseteq Entities /\ Owned \cap ModelSpace = {}
           /\ \A r \in Owned : Owner(r) \in Records
           /\ \A U \in SUBSET Records : U \in SUBSET Nat /\ IsFiniteSet(U)
<1>1. /\ \A r \in Records : file.placement[r] \in Placements
      /\ Model \notin Nat /\ Shared \notin Nat /\ Loose \notin Nat /\ Shared # Model
  BY PlacementAssumption DEF FileOk
<1>2. \A r \in Owned : Owner(r) \in Records
  BY <1>1 DEF Owned, Owner, Placements
<1>3. \A U \in SUBSET Records : U \in SUBSET Nat /\ IsFiniteSet(U)
  BY RecordsAssumption, FS_Subset
<1>. QED
  BY <1>1, <1>2, <1>3 DEF ModelSpace, Entities, Owned

\* s holds the model space records among the first n of the list, each once, and
\* one record after another only if the list has it first.
ListedOf(s, n) ==
    /\ s \in Seq(ModelSpace)
    /\ \A k, l \in 1 .. Len(s) : k # l => s[k] # s[l]
    /\ \A r \in ModelSpace :
          Contains(s, r) <=> \E q \in 1 .. n : file.list[q] = r
    /\ \A k, l \in 1 .. Len(s) : k < l =>
          \E p \in 1 .. n :
             /\ file.list[p] = s[k]
             /\ \A q \in 1 .. n : file.list[q] = s[l] => p < q

\* One more element of the list keeps this.
LEMMA ListedStep ==
    ASSUME NEW n \in Nat, n + 1 <= Len(file.list), NEW s, ListedOf(s, n)
    PROVE  ListedOf(IF file.list[n + 1] \in ModelSpace /\ ~Contains(s, file.list[n + 1])
                    THEN Append(s, file.list[n + 1]) ELSE s, n + 1)
<1>. DEFINE x == file.list[n + 1]
<1>1. /\ s \in Seq(ModelSpace) /\ Len(s) \in Nat
      /\ \A k \in 1 .. Len(s) : s[k] \in ModelSpace
      /\ \A k, l \in 1 .. Len(s) : k # l => s[k] # s[l]
  BY DEF ListedOf
<1>2. \A r \in ModelSpace : Contains(s, r) <=> \E q \in 1 .. n : file.list[q] = r
  BY DEF ListedOf
<1>3. \A k, l \in 1 .. Len(s) : k < l =>
         \E p \in 1 .. n : /\ file.list[p] = s[k]
                           /\ \A q \in 1 .. n : file.list[q] = s[l] => p < q
  BY DEF ListedOf
<1>4. \A q \in 1 .. n + 1 : q \in 1 .. n \/ q = n + 1
  OBVIOUS
<1>5. \A p \in 1 .. n : p \in 1 .. n + 1 /\ p < n + 1
  OBVIOUS
<1>. HIDE DEF x
<1>6. ASSUME NEW k \in 1 .. Len(s), NEW l \in 1 .. Len(s), k < l
      PROVE  \E p \in 1 .. n + 1 :
                /\ file.list[p] = s[k]
                /\ \A q \in 1 .. n + 1 : file.list[q] = s[l] => p < q
  <2>1. PICK p \in 1 .. n : /\ file.list[p] = s[k]
                            /\ \A q \in 1 .. n : file.list[q] = s[l] => p < q
    BY <1>3, <1>6
  <2>. QED
    BY <2>1, <1>4, <1>5
<1>7. CASE ~(x \in ModelSpace /\ ~Contains(s, x))
  <2>1. \A r \in ModelSpace :
           Contains(s, r) <=> \E q \in 1 .. n + 1 : file.list[q] = r
    BY <1>2, <1>4, <1>5, <1>7 DEF x
  <2>2. ListedOf(s, n + 1)
    BY <1>1, <1>6, <2>1 DEF ListedOf
  <2>. QED
    BY <1>7, <2>2 DEF x
<1>8. CASE x \in ModelSpace /\ ~Contains(s, x)
  <2>. DEFINE t == Append(s, x)
  <2>1. /\ t \in Seq(ModelSpace) /\ Len(t) = Len(s) + 1 /\ t[Len(s) + 1] = x
        /\ \A k \in 1 .. Len(s) : t[k] = s[k]
        /\ \A k \in 1 .. Len(s) + 1 : k \in 1 .. Len(s) \/ k = Len(s) + 1
    BY <1>1, <1>8
  <2>2. \A k \in 1 .. Len(s) : s[k] # x
    BY <1>8 DEF Contains
  <2>3. \A q \in 1 .. n : file.list[q] # x
    BY <1>2, <1>8
  <2>. HIDE DEF t
  <2>4. \A k, l \in 1 .. Len(t) : k # l => t[k] # t[l]
    BY <1>1, <2>1, <2>2
  <2>5. ASSUME NEW r \in ModelSpace
        PROVE  Contains(t, r) <=> \E q \in 1 .. n + 1 : file.list[q] = r
    <3>1. Contains(t, r) <=> Contains(s, r) \/ r = x
      <4>1. \A k \in 1 .. Len(s) : k \in 1 .. Len(s) + 1
        BY <1>1
      <4>2. Len(s) + 1 \in 1 .. Len(s) + 1
        BY <1>1
      <4>. QED
        BY <2>1, <4>1, <4>2 DEF Contains
    <3>2. (\E q \in 1 .. n + 1 : file.list[q] = r)
             <=> (\E q \in 1 .. n : file.list[q] = r) \/ r = x
      BY <1>4, <1>5 DEF x
    <3>. QED
      BY <1>2, <3>1, <3>2
  <2>6. ASSUME NEW k \in 1 .. Len(t), NEW l \in 1 .. Len(t), k < l
        PROVE  \E p \in 1 .. n + 1 :
                  /\ file.list[p] = t[k]
                  /\ \A q \in 1 .. n + 1 : file.list[q] = t[l] => p < q
    <3>1. k \in 1 .. Len(s)
      BY <1>1, <2>1, <2>6
    <3>2. CASE l \in 1 .. Len(s)
      <4>1. t[k] = s[k] /\ t[l] = s[l]
        BY <2>1, <3>1, <3>2
      <4>. QED
        BY <1>6, <2>6, <3>1, <3>2, <4>1
    <3>3. CASE l = Len(s) + 1
      <4>1. Contains(s, s[k]) /\ s[k] \in ModelSpace
        BY <1>1, <3>1 DEF Contains
      <4>2. PICK p \in 1 .. n : file.list[p] = s[k]
        BY <1>2, <4>1
      <4>3. \A q \in 1 .. n + 1 : file.list[q] = x => p < q
        BY <1>4, <1>5, <2>3
      <4>. QED
        BY <1>5, <2>1, <3>1, <3>3, <4>2, <4>3
    <3>. QED
      BY <2>1, <3>2, <3>3
  <2>7. ListedOf(t, n + 1)
    BY <2>1, <2>4, <2>5, <2>6 DEF ListedOf
  <2>. QED
    BY <1>8, <2>7 DEF x, t
<1>. QED
  BY <1>7, <1>8

\* The recursion of Listed.
ListsFirst(f) ==
    f = [n \in 0 .. Len(file.list) |->
            IF n = 0 THEN << >>
            ELSE IF file.list[n] \in ModelSpace /\ ~Contains(f[n - 1], file.list[n])
            THEN Append(f[n - 1], file.list[n])
            ELSE f[n - 1]]

LEMMA ListedDef == Listed = (CHOOSE f : ListsFirst(f))[Len(file.list)]
BY DEF Listed, ListsFirst

LEMMA ListsFirstExists ==
    ASSUME FileOk, file.list # NoList
    PROVE  \E f : ListsFirst(f)
<1>. DEFINE T == Seq(ModelSpace)
            N == Len(file.list)
            Step(n, s) == IF file.list[n] \in ModelSpace /\ ~Contains(s, file.list[n])
                          THEN Append(s, file.list[n]) ELSE s
            step == [p \in (1 .. N) \X T |-> Step(p[1], p[2])]
<1>1. N \in Nat
  BY ListsAssumption DEF FileOk
<1>2. << >> \in T
  OBVIOUS
<1>3. \A n \in 1 .. N, s \in T : Step(n, s) \in T
  OBVIOUS
<1>. HIDE DEF Step, T, N
<1>4. step \in [(1 .. N) \X T -> T]
  BY <1>3
<1>5. \A n \in 1 .. N, s \in T : step[<<n, s>>] = Step(n, s)
  OBVIOUS
<1>. HIDE DEF step
<1>6. PICK f \in [0 .. N -> T] : Solves(f, N, << >>, step)
  BY <1>1, <1>2, <1>4, Recursion
<1>7. \A i \in 1 .. N : f[i - 1] \in T
  BY <1>1
<1>8. ASSUME NEW i \in 0 .. N
      PROVE  f[i] = IF i = 0 THEN << >> ELSE Step(i, f[i - 1])
  <2>1. CASE i = 0
    BY <1>6, <2>1 DEF Solves
  <2>2. CASE i \in 1 .. N
    <3>1. f[i] = step[<<i, f[i - 1]>>]
      BY <1>6, <2>2 DEF Solves
    <3>. QED
      BY <1>5, <1>7, <2>2, <3>1
  <2>. QED
    BY <1>1, <2>1, <2>2
<1>9. f = [n \in 0 .. N |-> IF n = 0 THEN << >> ELSE Step(n, f[n - 1])]
  BY <1>6, <1>8
<1>10. ListsFirst(f)
  BY <1>9 DEF ListsFirst, Step, N
<1>. QED
  BY <1>10

\* So Listed is the model space records of the list.
LEMMA ListedIs ==
    ASSUME FileOk, file.list # NoList
    PROVE  Len(file.list) \in Nat /\ ListedOf(Listed, Len(file.list))
<1>1. Len(file.list) \in Nat
  BY ListsAssumption DEF FileOk
<1>. DEFINE f == CHOOSE g : ListsFirst(g)
<1>2. ListsFirst(f)
  BY ListsFirstExists
<1>. HIDE DEF f
<1>. DEFINE F == [n \in 0 .. Len(file.list) |->
                    IF n = 0 THEN << >>
                    ELSE IF file.list[n] \in ModelSpace /\ ~Contains(f[n - 1], file.list[n])
                    THEN Append(f[n - 1], file.list[n])
                    ELSE f[n - 1]]
<1>3. f = F
  BY <1>2 DEF ListsFirst
<1>4. \A n \in 0 .. Len(file.list) :
         F[n] = IF n = 0 THEN << >>
                ELSE IF file.list[n] \in ModelSpace /\ ~Contains(f[n - 1], file.list[n])
                THEN Append(f[n - 1], file.list[n])
                ELSE f[n - 1]
  OBVIOUS
<1>. HIDE DEF F
<1>. DEFINE P == {n \in Nat : n <= Len(file.list) => ListedOf(f[n], n)}
<1>5. 0 \in P
  <2>1. f[0] = << >>
    BY <1>1, <1>3, <1>4
  <2>2. ListedOf(<< >>, 0)
    BY DEF ListedOf, Contains
  <2>. QED
    BY <2>1, <2>2
<1>6. ASSUME NEW n \in Nat, n \in P PROVE n + 1 \in P
  <2>. SUFFICES ASSUME n + 1 <= Len(file.list) PROVE ListedOf(f[n + 1], n + 1)
    OBVIOUS
  <2>1. ListedOf(f[n], n)
    BY <1>1, <1>6
  <2>2. n + 1 \in 0 .. Len(file.list) /\ n + 1 # 0 /\ (n + 1) - 1 = n
    BY <1>1
  <2>3. f[n + 1] = IF file.list[n + 1] \in ModelSpace /\ ~Contains(f[n], file.list[n + 1])
                   THEN Append(f[n], file.list[n + 1]) ELSE f[n]
    BY <1>3, <1>4, <2>2
  <2>. QED
    BY <2>1, <2>3, ListedStep
<1>. HIDE DEF P
<1>7. Nat \subseteq P
  BY <1>5, <1>6, NatSetInduction
<1>8. ListedOf(f[Len(file.list)], Len(file.list))
  BY <1>1, <1>7 DEF P
<1>. QED
  BY <1>1, <1>8, ListedDef DEF f

\* Every model space entity has one place in the order, and one that the list
\* holds comes after none that the list has later or not at all.
OrderGood(o) ==
    /\ o \in Seq(ModelSpace)
    /\ \A k, l \in 1 .. Len(o) : k # l => o[k] # o[l]
    /\ \A r \in ModelSpace : \E k \in 1 .. Len(o) : o[k] = r
    /\ \A k, l \in 1 .. Len(o) : k < l /\ Contains(file.list, o[l]) =>
          \E p \in 1 .. Len(file.list) :
             /\ file.list[p] = o[k]
             /\ \A q \in 1 .. Len(file.list) : file.list[q] = o[l] => p < q

LEMMA OrderIsGood ==
    ASSUME FileOk, file.list # NoList
    PROVE  OrderGood(Order)
<1>. DEFINE s == Listed
            rest == ModelSpace \ ToSet(Listed)
            a == Ascending(rest)
            o == s \o a
            N == Len(file.list)
<1>1. N \in Nat /\ ListedOf(s, N)
  BY ListedIs
<1>2. /\ s \in Seq(ModelSpace) /\ Len(s) \in Nat
      /\ \A k \in 1 .. Len(s) : s[k] \in ModelSpace
      /\ \A k, l \in 1 .. Len(s) : k # l => s[k] # s[l]
  BY <1>1 DEF ListedOf
<1>3. rest \in SUBSET Nat /\ IsFiniteSet(rest)
  BY Placed
<1>4. /\ a \in Seq(rest) /\ ToSet(a) = rest
      /\ \A k, l \in 1 .. Len(a) : k # l => a[k] # a[l]
  BY <1>3, AscendingSorts
<1>5. \A r : r \in ToSet(s) <=> Contains(s, r)
  BY <1>2 DEF ToSet, Contains
<1>6. \A k \in 1 .. Len(a) : /\ a[k] \in ModelSpace
                             /\ ~Contains(s, a[k])
  BY <1>4, <1>5
<1>7. Len(a) \in Nat /\ a \in Seq(ModelSpace)
  BY <1>4, <1>6
<1>8. \A r \in ModelSpace : Contains(s, r) \/ \E k \in 1 .. Len(a) : a[k] = r
  BY <1>4, <1>5 DEF ToSet
<1>9. Order = o
  BY DEF Order
<1>10. \A r \in ModelSpace : Contains(s, r) <=> Contains(file.list, r)
  BY <1>1 DEF ListedOf, Contains
<1>11. \A k, l \in 1 .. Len(s) : k < l =>
          \E p \in 1 .. N :
             /\ file.list[p] = s[k]
             /\ \A q \in 1 .. N : file.list[q] = s[l] => p < q
  BY <1>1 DEF ListedOf
<1>. HIDE DEF s, a, rest, N
<1>12. /\ o \in Seq(ModelSpace) /\ Len(o) = Len(s) + Len(a)
       /\ \A k \in 1 .. Len(s) : o[k] = s[k] /\ k \in 1 .. Len(o)
       /\ \A k \in 1 .. Len(a) : o[Len(s) + k] = a[k] /\ Len(s) + k \in 1 .. Len(o)
  BY <1>2, <1>7
<1>13. \A k \in 1 .. Len(o) : \/ k \in 1 .. Len(s)
                              \/ k - Len(s) \in 1 .. Len(a) /\ o[k] = a[k - Len(s)]
  BY <1>2, <1>7, <1>12
<1>. HIDE DEF o
<1>14. \A k \in 1 .. Len(s) : Contains(s, s[k])
  BY DEF Contains
<1>15. ASSUME NEW k \in 1 .. Len(o), NEW l \in 1 .. Len(o), k # l
       PROVE  o[k] # o[l]
  <2>1. CASE k \in 1 .. Len(s) /\ l \in 1 .. Len(s)
    BY <1>2, <1>12, <1>15, <2>1
  <2>2. CASE k \in 1 .. Len(s) /\ l \notin 1 .. Len(s)
    <3>1. o[k] = s[k] /\ o[l] = a[l - Len(s)] /\ l - Len(s) \in 1 .. Len(a)
      BY <1>12, <1>13, <2>2
    <3>. QED
      BY <1>6, <1>14, <2>2, <3>1
  <2>3. CASE k \notin 1 .. Len(s) /\ l \in 1 .. Len(s)
    <3>1. o[l] = s[l] /\ o[k] = a[k - Len(s)] /\ k - Len(s) \in 1 .. Len(a)
      BY <1>12, <1>13, <2>3
    <3>. QED
      BY <1>6, <1>14, <2>3, <3>1
  <2>4. CASE k \notin 1 .. Len(s) /\ l \notin 1 .. Len(s)
    <3>1. /\ o[k] = a[k - Len(s)] /\ k - Len(s) \in 1 .. Len(a)
          /\ o[l] = a[l - Len(s)] /\ l - Len(s) \in 1 .. Len(a)
      BY <1>13, <2>4
    <3>2. k - Len(s) # l - Len(s)
      BY <1>2, <1>15
    <3>. QED
      BY <1>4, <3>1, <3>2
  <2>. QED
    BY <2>1, <2>2, <2>3, <2>4
<1>16. ASSUME NEW r \in ModelSpace PROVE \E k \in 1 .. Len(o) : o[k] = r
  <2>1. CASE Contains(s, r)
    BY <1>12, <2>1 DEF Contains
  <2>2. CASE \E k \in 1 .. Len(a) : a[k] = r
    BY <1>12, <2>2
  <2>. QED
    BY <1>8, <2>1, <2>2
<1>17. ASSUME NEW k \in 1 .. Len(o), NEW l \in 1 .. Len(o), k < l,
              Contains(file.list, o[l])
       PROVE  \E p \in 1 .. N : /\ file.list[p] = o[k]
                                /\ \A q \in 1 .. N : file.list[q] = o[l] => p < q
  <2>1. o[l] \in ModelSpace /\ Contains(s, o[l])
    BY <1>10, <1>12, <1>17
  <2>2. l \in 1 .. Len(s)
    BY <1>6, <1>13, <2>1
  <2>3. k \in 1 .. Len(s)
    BY <1>2, <1>12, <1>17, <2>2
  <2>4. o[k] = s[k] /\ o[l] = s[l]
    BY <1>12, <2>2, <2>3
  <2>. QED
    BY <1>11, <1>17, <2>2, <2>3, <2>4
<1>18. OrderGood(o)
  BY <1>12, <1>15, <1>16, <1>17 DEF OrderGood, N
<1>. QED
  BY <1>9, <1>18

-----------------------------------------------------------------------------
(* The groups.                                                             *)

\* An entity and its children, whose units do not meet.
LEMMA Units ==
    ASSUME FileOk
    PROVE  /\ \A m \in ModelSpace : /\ m \in Unit(m) /\ Unit(m) \subseteq Entities
                                    /\ Unit(m) \cap ModelSpace = {m}
                                    /\ Unit(m) \in SUBSET Records
           /\ \A m, n \in ModelSpace : m # n => Unit(m) \cap Unit(n) = {}
           /\ \A r \in Entities \ First : \E m \in ModelSpace : r \in Unit(m)
           /\ \A m \in ModelSpace : Unit(m) \cap First = {}
           /\ First \subseteq Entities
<1>1. \A r \in Owned : r \in Entities /\ r \in Records /\ r \notin ModelSpace
  BY Placed
<1>2. ModelSpace \subseteq Entities /\ Entities \subseteq Records
  BY Placed
<1>. QED
  BY <1>1, <1>2 DEF Unit, Children, First, IsChild

\* g is the groups after n entities of the order o: `at` names the group of each,
\* and a group above the limit is one entity with its children.
Grouped(g, n, o, at) ==
    /\ g \in Seq(SUBSET Records) /\ Len(g) \in Nat \ {0}
    /\ at \in [1 .. n -> 1 .. Len(g)]
    /\ \A i \in 1 .. Len(g), r \in Records :
          r \in g[i] <=> \E k \in 1 .. n : at[k] = i /\ r \in Unit(o[k])
    /\ \A k, l \in 1 .. n : k <= l => at[k] <= at[l]
    /\ n # 0 => \A i \in 1 .. Len(g) : \E k \in 1 .. n : at[k] = i
    /\ n = 0 => g = <<{}>>
    /\ \A i \in 1 .. Len(g) : Cardinality(g[i]) > Limit =>
          \A k, l \in 1 .. n : at[k] = i /\ at[l] = i => k = l

\* One more entity placed keeps the groups like this.
LEMMA PlaceStep ==
    ASSUME FileOk, NEW o \in Seq(ModelSpace), NEW n \in Nat, n + 1 <= Len(o),
           NEW g, NEW at, Grouped(g, n, o, at)
    PROVE  \E bt : Grouped(Place(g, o[n + 1]), n + 1, o, bt)
<1>. DEFINE r == o[n + 1]
            L == Len(g)
            size == Cardinality(g[L])
<1>1. r \in ModelSpace /\ n + 1 \in 1 .. Len(o)
  <2>1. n + 1 \in 1 .. Len(o)
    OBVIOUS
  <2>. QED
    BY <2>1
<1>2. /\ g \in Seq(SUBSET Records) /\ L \in Nat \ {0} /\ L \in 1 .. L
      /\ \A i \in 1 .. L : g[i] \in SUBSET Records
  BY DEF Grouped
<1>3. at \in [1 .. n -> 1 .. L] /\ \A k, l \in 1 .. n : k <= l => at[k] <= at[l]
  BY DEF Grouped
<1>4. \A i \in 1 .. L, x \in Records :
         x \in g[i] <=> \E k \in 1 .. n : at[k] = i /\ x \in Unit(o[k])
  BY DEF Grouped
<1>5. /\ n # 0 => \A i \in 1 .. L : \E k \in 1 .. n : at[k] = i
      /\ n = 0 => g = <<{}>>
      /\ \A i \in 1 .. L : Cardinality(g[i]) > Limit =>
            \A k, l \in 1 .. n : at[k] = i /\ at[l] = i => k = l
  BY DEF Grouped
<1>6. \A k \in 1 .. n : k \in 1 .. Len(o) /\ o[k] \in ModelSpace
  <2>1. \A k \in 1 .. n : k \in 1 .. Len(o)
    OBVIOUS
  <2>. QED
    BY <2>1
<1>7. /\ r \in Unit(r) /\ Unit(r) \in SUBSET Records
      /\ \A k \in 1 .. n : o[k] \in Unit(o[k]) /\ o[k] \in Records
  <2>1. \A m \in ModelSpace : m \in Records
    BY Placed
  <2>. QED
    BY <1>1, <1>6, <2>1, Units
<1>8. \A U \in SUBSET Records : IsFiniteSet(U) /\ Cardinality(U) \in Nat
                                /\ (Cardinality(U) = 0 <=> U = {})
  BY Placed, FS_CardinalityType, FS_EmptySet
<1>9. size \in Nat /\ Cardinality(Unit(r)) \in Nat
  BY <1>2, <1>7, <1>8
<1>10. n = 0 <=> size = 0
  <2>1. CASE n = 0
    <3>1. g = <<{}>>
      <4>. HIDE DEF L
      <4>. QED
        BY <1>5, <2>1
    <3>2. L = 1 /\ g[L] = {}
      BY <3>1
    <3>3. size = 0
      BY <3>2, FS_EmptySet
    <3>. QED
      BY <2>1, <3>3
  <2>2. CASE n # 0
    <3>1. PICK k \in 1 .. n : at[k] = L
      BY <1>2, <1>5, <2>2
    <3>2. o[k] \in g[L]
      BY <1>2, <1>4, <1>7, <3>1
    <3>. QED
      BY <1>2, <1>8, <2>2, <3>2
  <2>. QED
    BY <2>1, <2>2
<1>11. Limit \in Nat \ {0}
  BY LimitsAssumption DEF Limit
<1>12. \A k \in 1 .. n + 1 : k \in 1 .. n \/ k = n + 1
  OBVIOUS
<1>13. \A k \in 1 .. n : k \in 1 .. n + 1 /\ k < n + 1
  OBVIOUS
<1>14. n + 1 \in 1 .. n + 1 /\ ~(n + 1 <= n) /\ n + 1 # 0
  OBVIOUS
<1>15. Place(g, r) = IF size > 0 /\ size + Cardinality(Unit(r)) > Limit
                     THEN Append(g, Unit(r))
                     ELSE [g EXCEPT ![L] = @ \cup Unit(r)]
  BY DEF Place
<1>. HIDE DEF r, L, size
<1>16. CASE size > 0 /\ size + Cardinality(Unit(r)) > Limit
  <2>. DEFINE h == Append(g, Unit(r))
              bt == [k \in 1 .. n + 1 |-> IF k <= n THEN at[k] ELSE L + 1]
  <2>1. /\ h \in Seq(SUBSET Records) /\ Len(h) = L + 1 /\ h[L + 1] = Unit(r)
        /\ \A i \in 1 .. L : h[i] = g[i]
        /\ \A i \in 1 .. L + 1 : i \in 1 .. L \/ i = L + 1
    BY <1>2, <1>7 DEF L
  <2>2. /\ bt \in [1 .. n + 1 -> 1 .. L + 1] /\ bt[n + 1] = L + 1
        /\ \A k \in 1 .. n : bt[k] = at[k] /\ at[k] \in 1 .. L /\ at[k] < L + 1
    BY <1>2, <1>3, <1>14
  <2>. HIDE DEF h, bt
  <2>3. n # 0
    BY <1>10, <1>16
  <2>4. ASSUME NEW i \in 1 .. L + 1, NEW x \in Records
        PROVE  x \in h[i] <=> \E k \in 1 .. n + 1 : bt[k] = i /\ x \in Unit(o[k])
    <3>1. CASE i \in 1 .. L
      <4>1. \A k \in 1 .. n + 1 : bt[k] = i <=> k \in 1 .. n /\ at[k] = i
        BY <1>2, <1>12, <2>2, <3>1
      <4>. QED
        BY <1>4, <1>13, <2>1, <3>1, <4>1
    <3>2. CASE i = L + 1
      <4>1. \A k \in 1 .. n + 1 : bt[k] = i <=> k = n + 1
        BY <1>12, <1>2, <2>2, <3>2
      <4>. QED
        BY <1>14, <2>1, <3>2, <4>1 DEF r
    <3>. QED
      BY <2>1, <3>1, <3>2
  <2>5. ASSUME NEW k \in 1 .. n + 1, NEW l \in 1 .. n + 1, k <= l
        PROVE  bt[k] <= bt[l]
    <3>1. CASE l \in 1 .. n
      <4>1. k \in 1 .. n
        BY <2>5, <3>1
      <4>. QED
        BY <1>3, <2>2, <2>5, <3>1, <4>1
    <3>2. CASE l = n + 1
      <4>1. bt[k] \in 1 .. L + 1 /\ bt[l] = L + 1
        BY <2>2, <3>2
      <4>. QED
        BY <1>2, <4>1
    <3>. QED
      BY <1>12, <3>1, <3>2
  <2>6. ASSUME NEW i \in 1 .. L + 1 PROVE \E k \in 1 .. n + 1 : bt[k] = i
    BY <1>5, <1>13, <1>14, <2>1, <2>2, <2>3
  <2>7. ASSUME NEW i \in 1 .. L + 1, Cardinality(h[i]) > Limit,
               NEW k \in 1 .. n + 1, NEW l \in 1 .. n + 1, bt[k] = i, bt[l] = i
        PROVE  k = l
    <3>1. CASE i \in 1 .. L
      <4>1. k \in 1 .. n /\ l \in 1 .. n
        BY <1>2, <1>12, <2>2, <2>7, <3>1
      <4>. QED
        BY <1>5, <2>1, <2>2, <2>7, <3>1, <4>1
    <3>2. CASE i = L + 1
      BY <1>2, <1>12, <2>2, <2>7, <3>2
    <3>. QED
      BY <2>1, <3>1, <3>2
  <2>8. Grouped(h, n + 1, o, bt)
    <3>1. Len(h) \in Nat \ {0}
      BY <1>2, <2>1
    <3>. QED
      BY <1>14, <2>1, <2>2, <2>4, <2>5, <2>6, <2>7, <3>1 DEF Grouped
  <2>. QED
    BY <1>15, <1>16, <2>8 DEF h, r
<1>17. CASE ~(size > 0 /\ size + Cardinality(Unit(r)) > Limit)
  <2>. DEFINE h == [g EXCEPT ![L] = @ \cup Unit(r)]
              bt == [k \in 1 .. n + 1 |-> IF k <= n THEN at[k] ELSE L]
  <2>1. /\ h \in Seq(SUBSET Records) /\ Len(h) = L /\ h[L] = g[L] \cup Unit(r)
        /\ \A i \in 1 .. L : i # L => h[i] = g[i]
    BY <1>2, <1>7 DEF L
  <2>2. /\ bt \in [1 .. n + 1 -> 1 .. L] /\ bt[n + 1] = L
        /\ \A k \in 1 .. n : bt[k] = at[k] /\ at[k] \in 1 .. L
    BY <1>2, <1>3, <1>14
  <2>. HIDE DEF h, bt
  <2>3. ASSUME NEW i \in 1 .. L, NEW x \in Records
        PROVE  x \in h[i] <=> \E k \in 1 .. n + 1 : bt[k] = i /\ x \in Unit(o[k])
    <3>1. CASE i # L
      <4>1. \A k \in 1 .. n + 1 : bt[k] = i <=> k \in 1 .. n /\ at[k] = i
        BY <1>12, <2>2, <3>1
      <4>. QED
        BY <1>4, <1>13, <2>1, <3>1, <4>1
    <3>2. CASE i = L
      <4>1. x \in h[i] <=> x \in g[i] \/ x \in Unit(o[n + 1])
        BY <2>1, <3>2 DEF r
      <4>2. (\E k \in 1 .. n + 1 : bt[k] = i /\ x \in Unit(o[k]))
               <=> (\E k \in 1 .. n : at[k] = i /\ x \in Unit(o[k]))
                      \/ x \in Unit(o[n + 1])
        BY <1>12, <1>13, <1>14, <2>2, <3>2
      <4>. QED
        BY <1>4, <4>1, <4>2
    <3>. QED
      BY <3>1, <3>2
  <2>4. ASSUME NEW k \in 1 .. n + 1, NEW l \in 1 .. n + 1, k <= l
        PROVE  bt[k] <= bt[l]
    <3>1. CASE l \in 1 .. n
      <4>1. k \in 1 .. n
        BY <2>4, <3>1
      <4>. QED
        BY <1>3, <2>2, <2>4, <3>1, <4>1
    <3>2. CASE l = n + 1
      <4>1. bt[k] \in 1 .. L /\ bt[l] = L
        BY <2>2, <3>2
      <4>. QED
        BY <1>2, <4>1
    <3>. QED
      BY <1>12, <3>1, <3>2
  <2>5. ASSUME NEW i \in 1 .. L PROVE \E k \in 1 .. n + 1 : bt[k] = i
    <3>1. CASE n = 0
      <4>1. L = 1
        BY <1>5, <3>1 DEF L
      <4>. QED
        BY <1>14, <2>2, <4>1
    <3>2. CASE n # 0
      BY <1>5, <1>13, <2>2, <3>2
    <3>. QED
      BY <3>1, <3>2
  <2>6. ASSUME NEW i \in 1 .. L, Cardinality(h[i]) > Limit,
               NEW k \in 1 .. n + 1, NEW l \in 1 .. n + 1, bt[k] = i, bt[l] = i
        PROVE  k = l
    <3>1. CASE n = 0
      BY <1>12, <3>1
    <3>2. CASE n # 0 /\ i = L
      <4>1. size + Cardinality(Unit(r)) <= Limit
        BY <1>9, <1>10, <1>11, <1>17, <3>2
      <4>2. Cardinality(g[L] \cup Unit(r)) <= size + Cardinality(Unit(r))
        <5>1. g[L] \in SUBSET Records /\ g[L] \cap Unit(r) \in SUBSET Records
          BY <1>2
        <5>2. IsFiniteSet(g[L]) /\ IsFiniteSet(Unit(r))
              /\ Cardinality(g[L] \cap Unit(r)) \in Nat
          BY <1>7, <1>8, <5>1
        <5>3. Cardinality(g[L] \cup Unit(r))
                = Cardinality(g[L]) + Cardinality(Unit(r)) - Cardinality(g[L] \cap Unit(r))
          BY <5>2, FS_Union
        <5>. QED
          BY <1>9, <5>2, <5>3 DEF size
      <4>3. Cardinality(h[i]) = Cardinality(g[L] \cup Unit(r))
            /\ Cardinality(g[L] \cup Unit(r)) \in Nat
        BY <1>2, <1>7, <1>8, <2>1, <3>2
      <4>. QED
        BY <1>9, <1>11, <2>6, <4>1, <4>2, <4>3
    <3>3. CASE n # 0 /\ i # L
      <4>1. k \in 1 .. n /\ l \in 1 .. n
        BY <1>12, <2>2, <2>6, <3>3
      <4>2. at[k] = i /\ at[l] = i /\ Cardinality(g[i]) > Limit
        BY <2>1, <2>2, <2>6, <3>3, <4>1
      <4>. QED
        BY <1>5, <4>1, <4>2
    <3>. QED
      BY <3>1, <3>2, <3>3
  <2>7. Grouped(h, n + 1, o, bt)
    BY <1>2, <1>14, <2>1, <2>2, <2>3, <2>4, <2>5, <2>6 DEF Grouped
  <2>. QED
    BY <1>15, <1>17, <2>7 DEF h, r
<1>. QED
  BY <1>16, <1>17

\* The recursion of Groups.
GroupsOf(f) ==
    f = [n \in 0 .. Len(Order) |->
            IF n = 0 THEN <<{}>> ELSE Place(f[n - 1], Order[n])]

LEMMA GroupsDef == Groups = (CHOOSE f : GroupsOf(f))[Len(Order)]
BY DEF Groups, GroupsOf

LEMMA GroupsOfExists ==
    ASSUME FileOk, file.list # NoList
    PROVE  \E f : GroupsOf(f)
<1>. DEFINE N == Len(Order)
            T == {g \in Seq(SUBSET Records) : Len(g) # 0}
            step == [p \in (1 .. N) \X T |-> Place(p[2], Order[p[1]])]
<1>1. N \in Nat /\ \A n \in 1 .. N : Order[n] \in ModelSpace
  BY OrderIsGood DEF OrderGood
<1>2. <<{}>> \in T
  OBVIOUS
<1>3. ASSUME NEW n \in 1 .. N, NEW g \in T PROVE Place(g, Order[n]) \in T
  <2>. DEFINE u == Unit(Order[n])
  <2>1. u \in SUBSET Records
    BY <1>1, Units
  <2>. HIDE DEF u
  <2>2. Append(g, u) \in T
    BY <2>1
  <2>3. [g EXCEPT ![Len(g)] = @ \cup u] \in T
    <3>1. Len(g) \in 1 .. Len(g) /\ g[Len(g)] \in SUBSET Records
      OBVIOUS
    <3>2. g[Len(g)] \cup u \in SUBSET Records
      BY <2>1, <3>1
    <3>3. [g EXCEPT ![Len(g)] = g[Len(g)] \cup u] \in Seq(SUBSET Records)
      BY <3>1, <3>2
    <3>4. Len([g EXCEPT ![Len(g)] = g[Len(g)] \cup u]) = Len(g)
      BY <3>1
    <3>. QED
      BY <3>3, <3>4
  <2>. QED
    BY <2>2, <2>3 DEF Place, u
<1>. HIDE DEF T, N
<1>4. step \in [(1 .. N) \X T -> T]
  BY <1>3
<1>5. \A n \in 1 .. N, g \in T : step[<<n, g>>] = Place(g, Order[n])
  OBVIOUS
<1>. HIDE DEF step
<1>6. PICK f \in [0 .. N -> T] : Solves(f, N, <<{}>>, step)
  BY <1>1, <1>2, <1>4, Recursion
<1>7. \A i \in 1 .. N : f[i - 1] \in T
  BY <1>1
<1>8. ASSUME NEW i \in 0 .. N
      PROVE  f[i] = IF i = 0 THEN <<{}>> ELSE Place(f[i - 1], Order[i])
  <2>1. CASE i = 0
    BY <1>6, <2>1 DEF Solves
  <2>2. CASE i \in 1 .. N
    <3>1. f[i] = step[<<i, f[i - 1]>>]
      BY <1>6, <2>2 DEF Solves
    <3>. QED
      BY <1>5, <1>7, <2>2, <3>1
  <2>. QED
    BY <1>1, <2>1, <2>2
<1>9. f = [n \in 0 .. N |-> IF n = 0 THEN <<{}>> ELSE Place(f[n - 1], Order[n])]
  BY <1>6, <1>8
<1>10. GroupsOf(f)
  BY <1>9 DEF GroupsOf, N
<1>. QED
  BY <1>10

\* The groups hold every entity of the order.
LEMMA GroupsAre ==
    ASSUME FileOk, file.list # NoList
    PROVE  \E at : Grouped(Groups, Len(Order), Order, at)
<1>. DEFINE N == Len(Order)
            f == CHOOSE g : GroupsOf(g)
<1>1. Order \in Seq(ModelSpace) /\ N \in Nat
  BY OrderIsGood DEF OrderGood
<1>2. GroupsOf(f)
  BY GroupsOfExists
<1>. HIDE DEF f
<1>. DEFINE F == [n \in 0 .. N |->
                    IF n = 0 THEN <<{}>> ELSE Place(f[n - 1], Order[n])]
<1>3. f = F
  BY <1>2 DEF GroupsOf
<1>4. \A n \in 0 .. N : F[n] = IF n = 0 THEN <<{}>> ELSE Place(f[n - 1], Order[n])
  OBVIOUS
<1>. HIDE DEF F
<1>. DEFINE P == {n \in Nat : n <= N => \E at : Grouped(f[n], n, Order, at)}
<1>5. 0 \in P
  <2>1. f[0] = <<{}>>
    BY <1>1, <1>3, <1>4
  <2>2. Grouped(<<{}>>, 0, Order, << >>)
    <3>1. Cardinality({}) = 0 /\ Limit \in Nat
      BY FS_EmptySet, LimitsAssumption DEF Limit
    <3>. QED
      BY <3>1 DEF Grouped
  <2>. QED
    BY <2>1, <2>2
<1>6. ASSUME NEW n \in Nat, n \in P PROVE n + 1 \in P
  <2>. SUFFICES ASSUME n + 1 <= N PROVE \E at : Grouped(f[n + 1], n + 1, Order, at)
    OBVIOUS
  <2>1. PICK at : Grouped(f[n], n, Order, at)
    BY <1>1, <1>6
  <2>2. n + 1 \in 0 .. N /\ n + 1 # 0 /\ (n + 1) - 1 = n
    BY <1>1
  <2>3. f[n + 1] = Place(f[n], Order[n + 1])
    BY <1>3, <1>4, <2>2
  <2>. QED
    BY <1>1, <2>1, <2>3, PlaceStep
<1>. HIDE DEF P
<1>7. Nat \subseteq P
  BY <1>5, <1>6, NatSetInduction
<1>8. \E at : Grouped(f[N], N, Order, at)
  BY <1>1, <1>7 DEF P
<1>. QED
  BY <1>8, GroupsDef DEF f

-----------------------------------------------------------------------------
(* Owner chains.                                                           *)

\* One step up an owner chain.
Up(x) == IF x \in Owned THEN Owner(x) ELSE x

\* The recursion of Top.
Climbs(f, r) ==
    f = [n \in 0 .. MaxOwnerDepth |->
            IF n = 0 THEN Owner(r)
            ELSE IF f[n - 1] \in Owned THEN Owner(f[n - 1]) ELSE f[n - 1]]

LEMMA TopDef == \A r : Top(r) = (CHOOSE f : Climbs(f, r))[MaxOwnerDepth]
BY DEF Top, Climbs

LEMMA ClimbsExists ==
    ASSUME FileOk, NEW r \in Owned
    PROVE  \E f : Climbs(f, r)
<1>. DEFINE N == MaxOwnerDepth
            step == [p \in (1 .. N) \X Records |-> Up(p[2])]
<1>1. N \in Nat /\ Owner(r) \in Records
  BY LimitsAssumption, Placed
<1>2. \A x \in Records : Up(x) \in Records
  BY Placed DEF Up
<1>. HIDE DEF N
<1>3. step \in [(1 .. N) \X Records -> Records]
  BY <1>2
<1>4. \A n \in 1 .. N, x \in Records : step[<<n, x>>] = Up(x)
  OBVIOUS
<1>. HIDE DEF step
<1>5. PICK f \in [0 .. N -> Records] : Solves(f, N, Owner(r), step)
  BY <1>1, <1>3, Recursion
<1>6. \A i \in 1 .. N : f[i - 1] \in Records
  BY <1>1
<1>7. ASSUME NEW i \in 0 .. N
      PROVE  f[i] = IF i = 0 THEN Owner(r) ELSE Up(f[i - 1])
  <2>1. CASE i = 0
    BY <1>5, <2>1 DEF Solves
  <2>2. CASE i \in 1 .. N
    <3>1. f[i] = step[<<i, f[i - 1]>>]
      BY <1>5, <2>2 DEF Solves
    <3>. QED
      BY <1>4, <1>6, <2>2, <3>1
  <2>. QED
    BY <1>1, <2>1, <2>2
<1>8. f = [n \in 0 .. N |-> IF n = 0 THEN Owner(r) ELSE Up(f[n - 1])]
  BY <1>7
<1>9. Climbs(f, r)
  BY <1>8 DEF Climbs, Up, N
<1>. QED
  BY <1>9

\* The climb to Top, step by step.
LEMMA Climb ==
    ASSUME FileOk, NEW r \in Owned
    PROVE  \E f : /\ f[0] = Owner(r) /\ Top(r) = f[MaxOwnerDepth]
                  /\ \A n \in Nat : n + 1 <= MaxOwnerDepth => f[n + 1] = Up(f[n])
<1>. DEFINE f == CHOOSE g : Climbs(g, r)
<1>1. Climbs(f, r)
  BY ClimbsExists
<1>2. Top(r) = f[MaxOwnerDepth]
  BY TopDef
<1>. HIDE DEF f
<1>. DEFINE F == [n \in 0 .. MaxOwnerDepth |->
                    IF n = 0 THEN Owner(r)
                    ELSE IF f[n - 1] \in Owned THEN Owner(f[n - 1]) ELSE f[n - 1]]
<1>3. f = F
  BY <1>1 DEF Climbs
<1>4. MaxOwnerDepth \in Nat
  BY LimitsAssumption
<1>5. \A n \in 0 .. MaxOwnerDepth :
         F[n] = IF n = 0 THEN Owner(r)
                ELSE IF f[n - 1] \in Owned THEN Owner(f[n - 1]) ELSE f[n - 1]
  OBVIOUS
<1>. HIDE DEF F
<1>6. f[0] = Owner(r)
  BY <1>3, <1>4, <1>5
<1>7. ASSUME NEW n \in Nat, n + 1 <= MaxOwnerDepth PROVE f[n + 1] = Up(f[n])
  <2>1. n + 1 \in 0 .. MaxOwnerDepth /\ n + 1 # 0 /\ (n + 1) - 1 = n
    BY <1>4, <1>7
  <2>. QED
    BY <1>3, <1>5, <2>1 DEF Up
<1>. QED
  BY <1>2, <1>6, <1>7

\* An owner that is not owned is the top,
LEMMA TopOfRoot ==
    ASSUME FileOk, NEW r \in Owned, Owner(r) \notin Owned
    PROVE  Top(r) = Owner(r)
<1>1. PICK f : /\ f[0] = Owner(r) /\ Top(r) = f[MaxOwnerDepth]
               /\ \A n \in Nat : n + 1 <= MaxOwnerDepth => f[n + 1] = Up(f[n])
  BY Climb
<1>. DEFINE P == {n \in Nat : n <= MaxOwnerDepth => f[n] = Owner(r)}
<1>2. 0 \in P
  BY <1>1
<1>3. ASSUME NEW n \in Nat, n \in P PROVE n + 1 \in P
  <2>. SUFFICES ASSUME n + 1 <= MaxOwnerDepth PROVE f[n + 1] = Owner(r)
    OBVIOUS
  <2>1. f[n] = Owner(r)
    BY <1>3, LimitsAssumption
  <2>. QED
    BY <1>1, <2>1 DEF Up
<1>. HIDE DEF P
<1>4. Nat \subseteq P
  BY <1>2, <1>3, NatSetInduction
<1>. QED
  BY <1>1, <1>4, LimitsAssumption DEF P

\* and the top of an owned owner is the same when the chain ends.
LEMMA TopOfOwner ==
    ASSUME FileOk, NEW r \in Owned, Owner(r) \in Owned, Top(r) \notin Owned
    PROVE  Top(Owner(r)) = Top(r)
<1>1. PICK f : /\ f[0] = Owner(r) /\ Top(r) = f[MaxOwnerDepth]
               /\ \A n \in Nat : n + 1 <= MaxOwnerDepth => f[n + 1] = Up(f[n])
  BY Climb
<1>2. PICK g : /\ g[0] = Owner(Owner(r)) /\ Top(Owner(r)) = g[MaxOwnerDepth]
               /\ \A n \in Nat : n + 1 <= MaxOwnerDepth => g[n + 1] = Up(g[n])
  BY Climb
<1>. DEFINE P == {n \in Nat : n <= MaxOwnerDepth => g[n] = Up(f[n])}
<1>3. 0 \in P
  BY <1>1, <1>2 DEF Up
<1>4. ASSUME NEW n \in Nat, n \in P PROVE n + 1 \in P
  <2>. SUFFICES ASSUME n + 1 <= MaxOwnerDepth PROVE g[n + 1] = Up(f[n + 1])
    OBVIOUS
  <2>1. g[n] = Up(f[n])
    BY <1>4, LimitsAssumption
  <2>. QED
    BY <1>1, <1>2, <2>1
<1>. HIDE DEF P
<1>5. Nat \subseteq P
  BY <1>3, <1>4, NatSetInduction
<1>6. g[MaxOwnerDepth] = Up(f[MaxOwnerDepth])
  BY <1>5, LimitsAssumption DEF P
<1>. QED
  BY <1>1, <1>2, <1>6 DEF Up

\* An owner that is an entity goes where the record goes.
LEMMA OwnersUnit ==
    ASSUME FileOk, NEW r \in Owned, Owner(r) \in Entities, Top(r) \notin Owned
    PROVE  /\ IsChild(r) => r \in Unit(Top(r)) /\ Owner(r) \in Unit(Top(r))
           /\ ~IsChild(r) => r \in First /\ Owner(r) \in First
<1>1. /\ ModelSpace \subseteq Entities /\ Owned \subseteq Entities
      /\ Owned \cap ModelSpace = {}
  BY Placed
<1>2. CASE Owner(r) \notin Owned
  <2>1. Top(r) = Owner(r)
    BY <1>2, TopOfRoot
  <2>. QED
    BY <1>1, <1>2, <2>1 DEF IsChild, Unit, Children, First
<1>3. CASE Owner(r) \in Owned
  <2>1. Top(Owner(r)) = Top(r)
    BY <1>3, TopOfOwner
  <2>2. Owner(Owner(r)) \notin Owned => Top(Owner(r)) = Owner(Owner(r))
    BY <1>3, TopOfRoot
  <2>3. IsChild(r) <=> Top(r) \in ModelSpace
    BY DEF IsChild
  <2>4. IsChild(Owner(r)) <=> Top(r) \in ModelSpace
    BY <1>1, <1>3, <2>1, <2>2 DEF IsChild
  <2>. QED
    BY <1>1, <1>3, <2>1, <2>3, <2>4 DEF Unit, Children, First
<1>. QED
  BY <1>2, <1>3

-----------------------------------------------------------------------------
(* The plan.                                                               *)

\* What shard i decodes, and the parts of what makes a plan good: its shape,
Part(p, i) == p.shared \cup p.plan[i]
Shaped(p) ==
    /\ p.shared \in SUBSET Records
    /\ p.plan \in Seq(SUBSET Records) /\ Len(p.plan) \in Nat \ {0}
    /\ Len(p.plan) = 1 => Part(p, 1) = Records /\ p.shared = {}
\* every entity in one shard and everything else in all,
PlansOnce(p) ==
    /\ \A r \in Entities : \E i \in 1 .. Len(p.plan) :
          \A j \in 1 .. Len(p.plan) : r \in Part(p, j) <=> j = i
    /\ \A r \in Records \ Entities : \A i \in 1 .. Len(p.plan) : r \in Part(p, i)
\* children with their owners,
PlansTogether(p) ==
    \A i \in 1 .. Len(p.plan) : \A r \in Part(p, i) \cap Owned :
        Owner(r) \in Entities /\ Top(r) \notin Owned => Owner(r) \in Part(p, i)
\* bounded shards,
PlansBounded(p) ==
    Len(p.plan) > 1 =>
        \A i \in 1 .. Len(p.plan) :
            LET roots == Part(p, i) \cap ModelSpace
                records == roots \cup {r \in Part(p, i) : IsChild(r)}
            IN /\ roots # {}
               /\ Cardinality(records) > MaxEntities => Cardinality(roots) = 1
\* and the order of the list.
PlansInOrder(p) ==
    file.list # NoList =>
        \A i, j \in 1 .. Len(p.plan) : i < j =>
            \A a \in Part(p, i) \cap ModelSpace, b \in Part(p, j) \cap ModelSpace :
                Contains(file.list, b) =>
                    \E m \in DOMAIN file.list :
                        /\ file.list[m] = a
                        /\ \A n \in DOMAIN file.list : file.list[n] = b => m < n
PlanGood(p) ==
    Shaped(p) /\ PlansOnce(p) /\ PlansTogether(p) /\ PlansBounded(p) /\ PlansInOrder(p)

\* A plan of one shard for everything is.
LEMMA WholeGood ==
    ASSUME FileOk, NEW p, p = [shared |-> {}, plan |-> <<Records>>]
    PROVE  PlanGood(p)
<1>1. /\ p.shared = {} /\ p.plan = <<Records>> /\ Len(p.plan) = 1
      /\ Part(p, 1) = Records
  BY DEF Part
<1>2. \A i \in 1 .. Len(p.plan) : i = 1
  BY <1>1
<1>3. Shaped(p)
  BY <1>1 DEF Shaped
<1>4. PlansOnce(p)
  <2>1. 1 \in 1 .. Len(p.plan)
    BY <1>1
  <2>2. Entities \subseteq Records
    BY Placed
  <2>. QED
    BY <1>1, <1>2, <2>1, <2>2 DEF PlansOnce
<1>5. PlansTogether(p)
  BY <1>1, <1>2, Placed DEF PlansTogether
<1>6. PlansBounded(p)
  BY <1>1 DEF PlansBounded
<1>7. PlansInOrder(p)
  BY <1>1, <1>2 DEF PlansInOrder
<1>. QED
  BY <1>3, <1>4, <1>5, <1>6, <1>7 DEF PlanGood

\* What a plan of several shards is made of.
LEMMA SplitPlan ==
    ASSUME FileOk, file.list # NoList, Len(Groups) # 1,
           NEW p, p = [shared |-> Records \ Entities,
                       plan |-> [Groups EXCEPT ![1] = @ \cup First]],
           NEW at, Grouped(Groups, Len(Order), Order, at)
    PROVE  /\ p.shared = Records \ Entities /\ Len(p.plan) = Len(Groups)
           /\ p.plan \in Seq(SUBSET Records) /\ Len(p.plan) \in Nat \ {0, 1}
           /\ \A i \in 1 .. Len(p.plan), r \in Entities :
                 r \in Part(p, i) <=> r \in Groups[i] \/ (i = 1 /\ r \in First)
           /\ \A i \in 1 .. Len(p.plan), r \in Records \ Entities : r \in Part(p, i)
           /\ \A i \in 1 .. Len(p.plan) : \A r \in Part(p, i) : r \in Records
<1>1. Groups \in Seq(SUBSET Records) /\ Len(Groups) \in Nat \ {0, 1}
  BY DEF Grouped
<1>2. First \in SUBSET Records /\ Entities \subseteq Records
  BY Units, Placed
<1>3. p.shared = Records \ Entities
  OBVIOUS
<1>. DEFINE q == [Groups EXCEPT ![1] = @ \cup First]
<1>4. p.plan = q
  OBVIOUS
<1>5. 1 \in 1 .. Len(Groups) /\ \A i \in 1 .. Len(Groups) : Groups[i] \in SUBSET Records
  BY <1>1
<1>6. /\ q \in Seq(SUBSET Records) /\ Len(q) = Len(Groups)
      /\ q[1] = Groups[1] \cup First
      /\ \A i \in 1 .. Len(Groups) : i # 1 => q[i] = Groups[i]
  BY <1>1, <1>2, <1>5
<1>. HIDE DEF q
<1>7. \A i \in 1 .. Len(Groups), r \in Records :
         r \in q[i] <=> r \in Groups[i] \/ (i = 1 /\ r \in First)
  BY <1>6
<1>. QED
  BY <1>1, <1>2, <1>3, <1>4, <1>6, <1>7 DEF Part

\* Which unit, and so which group, an entity is in.
GroupsBy(at) ==
    /\ Len(Order) \in Nat
    /\ \A k \in 1 .. Len(Order) : at[k] \in 1 .. Len(Groups) /\ Order[k] \in ModelSpace
    /\ \A i \in 1 .. Len(Groups) : \E k \in 1 .. Len(Order) : at[k] = i
    /\ \A r \in Entities \ First : \E k \in 1 .. Len(Order) :
          /\ r \in Unit(Order[k])
          /\ \A i \in 1 .. Len(Groups) : r \in Groups[i] <=> at[k] = i
    /\ \A r \in First, i \in 1 .. Len(Groups) : r \notin Groups[i]
    /\ \A k, l \in 1 .. Len(Order) : \A r \in Unit(Order[k]) :
          r \in Unit(Order[l]) => k = l

LEMMA InGroups ==
    ASSUME FileOk, file.list # NoList, Len(Groups) # 1,
           NEW at, Grouped(Groups, Len(Order), Order, at)
    PROVE  GroupsBy(at)
<1>. DEFINE n == Len(Order)
            L == Len(Groups)
            o == Order
            g == Groups
<1>1. /\ o \in Seq(ModelSpace)
      /\ \A k, l \in 1 .. n : k # l => o[k] # o[l]
      /\ \A r \in ModelSpace : \E k \in 1 .. n : o[k] = r
  BY OrderIsGood DEF OrderGood
<1>2. n \in Nat /\ \A k \in 1 .. n : o[k] \in ModelSpace
  BY <1>1
<1>3. /\ g \in Seq(SUBSET Records) /\ L \in Nat
      /\ at \in [1 .. n -> 1 .. L]
      /\ \A i \in 1 .. L, r \in Records :
            r \in g[i] <=> \E k \in 1 .. n : at[k] = i /\ r \in Unit(o[k])
      /\ n # 0 => \A i \in 1 .. L : \E k \in 1 .. n : at[k] = i
  BY DEF Grouped
<1>4. n # 0
  <2>1. n = 0 => g = <<{}>>
    BY DEF Grouped
  <2>2. g # <<{}>>
    <3>1. Len(<<{}>>) = 1
      OBVIOUS
    <3>. QED
      BY <3>1
  <2>. QED
    BY <2>1, <2>2
<1>. HIDE DEF n, L, o, g
<1>5. \A k \in 1 .. n, l \in 1 .. n : \A r \in Unit(o[k]) : r \in Unit(o[l]) => k = l
  BY <1>1, <1>2, Units
<1>6. \A r \in Entities : r \in Records
  BY Placed
<1>7. ASSUME NEW r \in Entities \ First
      PROVE  \E k \in 1 .. n : /\ r \in Unit(o[k])
                               /\ \A i \in 1 .. L : r \in g[i] <=> at[k] = i
  <2>1. PICK m \in ModelSpace : r \in Unit(m)
    BY Units
  <2>2. PICK k \in 1 .. n : o[k] = m
    BY <1>1
  <2>3. \A l \in 1 .. n : r \in Unit(o[l]) <=> l = k
    BY <1>5, <2>1, <2>2
  <2>4. r \in Records
    BY <1>6
  <2>5. \A i \in 1 .. L : r \in g[i] <=> at[k] = i
    BY <1>3, <2>3, <2>4
  <2>. QED
    BY <2>3, <2>5
<1>8. ASSUME NEW r \in First, NEW i \in 1 .. L PROVE r \notin g[i]
  <2>1. r \in Records
    BY <1>6, Units
  <2>2. \A k \in 1 .. n : r \notin Unit(o[k])
    BY <1>2, Units
  <2>. QED
    BY <1>3, <2>1, <2>2
<1>. QED
  BY <1>2, <1>3, <1>4, <1>5, <1>7, <1>8 DEF GroupsBy, n, L, o, g

\* A plan of several shards is good.
LEMMA SplitGood ==
    ASSUME FileOk, file.list # NoList, Len(Groups) # 1,
           NEW p, p = [shared |-> Records \ Entities,
                       plan |-> [Groups EXCEPT ![1] = @ \cup First]]
    PROVE  PlanGood(p)
<1>1. PICK at : Grouped(Groups, Len(Order), Order, at)
  BY GroupsAre
<1>. DEFINE n == Len(Order)
            L == Len(Groups)
            o == Order
            g == Groups
<1>2. /\ p.shared = Records \ Entities /\ Len(p.plan) = L
      /\ p.plan \in Seq(SUBSET Records) /\ L \in Nat \ {0, 1}
      /\ \A i \in 1 .. L, r \in Entities :
            r \in Part(p, i) <=> r \in g[i] \/ (i = 1 /\ r \in First)
      /\ \A i \in 1 .. L, r \in Records \ Entities : r \in Part(p, i)
      /\ \A i \in 1 .. L : \A r \in Part(p, i) : r \in Records
  BY <1>1, SplitPlan
<1>3. /\ n \in Nat
      /\ \A k \in 1 .. n : at[k] \in 1 .. L /\ o[k] \in ModelSpace
      /\ \A i \in 1 .. L : \E k \in 1 .. n : at[k] = i
      /\ \A r \in Entities \ First : \E k \in 1 .. n :
            /\ r \in Unit(o[k])
            /\ \A i \in 1 .. L : r \in g[i] <=> at[k] = i
      /\ \A r \in First, i \in 1 .. L : r \notin g[i]
      /\ \A k, l \in 1 .. n : \A r \in Unit(o[k]) : r \in Unit(o[l]) => k = l
  BY <1>1, InGroups DEF GroupsBy
<1>4. /\ \A k, l \in 1 .. n : k <= l => at[k] <= at[l]
      /\ \A i \in 1 .. L : Cardinality(g[i]) > Limit =>
            \A k, l \in 1 .. n : at[k] = i /\ at[l] = i => k = l
      /\ \A i \in 1 .. L : g[i] \in SUBSET Records
  BY <1>1 DEF Grouped
<1>. HIDE DEF n, L, o, g
<1>5. /\ ModelSpace \subseteq Entities /\ Entities \subseteq Records
      /\ Owned \subseteq Entities /\ First \cap ModelSpace = {}
  BY Placed DEF First
<1>6. ASSUME NEW i \in 1 .. L, NEW m \in ModelSpace
      PROVE  m \in Part(p, i) <=> \E k \in 1 .. n : at[k] = i /\ o[k] = m
  <2>1. m \in Entities \ First
    BY <1>5
  <2>2. PICK k \in 1 .. n : /\ m \in Unit(o[k])
                            /\ m \in g[i] <=> at[k] = i
    BY <1>3, <2>1
  <2>3. o[k] = m
    BY <1>3, <2>2, Units
  <2>4. \A l \in 1 .. n : o[l] = m => l = k
    BY <1>3, <2>2, <2>3
  <2>. QED
    BY <1>2, <2>1, <2>2, <2>3, <2>4
<1>7. Shaped(p)
  BY <1>2 DEF Shaped
<1>8. PlansOnce(p)
  <2>1. ASSUME NEW r \in Entities
        PROVE  \E i \in 1 .. L : \A j \in 1 .. L : r \in Part(p, j) <=> j = i
    <3>1. CASE r \in First
      <4>1. 1 \in 1 .. L
        BY <1>2
      <4>2. \A j \in 1 .. L : r \in Part(p, j) <=> j = 1
        BY <1>2, <1>3, <3>1
      <4>. QED
        BY <4>1, <4>2
    <3>2. CASE r \notin First
      <4>1. PICK k \in 1 .. n : \A i \in 1 .. L : r \in g[i] <=> at[k] = i
        BY <1>3, <3>2
      <4>2. \A j \in 1 .. L : r \in Part(p, j) <=> j = at[k]
        BY <1>2, <3>2, <4>1
      <4>3. at[k] \in 1 .. L
        BY <1>3
      <4>. QED
        BY <4>2, <4>3, Zenon
    <3>. QED
      BY <3>1, <3>2
  <2>2. Len(p.plan) = L /\ \A r \in Records \ Entities : \A i \in 1 .. L : r \in Part(p, i)
    BY <1>2
  <2>. QED
    BY <2>1, <2>2 DEF PlansOnce
<1>9. PlansTogether(p)
  <2>. SUFFICES ASSUME NEW i \in 1 .. L, NEW r \in Part(p, i) \cap Owned,
                       Owner(r) \in Entities, Top(r) \notin Owned
                PROVE  Owner(r) \in Part(p, i)
    BY <1>2 DEF PlansTogether
  <2>1. CASE IsChild(r)
    <3>1. /\ r \in Unit(Top(r)) /\ Owner(r) \in Unit(Top(r))
          /\ Top(r) \in ModelSpace
      BY <2>1, OwnersUnit DEF IsChild
    <3>2. r \in Entities \ First /\ Owner(r) \in Entities \ First
      BY <1>5, <3>1, Units
    <3>3. PICK k \in 1 .. n : /\ r \in Unit(o[k])
                              /\ \A j \in 1 .. L : r \in g[j] <=> at[k] = j
      BY <1>3, <3>2
    <3>4. PICK l \in 1 .. n : /\ Owner(r) \in Unit(o[l])
                              /\ \A j \in 1 .. L : Owner(r) \in g[j] <=> at[l] = j
      BY <1>3, <3>2
    <3>5. o[k] = Top(r) /\ o[l] = Top(r)
      BY <1>3, <3>1, <3>3, <3>4, Units
    <3>6. k = l
      BY <1>3, <3>3, <3>1, <3>5
    <3>. QED
      BY <1>2, <3>2, <3>3, <3>4, <3>6
  <2>2. CASE ~IsChild(r)
    <3>1. r \in First /\ Owner(r) \in First
      BY <2>2, OwnersUnit
    <3>. QED
      BY <1>2, <1>3, <1>5, <3>1
  <2>. QED
    BY <2>1, <2>2
<1>10. PlansBounded(p)
  <2>. SUFFICES ASSUME NEW i \in 1 .. L
                PROVE  LET roots == Part(p, i) \cap ModelSpace
                           records == roots \cup {r \in Part(p, i) : IsChild(r)}
                       IN /\ roots # {}
                          /\ Cardinality(records) > MaxEntities => Cardinality(roots) = 1
    BY <1>2 DEF PlansBounded
  <2>. DEFINE roots == Part(p, i) \cap ModelSpace
              records == roots \cup {r \in Part(p, i) : IsChild(r)}
  <2>1. PICK k \in 1 .. n : at[k] = i
    BY <1>3
  <2>2. o[k] \in roots
    BY <1>3, <1>6, <2>1
  <2>3. records \subseteq g[i]
    <3>1. ASSUME NEW r \in records PROVE r \in g[i]
      <4>1. r \in Entities \ First
        BY <1>5 DEF IsChild, First
      <4>. QED
        BY <1>2, <4>1
    <3>. QED
      BY <3>1
  <2>4. /\ IsFiniteSet(records) /\ Cardinality(records) \in Nat
        /\ Cardinality(records) <= Cardinality(g[i]) /\ Cardinality(g[i]) \in Nat
        /\ IsFiniteSet(roots) /\ Cardinality(roots) <= Cardinality(records)
        /\ Cardinality(roots) \in Nat
    <3>1. g[i] \in SUBSET Records /\ IsFiniteSet(g[i])
      BY <1>4, Placed
    <3>2. IsFiniteSet(records) /\ Cardinality(records) <= Cardinality(g[i])
      BY <2>3, <3>1, FS_Subset
    <3>3. IsFiniteSet(roots) /\ Cardinality(roots) <= Cardinality(records)
      <4>1. roots \in SUBSET records
        OBVIOUS
      <4>. HIDE DEF records, roots
      <4>. QED
        BY <3>2, <4>1, FS_Subset
    <3>. QED
      BY <3>1, <3>2, <3>3, FS_CardinalityType
  <2>. HIDE DEF records
  <2>5. ASSUME Cardinality(records) > MaxEntities PROVE Cardinality(roots) = 1
    <3>1. CASE Cardinality(g[i]) > Limit
      <4>1. \A l \in 1 .. n : at[l] = i => l = k
        BY <1>4, <2>1, <3>1
      <4>2. ASSUME NEW m \in roots PROVE m = o[k]
        <5>1. PICK l \in 1 .. n : at[l] = i /\ o[l] = m
          BY <1>6
        <5>. QED
          BY <4>1, <5>1
      <4>3. roots = {o[k]}
        BY <2>2, <4>2
      <4>. QED
        BY <4>3, FS_Singleton
    <3>2. CASE ~(Cardinality(g[i]) > Limit)
      <4>1. Cardinality(roots) <= 1
        BY <2>4, <2>5, <3>2, LimitsAssumption DEF Limit
      <4>2. Cardinality(roots) # 0
        BY <2>2, <2>4, FS_EmptySet
      <4>. QED
        BY <2>4, <4>1, <4>2
    <3>. QED
      BY <3>1, <3>2
  <2>. QED
    BY <2>2, <2>5 DEF records
<1>11. PlansInOrder(p)
  <2>. DEFINE Before(a, b) ==
                 \E m \in DOMAIN file.list :
                    /\ file.list[m] = a
                    /\ \A q \in DOMAIN file.list : file.list[q] = b => m < q
  <2>1. ASSUME NEW i \in 1 .. L, NEW j \in 1 .. L, i < j,
               NEW a \in Part(p, i) \cap ModelSpace,
               NEW b \in Part(p, j) \cap ModelSpace, Contains(file.list, b)
        PROVE  Before(a, b)
    <3>1. PICK k \in 1 .. n : at[k] = i /\ o[k] = a
      BY <1>6
    <3>2. PICK l \in 1 .. n : at[l] = j /\ o[l] = b
      BY <1>6
    <3>3. k < l
      <4>1. ~(l <= k)
        BY <1>2, <1>4, <2>1, <3>1, <3>2
      <4>. QED
        BY <1>3, <4>1
    <3>4. DOMAIN file.list = 1 .. Len(file.list)
      BY ListsAssumption DEF FileOk
    <3>5. Contains(file.list, o[l]) /\ k < l
      BY <2>1, <3>2, <3>3
    <3>6. \E m \in 1 .. Len(file.list) :
             /\ file.list[m] = o[k]
             /\ \A q \in 1 .. Len(file.list) : file.list[q] = o[l] => m < q
      <4>1. OrderGood(Order)
        BY OrderIsGood
      <4>. QED
        BY <3>5, <4>1 DEF OrderGood, n, o
    <3>. QED
      BY <3>1, <3>2, <3>4, <3>6
  <2>2. Len(p.plan) = L
    BY <1>2
  <2>. HIDE DEF Before
  <2>3. \A i, j \in 1 .. Len(p.plan) : i < j =>
           \A a \in Part(p, i) \cap ModelSpace, b \in Part(p, j) \cap ModelSpace :
              Contains(file.list, b) => Before(a, b)
    BY <2>1, <2>2
  <2>. QED
    BY <2>3 DEF PlansInOrder, Before
<1>. QED
  BY <1>7, <1>8, <1>9, <1>10, <1>11 DEF PlanGood

\* Whatever the file, its plan is good.
LEMMA PlanIsGood ==
    ASSUME FileOk
    PROVE  PlanGood(Plan)
<1>1. CASE file.old \/ file.list = NoList
  <2>1. Len(<<{}>>) = 1
    OBVIOUS
  <2>2. Plan = [shared |-> {}, plan |-> <<Records>>]
    BY <1>1, <2>1 DEF Plan
  <2>. QED
    BY <2>2, WholeGood
<1>2. CASE ~(file.old \/ file.list = NoList) /\ Len(Groups) = 1
  <2>1. Plan = [shared |-> {}, plan |-> <<Records>>]
    BY <1>2 DEF Plan
  <2>. QED
    BY <2>1, WholeGood
<1>3. CASE ~(file.old \/ file.list = NoList) /\ Len(Groups) # 1
  <2>1. Plan = [shared |-> Records \ Entities,
                plan |-> [Groups EXCEPT ![1] = @ \cup First]]
    BY <1>3 DEF Plan
  <2>. QED
    BY <1>3, <2>1, SplitGood
<1>. QED
  BY <1>1, <1>2, <1>3

-----------------------------------------------------------------------------
(* The loop.                                                               *)

\* What the documents handed over are of the plan, and what is left of it.
Unplanned ==
    /\ plan = << >> /\ index = 1 /\ document = {}
    /\ documents = IF phase = "done" THEN <<{}>> ELSE << >>
Planned ==
    /\ phase # "idle"
    /\ Shaped(Plan)
    /\ shared = Plan.shared
    /\ plan \in Seq(SUBSET Records) /\ Len(plan) = Len(Plan.plan)
    /\ index \in 1 .. Len(plan) /\ (phase = "done" => index = Len(plan))
    /\ documents \in Seq(SUBSET Records)
    /\ Len(documents) = IF phase = "done" THEN index ELSE index - 1
    /\ \A i \in 1 .. Len(documents) : documents[i] = Part(Plan, i)
    /\ phase = "handing" => document = Part(Plan, index)
    /\ \A i \in 1 .. Len(plan) :
          i > index \/ (i = index /\ phase = "reading") => plan[i] = Plan.plan[i]
ReadInv ==
    /\ FileOk
    /\ phase \in {"idle", "reading", "handing", "done", "failed"}
    /\ planned \in BOOLEAN
    /\ phase \in {"idle", "done", "failed"} => document = {}
    /\ ~planned => Unplanned
    /\ planned => Planned

\* What is derived from the file stays while the file does.
LEMMA FileKept ==
    ASSUME file' = file
    PROVE  /\ FileOk' = FileOk /\ Plan' = Plan
           /\ \A p : Shaped(p)' = Shaped(p)
           /\ \A p, i : Part(p, i)' = Part(p, i)
<1>1. Entities' = Entities /\ ModelSpace' = ModelSpace /\ Owned' = Owned
  BY DEF Entities, ModelSpace, Owned
<1>2. \A r : Owner(r)' = Owner(r)
  BY DEF Owner
<1>3. \A r : Top(r)' = Top(r)
  BY Zenon DEF Top, Owner, Owned
<1>4. \A r : IsChild(r)' = IsChild(r)
  BY <1>1, <1>2, <1>3 DEF IsChild
<1>5. First' = First
  BY <1>1, <1>4 DEF First
<1>6. \A r : Unit(r)' = Unit(r)
  BY <1>1, <1>3, <1>4 DEF Unit, Children
<1>7. Listed' = Listed
  BY <1>1, Zenon DEF Listed
<1>8. Order' = Order
  BY <1>1, <1>7, Zenon DEF Order
<1>9. \A g, r : Place(g, r)' = Place(g, r)
  BY <1>6 DEF Place
<1>10. Groups' = Groups
  BY <1>8, <1>9, Zenon DEF Groups
<1>11. Plan' = Plan
  BY <1>1, <1>5, <1>10 DEF Plan
<1>. QED
  BY <1>11 DEF FileOk, Shaped, Part

\* A shard of a shaped plan is a set of records.
LEMMA PartRecords ==
    ASSUME NEW p, Shaped(p)
    PROVE  \A i \in 1 .. Len(p.plan) : Part(p, i) \in SUBSET Records
BY DEF Shaped, Part

LEMMA InitReads == Init => ReadInv
BY DEF Init, ReadInv, FileOk, Unplanned

LEMMA StartReads == ReadInv /\ Start => ReadInv'
<1>. SUFFICES ASSUME ReadInv, Start PROVE ReadInv'
  OBVIOUS
<1>1. FileOk' = FileOk
  BY FileKept DEF Start
<1>. QED
  BY <1>1 DEF ReadInv, Start, Unplanned

LEMMA DecodeFirstReads == ReadInv /\ DecodeFirst => ReadInv'
<1>. SUFFICES ASSUME ReadInv, DecodeFirst PROVE ReadInv'
  OBVIOUS
<1>. DEFINE p == Plan
<1>1. FileOk' = FileOk /\ Plan' = Plan /\ Shaped(p)' = Shaped(p)
      /\ \A i : Part(p, i)' = Part(p, i)
  BY FileKept DEF DecodeFirst
<1>2. Shaped(p)
  BY PlanIsGood DEF ReadInv, PlanGood
<1>3. Unplanned /\ phase = "reading" /\ phase' = "handing" /\ planned'
      /\ shared' = p.shared /\ index' = index /\ documents' = documents
  BY DEF ReadInv, DecodeFirst
<1>4. index' = 1 /\ documents' = << >>
  BY <1>3 DEF Unplanned
<1>5. /\ p.plan \in Seq(SUBSET Records) /\ Len(p.plan) \in Nat \ {0}
      /\ Len(p.plan) = 1 => Part(p, 1) = Records
  BY <1>2 DEF Shaped
<1>6. IF Len(p.plan) > 1
      THEN document' = p.shared \cup p.plan[1] /\ plan' = [p.plan EXCEPT ![1] = {}]
      ELSE document' = Records /\ plan' = p.plan
  BY DEF DecodeFirst
<1>. HIDE DEF p
<1>7. document' = Part(p, 1)
  <2>1. CASE Len(p.plan) > 1
    BY <1>6, <2>1 DEF Part
  <2>2. CASE ~(Len(p.plan) > 1)
    <3>1. Len(p.plan) = 1
      <4>1. \A n \in Nat \ {0} : ~(n > 1) => n = 1
        OBVIOUS
      <4>2. Len(p.plan) \in Nat \ {0}
        BY <1>5
      <4>. QED
        BY <2>2, <4>1, <4>2, Zenon
    <3>2. Part(p, 1) = Records
      BY <1>5, <3>1
    <3>3. document' = Records
      BY <1>6, <2>2
    <3>. QED
      BY <3>2, <3>3
  <2>. QED
    BY <2>1, <2>2
<1>8. /\ plan' \in Seq(SUBSET Records) /\ Len(plan') = Len(p.plan)
      /\ \A i \in 1 .. Len(plan') : i > 1 => plan'[i] = p.plan[i]
  <2>1. CASE Len(p.plan) > 1
    BY <1>5, <1>6, <2>1
  <2>2. CASE ~(Len(p.plan) > 1)
    BY <1>6, <2>2, <1>5
  <2>. QED
    BY <2>1, <2>2
<1>9. Planned'
  BY <1>1, <1>2, <1>3, <1>4, <1>5, <1>7, <1>8 DEF Planned, p
<1>. QED
  BY <1>1, <1>3, <1>9 DEF ReadInv

LEMMA DecodeNextReads == ReadInv /\ DecodeNext => ReadInv'
<1>. SUFFICES ASSUME ReadInv, DecodeNext PROVE ReadInv'
  OBVIOUS
<1>1. FileOk' = FileOk /\ Plan' = Plan /\ Shaped(Plan)' = Shaped(Plan)
      /\ \A p, i : Part(p, i)' = Part(p, i)
  BY FileKept DEF DecodeNext
<1>2. /\ Planned /\ phase = "reading" /\ phase' = "handing" /\ planned /\ planned'
      /\ shared' = shared /\ index' = index /\ documents' = documents
      /\ document' = shared \cup plan[index] /\ plan' = [plan EXCEPT ![index] = {}]
  BY DEF ReadInv, DecodeNext
<1>3. /\ shared = Plan.shared /\ plan \in Seq(SUBSET Records)
      /\ index \in 1 .. Len(plan) /\ plan[index] = Plan.plan[index]
      /\ \A i \in 1 .. Len(plan) : i > index => plan[i] = Plan.plan[i]
  BY <1>2 DEF Planned
<1>4. document' = Part(Plan, index)
  BY <1>2, <1>3 DEF Part
<1>5. /\ plan' \in Seq(SUBSET Records) /\ Len(plan') = Len(plan)
      /\ \A i \in 1 .. Len(plan) : i > index => plan'[i] = Plan.plan[i]
  BY <1>2, <1>3
<1>6. Planned'
  BY <1>1, <1>2, <1>4, <1>5 DEF Planned
<1>. QED
  BY <1>1, <1>2, <1>6 DEF ReadInv

LEMMA DecodeNothingReads == ReadInv /\ DecodeNothing => ReadInv'
<1>. SUFFICES ASSUME ReadInv, DecodeNothing PROVE ReadInv'
  OBVIOUS
<1>1. FileOk' = FileOk
  BY FileKept DEF DecodeNothing
<1>. QED
  BY <1>1 DEF ReadInv, DecodeNothing, Unplanned

LEMMA FailReads == ReadInv /\ Fail => ReadInv'
<1>. SUFFICES ASSUME ReadInv, Fail PROVE ReadInv'
  OBVIOUS
<1>1. FileOk' = FileOk /\ Plan' = Plan /\ Shaped(Plan)' = Shaped(Plan)
      /\ \A p, i : Part(p, i)' = Part(p, i)
  BY FileKept DEF Fail
<1>2. ~planned => Unplanned'
  BY DEF ReadInv, Fail, Unplanned
<1>3. planned => Planned'
  BY <1>1 DEF ReadInv, Fail, Planned
<1>. QED
  BY <1>1, <1>2, <1>3 DEF ReadInv, Fail

LEMMA AcceptReads == ReadInv /\ Accept => ReadInv'
<1>. SUFFICES ASSUME ReadInv, Accept PROVE ReadInv'
  OBVIOUS
<1>1. FileOk' = FileOk /\ Plan' = Plan /\ Shaped(Plan)' = Shaped(Plan)
      /\ \A p, i : Part(p, i)' = Part(p, i)
  BY FileKept DEF Accept
<1>2. CASE ~planned
  BY <1>1, <1>2 DEF ReadInv, Accept, Unplanned
<1>3. CASE planned
  <2>1. /\ Shaped(Plan) /\ shared = Plan.shared /\ plan \in Seq(SUBSET Records)
        /\ Len(plan) = Len(Plan.plan) /\ index \in 1 .. Len(plan)
        /\ documents \in Seq(SUBSET Records) /\ Len(documents) = index - 1
        /\ \A i \in 1 .. Len(documents) : documents[i] = Part(Plan, i)
        /\ document = Part(Plan, index) /\ phase = "handing"
        /\ \A i \in 1 .. Len(plan) : i > index => plan[i] = Plan.plan[i]
    BY <1>3 DEF ReadInv, Accept, Planned
  <2>2. document \in SUBSET Records
    BY <2>1, PartRecords
  <2>3. documents' = Append(documents, document) /\ plan' = plan /\ shared' = shared
        /\ planned' /\ document' = {}
    BY <1>3 DEF Accept
  <2>4. /\ documents' \in Seq(SUBSET Records) /\ Len(documents') = index
        /\ \A i \in 1 .. Len(documents') : documents'[i] = Part(Plan, i)
    BY <2>1, <2>2, <2>3
  <2>5. CASE index < Len(plan)
    <3>1. index' = index + 1 /\ phase' = "reading"
      BY <2>5 DEF Accept
    <3>2. index' \in 1 .. Len(plan) /\ Len(documents') = index' - 1
          /\ \A i \in 1 .. Len(plan) : i > index' \/ i = index' => i > index
      BY <2>1, <2>4, <2>5, <3>1
    <3>3. Planned'
      BY <1>1, <2>1, <2>3, <2>4, <3>1, <3>2 DEF Planned
    <3>. QED
      BY <1>1, <2>3, <3>1, <3>3 DEF ReadInv
  <2>6. CASE ~(index < Len(plan))
    <3>1. index' = index /\ phase' = "done" /\ index = Len(plan)
      BY <2>1, <2>6 DEF Accept
    <3>2. Planned'
      BY <1>1, <2>1, <2>3, <2>4, <3>1 DEF Planned
    <3>. QED
      BY <1>1, <2>3, <3>1, <3>2 DEF ReadInv
  <2>. QED
    BY <2>5, <2>6
<1>. QED
  BY <1>2, <1>3

LEMMA StutterReads == ReadInv /\ UNCHANGED vars => ReadInv'
<1>. SUFFICES ASSUME ReadInv, UNCHANGED vars PROVE ReadInv'
  OBVIOUS
<1>1. FileOk' = FileOk /\ Plan' = Plan /\ Shaped(Plan)' = Shaped(Plan)
      /\ \A p, i : Part(p, i)' = Part(p, i)
  BY FileKept DEF vars
<1>. QED
  BY <1>1 DEF ReadInv, Planned, Unplanned, vars

\* Every step of the reader keeps the invariant.
LEMMA StepReads == ReadInv /\ [Next]_vars => ReadInv'
BY StartReads, DecodeFirstReads, DecodeNextReads, DecodeNothingReads, FailReads,
   AcceptReads, StutterReads DEF Next

-----------------------------------------------------------------------------
(* The theorems.                                                           *)

\* A finished read has the plan's shards as its documents.
LEMMA Finished ==
    ASSUME ReadInv, planned
    PROVE  /\ PlanGood(Plan)
           /\ Len(documents) \in Nat /\ Len(documents) <= Len(Plan.plan)
           /\ Len(plan) = Len(Plan.plan) /\ Len(plan) \in Nat
           /\ phase = "done" => Len(documents) = Len(Plan.plan)
           /\ \A i \in 1 .. Len(documents) : documents[i] = Part(Plan, i)
<1>1. PlanGood(Plan)
  BY PlanIsGood DEF ReadInv
<1>2. Planned
  BY DEF ReadInv
<1>3. index \in 1 .. Len(plan) /\ Len(plan) \in Nat /\ Len(documents) \in Nat
  BY <1>2 DEF Planned
<1>. QED
  BY <1>1, <1>2, <1>3 DEF Planned

LEMMA ReadInvOnce == ReadInv => ReadOnce
<1>. SUFFICES ASSUME ReadInv, Complete PROVE ReadOnce
  BY DEF ReadOnce
<1>1. /\ PlanGood(Plan) /\ Len(documents) = Len(Plan.plan)
      /\ \A i \in Parts : documents[i] = Part(Plan, i)
  BY Finished DEF Complete, Parts
<1>2. /\ \A r \in Entities : \E i \in Parts : \A j \in Parts : r \in Part(Plan, j) <=> j = i
      /\ \A r \in Records \ Entities : \A i \in Parts : r \in Part(Plan, i)
  BY <1>1 DEF PlanGood, PlansOnce, Parts
<1>3. ASSUME NEW r \in Entities
      PROVE  Cardinality({i \in Parts : r \in documents[i]}) = 1
  <2>1. PICK i \in Parts : \A j \in Parts : r \in Part(Plan, j) <=> j = i
    BY <1>2
  <2>2. {j \in Parts : r \in documents[j]} = {i}
    BY <1>1, <2>1
  <2>. QED
    BY <2>2, FS_Singleton
<1>. QED
  BY <1>1, <1>2, <1>3 DEF ReadOnce

LEMMA ReadInvTogether == ReadInv => ChildrenStay
<1>. SUFFICES ASSUME ReadInv PROVE ChildrenStay
  OBVIOUS
<1>1. CASE planned
  <2>1. /\ PlansTogether(Plan)
        /\ \A i \in Parts : i \in 1 .. Len(Plan.plan) /\ documents[i] = Part(Plan, i)
    BY <1>1, Finished DEF PlanGood, Parts
  <2>. QED
    BY <2>1 DEF PlansTogether, ChildrenStay
<1>2. CASE ~planned
  <2>1. documents = << >> \/ documents = <<{}>>
    BY <1>2 DEF ReadInv, Unplanned
  <2>2. \A i \in Parts : documents[i] = {}
    BY <2>1 DEF Parts
  <2>. QED
    BY <2>2 DEF ChildrenStay
<1>. QED
  BY <1>1, <1>2

LEMMA ReadInvBounded == ReadInv => Bounded
<1>. SUFFICES ASSUME ReadInv, Len(plan) > 1 PROVE Bounded
  BY DEF Bounded
<1>1. planned
  <2>1. ~planned => plan = << >>
    BY DEF ReadInv, Unplanned
  <2>. QED
    BY <2>1 DEF ReadInv
<1>2. /\ PlansBounded(Plan) /\ Len(Plan.plan) > 1
      /\ \A i \in Parts : i \in 1 .. Len(Plan.plan) /\ documents[i] = Part(Plan, i)
  BY <1>1, Finished DEF PlanGood, Parts
<1>. QED
  BY <1>2 DEF PlansBounded, Bounded

LEMMA ReadInvOrder == ReadInv => ListOrderKept
<1>. SUFFICES ASSUME ReadInv, Complete, file.list # NoList PROVE ListOrderKept
  BY DEF ListOrderKept
<1>1. /\ PlansInOrder(Plan)
      /\ \A i \in Parts : i \in 1 .. Len(Plan.plan) /\ documents[i] = Part(Plan, i)
  BY Finished DEF PlanGood, Complete, Parts
<1>. QED
  BY <1>1 DEF PlansInOrder, ListOrderKept

LEMMA AlwaysReads == Spec => []ReadInv
BY InitReads, StepReads, PTL DEF Spec

\* A finished read has handed over every entity once and every other record with
\* each document: the loop of read_sharded loses and doubles nothing, whatever
\* the owner chains, entity list and limit.
THEOREM EveryEntityOnce == Spec => []ReadOnce
BY AlwaysReads, ReadInvOnce, PTL

\* A record whose owner chain ends within the depth the plan follows comes with
\* its owner.
THEOREM ChildrenWithOwners == Spec => []ChildrenStay
BY AlwaysReads, ReadInvTogether, PTL

\* No document of a split read exceeds the limit but for one entity with its
\* children, and none is without an entity of model space.
THEOREM ShardsBounded == Spec => []Bounded
BY AlwaysReads, ReadInvBounded, PTL

\* The documents follow the entity list of model space, unlisted entities last.
THEOREM ShardsFollowList == Spec => []ListOrderKept
BY AlwaysReads, ReadInvOrder, PTL
=============================================================================
