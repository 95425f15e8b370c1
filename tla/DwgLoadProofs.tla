---------------------------- MODULE DwgLoadProofs ----------------------------
(***************************************************************************)
(* Theorems about pass 2 of a DWG read, for every file: any records, sound *)
(* or not, any chunk and batch size, in whatever order the workers decode. *)
(***************************************************************************)
EXTENDS DwgLoad, DataInduction, FiniteSetTheorems

-----------------------------------------------------------------------------
(* Lists without repetition.                                               *)

\* The set of a list is the set of what is at its places.
LEMMA SetIs ==
    ASSUME NEW T, NEW s \in Seq(T)
    PROVE  /\ ToSet(s) = {s[i] : i \in 1 .. Len(s)} /\ ToSet(s) \subseteq T
           /\ DOMAIN s = 1 .. Len(s) /\ Len(s) \in Nat
           /\ \A i \in 1 .. Len(s) : s[i] \in ToSet(s)
BY DEF ToSet

\* A list without repetition has as many places as elements.
LEMMA OnceSize ==
    ASSUME NEW T, NEW s \in Seq(T), Once(s)
    PROVE  IsFiniteSet(ToSet(s)) /\ Cardinality(ToSet(s)) = Len(s)
<1>1. Len(s) \in Nat /\ s \in [1 .. Len(s) -> ToSet(s)] /\ ToSet(s) = {s[i] : i \in 1 .. Len(s)}
  BY DEF ToSet
<1>2. s \in Bijection(1 .. Len(s), ToSet(s))
  BY <1>1 DEF Once, Bijection, Injection, Surjection, IsInjective
<1>3. ExistsBijection(1 .. Len(s), ToSet(s))
  BY <1>2 DEF ExistsBijection
<1>4. IsFiniteSet(ToSet(s))
  BY <1>1, <1>3, FS_NatBijection
<1>5. Cardinality(ToSet(s)) = Len(s)
  BY <1>1, <1>3, FS_CountingElements
<1>. QED
  BY <1>4, <1>5

\* One that has as many elements as a set it lies in has them all.
LEMMA OnceFull ==
    ASSUME NEW T, IsFiniteSet(T), NEW s \in Seq(T), Once(s), Len(s) = Cardinality(T)
    PROVE  ToSet(s) = T
<1>1. ToSet(s) \in SUBSET T
  BY SetIs
<1>2. Cardinality(ToSet(s)) = Cardinality(T)
  BY OnceSize
<1>. QED
  BY <1>1, <1>2, FS_Subset

\* Numbers from 1 to n that rise from place to place are their own places.
LEMMA RisingIsPlace ==
    ASSUME NEW n \in Nat, NEW p \in [1 .. n -> 1 .. n],
           \A i, j \in 1 .. n : i < j => p[i] < p[j]
    PROVE  \A i \in 1 .. n : p[i] = i
<1>. DEFINE U == {k \in Nat : k \in 1 .. n => p[k] >= k}
            D == {k \in Nat : k < n => p[n - k] <= n - k}
<1>1. 0 \in U /\ 0 \in D
  OBVIOUS
<1>2. ASSUME NEW k \in Nat, k \in U PROVE k + 1 \in U
  <2>1. CASE k = 0
    BY <2>1
  <2>2. CASE k # 0
    BY <1>2, <2>2
  <2>. QED
    BY <2>1, <2>2
<1>3. ASSUME NEW k \in Nat, k \in D PROVE k + 1 \in D
  <2>. SUFFICES ASSUME k + 1 < n PROVE p[n - (k + 1)] <= n - (k + 1)
    OBVIOUS
  <2>1. p[n - k] <= n - k
    BY <1>3
  <2>2. n - (k + 1) \in 1 .. n /\ n - k \in 1 .. n /\ n - (k + 1) < n - k
    OBVIOUS
  <2>3. p[n - (k + 1)] < p[n - k]
    BY <2>2
  <2>4. p[n - (k + 1)] \in Nat /\ p[n - k] \in Nat
    BY <2>2
  <2>. QED
    BY <2>1, <2>3, <2>4
<1>. HIDE DEF U, D
<1>4. Nat \subseteq U /\ Nat \subseteq D
  BY <1>1, <1>2, <1>3, NatSetInduction
<1>. SUFFICES ASSUME NEW i \in 1 .. n PROVE p[i] = i
  OBVIOUS
<1>5. p[i] >= i
  BY <1>4 DEF U
<1>6. p[i] <= i
  <2>1. n - i \in Nat /\ n - i < n /\ n - (n - i) = i
    OBVIOUS
  <2>. QED
    BY <1>4, <2>1 DEF D
<1>. QED
  BY <1>5, <1>6

-----------------------------------------------------------------------------
(* The stable sort.                                                        *)

\* Place i comes before place j in the sorted list.
Precedes(s, rank, i, j) == rank[s[i]] < rank[s[j]] \/ (rank[s[i]] = rank[s[j]] /\ i < j)
Before(s, rank, i) == {j \in DOMAIN s : Precedes(s, rank, j, i)}

\* t has the elements of s at the places p, in their order.
Sorts(t, s, rank, p) ==
    /\ p \in [1 .. Len(s) -> 1 .. Len(s)]
    /\ \A i, j \in 1 .. Len(s) : p[i] = p[j] => i = j
    /\ \A i \in 1 .. Len(s) : \E j \in 1 .. Len(s) : p[j] = i
    /\ t = [n \in 1 .. Len(s) |-> s[p[n]]]
    /\ \A i, j \in 1 .. Len(s) : i < j => Precedes(s, rank, p[i], p[j])

LEMMA SortIs ==
    ASSUME NEW T, NEW s \in Seq(T), NEW rank, \A i \in 1 .. Len(s) : rank[s[i]] \in Nat
    PROVE  \E p : Sorts(StableSort(s, rank), s, rank, p)
<1>. DEFINE N == Len(s)
            P(i) == Before(s, rank, i)
            At(n) == CHOOSE i \in 1 .. N : Cardinality(P(i)) = n - 1
            p == [n \in 1 .. N |-> At(n)]
            f == [i \in 1 .. N |-> Cardinality(P(i)) + 1]
<1>1. N \in Nat /\ DOMAIN s = 1 .. N /\ IsFiniteSet(1 .. N) /\ Cardinality(1 .. N) = N
  BY FS_Interval
<1>2. StableSort(s, rank) = [n \in 1 .. N |-> s[At(n)]]
  <2>1. StableSort(s, rank) = [n \in DOMAIN s |-> s[CHOOSE i \in DOMAIN s :
            Cardinality({j \in DOMAIN s : Precedes(s, rank, j, i)}) = n - 1]]
    BY DEF StableSort, Precedes
  <2>. QED
    BY <1>1, <2>1 DEF Before
<1>3. \A i \in 1 .. N : ~Precedes(s, rank, i, i)
  BY DEF Precedes
<1>4. \A i, j \in 1 .. N : i # j => Precedes(s, rank, i, j) \/ Precedes(s, rank, j, i)
  BY DEF Precedes
<1>5. \A i, j, k \in 1 .. N : Precedes(s, rank, i, j) /\ Precedes(s, rank, j, k)
                                 => Precedes(s, rank, i, k)
  BY DEF Precedes
<1>6. \A i \in 1 .. N : /\ IsFiniteSet(P(i)) /\ Cardinality(P(i)) \in Nat
                        /\ Cardinality(P(i)) <= N - 1
  <2>. SUFFICES ASSUME NEW i \in 1 .. N
                PROVE  /\ IsFiniteSet(P(i)) /\ Cardinality(P(i)) \in Nat
                       /\ Cardinality(P(i)) <= N - 1
    OBVIOUS
  <2>1. P(i) \in SUBSET ((1 .. N) \ {i})
    BY <1>1, <1>3 DEF Before
  <2>2. IsFiniteSet((1 .. N) \ {i}) /\ Cardinality((1 .. N) \ {i}) = N - 1
    BY <1>1, FS_RemoveElement
  <2>3. IsFiniteSet(P(i)) /\ Cardinality(P(i)) <= Cardinality((1 .. N) \ {i})
    BY <2>1, <2>2, FS_Subset
  <2>. QED
    BY <2>2, <2>3, FS_CardinalityType
<1>7. ASSUME NEW i \in 1 .. N, NEW j \in 1 .. N, Precedes(s, rank, i, j)
      PROVE  Cardinality(P(i)) < Cardinality(P(j))
  <2>1. P(i) \in SUBSET P(j) /\ i \in P(j) /\ i \notin P(i)
    BY <1>1, <1>3, <1>5, <1>7 DEF Before
  <2>2. Cardinality(P(i)) <= Cardinality(P(j)) /\ Cardinality(P(j)) # Cardinality(P(i))
    BY <1>6, <2>1, FS_Subset
  <2>. QED
    BY <1>6, <2>2
<1>. HIDE DEF P
<1>8. f \in Injection(1 .. N, 1 .. N)
  <2>1. f \in [1 .. N -> 1 .. N]
    BY <1>1, <1>6
  <2>2. \A i, j \in 1 .. N : f[i] = f[j] => i = j
    <3>. SUFFICES ASSUME NEW i \in 1 .. N, NEW j \in 1 .. N, i # j PROVE f[i] # f[j]
      OBVIOUS
    <3>1. Cardinality(P(i)) # Cardinality(P(j))
      BY <1>4, <1>6, <1>7
    <3>. QED
      BY <1>6, <3>1
  <2>. HIDE DEF f
  <2>. QED
    BY <2>1, <2>2 DEF Injection, IsInjective
<1>9. f \in Surjection(1 .. N, 1 .. N)
  BY <1>1, <1>8, FS_Injection
<1>10. ASSUME NEW n \in 1 .. N
       PROVE  At(n) \in 1 .. N /\ Cardinality(P(At(n))) = n - 1
  <2>1. PICK i \in 1 .. N : f[i] = n
    BY <1>9 DEF Surjection
  <2>2. Cardinality(P(i)) = n - 1
    BY <1>6, <2>1
  <2>. QED
    BY <2>2
<1>11. p \in [1 .. N -> 1 .. N] /\ \A n \in 1 .. N : Cardinality(P(p[n])) = n - 1
  BY <1>10
<1>12. StableSort(s, rank) = [n \in 1 .. N |-> s[p[n]]]
  BY <1>2
<1>. HIDE DEF p, At
<1>13. \A i, j \in 1 .. N : p[i] = p[j] => i = j
  BY <1>11
<1>14. \A i \in 1 .. N : \E j \in 1 .. N : p[j] = i
  <2>1. p \in Injection(1 .. N, 1 .. N)
    BY <1>11, <1>13 DEF Injection, IsInjective
  <2>2. p \in Surjection(1 .. N, 1 .. N)
    BY <1>1, <2>1, FS_Injection
  <2>. QED
    BY <2>2 DEF Surjection
<1>15. ASSUME NEW i \in 1 .. N, NEW j \in 1 .. N, i < j PROVE Precedes(s, rank, p[i], p[j])
  <2>1. p[i] # p[j]
    BY <1>13, <1>15
  <2>2. ASSUME Precedes(s, rank, p[j], p[i]) PROVE FALSE
    <3>1. Cardinality(P(p[j])) < Cardinality(P(p[i]))
      BY <1>7, <1>11, <2>2
    <3>. QED
      BY <1>11, <1>15, <3>1
  <2>. QED
    BY <1>4, <1>11, <2>1, <2>2
<1>16. Sorts(StableSort(s, rank), s, rank, p)
  BY <1>11, <1>12, <1>13, <1>14, <1>15 DEF Sorts
<1>. QED
  BY <1>16

\* The sorted list has the elements of the other, each as often; the ranks rise.
SortOf(t, s, rank) ==
    /\ Len(t) = Len(s) /\ ToSet(t) = ToSet(s)
    /\ Once(s) => Once(t)
    /\ \A i, j \in 1 .. Len(t) : i < j => rank[t[i]] <= rank[t[j]]

LEMMA SortedIs ==
    ASSUME NEW T, NEW s \in Seq(T), NEW rank, \A i \in 1 .. Len(s) : rank[s[i]] \in Nat
    PROVE  StableSort(s, rank) \in Seq(T) /\ SortOf(StableSort(s, rank), s, rank)
<1>. DEFINE t == StableSort(s, rank)
            N == Len(s)
<1>1. PICK p : Sorts(t, s, rank, p)
  BY SortIs
<1>. HIDE DEF t
<1>2. N \in Nat /\ \A i \in 1 .. N : s[i] \in T
  OBVIOUS
<1>3. /\ p \in [1 .. N -> 1 .. N] /\ t = [n \in 1 .. N |-> s[p[n]]]
      /\ \A i, j \in 1 .. N : p[i] = p[j] => i = j
      /\ \A i \in 1 .. N : \E j \in 1 .. N : p[j] = i
      /\ \A i, j \in 1 .. N : i < j => Precedes(s, rank, p[i], p[j])
  BY <1>1 DEF Sorts
<1>4. ToSet(s) = {s[i] : i \in 1 .. N}
  BY SetIs
<1>5. Once(s) => \A i, j \in 1 .. N : s[i] = s[j] => i = j
  BY DEF Once
<1>. HIDE DEF N
<1>6. \A i \in 1 .. N : t[i] = s[p[i]] /\ p[i] \in 1 .. N /\ s[p[i]] \in T
  BY <1>2, <1>3
<1>7. t \in Seq(T) /\ Len(t) = N
  <2>1. t \in [1 .. N -> T]
    BY <1>3, <1>6
  <2>. HIDE DEF t
  <2>. QED
    BY <1>2, <2>1
<1>8. ToSet(t) = ToSet(s)
  <2>1. ToSet(t) = {t[i] : i \in 1 .. N}
    BY <1>7, SetIs
  <2>. QED
    BY <1>3, <1>4, <1>6, <2>1
<1>9. Once(s) => Once(t)
  <2>. SUFFICES ASSUME Once(s), NEW i \in 1 .. N, NEW j \in 1 .. N, t[i] = t[j]
                PROVE  i = j
    BY <1>7 DEF Once
  <2>1. p[i] = p[j]
    BY <1>5, <1>6
  <2>. QED
    BY <1>3, <2>1
<1>10. \A i, j \in 1 .. N : i < j => rank[t[i]] <= rank[t[j]]
  <2>. SUFFICES ASSUME NEW i \in 1 .. N, NEW j \in 1 .. N, i < j
                PROVE  rank[t[i]] <= rank[t[j]]
    OBVIOUS
  <2>1. Precedes(s, rank, p[i], p[j])
    BY <1>3
  <2>2. rank[s[p[i]]] \in Nat /\ rank[s[p[j]]] \in Nat
    BY <1>6 DEF N
  <2>. QED
    BY <1>6, <2>1, <2>2 DEF Precedes
<1>. QED
  BY <1>7, <1>8, <1>9, <1>10 DEF SortOf, t, N

\* Elements of equal rank stay as they are.
LEMMA SortSame ==
    ASSUME NEW T, NEW s \in Seq(T), NEW rank, NEW r \in Nat,
           \A i \in 1 .. Len(s) : rank[s[i]] = r
    PROVE  StableSort(s, rank) = s
<1>. DEFINE t == StableSort(s, rank)
            N == Len(s)
<1>1. PICK p : Sorts(t, s, rank, p)
  BY SortIs
<1>. HIDE DEF t
<1>2. N \in Nat /\ s = [n \in 1 .. N |-> s[n]]
  OBVIOUS
<1>3. /\ p \in [1 .. N -> 1 .. N] /\ t = [n \in 1 .. N |-> s[p[n]]]
      /\ \A i, j \in 1 .. N : i < j => Precedes(s, rank, p[i], p[j])
  BY <1>1 DEF Sorts
<1>4. \A i, j \in 1 .. N : i < j => p[i] < p[j]
  BY <1>3 DEF Precedes
<1>5. \A i \in 1 .. N : p[i] = i
  BY <1>2, <1>3, <1>4, RisingIsPlace
<1>. QED
  BY <1>2, <1>3, <1>5 DEF t

\* The rank of an element in a list is its first place there, or behind them all.
LEMMA FirstIs ==
    ASSUME NEW T, NEW list \in Seq(T), NEW x
    PROVE  /\ FirstIn(list, x) \in Nat
           /\ x \in ToSet(list) => /\ FirstIn(list, x) \in 1 .. Len(list)
                                   /\ list[FirstIn(list, x)] = x
           /\ x \notin ToSet(list) => FirstIn(list, x) = Len(list) + 1
<1>1. /\ ToSet(list) = {list[i] : i \in 1 .. Len(list)}
      /\ DOMAIN list = 1 .. Len(list) /\ Len(list) \in Nat
  BY SetIs
<1>2. CASE x \in ToSet(list)
  <2>. DEFINE S == {i \in 1 .. Len(list) : list[i] = x}
  <2>1. S \in SUBSET Nat /\ S # {}
    BY <1>1, <1>2
  <2>2. PICK i \in S : \A j \in S : i <= j
    BY <2>1, NatLeast
  <2>3. \A j \in 1 .. i - 1 : list[j] # x
    BY <1>1, <2>2
  <2>4. \E k \in DOMAIN list : list[k] = x /\ \A j \in 1 .. k - 1 : list[j] # x
    BY <1>1, <2>2, <2>3
  <2>5. FirstIn(list, x) = CHOOSE k \in DOMAIN list : list[k] = x /\ \A j \in 1 .. k - 1 : list[j] # x
    BY <1>1, <1>2 DEF FirstIn
  <2>6. FirstIn(list, x) \in DOMAIN list /\ list[FirstIn(list, x)] = x
    BY <2>4, <2>5
  <2>. QED
    BY <1>1, <1>2, <2>6
<1>3. CASE x \notin ToSet(list)
  BY <1>1, <1>3 DEF FirstIn
<1>. QED
  BY <1>2, <1>3

\* A list sorted along another one of the same elements is the other one.
LEMMA SortAlong ==
    ASSUME NEW T, NEW s \in Seq(T), Once(s), NEW chain \in Seq(T), Once(chain),
           ToSet(chain) = ToSet(s), NEW rank,
           \A i \in 1 .. Len(s) : rank[s[i]] = FirstIn(chain, s[i])
    PROVE  StableSort(s, rank) = chain
<1>. DEFINE t == StableSort(s, rank)
            N == Len(s)
            q == [i \in 1 .. N |-> FirstIn(chain, t[i])]
<1>1. \A i \in 1 .. Len(s) : rank[s[i]] \in Nat
  BY FirstIs
<1>2. t \in Seq(T) /\ SortOf(t, s, rank)
  BY <1>1, SortedIs
<1>. HIDE DEF t
<1>3. Len(chain) = N /\ N \in Nat
  BY OnceSize
<1>4. Len(t) = N /\ Once(t) /\ \A i, j \in 1 .. N : i < j => rank[t[i]] <= rank[t[j]]
  BY <1>2 DEF SortOf
<1>5. \A i \in 1 .. N : /\ rank[t[i]] = FirstIn(chain, t[i])
                        /\ FirstIn(chain, t[i]) \in 1 .. N /\ chain[FirstIn(chain, t[i])] = t[i]
  <2>. SUFFICES ASSUME NEW i \in 1 .. N
                PROVE  /\ rank[t[i]] = FirstIn(chain, t[i])
                       /\ FirstIn(chain, t[i]) \in 1 .. N /\ chain[FirstIn(chain, t[i])] = t[i]
    OBVIOUS
  <2>1. t[i] \in ToSet(t) /\ ToSet(t) = ToSet(s) /\ ToSet(s) = {s[j] : j \in 1 .. N}
    BY <1>2, <1>4, SetIs DEF SortOf
  <2>2. t[i] \in ToSet(chain)
    BY <2>1
  <2>3. PICK j \in 1 .. N : t[i] = s[j]
    BY <2>1
  <2>. QED
    BY <1>3, <2>2, <2>3, FirstIs
<1>6. q \in [1 .. N -> 1 .. N] /\ \A i \in 1 .. N : chain[q[i]] = t[i] /\ q[i] = rank[t[i]]
  BY <1>5
<1>. HIDE DEF q
<1>7. ASSUME NEW i \in 1 .. N, NEW j \in 1 .. N, i < j PROVE q[i] < q[j]
  <2>1. q[i] <= q[j]
    BY <1>4, <1>6, <1>7
  <2>2. t[i] # t[j]
    BY <1>4, <1>7 DEF Once
  <2>3. q[i] # q[j]
    BY <1>6, <2>2
  <2>. QED
    BY <1>6, <2>1, <2>3
<1>8. \A i \in 1 .. N : q[i] = i
  BY <1>3, <1>6, <1>7, RisingIsPlace
<1>9. t = chain
  BY <1>2, <1>3, <1>4, <1>6, <1>8
<1>. QED
  BY <1>9 DEF t

-----------------------------------------------------------------------------
(* The walk along links.                                                   *)

\* s goes from `first` along the links, within a set and not past `stop`.
IsPath(s, next, within, first, stop) ==
    /\ s \in Seq(within) /\ Once(s)
    /\ s # << >> => s[1] = first
    /\ \A i \in 1 .. Len(s) - 1 :
          /\ s[i] \in DOMAIN next /\ s[i] # stop
          /\ s[i + 1] = next[s[i]]

\* What a walk can go on to.
Ahead(path, next, within, first, stop) ==
    ((IF path = << >> THEN {first}
      ELSE {next[h] : h \in ({Last(path)} \cap DOMAIN next) \ {stop}})
        \cap within) \ ToSet(path)

Further(path, next, within, first, stop) ==
    LET to == Ahead(path, next, within, first, stop)
    IN IF to = {} THEN path ELSE Append(path, CHOOSE h \in to : TRUE)

\* The recursion of Walk.
Walks(f, next, within, first, stop) ==
    f = [n \in 0 .. Cardinality(within) |->
            IF n = 0 THEN << >> ELSE Further(f[n - 1], next, within, first, stop)]

LEMMA WalkDef ==
    ASSUME NEW next, NEW within, NEW first, NEW stop
    PROVE  Walk(next, within, first, stop) =
             (CHOOSE f : Walks(f, next, within, first, stop))[Cardinality(within)]
BY DEF Walk, Walks, Further, Ahead

LEMMA FurtherTyped ==
    ASSUME NEW next, NEW within, NEW first, NEW stop, NEW path \in Seq(within)
    PROVE  Further(path, next, within, first, stop) \in Seq(within)
<1>. DEFINE to == Ahead(path, next, within, first, stop)
<1>1. to \subseteq within
  BY DEF Ahead
<1>. HIDE DEF to
<1>2. to # {} => (CHOOSE h \in to : TRUE) \in within
  BY <1>1
<1>. QED
  BY <1>2 DEF Further, to

LEMMA WalkExists ==
    ASSUME NEW next, NEW within, IsFiniteSet(within), NEW first, NEW stop
    PROVE  \E f : Walks(f, next, within, first, stop)
<1>. DEFINE N == Cardinality(within)
            T == Seq(within)
            step == [q \in (1 .. N) \X T |-> Further(q[2], next, within, first, stop)]
<1>1. N \in Nat /\ << >> \in T
  BY FS_CardinalityType
<1>2. step \in [(1 .. N) \X T -> T]
  BY FurtherTyped
<1>3. \A n \in 1 .. N, p \in T : step[<<n, p>>] = Further(p, next, within, first, stop)
  OBVIOUS
<1>. HIDE DEF step, T
<1>4. PICK f \in [0 .. N -> T] : Solves(f, N, << >>, step)
  BY <1>1, <1>2, Recursion
<1>5. f[0] = << >> /\ \A n \in 1 .. N : f[n] = step[<<n, f[n - 1]>>]
  BY <1>1, <1>4 DEF Solves
<1>6. ASSUME NEW n \in 0 .. N
      PROVE  f[n] = IF n = 0 THEN << >> ELSE Further(f[n - 1], next, within, first, stop)
  <2>1. CASE n = 0
    BY <1>5, <2>1
  <2>2. CASE n # 0
    <3>1. n \in 1 .. N /\ n - 1 \in 0 .. N
      BY <1>1, <2>2
    <3>2. f[n - 1] \in T
      BY <1>4, <3>1
    <3>. QED
      BY <1>3, <1>5, <2>2, <3>1, <3>2
  <2>. QED
    BY <2>1, <2>2
<1>7. f = [n \in 0 .. N |->
              IF n = 0 THEN << >> ELSE Further(f[n - 1], next, within, first, stop)]
  BY <1>4, <1>6
<1>8. Walks(f, next, within, first, stop)
  BY <1>7 DEF Walks
<1>. QED
  BY <1>8

\* One more step of a walk.
Steps(new, path, to) ==
    /\ to = {} => new = path
    /\ \A x : to = {x} => new = Append(path, x)
    /\ to # {} => Len(new) = Len(path) + 1
    /\ \A i \in 1 .. Len(path) : new[i] = path[i]

LEMMA PathStep ==
    ASSUME NEW next, NEW within, NEW first, NEW stop, NEW path,
           IsPath(path, next, within, first, stop)
    PROVE  /\ IsPath(Further(path, next, within, first, stop), next, within, first, stop)
           /\ Steps(Further(path, next, within, first, stop), path,
                    Ahead(path, next, within, first, stop))
<1>. DEFINE to == Ahead(path, next, within, first, stop)
            new == Further(path, next, within, first, stop)
            x == CHOOSE h \in to : TRUE
<1>1. path \in Seq(within) /\ Len(path) \in Nat
  BY DEF IsPath
<1>2. new = IF to = {} THEN path ELSE Append(path, x)
  BY DEF Further
<1>3. to # {} => x \in to
  OBVIOUS
<1>4. \A y : to = {y} => x = y
  BY <1>3
<1>5. ASSUME to # {} PROVE IsPath(Append(path, x), next, within, first, stop)
  <2>1. x \in within /\ x \notin ToSet(path)
        /\ (path = << >> => x = first)
        /\ (path # << >> => x \in {next[h] : h \in ({Last(path)} \cap DOMAIN next) \ {stop}})
    BY <1>3, <1>5 DEF Ahead
  <2>. HIDE DEF x, to
  <2>2. Append(path, x) \in Seq(within) /\ Len(Append(path, x)) = Len(path) + 1
        /\ Append(path, x)[Len(path) + 1] = x
        /\ \A i \in 1 .. Len(path) : Append(path, x)[i] = path[i]
    BY <1>1, <2>1
  <2>3. \A i \in 1 .. Len(path) : path[i] \in ToSet(path)
    BY <1>1, SetIs
  <2>4. Once(Append(path, x))
    <3>. SUFFICES ASSUME NEW i \in 1 .. Len(path) + 1, NEW j \in 1 .. Len(path) + 1,
                         Append(path, x)[i] = Append(path, x)[j]
                  PROVE  i = j
      BY <2>2 DEF Once
    <3>1. \A k \in 1 .. Len(path) : path[k] # x
      BY <2>1, <2>3
    <3>2. \A k, l \in 1 .. Len(path) : path[k] = path[l] => k = l
      BY DEF IsPath, Once
    <3>3. (i \in 1 .. Len(path) \/ i = Len(path) + 1) /\ (j \in 1 .. Len(path) \/ j = Len(path) + 1)
      BY <1>1
    <3>. QED
      BY <2>2, <3>1, <3>2, <3>3
  <2>5. Append(path, x)[1] = first
    BY <1>1, <2>1, <2>2 DEF IsPath
  <2>6. ASSUME NEW i \in 1 .. (Len(path) + 1) - 1
        PROVE  /\ Append(path, x)[i] \in DOMAIN next /\ Append(path, x)[i] # stop
               /\ Append(path, x)[i + 1] = next[Append(path, x)[i]]
    <3>1. i \in 1 .. Len(path) /\ Append(path, x)[i] = path[i]
      BY <1>1, <2>2
    <3>2. CASE i < Len(path)
      <4>1. i \in 1 .. Len(path) - 1 /\ i + 1 \in 1 .. Len(path)
        BY <1>1, <3>1, <3>2
      <4>2. Append(path, x)[i + 1] = path[i + 1]
        BY <2>2, <4>1
      <4>. QED
        BY <3>1, <4>1, <4>2 DEF IsPath
    <3>3. CASE i = Len(path)
      <4>1. path # << >> /\ Last(path) = path[i]
        BY <1>1, <3>1, <3>3 DEF Last
      <4>2. PICK h \in ({Last(path)} \cap DOMAIN next) \ {stop} : x = next[h]
        BY <2>1, <4>1
      <4>. QED
        BY <2>2, <3>1, <3>3, <4>1, <4>2
    <3>. QED
      BY <1>1, <3>1, <3>2, <3>3
  <2>. QED
    BY <2>2, <2>4, <2>5, <2>6 DEF IsPath
<1>. HIDE DEF to, x
<1>6. CASE to = {}
  BY <1>1, <1>2, <1>6 DEF to, new, Steps
<1>7. CASE to # {}
  <2>1. x \in within
    BY <1>3, <1>7 DEF to, Ahead
  <2>2. Len(Append(path, x)) = Len(path) + 1
        /\ \A i \in 1 .. Len(path) : Append(path, x)[i] = path[i]
    BY <1>1, <2>1
  <2>. QED
    BY <1>2, <1>4, <1>5, <1>7, <2>2 DEF to, new, Steps
<1>. QED
  BY <1>6, <1>7

\* A walk goes as far as its links lead, and every path from its start is its
\* beginning.
WalkTo(path, n, next, within, first, stop) ==
    /\ IsPath(path, next, within, first, stop)
    /\ Len(path) <= n
    /\ Len(path) = n \/ Ahead(path, next, within, first, stop) = {}
    /\ \A s : IsPath(s, next, within, first, stop) =>
          \A i \in 1 .. Len(s) : i <= n => i <= Len(path) /\ path[i] = s[i]

LEMMA WalkStep ==
    ASSUME NEW next, NEW within, NEW first, NEW stop, NEW path, NEW n \in Nat,
           WalkTo(path, n, next, within, first, stop)
    PROVE  WalkTo(Further(path, next, within, first, stop), n + 1, next, within, first, stop)
<1>. DEFINE to == Ahead(path, next, within, first, stop)
            new == Further(path, next, within, first, stop)
<1>1. /\ IsPath(path, next, within, first, stop) /\ Len(path) <= n
      /\ Len(path) = n \/ to = {}
      /\ \A s : IsPath(s, next, within, first, stop) =>
            \A i \in 1 .. Len(s) : i <= n => i <= Len(path) /\ path[i] = s[i]
  BY DEF WalkTo
<1>2. /\ IsPath(new, next, within, first, stop)
      /\ to = {} => new = path
      /\ \A x : to = {x} => new = Append(path, x)
      /\ to # {} => Len(new) = Len(path) + 1
      /\ \A i \in 1 .. Len(path) : new[i] = path[i]
  <2>1. IsPath(new, next, within, first, stop) /\ Steps(new, path, to)
    BY <1>1, PathStep
  <2>. HIDE DEF to, new
  <2>. QED
    BY <2>1 DEF Steps
<1>3. path \in Seq(within) /\ Len(path) \in Nat
  BY <1>1 DEF IsPath
<1>. HIDE DEF to, new
<1>4. ASSUME NEW s, IsPath(s, next, within, first, stop), NEW i \in 1 .. Len(s), i <= n + 1
      PROVE  i <= Len(new) /\ new[i] = s[i]
  <2>1. s \in Seq(within) /\ Len(s) \in Nat
    BY <1>4 DEF IsPath
  <2>2. CASE i <= n
    <3>1. i <= Len(path) /\ path[i] = s[i]
      BY <1>1, <1>4, <2>2
    <3>2. Len(path) <= Len(new)
      BY <1>2, <1>3
    <3>3. Len(new) \in Nat
      BY <1>2 DEF IsPath
    <3>. QED
      BY <1>2, <1>3, <3>1, <3>2, <3>3
  <2>3. CASE i = n + 1
    <3>1. \A j \in 1 .. n : j <= Len(path) /\ path[j] = s[j]
      BY <1>1, <1>4, <2>1, <2>3
    <3>2. Len(path) = n
      <4>1. CASE n = 0
        BY <1>1, <1>3, <4>1
      <4>2. CASE n # 0
        <5>1. n \in 1 .. n
          BY <4>2
        <5>. QED
          BY <1>1, <1>3, <3>1, <5>1
      <4>. QED
        BY <4>1, <4>2
    <3>3. s[i] \in within
      BY <2>1
    <3>4. s[i] \notin ToSet(path)
      <4>1. ToSet(path) = {path[j] : j \in 1 .. n}
        BY <1>3, <3>2, SetIs
      <4>2. \A j \in 1 .. n : s[j] # s[i]
        BY <1>4, <2>1, <2>3 DEF IsPath, Once
      <4>. QED
        BY <3>1, <4>1, <4>2
    <3>5. to = {s[i]}
      <4>1. CASE n = 0
        <5>1. path = << >> /\ s # << >> /\ s[i] = first
          BY <1>3, <1>4, <2>1, <2>3, <3>2, <4>1 DEF IsPath
        <5>. QED
          BY <3>3, <3>4, <5>1 DEF to, Ahead
      <4>2. CASE n # 0
        <5>1. n \in 1 .. n /\ n \in 1 .. Len(s) - 1 /\ path # << >> /\ Last(path) = path[n]
          BY <1>3, <2>1, <2>3, <3>2, <4>2 DEF Last
        <5>2. path[n] = s[n]
          BY <3>1, <5>1
        <5>3. s[n] \in DOMAIN next /\ s[n] # stop /\ s[n + 1] = next[s[n]]
          BY <1>4, <5>1 DEF IsPath
        <5>4. ({Last(path)} \cap DOMAIN next) \ {stop} = {s[n]}
          BY <5>1, <5>2, <5>3
        <5>5. {next[h] : h \in ({Last(path)} \cap DOMAIN next) \ {stop}} = {s[i]}
          BY <2>3, <5>3, <5>4
        <5>. QED
          BY <3>3, <3>4, <5>1, <5>5 DEF to, Ahead
      <4>. QED
        BY <4>1, <4>2
    <3>6. new = Append(path, s[i])
      BY <1>2, <3>5
    <3>. QED
      BY <1>3, <2>3, <3>2, <3>3, <3>6
  <2>. QED
    BY <1>4, <2>1, <2>2, <2>3
<1>5. Len(new) <= n + 1 /\ (Len(new) = n + 1 \/ Ahead(new, next, within, first, stop) = {})
  <2>1. CASE to = {}
    BY <1>1, <1>2, <1>3, <2>1 DEF to
  <2>2. CASE to # {}
    BY <1>1, <1>2, <1>3, <2>2
  <2>. QED
    BY <2>1, <2>2
<1>6. WalkTo(new, n + 1, next, within, first, stop)
  BY <1>2, <1>4, <1>5 DEF WalkTo
<1>. QED
  BY <1>6 DEF new

\* A path that goes on to nothing, and that every path from its start begins.
IsWalk(walk, next, within, first, stop) ==
    /\ IsPath(walk, next, within, first, stop)
    /\ Ahead(walk, next, within, first, stop) = {}
    /\ \A s : IsPath(s, next, within, first, stop) =>
          \A i \in 1 .. Len(s) : i <= Len(walk) /\ walk[i] = s[i]

LEMMA WalkIs ==
    ASSUME NEW next, NEW within, IsFiniteSet(within), NEW first, NEW stop
    PROVE  IsWalk(Walk(next, within, first, stop), next, within, first, stop)
<1>. DEFINE N == Cardinality(within)
            f == CHOOSE g : Walks(g, next, within, first, stop)
            walk == Walk(next, within, first, stop)
<1>1. N \in Nat
  BY FS_CardinalityType
<1>2. Walks(f, next, within, first, stop)
  BY WalkExists
<1>3. walk = f[N]
  BY WalkDef
<1>. HIDE DEF f, walk
<1>. DEFINE F == [n \in 0 .. N |->
                    IF n = 0 THEN << >> ELSE Further(f[n - 1], next, within, first, stop)]
<1>4. f = F
  BY <1>2 DEF Walks
<1>5. \A n \in 0 .. N : F[n] = IF n = 0 THEN << >>
                               ELSE Further(f[n - 1], next, within, first, stop)
  OBVIOUS
<1>. HIDE DEF F
<1>. DEFINE P == {n \in Nat : n <= N => WalkTo(f[n], n, next, within, first, stop)}
<1>6. 0 \in P
  <2>1. f[0] = << >>
    BY <1>1, <1>4, <1>5
  <2>2. IsPath(<< >>, next, within, first, stop)
    BY DEF IsPath, Once
  <2>3. WalkTo(<< >>, 0, next, within, first, stop)
    BY <2>2 DEF WalkTo
  <2>. QED
    BY <2>1, <2>3
<1>7. ASSUME NEW n \in Nat, n \in P PROVE n + 1 \in P
  <2>. SUFFICES ASSUME n + 1 <= N PROVE WalkTo(f[n + 1], n + 1, next, within, first, stop)
    OBVIOUS
  <2>1. WalkTo(f[n], n, next, within, first, stop)
    BY <1>1, <1>7
  <2>2. n + 1 \in 0 .. N /\ n + 1 # 0 /\ (n + 1) - 1 = n
    BY <1>1
  <2>3. f[n + 1] = Further(f[n], next, within, first, stop)
    BY <1>4, <1>5, <2>2
  <2>4. WalkTo(Further(f[n], next, within, first, stop), n + 1, next, within, first, stop)
    BY <2>1, WalkStep
  <2>. QED
    BY <2>3, <2>4
<1>. HIDE DEF P
<1>8. Nat \subseteq P
  BY <1>6, <1>7, NatSetInduction
<1>9. WalkTo(walk, N, next, within, first, stop)
  BY <1>1, <1>3, <1>8 DEF P
<1>10. IsPath(walk, next, within, first, stop)
  BY <1>9 DEF WalkTo
<1>11. walk \in Seq(within) /\ Once(walk)
  BY <1>10 DEF IsPath
<1>12. Ahead(walk, next, within, first, stop) = {}
  <2>1. CASE Len(walk) = N
    <3>1. ToSet(walk) = within
      BY <1>11, <2>1, OnceFull
    <3>. QED
      BY <3>1 DEF Ahead
  <2>. QED
    BY <1>9, <2>1 DEF WalkTo
<1>13. ASSUME NEW s, IsPath(s, next, within, first, stop), NEW i \in 1 .. Len(s)
       PROVE  i <= Len(walk) /\ walk[i] = s[i]
  <2>1. s \in Seq(within) /\ Once(s)
    BY <1>13 DEF IsPath
  <2>2. ToSet(s) \in SUBSET within /\ Cardinality(ToSet(s)) = Len(s)
    BY <2>1, SetIs, OnceSize
  <2>3. Len(s) <= N
    BY <2>2, FS_Subset
  <2>4. i <= N
    BY <1>1, <2>1, <2>3
  <2>. QED
    BY <1>9, <1>13, <2>4 DEF WalkTo
<1>. QED
  BY <1>10, <1>12, <1>13 DEF walk, IsWalk

-----------------------------------------------------------------------------
(* The vertices of a polyline along their links.                           *)

IsOrder(s, among) ==
    /\ s \in Seq(among) /\ Len(s) = Cardinality(among) /\ Once(s) /\ ToSet(s) = among
    /\ \A i \in 1 .. Len(s) : s[i] # Null
    /\ \A i \in 1 .. Len(s) - 1 : LinkOf(s[i]) = s[i + 1]

LEMMA OrderIs ==
    ASSUME NEW among, IsFiniteSet(among)
    PROVE  \A s : s \in LinkedOrders(among) <=> IsOrder(s, among)
<1>. DEFINE N == Cardinality(among)
<1>1. N \in Nat
  BY FS_CardinalityType
<1>2. ASSUME NEW s \in LinkedOrders(among) PROVE IsOrder(s, among)
  <2>1. /\ s \in [1 .. N -> among]
        /\ \A i, j \in DOMAIN s : s[i] = s[j] => i = j
        /\ \A i \in DOMAIN s : s[i] # Null
        /\ \A i \in 1 .. Len(s) - 1 : LinkOf(s[i]) = s[i + 1]
    BY DEF LinkedOrders
  <2>2. s \in Seq(among) /\ Len(s) = N /\ DOMAIN s = 1 .. N
    BY <1>1, <2>1
  <2>. HIDE DEF N
  <2>3. Once(s)
    BY <2>1, <2>2 DEF Once
  <2>4. ToSet(s) = among
    BY <2>2, <2>3, OnceFull DEF N
  <2>. QED
    BY <2>1, <2>2, <2>3, <2>4 DEF IsOrder, N
<1>3. ASSUME NEW s, IsOrder(s, among) PROVE s \in LinkedOrders(among)
  <2>1. s \in Seq(among) /\ Len(s) = N
    BY <1>3 DEF IsOrder
  <2>2. s \in [1 .. N -> among] /\ DOMAIN s = 1 .. Len(s)
    BY <2>1
  <2>3. /\ \A i, j \in DOMAIN s : s[i] = s[j] => i = j
        /\ \A i \in DOMAIN s : s[i] # Null
        /\ \A i \in 1 .. Len(s) - 1 : LinkOf(s[i]) = s[i + 1]
    BY <1>3, <2>2 DEF IsOrder, Once
  <2>. QED
    BY <2>2, <2>3 DEF LinkedOrders
<1>. QED
  BY <1>2, <1>3

\* Links that are those of the vertices.
LinksAmong(next, among) ==
    /\ among \subseteq DOMAIN next
    /\ \A v \in among : next[v] = LinkOf(v)
HeadsOf(next, among) == among \ {next[v] : v \in among \cap DOMAIN next}

\* What no vertex links to comes first in an order, which then is a path.
LEMMA OrderFromHead ==
    ASSUME NEW among, NEW next, LinksAmong(next, among), NEW s, IsOrder(s, among),
           NEW v \in HeadsOf(next, among)
    PROVE  s[1] = v /\ IsPath(s, next, among, v, Null)
<1>1. /\ s \in Seq(among) /\ Len(s) \in Nat /\ Once(s)
      /\ ToSet(s) = {s[i] : i \in 1 .. Len(s)} /\ v \in among
      /\ v \in ToSet(s)
  BY SetIs DEF IsOrder, HeadsOf
<1>2. PICK k \in 1 .. Len(s) : s[k] = v
  BY <1>1
<1>3. ASSUME k # 1 PROVE FALSE
  <2>1. k - 1 \in 1 .. Len(s) - 1 /\ k - 1 \in 1 .. Len(s) /\ (k - 1) + 1 = k
    BY <1>1, <1>2, <1>3
  <2>2. s[k - 1] \in among /\ LinkOf(s[k - 1]) = s[k]
    BY <1>1, <2>1 DEF IsOrder
  <2>3. next[s[k - 1]] = v /\ s[k - 1] \in among \cap DOMAIN next
    BY <1>2, <2>2 DEF LinksAmong
  <2>. QED
    BY <2>3 DEF HeadsOf
<1>4. s[1] = v
  BY <1>2, <1>3
<1>5. ASSUME NEW i \in 1 .. Len(s) - 1
      PROVE  s[i] \in DOMAIN next /\ s[i] # Null /\ s[i + 1] = next[s[i]]
  <2>1. i \in 1 .. Len(s) /\ s[i] \in among
    BY <1>1
  <2>. QED
    BY <2>1 DEF IsOrder, LinksAmong
<1>6. IsPath(s, next, among, v, Null)
  BY <1>1, <1>4, <1>5 DEF IsPath
<1>. QED
  BY <1>4, <1>6

\* A path that has them all is an order.
LEMMA PathIsOrder ==
    ASSUME NEW among, IsFiniteSet(among), Null \notin among,
           NEW next, LinksAmong(next, among), NEW v, NEW s,
           IsPath(s, next, among, v, Null), Len(s) = Cardinality(among)
    PROVE  IsOrder(s, among)
<1>1. s \in Seq(among) /\ Once(s) /\ Len(s) \in Nat
  BY DEF IsPath
<1>2. ToSet(s) = among
  BY <1>1, OnceFull
<1>3. \A i \in 1 .. Len(s) : s[i] \in among
  BY <1>1
<1>4. \A i \in 1 .. Len(s) : s[i] # Null
  BY <1>3
<1>5. \A i \in 1 .. Len(s) - 1 : LinkOf(s[i]) = s[i + 1]
  <2>. SUFFICES ASSUME NEW i \in 1 .. Len(s) - 1 PROVE LinkOf(s[i]) = s[i + 1]
    OBVIOUS
  <2>1. i \in 1 .. Len(s) /\ s[i] \in among /\ s[i + 1] = next[s[i]]
    BY <1>1, <1>3 DEF IsPath
  <2>. QED
    BY <2>1 DEF LinksAmong
<1>. QED
  BY <1>1, <1>2, <1>4, <1>5 DEF IsOrder

\* Two orders from one head are the same.
LEMMA OrderUnique ==
    ASSUME NEW among, IsFiniteSet(among), NEW next, LinksAmong(next, among), NEW s,
           NEW t, IsOrder(s, among), IsOrder(t, among), NEW v \in HeadsOf(next, among)
    PROVE  s = t
<1>. DEFINE walk == Walk(next, among, v, Null)
<1>1. IsPath(s, next, among, v, Null) /\ IsPath(t, next, among, v, Null)
  BY OrderFromHead
<1>2. IsWalk(walk, next, among, v, Null)
  BY WalkIs
<1>. HIDE DEF walk
<1>3. /\ \A i \in 1 .. Len(s) : walk[i] = s[i]
      /\ \A i \in 1 .. Len(t) : walk[i] = t[i]
  BY <1>1, <1>2 DEF IsWalk
<1>4. s \in Seq(among) /\ t \in Seq(among) /\ Len(s) = Len(t)
  BY DEF IsOrder
<1>. QED
  BY <1>3, <1>4

\* When every vertex is linked to, an order goes round, and is not the only one.
LEMMA OrderTurns ==
    ASSUME NEW among, IsFiniteSet(among), NEW next, LinksAmong(next, among), NEW s,
           IsOrder(s, among), HeadsOf(next, among) = {}, Len(s) >= 2
    PROVE  \E t : IsOrder(t, among) /\ t # s
<1>. DEFINE N == Len(s)
            t == [i \in 1 .. N |-> IF i = N THEN s[1] ELSE s[i + 1]]
<1>1. /\ s \in Seq(among) /\ N \in Nat /\ N >= 2 /\ Once(s) /\ N = Cardinality(among)
      /\ ToSet(s) = {s[i] : i \in 1 .. N} /\ ToSet(s) = among
  BY SetIs DEF IsOrder
<1>2. /\ \A i, j \in 1 .. N : s[i] = s[j] => i = j
      /\ \A i \in 1 .. N : s[i] \in among /\ s[i] # Null
      /\ \A i \in 1 .. N - 1 : LinkOf(s[i]) = s[i + 1]
  BY <1>1 DEF Once, IsOrder
<1>. HIDE DEF N
<1>3. LinkOf(s[N]) = s[1]
  <2>1. s[1] \in among
    BY <1>1, <1>2
  <2>2. s[1] \in {next[v] : v \in among \cap DOMAIN next}
    BY <2>1 DEF HeadsOf
  <2>3. PICK v \in among : s[1] = LinkOf(v)
    BY <2>2 DEF LinksAmong
  <2>4. PICK k \in 1 .. N : s[k] = v
    BY <1>1, <2>3
  <2>5. CASE k # N
    <3>1. k \in 1 .. N - 1 /\ k + 1 \in 1 .. N /\ 1 \in 1 .. N /\ k + 1 # 1
      BY <1>1, <2>5
    <3>. QED
      BY <1>2, <2>3, <2>4, <3>1
  <2>. QED
    BY <2>3, <2>4, <2>5
<1>4. /\ t \in [1 .. N -> among]
      /\ \A i \in 1 .. N : t[i] = IF i = N THEN s[1] ELSE s[i + 1]
  <2>1. \A i \in 1 .. N : 1 \in 1 .. N /\ (i # N => i + 1 \in 1 .. N)
    BY <1>1
  <2>. QED
    BY <1>2, <2>1
<1>5. t \in Seq(among) /\ Len(t) = N
  <2>. HIDE DEF t
  <2>. QED
    BY <1>1, <1>4
<1>. HIDE DEF t
<1>6. ASSUME NEW i \in 1 .. N, NEW j \in 1 .. N, t[i] = t[j] PROVE i = j
  <2>1. 1 \in 1 .. N /\ (i # N => i + 1 \in 1 .. N /\ i + 1 # 1)
        /\ (j # N => j + 1 \in 1 .. N /\ j + 1 # 1)
    BY <1>1
  <2>2. CASE i = N /\ j = N
    BY <2>2
  <2>3. CASE i = N /\ j # N
    <3>1. s[1] = s[j + 1]
      BY <1>4, <1>6, <2>3
    <3>. QED
      BY <1>2, <2>1, <2>3, <3>1
  <2>4. CASE i # N /\ j = N
    <3>1. s[i + 1] = s[1]
      BY <1>4, <1>6, <2>4
    <3>. QED
      BY <1>2, <2>1, <2>4, <3>1
  <2>5. CASE i # N /\ j # N
    <3>1. s[i + 1] = s[j + 1]
      BY <1>4, <1>6, <2>5
    <3>2. i + 1 = j + 1
      BY <1>2, <2>1, <2>5, <3>1
    <3>. QED
      BY <3>2
  <2>. QED
    BY <2>2, <2>3, <2>4, <2>5
<1>7. Once(t)
  BY <1>5, <1>6 DEF Once
<1>8. ToSet(t) = among
  BY <1>1, <1>5, <1>7, OnceFull
<1>9. \A i \in 1 .. N : t[i] # Null
  <2>1. \A i \in 1 .. N : 1 \in 1 .. N /\ (i # N => i + 1 \in 1 .. N)
    BY <1>1
  <2>. QED
    BY <1>2, <1>4, <2>1
<1>10. ASSUME NEW i \in 1 .. N - 1 PROVE LinkOf(t[i]) = t[i + 1]
  <2>1. i \in 1 .. N /\ i # N /\ i + 1 \in 1 .. N
    BY <1>1
  <2>2. t[i] = s[i + 1]
    BY <1>4, <2>1
  <2>3. CASE i + 1 = N
    <3>1. t[i + 1] = s[1]
      BY <1>4, <2>1, <2>3
    <3>. QED
      BY <1>3, <2>2, <2>3, <3>1
  <2>4. CASE i + 1 # N
    <3>1. t[i + 1] = s[(i + 1) + 1] /\ i + 1 \in 1 .. N - 1
      BY <1>1, <1>4, <2>1, <2>4
    <3>. QED
      BY <1>2, <2>2, <3>1
  <2>. QED
    BY <2>3, <2>4
<1>11. IsOrder(t, among)
  BY <1>1, <1>5, <1>7, <1>8, <1>9, <1>10 DEF IsOrder
<1>12. t # s
  <2>1. 1 \in 1 .. N /\ 1 # N /\ 1 + 1 \in 1 .. N /\ 1 + 1 # 1
    BY <1>1
  <2>2. t[1] = s[1 + 1]
    BY <1>4, <2>1
  <2>3. s[1 + 1] # s[1]
    BY <1>2, <2>1
  <2>. QED
    BY <2>2, <2>3
<1>. QED
  BY <1>11, <1>12

\* s is the only order there is.
OnlyOrder(s, among) == \A t : IsOrder(t, among) <=> t = s

\* The code's chain is the only order there is, or gives the vertices as they
\* are, which is then no worse than several orders or none.
LEMMA ChainIs ==
    ASSUME NEW verts \in Seq(Nat), Once(verts), verts # << >>,
           NEW next, LinksAmong(next, ToSet(verts))
    PROVE  LET among == ToSet(verts)
               chain == VertexChain(verts, next)
           IN \/ /\ IsOrder(chain, among)
                 /\ \A s : IsOrder(s, among) => s = chain
              \/ /\ chain = << >>
                 /\ \A s : OnlyOrder(s, among) => s = verts
<1>. DEFINE among == ToSet(verts)
            heads == HeadsOf(next, among)
            v == CHOOSE h \in heads : TRUE
            walk == Walk(next, among, v, Null)
            chain == VertexChain(verts, next)
            N == Len(verts)
<1>1. N \in Nat \ {0} /\ IsFiniteSet(among) /\ Cardinality(among) = N
      /\ among = {verts[i] : i \in 1 .. N} /\ among # {}
  <2>1. N \in Nat /\ among = {verts[i] : i \in 1 .. N}
    BY SetIs
  <2>2. N # 0
    OBVIOUS
  <2>3. verts[1] \in among
    BY <2>1, <2>2
  <2>. QED
    BY <2>1, <2>2, <2>3, OnceSize
<1>2. chain = IF /\ DOMAIN next # {} /\ Null \notin among /\ Cardinality(among) = Len(verts)
                 /\ Cardinality(heads) = 1 /\ Len(walk) = Len(verts)
              THEN walk ELSE << >>
  BY DEF VertexChain, HeadsOf
<1>3. DOMAIN next # {}
  BY <1>1 DEF LinksAmong
<1>4. IsPath(walk, next, among, v, Null)
      /\ \A s : IsPath(s, next, among, v, Null) =>
            \A i \in 1 .. Len(s) : i <= Len(walk) /\ walk[i] = s[i]
  <2>1. IsWalk(walk, next, among, v, Null)
    BY <1>1, WalkIs
  <2>. HIDE DEF walk
  <2>. QED
    BY <2>1 DEF IsWalk
<1>5. walk \in Seq(among) /\ Len(walk) \in Nat /\ Once(walk) /\ LinksAmong(next, among)
  BY <1>4 DEF IsPath
<1>6. Len(walk) <= N
  <2>1. ToSet(walk) \in SUBSET among /\ Cardinality(ToSet(walk)) = Len(walk)
    BY <1>5, SetIs, OnceSize
  <2>. HIDE DEF among, walk, N
  <2>. QED
    BY <1>1, <2>1, FS_Subset
<1>7. Cardinality(heads) = 1 => heads = {v} /\ v \in heads
  <2>1. heads \in SUBSET among /\ IsFiniteSet(heads)
    BY <1>1, FS_Subset DEF HeadsOf
  <2>. HIDE DEF heads
  <2>2. Cardinality(heads) = 1 => \E x : heads = {x}
    BY <2>1, FS_Singleton
  <2>. QED
    BY <2>2
<1>. HIDE DEF among, heads, v, walk, N, chain
<1>8. CASE Null \notin among /\ Cardinality(heads) = 1 /\ Len(walk) = N
  <2>1. chain = walk
    BY <1>1, <1>2, <1>3, <1>8 DEF N
  <2>2. IsOrder(walk, among)
    BY <1>1, <1>4, <1>5, <1>8, PathIsOrder
  <2>3. v \in HeadsOf(next, among)
    BY <1>7, <1>8 DEF heads
  <2>4. \A s : IsOrder(s, among) => s = walk
    BY <1>1, <1>5, <2>2, <2>3, OrderUnique
  <2>. QED
    BY <2>1, <2>2, <2>4 DEF among, chain
<1>9. CASE ~(Null \notin among /\ Cardinality(heads) = 1 /\ Len(walk) = N)
  <2>1. chain = << >>
    BY <1>2, <1>9 DEF N
  <2>2. ASSUME NEW s, OnlyOrder(s, among) PROVE s = verts
    <3>1. IsOrder(s, among)
      BY <2>2 DEF OnlyOrder
    <3>2. s \in Seq(among) /\ Len(s) = N /\ ToSet(s) = among
          /\ \A i \in 1 .. Len(s) : s[i] # Null
      BY <1>1, <3>1 DEF IsOrder
    <3>3. Null \notin among
      <4>1. among = {s[i] : i \in 1 .. N}
        BY <3>2, SetIs
      <4>. QED
        BY <3>2, <4>1
    <3>4. ASSUME heads # {} PROVE FALSE
      <4>1. \A w \in heads : w = s[1] /\ IsPath(s, next, among, w, Null)
        BY <1>5, <3>1, OrderFromHead DEF heads
      <4>2. heads = {s[1]}
        BY <3>4, <4>1
      <4>3. Cardinality(heads) = 1 /\ v = s[1] /\ v \in heads
        <5>1. IsFiniteSet(heads) /\ Cardinality(heads) = 1
          BY <4>2, FS_Singleton
        <5>. QED
          BY <1>7, <4>2, <5>1
      <4>4. IsPath(s, next, among, v, Null)
        BY <4>1, <4>3
      <4>5. N <= Len(walk)
        <5>1. N \in 1 .. Len(s)
          BY <1>1, <3>2
        <5>. QED
          BY <1>4, <4>4, <5>1
      <4>. QED
        BY <1>1, <1>5, <1>6, <1>9, <3>3, <4>3, <4>5
    <3>5. N < 2
      <4>1. ASSUME N >= 2 PROVE FALSE
        <5>1. HeadsOf(next, among) = {} /\ Len(s) >= 2
          BY <3>2, <3>4, <4>1 DEF heads
        <5>2. PICK t : IsOrder(t, among) /\ t # s
          <6>1. IsFiniteSet(among) /\ LinksAmong(next, among) /\ IsOrder(s, among)
            BY <1>1, <1>5, <3>1
          <6>. QED
            BY <5>1, <6>1, OrderTurns
        <5>. QED
          BY <2>2, <5>2 DEF OnlyOrder
      <4>. QED
        BY <1>1, <4>1
    <3>6. N = 1
      BY <1>1, <3>5
    <3>7. s[1] = verts[1]
      <4>1. s[1] \in among
        <5>1. \A i \in 1 .. Len(s) : s[i] \in among
          BY <3>2
        <5>2. 1 \in 1 .. Len(s)
          BY <3>2, <3>6
        <5>. QED
          BY <5>1, <5>2
      <4>. QED
        BY <1>1, <3>6, <4>1
    <3>. QED
      BY <3>2, <3>6, <3>7 DEF N
  <2>. QED
    BY <2>1, <2>2 DEF among, chain
<1>. QED
  BY <1>8, <1>9

\* There are finitely many lists of one length.
LEMMA ListsFinite ==
    ASSUME NEW n \in Nat, NEW T, IsFiniteSet(T)
    PROVE  IsFiniteSet([1 .. n -> T])
<1>. DEFINE S == [1 .. n -> T]
            pairs == (1 .. n) \X T
            graph == [f \in S |-> {<<i, f[i]>> : i \in 1 .. n}]
<1>1. IsFiniteSet(1 .. n)
  BY FS_Interval
<1>2. IsFiniteSet(pairs)
  BY <1>1, FS_Product
<1>3. IsFiniteSet(SUBSET pairs)
  BY <1>2, FS_SUBSET
<1>4. graph \in [S -> SUBSET pairs]
  <2>1. \A f \in S : {<<i, f[i]>> : i \in 1 .. n} \in SUBSET pairs
    OBVIOUS
  <2>. QED
    BY <2>1
<1>5. ASSUME NEW f \in S, NEW g \in S, graph[f] = graph[g] PROVE f = g
  <2>1. {<<i, f[i]>> : i \in 1 .. n} = {<<i, g[i]>> : i \in 1 .. n}
    BY <1>5
  <2>2. ASSUME NEW i \in 1 .. n PROVE f[i] = g[i]
    <3>1. <<i, f[i]>> \in {<<j, g[j]>> : j \in 1 .. n}
      BY <2>1
    <3>2. PICK j \in 1 .. n : <<i, f[i]>> = <<j, g[j]>>
      BY <3>1
    <3>. QED
      BY <3>2
  <2>. QED
    BY <2>2
<1>. HIDE DEF graph, S, pairs
<1>6. graph \in Injection(S, SUBSET pairs)
  BY <1>4, <1>5 DEF Injection, IsInjective
<1>. QED
  BY <1>3, <1>6, FS_Injection DEF S

LinksFor(next, verts) ==
    /\ file.r2004 => DOMAIN next = {}
    /\ ~file.r2004 => LinksAmong(next, ToSet(verts))
OrdersOf(verts) == IF file.r2004 THEN {} ELSE LinkedOrders(ToSet(verts))

\* The vertices of a polyline with a list come in its order, those it does not
\* name last; without one in the one order their links give, or as they are.
InOrder(kids, verts, owned) ==
    /\ kids \in Seq(Nat) /\ Once(kids) /\ ToSet(kids) = ToSet(verts)
    /\ owned # << >> =>
          \A i, j \in 1 .. Len(kids) : i < j => FirstIn(owned, kids[i]) <= FirstIn(owned, kids[j])
    /\ owned = << >> =>
          kids = IF Cardinality(OrdersOf(verts)) = 1 THEN CHOOSE s \in OrdersOf(verts) : TRUE
                 ELSE verts

LEMMA OrderedIs ==
    ASSUME NEW verts \in Seq(Nat), Once(verts), NEW owned \in Seq(Nat),
           NEW next, LinksFor(next, verts)
    PROVE  InOrder(OrderedVertices(verts, owned, next), verts, owned)
<1>. DEFINE kids == OrderedVertices(verts, owned, next)
            chain == VertexChain(verts, next)
            order == IF owned # << >> THEN owned ELSE chain
            among == ToSet(verts)
            rank == [v \in among |-> FirstIn(order, v)]
            orders == OrdersOf(verts)
<1>1. kids = StableSort(verts, rank)
  BY DEF OrderedVertices
<1>2. among \subseteq Nat /\ among = {verts[i] : i \in 1 .. Len(verts)} /\ IsFiniteSet(among)
  BY SetIs, OnceSize
<1>3. \A i \in 1 .. Len(verts) : verts[i] \in among /\ rank[verts[i]] = FirstIn(order, verts[i])
  BY <1>2
<1>. HIDE DEF kids, rank, chain, among
<1>4. CASE owned # << >>
  <2>1. \A x : FirstIn(owned, x) \in Nat
    BY FirstIs
  <2>2. order = owned
    BY <1>4
  <2>. HIDE DEF order
  <2>3. \A i \in 1 .. Len(verts) : rank[verts[i]] \in Nat
    BY <1>3, <2>1, <2>2
  <2>4. kids \in Seq(Nat) /\ SortOf(kids, verts, rank)
    BY <1>1, <2>3, SortedIs
  <2>5. Once(kids) /\ ToSet(kids) = among
    BY <2>4 DEF SortOf, among
  <2>6. ASSUME NEW i \in 1 .. Len(kids), NEW j \in 1 .. Len(kids), i < j
        PROVE  FirstIn(owned, kids[i]) <= FirstIn(owned, kids[j])
    <3>1. rank[kids[i]] <= rank[kids[j]]
      BY <2>4, <2>6 DEF SortOf
    <3>2. kids[i] \in among /\ kids[j] \in among
      BY <2>4, <2>5, SetIs
    <3>. QED
      BY <2>2, <3>1, <3>2 DEF rank
  <2>. QED
    BY <1>4, <2>4, <2>5, <2>6 DEF InOrder, among, kids
<1>5. CASE owned = << >>
  <2>1. order = chain
    BY <1>5
  <2>. HIDE DEF order
  <2>2. CASE chain = << >>
    <3>1. \A x : FirstIn(<< >>, x) = 1
      BY DEF FirstIn
    <3>2. \A i \in 1 .. Len(verts) : rank[verts[i]] = 1
      BY <1>3, <2>1, <2>2, <3>1
    <3>3. kids = verts
      BY <1>1, <3>2, SortSame
    <3>4. \A s : orders = {s} => s = verts
      <4>1. CASE file.r2004
        BY <4>1 DEF OrdersOf
      <4>2. CASE ~file.r2004
        <5>1. orders = LinkedOrders(among) /\ \A s : s \in LinkedOrders(among) <=> IsOrder(s, among)
          BY <1>2, <4>2, OrderIs DEF OrdersOf, among
        <5>2. CASE verts = << >>
          <6>1. \A s : IsOrder(s, among) => s = << >>
            <7>1. among = {}
              BY <1>2, <5>2
            <7>2. Cardinality(among) = 0
              BY <7>1, FS_EmptySet
            <7>. QED
              BY <7>2 DEF IsOrder
          <6>. QED
            BY <5>1, <5>2, <6>1
        <5>3. CASE verts # << >>
          <6>1. LinksAmong(next, among)
            BY <4>2 DEF LinksFor, among
          <6>2. \/ IsOrder(chain, among)
                \/ \A s : OnlyOrder(s, among) => s = verts
            BY <5>3, <6>1, ChainIs DEF among, chain
          <6>3. ~IsOrder(chain, among)
            <7>1. Cardinality(among) # 0
              <8>1. 1 \in 1 .. Len(verts)
                BY <5>3
              <8>2. verts[1] \in among
                BY <1>3, <8>1
              <8>. QED
                BY <1>2, <8>2, FS_EmptySet
            <7>. QED
              BY <2>2, <7>1 DEF IsOrder
          <6>4. ASSUME NEW s, orders = {s} PROVE s = verts
            <7>. HIDE DEF orders
            <7>1. OnlyOrder(s, among)
              BY <5>1, <6>4 DEF OnlyOrder
            <7>. QED
              BY <6>2, <6>3, <7>1
          <6>. QED
            BY <6>4
        <5>. QED
          BY <5>2, <5>3
      <4>. QED
        BY <4>1, <4>2
    <3>5. ASSUME Cardinality(orders) = 1 PROVE (CHOOSE s \in orders : TRUE) = verts
      <4>1. IsFiniteSet(orders)
        <5>1. CASE file.r2004
          BY <5>1, FS_EmptySet DEF OrdersOf
        <5>2. CASE ~file.r2004
          <6>. DEFINE N == Cardinality(among)
          <6>1. N \in Nat /\ IsFiniteSet(1 .. N)
            BY <1>2, FS_CardinalityType, FS_Interval
          <6>2. IsFiniteSet([1 .. N -> among])
            BY <1>2, <6>1, ListsFinite
          <6>3. orders \in SUBSET [1 .. N -> among]
            BY <5>2 DEF OrdersOf, LinkedOrders, among
          <6>. QED
            BY <6>2, <6>3, FS_Subset
        <5>. QED
          BY <5>1, <5>2
      <4>. HIDE DEF orders
      <4>2. PICK s : orders = {s}
        BY <3>5, <4>1, FS_Singleton
      <4>. QED
        BY <3>4, <4>2
    <3>. QED
      BY <1>5, <3>3, <3>5 DEF InOrder, kids
  <2>3. CASE chain # << >>
    <3>1. ~file.r2004
      <4>1. DOMAIN next = {} => chain = << >>
        BY DEF chain, VertexChain
      <4>. QED
        BY <2>3, <4>1 DEF LinksFor
    <3>2. LinksAmong(next, among)
      BY <3>1 DEF LinksFor, among
    <3>3. verts # << >>
      <4>1. ASSUME verts = << >> PROVE FALSE
        <5>1. Len(verts) = 0
          BY <4>1
        <5>2. Len(chain) = 0 /\ chain \in Seq(among)
          <6>1. chain = << >> \/ (Len(chain) = Len(verts) /\ \E f : IsPath(chain, next, among, f, Null))
            <7>. DEFINE first == CHOOSE v \in HeadsOf(next, among) : TRUE
                        walk == Walk(next, among, first, Null)
            <7>1. IsWalk(walk, next, among, first, Null)
              BY <1>2, WalkIs
            <7>2. chain = << >> \/ (chain = walk /\ Len(walk) = Len(verts))
              BY DEF chain, VertexChain, HeadsOf, among
            <7>. HIDE DEF walk
            <7>. QED
              BY <7>1, <7>2 DEF IsWalk
          <6>. QED
            BY <2>3, <5>1, <6>1 DEF IsPath
        <5>. QED
          BY <2>3, <5>2
      <4>. QED
        BY <4>1
    <3>4. IsOrder(chain, among) /\ \A s : IsOrder(s, among) => s = chain
      BY <2>3, <3>2, <3>3, ChainIs DEF among, chain
    <3>5. chain \in Seq(Nat) /\ Once(chain) /\ ToSet(chain) = ToSet(verts)
      BY <1>2, <3>4 DEF IsOrder, among
    <3>6. \A i \in 1 .. Len(verts) : rank[verts[i]] = FirstIn(chain, verts[i])
      BY <1>3, <2>1
    <3>7. kids = chain
      BY <1>1, <3>5, <3>6, SortAlong
    <3>8. orders = {chain}
      <4>1. \A s : s \in LinkedOrders(among) <=> IsOrder(s, among)
        BY <1>2, OrderIs
      <4>2. orders = LinkedOrders(among)
        BY <3>1 DEF OrdersOf, among
      <4>. HIDE DEF orders
      <4>. QED
        BY <3>4, <4>1, <4>2
    <3>. HIDE DEF orders
    <3>9. Cardinality(orders) = 1 /\ (CHOOSE s \in orders : TRUE) = chain
      BY <3>8, FS_Singleton
    <3>. QED
      BY <1>5, <3>5, <3>7, <3>9 DEF InOrder, kids, orders
  <2>. QED
    BY <2>2, <2>3
<1>. QED
  BY <1>4, <1>5

\* The vertices of the kind their polyline takes.
Fits(s) == Kept(s, {v \in ToSet(s) : Recorded(v).kind = "vertex"})

KidsGood(kids, verts, owned) ==
    /\ Len(kids) = Len(Fits(verts)) /\ ToSet(kids) = ToSet(Fits(verts))
    /\ owned # << >> => Follows(kids, owned)
    /\ owned = << >> =>
          kids = Fits(IF Cardinality(OrdersOf(verts)) = 1 THEN CHOOSE s \in OrdersOf(verts) : TRUE
                      ELSE verts)

\* Fitting ones are found among the elements, in their order.
LEMMA FitsIs ==
    ASSUME NEW s \in Seq(Nat), Once(s)
    PROVE  /\ Fits(s) \in Seq(Nat) /\ Once(Fits(s))
           /\ ToSet(Fits(s)) = {v \in ToSet(s) : Recorded(v).kind = "vertex"}
           /\ \A i, j \in 1 .. Len(Fits(s)) : i < j =>
                 \E p, q \in 1 .. Len(s) : p < q /\ Fits(s)[i] = s[p] /\ Fits(s)[j] = s[q]
<1>. DEFINE set == {v \in ToSet(s) : Recorded(v).kind = "vertex"}
            t == Kept(s, set)
<1>1. t = Fits(s)
  BY DEF Fits
<1>2. t \in Seq(Nat) /\ Once(t) /\ PartOf(t, s, set)
  BY KeptTyped, KeptOnce, KeptOrder
<1>3. ToSet(s) = {s[i] : i \in 1 .. Len(s)}
  BY SetIs
<1>. HIDE DEF t
<1>4. ToSet(t) = {t[i] : i \in 1 .. Len(t)}
  BY <1>2, SetIs
<1>5. set \subseteq ToSet(s)
  OBVIOUS
<1>. HIDE DEF set
<1>6. ToSet(t) = set
  <2>1. ASSUME NEW v \in set PROVE v \in ToSet(t)
    <3>1. PICK p \in 1 .. Len(s) : v = s[p]
      BY <1>3, <1>5, <2>1
    <3>2. PICK i \in 1 .. Len(t) : t[i] = v
      BY <1>2, <2>1, <3>1 DEF PartOf
    <3>. QED
      BY <1>4, <3>2
  <2>2. \A i \in 1 .. Len(t) : t[i] \in set
    BY <1>2 DEF PartOf
  <2>. QED
    BY <1>4, <2>1, <2>2
<1>7. \A i, j \in 1 .. Len(t) : i < j =>
         \E p, q \in 1 .. Len(s) : p < q /\ t[i] = s[p] /\ t[j] = s[q]
  BY <1>2 DEF PartOf
<1>. QED
  BY <1>1, <1>2, <1>6, <1>7 DEF set

LEMMA FitsInOrder ==
    ASSUME NEW verts \in Seq(Nat), Once(verts), NEW owned \in Seq(Nat), NEW all,
           InOrder(all, verts, owned)
    PROVE  KidsGood(Fits(all), verts, owned)
<1>. DEFINE kids == Fits(all)
            ours == Fits(verts)
<1>1. all \in Seq(Nat) /\ Once(all) /\ ToSet(all) = ToSet(verts)
  BY DEF InOrder
<1>2. /\ kids \in Seq(Nat) /\ Once(kids)
      /\ ToSet(kids) = {v \in ToSet(all) : Recorded(v).kind = "vertex"}
      /\ \A i, j \in 1 .. Len(kids) : i < j =>
            \E p, q \in 1 .. Len(all) : p < q /\ kids[i] = all[p] /\ kids[j] = all[q]
  BY <1>1, FitsIs
<1>3. /\ ours \in Seq(Nat) /\ Once(ours)
      /\ ToSet(ours) = {v \in ToSet(verts) : Recorded(v).kind = "vertex"}
  BY FitsIs
<1>. HIDE DEF kids, ours
<1>4. ToSet(kids) = ToSet(ours)
  BY <1>1, <1>2, <1>3
<1>5. Len(kids) = Len(ours)
  BY <1>2, <1>3, <1>4, OnceSize
<1>6. ASSUME owned # << >> PROVE Follows(kids, owned)
  <2>1. DOMAIN kids = 1 .. Len(kids)
    BY <1>2
  <2>. SUFFICES ASSUME NEW i \in 1 .. Len(kids), NEW j \in 1 .. Len(kids), i < j,
                       kids[j] \in ToSet(owned)
                PROVE  /\ kids[i] \in ToSet(owned)
                       /\ FirstIn(owned, kids[i]) <= FirstIn(owned, kids[j])
    BY <2>1 DEF Follows
  <2>2. PICK p \in 1 .. Len(all), q \in 1 .. Len(all) :
           p < q /\ kids[i] = all[p] /\ kids[j] = all[q]
    BY <1>2
  <2>3. FirstIn(owned, kids[i]) <= FirstIn(owned, kids[j])
    BY <1>6, <2>2 DEF InOrder
  <2>4. FirstIn(owned, kids[j]) <= Len(owned)
    BY FirstIs
  <2>5. FirstIn(owned, kids[i]) \in Nat /\ FirstIn(owned, kids[j]) \in Nat
        /\ (kids[i] \notin ToSet(owned) => FirstIn(owned, kids[i]) = Len(owned) + 1)
    BY FirstIs
  <2>6. Len(owned) \in Nat
    OBVIOUS
  <2>. QED
    BY <2>3, <2>4, <2>5, <2>6
<1>7. owned = << >> =>
         kids = Fits(IF Cardinality(OrdersOf(verts)) = 1 THEN CHOOSE s \in OrdersOf(verts) : TRUE
                     ELSE verts)
  BY DEF InOrder, kids
<1>. QED
  BY <1>4, <1>5, <1>6, <1>7 DEF KidsGood, kids, ours

-----------------------------------------------------------------------------
(* The rows of a chunk: by owner, the children that name it.               *)

FileOk ==
    /\ file.records \in Seq(Record)
    /\ \A k, l \in Places : file.records[k].handle = file.records[l].handle => k = l

At(map, h) == IF h \in DOMAIN map THEN map[h] ELSE << >>

\* A handle that is pushed comes last in its row.
LEMMA PushedAt ==
    ASSUME NEW map, NEW key, NEW value, NEW h
    PROVE  At(Pushed(map, key, value), h) =
              IF h = key THEN Append(At(map, key), value) ELSE At(map, h)
BY DEF At, Pushed, With, Extended

\* The rows of two chunks join.
LEMMA JoinedAt ==
    ASSUME NEW map, NEW later, NEW h
    PROVE  At(Joined(map, later), h) = At(map, h) \o At(later, h)
<1>1. << >> \o << >> = << >>
  OBVIOUS
<1>. DEFINE x == At(map, h)
            y == At(later, h)
<1>2. h \in DOMAIN map \cup DOMAIN later => At(Joined(map, later), h) = x \o y
  BY DEF At, Joined
<1>3. h \notin DOMAIN map \cup DOMAIN later => At(Joined(map, later), h) = << >> /\ x = << >> /\ y = << >>
  BY DEF At, Joined
<1>. QED
  BY <1>1, <1>2, <1>3

\* A handle is taken out of every row.
LEMMA WithoutAt ==
    ASSUME NEW map, NEW x, NEW h
    PROVE  At(Without(map, x), h) = Kept(At(map, h), ToSet(At(map, h)) \ {x})
<1>1. << >> \in Seq({}) /\ ToSet(<< >>) = {}
  BY DEF ToSet
<1>2. Kept(<< >>, ToSet(<< >>) \ {x}) = << >>
  BY <1>1, KeptEmpty
<1>. QED
  BY <1>2 DEF At, Without

\* A row that is taken away.
LEMMA LessAt ==
    ASSUME NEW map, NEW keys, NEW h
    PROVE  At(Less(map, keys), h) = IF h \in keys THEN << >> ELSE At(map, h)
BY DEF At, Less

\* A list keeps what is in it.
LEMMA KeptWhole ==
    ASSUME NEW T, NEW s \in Seq(T), NEW set, \A i \in 1 .. Len(s) : s[i] \in set
    PROVE  Kept(s, set) = s
<1>. DEFINE P == {t \in Seq(T) : Kept(t, T) = t}
<1>1. << >> \in P
  BY KeptEmpty
<1>2. ASSUME NEW t \in Seq(T), NEW x \in T, t \in P PROVE Append(t, x) \in P
  BY <1>2, KeptAppend
<1>. HIDE DEF P
<1>3. Seq(T) \subseteq P
  BY <1>1, <1>2, SeqSetInduction
<1>4. Kept(s, T) = s
  BY <1>3 DEF P
<1>5. \A i \in 1 .. Len(s) : s[i] \in T /\ s[i] \in set
  OBVIOUS
<1>6. Kept(s, set) = Kept(s, T)
  BY <1>5, KeptSame
<1>. QED
  BY <1>4, <1>6

\* The last of a list is taken out again, or one that is not in it.
LEMMA KeptButOne ==
    ASSUME NEW T, NEW s \in Seq(T), NEW x \in T, \A i \in 1 .. Len(s) : s[i] # x
    PROVE  /\ Kept(s, ToSet(s) \ {x}) = s
           /\ Kept(Append(s, x), ToSet(Append(s, x)) \ {x}) = s
<1>1. \A i \in 1 .. Len(s) : s[i] \in ToSet(s) \ {x}
  BY SetIs
<1>2. Kept(s, ToSet(s) \ {x}) = s
  BY <1>1, KeptWhole
<1>. DEFINE t == Append(s, x)
            set == ToSet(t) \ {x}
<1>3. t \in Seq(T) /\ Len(t) = Len(s) + 1 /\ \A i \in 1 .. Len(s) : t[i] = s[i]
  OBVIOUS
<1>. HIDE DEF t
<1>4. \A i \in 1 .. Len(s) : s[i] \in ToSet(t) \ {x}
  <2>1. \A i \in 1 .. Len(t) : t[i] \in ToSet(t)
    BY <1>3, SetIs
  <2>. QED
    BY <1>3, <2>1
<1>. HIDE DEF set
<1>5. x \notin set /\ \A i \in 1 .. Len(s) : s[i] \in set
  BY <1>4 DEF set
<1>6. Kept(t, set) = Kept(s, set)
  BY <1>5, KeptAppend DEF t
<1>7. Kept(s, set) = s
  BY <1>5, KeptWhole
<1>. QED
  BY <1>2, <1>6, <1>7 DEF t, set

\* Two lists, one after the other.
Both(x, s, t, T) ==
    /\ x \in Seq(T) /\ Len(x) = Len(s) + Len(t)
    /\ \A i \in 1 .. Len(s) : x[i] = s[i]
    /\ \A i \in Len(s) + 1 .. Len(s) + Len(t) : x[i] = t[i - Len(s)]

LEMMA BothIs ==
    ASSUME NEW T, NEW s \in Seq(T), NEW t \in Seq(T)
    PROVE  Both(s \o t, s, t, T)
BY DEF Both

Vertices == {"vertex", "stray"}
RowSet(h, kinds) == {r \in Record : r.fault = "none" /\ r.kind \in kinds /\ r.owner = h}

\* The children of these kinds that the records after the first a, up to b, have.
Row(a, b, h, kinds) == RecordHandles(Kept(SubSeq(file.records, a + 1, b), RowSet(h, kinds)))

\* The handles of records.
LEMMA HandlesAre ==
    ASSUME NEW s \in Seq(Record)
    PROVE  /\ RecordHandles(s) \in Seq(Nat) /\ Len(RecordHandles(s)) = Len(s)
           /\ \A i \in 1 .. Len(s) : RecordHandles(s)[i] = s[i].handle
           /\ \A r \in Record : RecordHandles(Append(s, r)) = Append(RecordHandles(s), r.handle)
           /\ \A t \in Seq(Record) : RecordHandles(s \o t) = RecordHandles(s) \o RecordHandles(t)
<1>1. ASSUME NEW t \in Seq(Record)
      PROVE  /\ RecordHandles(t) \in Seq(Nat) /\ Len(RecordHandles(t)) = Len(t)
             /\ \A i \in 1 .. Len(t) : RecordHandles(t)[i] = t[i].handle
  <2>1. DOMAIN t = 1 .. Len(t) /\ Len(t) \in Nat /\ \A i \in 1 .. Len(t) : t[i] \in Record
    OBVIOUS
  <2>2. \A r \in Record : r.handle \in Nat
    BY DEF Record
  <2>3. RecordHandles(t) \in [1 .. Len(t) -> Nat]
        /\ \A i \in 1 .. Len(t) : RecordHandles(t)[i] = t[i].handle
    BY <2>1, <2>2 DEF RecordHandles
  <2>. QED
    BY <2>1, <2>3
<1>2. ASSUME NEW r \in Record
      PROVE  RecordHandles(Append(s, r)) = Append(RecordHandles(s), r.handle)
  <2>. DEFINE t == Append(s, r)
              u == RecordHandles(s)
              v == RecordHandles(t)
              w == Append(u, r.handle)
  <2>1. t \in Seq(Record) /\ Len(t) = Len(s) + 1 /\ t[Len(s) + 1] = r
        /\ \A i \in 1 .. Len(s) : t[i] = s[i]
    OBVIOUS
  <2>. HIDE DEF t
  <2>2. /\ u \in Seq(Nat) /\ Len(u) = Len(s) /\ \A i \in 1 .. Len(s) : u[i] = s[i].handle
        /\ v \in Seq(Nat) /\ Len(v) = Len(s) + 1 /\ \A i \in 1 .. Len(s) + 1 : v[i] = t[i].handle
    BY <1>1, <2>1
  <2>. HIDE DEF u, v
  <2>3. r.handle \in Nat /\ Len(s) \in Nat
    BY DEF Record
  <2>4. w \in Seq(Nat) /\ Len(w) = Len(s) + 1 /\ w[Len(s) + 1] = r.handle
        /\ \A i \in 1 .. Len(s) : w[i] = u[i]
    BY <2>2, <2>3
  <2>. HIDE DEF w
  <2>5. ASSUME NEW i \in 1 .. Len(s) + 1 PROVE v[i] = w[i]
    <3>1. v[i] = t[i].handle
      BY <2>2
    <3>2. CASE i \in 1 .. Len(s)
      BY <2>1, <2>2, <2>4, <3>1, <3>2
    <3>3. CASE i = Len(s) + 1
      BY <2>1, <2>4, <3>1, <3>3
    <3>. QED
      BY <2>3, <3>2, <3>3
  <2>6. v = w
    BY <2>2, <2>4, <2>5
  <2>. QED
    BY <2>6 DEF t, u, v, w
<1>3. ASSUME NEW t \in Seq(Record)
      PROVE  RecordHandles(s \o t) = RecordHandles(s) \o RecordHandles(t)
  <2>. DEFINE st == s \o t
              u == RecordHandles(s)
              v == RecordHandles(t)
              w == RecordHandles(st)
              x == u \o v
  <2>1. /\ st \in Seq(Record) /\ Len(st) = Len(s) + Len(t) /\ Len(s) \in Nat /\ Len(t) \in Nat
        /\ \A i \in 1 .. Len(s) : st[i] = s[i]
        /\ \A i \in Len(s) + 1 .. Len(s) + Len(t) : st[i] = t[i - Len(s)]
    OBVIOUS
  <2>. HIDE DEF st
  <2>2. /\ u \in Seq(Nat) /\ Len(u) = Len(s) /\ \A i \in 1 .. Len(s) : u[i] = s[i].handle
        /\ v \in Seq(Nat) /\ Len(v) = Len(t) /\ \A i \in 1 .. Len(t) : v[i] = t[i].handle
        /\ w \in Seq(Nat) /\ Len(w) = Len(s) + Len(t)
        /\ \A i \in 1 .. Len(s) + Len(t) : w[i] = st[i].handle
    BY <1>1, <2>1
  <2>. HIDE DEF u, v, w
  <2>3. /\ x \in Seq(Nat) /\ Len(x) = Len(s) + Len(t)
        /\ \A i \in 1 .. Len(s) : x[i] = u[i]
        /\ \A i \in Len(s) + 1 .. Len(s) + Len(t) : x[i] = v[i - Len(s)]
    <3>1. Both(x, u, v, Nat)
      BY <2>2, BothIs
    <3>. HIDE DEF x
    <3>. QED
      BY <2>1, <2>2, <3>1 DEF Both
  <2>. HIDE DEF x
  <2>4. ASSUME NEW i \in 1 .. Len(s) + Len(t) PROVE w[i] = x[i]
    <3>1. CASE i \in 1 .. Len(s)
      BY <2>1, <2>2, <2>3, <3>1
    <3>2. CASE i \in Len(s) + 1 .. Len(s) + Len(t)
      <4>1. i - Len(s) \in 1 .. Len(t)
        BY <2>1, <3>2
      <4>. QED
        BY <2>1, <2>2, <2>3, <3>2, <4>1
    <3>. QED
      BY <2>1, <3>1, <3>2
  <2>5. w = x
    BY <2>2, <2>3, <2>4
  <2>. QED
    BY <2>5 DEF st, u, v, w, x
<1>. QED
  BY <1>1, <1>2, <1>3

\* A row names records of its part, each once.
LEMMA RowIs ==
    ASSUME FileOk, NEW a \in Nat, NEW b \in Nat, a <= b, b <= Len(file.records),
           NEW h, NEW kinds
    PROVE  /\ Row(a, b, h, kinds) \in Seq(Nat) /\ Once(Row(a, b, h, kinds))
           /\ \A i \in 1 .. Len(Row(a, b, h, kinds)) : \E k \in a + 1 .. b :
                 /\ file.records[k] \in RowSet(h, kinds)
                 /\ Row(a, b, h, kinds)[i] = file.records[k].handle
<1>. DEFINE u == SubSeq(file.records, a + 1, b)
            t == Kept(u, RowSet(h, kinds))
            row == Row(a, b, h, kinds)
<1>1. file.records \in Seq(Record) /\ Len(file.records) \in Nat
  BY DEF FileOk
<1>2. u \in Seq(Record) /\ Len(u) = b - a /\ \A i \in 1 .. b - a : u[i] = file.records[a + i]
  BY <1>1
<1>. HIDE DEF u
<1>3. t \in Seq(Record) /\ PartOf(t, u, RowSet(h, kinds))
  BY <1>2, KeptTyped, KeptOrder
<1>4. row = RecordHandles(t)
  BY DEF Row, u
<1>. HIDE DEF t, row
<1>5. row \in Seq(Nat) /\ Len(row) = Len(t) /\ \A i \in 1 .. Len(t) : row[i] = t[i].handle
  BY <1>3, <1>4, HandlesAre
<1>6. ASSUME NEW i \in 1 .. Len(row)
      PROVE  \E k \in a + 1 .. b : /\ file.records[k] \in RowSet(h, kinds)
                                   /\ row[i] = file.records[k].handle
  <2>1. t[i] \in RowSet(h, kinds) /\ \E p \in 1 .. Len(u) : u[p] = t[i]
    BY <1>3, <1>5 DEF PartOf
  <2>2. PICK p \in 1 .. Len(u) : u[p] = t[i]
    BY <2>1
  <2>3. a + p \in a + 1 .. b /\ file.records[a + p] = t[i]
    BY <1>2, <2>2
  <2>. QED
    BY <1>5, <2>1, <2>3
<1>7. ASSUME NEW i \in 1 .. Len(row), NEW j \in 1 .. Len(row), i < j PROVE row[i] # row[j]
  <2>1. PICK p, q \in 1 .. Len(u) : p < q /\ u[p] = t[i] /\ u[q] = t[j]
    BY <1>3, <1>5, <1>7 DEF PartOf
  <2>2. /\ a + p \in Places /\ a + q \in Places /\ a + p # a + q
        /\ file.records[a + p] = t[i] /\ file.records[a + q] = t[j]
    BY <1>1, <1>2, <2>1 DEF Places
  <2>3. file.records[a + p].handle # file.records[a + q].handle
    BY <2>2 DEF FileOk
  <2>. QED
    BY <1>5, <2>2, <2>3
<1>8. Once(row)
  <2>. SUFFICES ASSUME NEW i \in 1 .. Len(row), NEW j \in 1 .. Len(row), row[i] = row[j]
                PROVE  i = j
    BY DEF Once
  <2>. QED
    BY <1>5, <1>7
<1>. QED
  BY <1>5, <1>6, <1>8 DEF row

\* No record, no row.
LEMMA RowEmpty ==
    ASSUME FileOk, NEW a \in Nat, NEW h, NEW kinds
    PROVE  Row(a, a, h, kinds) = << >>
<1>1. SubSeq(file.records, a + 1, a) = << >>
  BY DEF FileOk
<1>2. Kept(<< >>, RowSet(h, kinds)) = << >>
  BY KeptEmpty
<1>3. RecordHandles(<< >>) = << >>
  BY DEF RecordHandles
<1>. QED
  BY <1>1, <1>2, <1>3 DEF Row

\* One record more.
RowGrown(a, b, k, h, kinds) ==
    Row(a, k, h, kinds) = IF file.records[k] \in RowSet(h, kinds)
                          THEN Append(Row(a, b, h, kinds), file.records[k].handle)
                          ELSE Row(a, b, h, kinds)

LEMMA RowGrows ==
    ASSUME FileOk, NEW a \in Nat, NEW b \in Nat, a <= b, NEW k \in Places, k = b + 1,
           NEW h, NEW kinds
    PROVE  RowGrown(a, b, k, h, kinds)
<1>. DEFINE u == SubSeq(file.records, a + 1, b)
            v == SubSeq(file.records, a + 1, k)
            r == file.records[k]
            t == Kept(u, RowSet(h, kinds))
<1>1. file.records \in Seq(Record) /\ k \in 1 .. Len(file.records) /\ b <= Len(file.records)
      /\ k <= Len(file.records) /\ Len(file.records) \in Nat
  BY DEF FileOk, Places
<1>2. r \in Record
  BY <1>1
<1>3. u \in Seq(Record) /\ Len(u) = b - a /\ \A i \in 1 .. b - a : u[i] = file.records[a + i]
  BY <1>1
<1>4. v \in Seq(Record) /\ Len(v) = k - a /\ \A i \in 1 .. k - a : v[i] = file.records[a + i]
  BY <1>1
<1>. HIDE DEF u, v
<1>5. v = Append(u, r)
  <2>. DEFINE w == Append(u, r)
  <2>1. w \in Seq(Record) /\ Len(w) = k - a /\ w[k - a] = r
        /\ \A i \in 1 .. b - a : w[i] = u[i]
    BY <1>2, <1>3
  <2>. HIDE DEF w
  <2>2. \A i \in 1 .. k - a : i \in 1 .. b - a \/ (i = k - a /\ a + i = k)
    OBVIOUS
  <2>3. \A i \in 1 .. k - a : v[i] = w[i]
    BY <1>3, <1>4, <2>1, <2>2
  <2>4. v = w
    BY <1>4, <2>1, <2>3
  <2>. QED
    BY <2>4 DEF w
<1>. HIDE DEF r
<1>6. Kept(v, RowSet(h, kinds)) = IF r \in RowSet(h, kinds) THEN Append(t, r) ELSE t
  BY <1>2, <1>3, <1>5, KeptAppend
<1>7. t \in Seq(Record)
  BY <1>3, KeptTyped
<1>. HIDE DEF t
<1>8. RecordHandles(Append(t, r)) = Append(RecordHandles(t), r.handle)
  BY <1>2, <1>7, HandlesAre
<1>. QED
  BY <1>6, <1>8 DEF Row, RowGrown, u, v, r, t

\* Two parts.
LEMMA RowJoin ==
    ASSUME FileOk, NEW a \in Nat, NEW b \in Nat, NEW c \in Nat, a <= b, b <= c,
           c <= Len(file.records), NEW h, NEW kinds
    PROVE  Row(a, c, h, kinds) = Row(a, b, h, kinds) \o Row(b, c, h, kinds)
<1>. DEFINE u == SubSeq(file.records, a + 1, b)
            v == SubSeq(file.records, b + 1, c)
            w == SubSeq(file.records, a + 1, c)
            set == RowSet(h, kinds)
<1>1. file.records \in Seq(Record) /\ Len(file.records) \in Nat /\ b <= Len(file.records)
  BY DEF FileOk
<1>2. u \in Seq(Record) /\ Len(u) = b - a /\ \A i \in 1 .. b - a : u[i] = file.records[a + i]
  BY <1>1
<1>3. v \in Seq(Record) /\ Len(v) = c - b /\ \A i \in 1 .. c - b : v[i] = file.records[b + i]
  BY <1>1
<1>4. w \in Seq(Record) /\ Len(w) = c - a /\ \A i \in 1 .. c - a : w[i] = file.records[a + i]
  BY <1>1
<1>. HIDE DEF u, v, w
<1>5. w = u \o v
  <2>. DEFINE x == u \o v
  <2>1. /\ x \in Seq(Record) /\ Len(x) = c - a
        /\ \A i \in 1 .. b - a : x[i] = u[i]
        /\ \A i \in (b - a) + 1 .. c - a : x[i] = v[i - (b - a)]
    <3>1. Both(x, u, v, Record)
      BY <1>2, <1>3, BothIs
    <3>2. b - a = Len(u) /\ c - a = Len(u) + Len(v)
      BY <1>2, <1>3
    <3>. HIDE DEF x
    <3>. QED
      BY <1>2, <1>3, <3>1, <3>2 DEF Both
  <2>. HIDE DEF x
  <2>2. ASSUME NEW i \in 1 .. c - a PROVE w[i] = x[i]
    <3>1. CASE i \in 1 .. b - a
      BY <1>2, <1>4, <2>1, <3>1
    <3>2. CASE i \in (b - a) + 1 .. c - a
      <4>1. i - (b - a) \in 1 .. c - b /\ b + (i - (b - a)) = a + i
        BY <3>2
      <4>. QED
        BY <1>3, <1>4, <2>1, <3>2, <4>1
    <3>. QED
      BY <3>1, <3>2
  <2>3. w = x
    BY <1>4, <2>1, <2>2
  <2>. QED
    BY <2>3 DEF x
<1>. HIDE DEF set
<1>6. Kept(w, set) = Kept(u, set) \o Kept(v, set)
  BY <1>2, <1>3, <1>5, KeptJoin
<1>7. Kept(u, set) \in Seq(Record) /\ Kept(v, set) \in Seq(Record)
  BY <1>2, <1>3, KeptTyped
<1>8. RecordHandles(Kept(u, set) \o Kept(v, set))
        = RecordHandles(Kept(u, set)) \o RecordHandles(Kept(v, set))
  BY <1>7, HandlesAre
<1>. QED
  BY <1>6, <1>8 DEF Row, u, v, w, set

-----------------------------------------------------------------------------
(* The list of a block and its chain.                                      *)

\* The last place of an element in a list, or a place behind them all.
LEMMA LastIs ==
    ASSUME NEW T, NEW list \in Seq(T), NEW x
    PROVE  /\ LastIn(list, x) \in Nat
           /\ x \in ToSet(list) => LastIn(list, x) <= Len(list)
           /\ x \notin ToSet(list) => LastIn(list, x) = Len(list) + 1
<1>. DEFINE N == Len(list)
<1>1. ToSet(list) = {list[i] : i \in 1 .. N} /\ DOMAIN list = 1 .. N /\ N \in Nat
  BY SetIs
<1>2. CASE x \in ToSet(list)
  <2>. DEFINE S == {i \in 1 .. N : list[i] = x}
  <2>1. S \in SUBSET (1 .. N) /\ S # {}
    BY <1>1, <1>2
  <2>2. PICK k \in S : \A j \in S : j <= k
    BY <1>1, <2>1, NatGreatest
  <2>3. \A j \in k + 1 .. N : list[j] # x
    BY <1>1, <2>2
  <2>4. k \in DOMAIN list /\ list[k] = x
    BY <1>1, <2>2
  <2>. HIDE DEF N
  <2>5. LastIn(list, x) = CHOOSE i \in DOMAIN list : list[i] = x /\ \A j \in i + 1 .. N : list[j] # x
    BY <2>4 DEF LastIn, N
  <2>6. LastIn(list, x) \in 1 .. N
    BY <1>1, <2>3, <2>4, <2>5
  <2>. QED
    BY <1>1, <1>2, <2>6 DEF N
<1>3. CASE x \notin ToSet(list)
  BY <1>1, <1>3 DEF LastIn
<1>. QED
  BY <1>2, <1>3

\* Sorted by their last places, the elements follow a list.
LEMMA SortLast ==
    ASSUME NEW T, NEW s \in Seq(T), NEW U, NEW list \in Seq(U), NEW rank,
           \A i \in 1 .. Len(s) : rank[s[i]] = LastIn(list, s[i])
    PROVE  FollowsLast(StableSort(s, rank), list)
<1>. DEFINE t == StableSort(s, rank)
<1>1. \A i \in 1 .. Len(s) : rank[s[i]] \in Nat
  BY LastIs
<1>2. t \in Seq(T) /\ SortOf(t, s, rank)
  BY <1>1, SortedIs
<1>. HIDE DEF t
<1>3. ToSet(s) = {s[i] : i \in 1 .. Len(s)} /\ ToSet(t) = {t[i] : i \in 1 .. Len(t)}
      /\ DOMAIN t = 1 .. Len(t)
  BY <1>2, SetIs
<1>4. \A i \in 1 .. Len(t) : rank[t[i]] = LastIn(list, t[i])
  <2>1. \A i \in 1 .. Len(t) : t[i] \in ToSet(s)
    BY <1>2, <1>3 DEF SortOf
  <2>2. \A x \in ToSet(s) : rank[x] = LastIn(list, x)
    BY <1>3
  <2>. QED
    BY <2>1, <2>2
<1>5. ASSUME NEW i \in 1 .. Len(t), NEW j \in 1 .. Len(t), i < j, t[j] \in ToSet(list)
      PROVE  t[i] \in ToSet(list) /\ LastIn(list, t[i]) <= LastIn(list, t[j])
  <2>1. LastIn(list, t[i]) <= LastIn(list, t[j])
    BY <1>2, <1>4, <1>5 DEF SortOf
  <2>2. LastIn(list, t[j]) <= Len(list) /\ Len(list) \in Nat
    BY <1>5, LastIs
  <2>3. LastIn(list, t[i]) \in Nat /\ (t[i] \notin ToSet(list) => LastIn(list, t[i]) = Len(list) + 1)
    BY LastIs
  <2>4. LastIn(list, t[j]) \in Nat
    BY LastIs
  <2>. QED
    BY <2>1, <2>2, <2>3, <2>4
<1>. QED
  BY <1>3, <1>5 DEF FollowsLast, t

\* part begins chain and ends before the first handle that is not in set.
Begins(part, chain, set) ==
    /\ Once(chain) /\ Len(part) <= Len(chain)
    /\ \A i \in 1 .. Len(part) : part[i] = chain[i] /\ part[i] \in set
    /\ Len(part) < Len(chain) => chain[Len(part) + 1] \notin set

\* The chain along the links of the sound records begins the one along all links.
LEMMA ChainBegins ==
    ASSUME NEW some, NEW all, IsFiniteSet(DOMAIN some), IsFiniteSet(DOMAIN all),
           DOMAIN some \subseteq DOMAIN all, \A h \in DOMAIN some : some[h] = all[h],
           NEW first, NEW last
    PROVE  /\ BlockChain(first, last, some) \in Seq(DOMAIN some)
           /\ BlockChain(first, last, all) \in Seq(DOMAIN all)
           /\ Begins(BlockChain(first, last, some), BlockChain(first, last, all), DOMAIN some)
<1>1. CASE first = Null \/ last = Null
  <2>1. BlockChain(first, last, some) = << >> /\ BlockChain(first, last, all) = << >>
    BY <1>1 DEF BlockChain
  <2>2. Begins(<< >>, << >>, DOMAIN some)
    BY DEF Begins, Once
  <2>. QED
    BY <2>1, <2>2
<1>2. CASE ~(first = Null \/ last = Null)
  <2>. DEFINE A == DOMAIN some \ {Null}
              B == DOMAIN all \ {Null}
              part == Walk(some, A, first, last)
              chain == Walk(all, B, first, last)
  <2>1. BlockChain(first, last, some) = part /\ BlockChain(first, last, all) = chain
    BY <1>2 DEF BlockChain
  <2>2. IsFiniteSet(A) /\ IsFiniteSet(B) /\ A \subseteq B /\ A \subseteq DOMAIN some
        /\ B \subseteq DOMAIN all /\ A = B \cap DOMAIN some
    BY FS_Subset
  <2>. HIDE DEF A, B
  <2>3. IsWalk(part, some, A, first, last) /\ IsWalk(chain, all, B, first, last)
    BY <2>2, WalkIs
  <2>. HIDE DEF part, chain
  <2>4. /\ IsPath(part, some, A, first, last) /\ IsPath(chain, all, B, first, last)
        /\ \A s : IsPath(s, some, A, first, last) =>
              \A i \in 1 .. Len(s) : i <= Len(part) /\ part[i] = s[i]
        /\ \A s : IsPath(s, all, B, first, last) =>
              \A i \in 1 .. Len(s) : i <= Len(chain) /\ chain[i] = s[i]
    BY <2>3 DEF IsWalk
  <2>5. /\ part \in Seq(A) /\ Once(part) /\ chain \in Seq(B) /\ Once(chain)
        /\ part # << >> => part[1] = first
        /\ chain # << >> => chain[1] = first
        /\ \A i \in 1 .. Len(part) - 1 :
              part[i] \in DOMAIN some /\ part[i] # last /\ part[i + 1] = some[part[i]]
        /\ \A i \in 1 .. Len(chain) - 1 :
              chain[i] \in DOMAIN all /\ chain[i] # last /\ chain[i + 1] = all[chain[i]]
    BY <2>4 DEF IsPath
  <2>6. part \in Seq(B) /\ part \in Seq(DOMAIN some) /\ chain \in Seq(DOMAIN all)
        /\ Len(part) \in Nat /\ Len(chain) \in Nat
    BY <2>2, <2>5
  <2>7. IsPath(part, all, B, first, last)
    BY <2>5, <2>6 DEF IsPath
  <2>8. \A i \in 1 .. Len(part) : i <= Len(chain) /\ chain[i] = part[i]
    BY <2>4, <2>7
  <2>9. Len(part) <= Len(chain)
    BY <2>6, <2>8
  <2>10. ASSUME Len(part) < Len(chain), chain[Len(part) + 1] \in DOMAIN some
         PROVE  FALSE
    <3>. DEFINE n == Len(part) + 1
                s == SubSeq(chain, 1, n)
    <3>1. n \in Nat /\ n <= Len(chain) /\ n = Len(part) + 1
      BY <2>6, <2>10
    <3>. HIDE DEF n
    <3>2. Len(s) = n /\ (\A i \in 1 .. n : s[i] = chain[i]) /\ s \in Seq(B)
      BY <2>5, <3>1
    <3>. HIDE DEF s
    <3>3. \A i \in 1 .. n : s[i] \in A
      <4>. SUFFICES ASSUME NEW i \in 1 .. n PROVE s[i] \in A
        OBVIOUS
      <4>1. CASE i \in 1 .. Len(part)
        BY <2>5, <2>8, <3>2, <4>1
      <4>2. CASE i = n
        <5>1. chain[i] \in B /\ chain[i] \in DOMAIN some
          BY <2>5, <2>10, <3>1, <4>2
        <5>. QED
          BY <2>2, <3>2, <5>1
      <4>. QED
        BY <2>6, <3>1, <4>1, <4>2
    <3>4. s \in Seq(A)
      BY <3>2, <3>3
    <3>5. Once(s)
      BY <2>5, <3>1, <3>2 DEF Once
    <3>6. s[1] = first
      BY <2>5, <3>1, <3>2
    <3>7. ASSUME NEW i \in 1 .. Len(s) - 1
          PROVE  s[i] \in DOMAIN some /\ s[i] # last /\ s[i + 1] = some[s[i]]
      <4>1. i \in 1 .. n /\ i + 1 \in 1 .. n /\ i \in 1 .. Len(chain) - 1
        BY <2>6, <3>1, <3>2
      <4>2. s[i] = chain[i] /\ s[i + 1] = chain[i + 1] /\ s[i] \in DOMAIN some
        BY <2>2, <3>2, <3>3, <4>1
      <4>. QED
        BY <2>5, <4>1, <4>2
    <3>8. IsPath(s, some, A, first, last)
      BY <3>4, <3>5, <3>6, <3>7 DEF IsPath
    <3>9. n \in 1 .. Len(s)
      BY <3>1, <3>2, <2>6
    <3>10. n <= Len(part)
      BY <2>4, <3>8, <3>9
    <3>. QED
      BY <2>6, <3>1, <3>10
  <2>11. Begins(part, chain, DOMAIN some)
    BY <2>5, <2>6, <2>8, <2>9, <2>10 DEF Begins
  <2>. QED
    BY <2>1, <2>6, <2>11
<1>. QED
  BY <1>1, <1>2

\* The beginning of a list up to the first element that is not in a set.
UpTo(chain, h, set) ==
    \E i \in DOMAIN chain : chain[i] = h /\ \A j \in 1 .. i : chain[j] \in set

LEMMA BeginsIs ==
    ASSUME NEW T, NEW part \in Seq(T), NEW U, NEW chain \in Seq(U), NEW set,
           Begins(part, chain, set)
    PROVE  /\ \A h : UpTo(chain, h, set) <=> h \in ToSet(part)
           /\ Kept(chain, ToSet(part)) = part
<1>1. /\ Once(chain) /\ Len(part) <= Len(chain)
      /\ \A i \in 1 .. Len(part) : part[i] = chain[i] /\ part[i] \in set
      /\ Len(part) < Len(chain) => chain[Len(part) + 1] \notin set
  BY DEF Begins
<1>2. /\ ToSet(part) = {part[i] : i \in 1 .. Len(part)}
      /\ DOMAIN chain = 1 .. Len(chain) /\ Len(part) \in Nat /\ Len(chain) \in Nat
  BY SetIs
<1>3. ASSUME NEW h PROVE UpTo(chain, h, set) <=> h \in ToSet(part)
  <2>1. ASSUME h \in ToSet(part) PROVE UpTo(chain, h, set)
    <3>1. PICK i \in 1 .. Len(part) : part[i] = h
      BY <1>2, <2>1
    <3>2. i \in DOMAIN chain /\ chain[i] = h /\ \A j \in 1 .. i : j \in 1 .. Len(part)
      BY <1>1, <1>2, <3>1
    <3>. QED
      BY <1>1, <3>2 DEF UpTo
  <2>2. ASSUME UpTo(chain, h, set) PROVE h \in ToSet(part)
    <3>1. PICK i \in 1 .. Len(chain) : chain[i] = h /\ \A j \in 1 .. i : chain[j] \in set
      BY <1>2, <2>2 DEF UpTo
    <3>2. i <= Len(part)
      <4>. SUFFICES ASSUME ~(i <= Len(part)) PROVE FALSE
        OBVIOUS
      <4>1. Len(part) + 1 \in 1 .. i /\ Len(part) < Len(chain)
        BY <1>2
      <4>. QED
        BY <1>1, <3>1, <4>1
    <3>3. i \in 1 .. Len(part) /\ part[i] = h
      BY <1>1, <1>2, <3>1, <3>2
    <3>. QED
      BY <1>2, <3>3
  <2>. QED
    BY <2>1, <2>2
<1>. DEFINE n == Len(part)
            head == SubSeq(chain, 1, n)
            tail == SubSeq(chain, n + 1, Len(chain))
            kept == ToSet(part)
<1>4. head \in Seq(U) /\ Len(head) = n /\ \A i \in 1 .. n : head[i] = chain[i]
  BY <1>1, <1>2
<1>5. head = part
  BY <1>1, <1>4
<1>6. tail \in Seq(U) /\ Len(tail) = Len(chain) - n
      /\ \A i \in 1 .. Len(chain) - n : tail[i] = chain[n + i]
  BY <1>1, <1>2
<1>. HIDE DEF n, head, tail, kept
<1>7. chain = head \o tail
  <2>. DEFINE both == head \o tail
  <2>. HIDE DEF both
  <2>1. Both(both, head, tail, U)
    BY <1>4, <1>6, BothIs DEF both
  <2>2. both \in Seq(U) /\ Len(both) = Len(chain)
    BY <1>1, <1>2, <1>4, <1>6, <2>1 DEF Both, n
  <2>3. ASSUME NEW i \in 1 .. Len(chain) PROVE both[i] = chain[i]
    <3>1. CASE i \in 1 .. n
      BY <1>2, <1>4, <2>1, <3>1 DEF Both, n
    <3>2. CASE i \in n + 1 .. Len(chain)
      <4>1. i - n \in 1 .. Len(chain) - n /\ n + (i - n) = i /\ n \in Nat
        BY <1>2, <3>2 DEF n
      <4>2. both[i] = tail[i - n]
        BY <1>4, <1>6, <2>1, <3>2, <4>1 DEF Both
      <4>. QED
        BY <1>6, <4>1, <4>2
    <3>. QED
      BY <1>2, <3>1, <3>2 DEF n
  <2>4. chain = both
    BY <2>2, <2>3
  <2>. QED
    BY <2>4 DEF both
<1>8. \A i \in 1 .. Len(tail) : tail[i] \in {} <=> tail[i] \in kept
  <2>. SUFFICES ASSUME NEW i \in 1 .. Len(tail), tail[i] \in kept PROVE FALSE
    OBVIOUS
  <2>1. PICK j \in 1 .. Len(part) : tail[i] = part[j]
    BY <1>2 DEF kept
  <2>2. i \in 1 .. Len(chain) - n
    BY <1>6
  <2>3. chain[n + i] = chain[j] /\ n + i \in 1 .. Len(chain) /\ j \in 1 .. Len(chain) /\ j < n + i
    BY <1>1, <1>2, <1>6, <2>1, <2>2 DEF n
  <2>. QED
    BY <1>1, <2>3 DEF Once
<1>9. Kept(tail, kept) = << >>
  <2>1. Kept(tail, {}) = Kept(tail, kept)
    BY <1>6, <1>8, KeptSame
  <2>2. PartOf(Kept(tail, {}), tail, {}) /\ Kept(tail, {}) \in Seq(U)
    BY <1>6, KeptOrder, KeptTyped
  <2>. DEFINE k == Kept(tail, {})
  <2>. HIDE DEF k
  <2>3. k \in Seq(U) /\ \A i \in 1 .. Len(k) : k[i] \in {}
    BY <2>2 DEF PartOf, k
  <2>4. k = << >>
    BY <2>3
  <2>. QED
    BY <2>1, <2>4 DEF k
<1>10. Kept(head, kept) = part
  <2>1. \A i \in 1 .. Len(part) : part[i] \in kept
    BY <1>2 DEF kept
  <2>. QED
    BY <1>5, <2>1, KeptWhole
<1>11. Kept(chain, kept) = Kept(head, kept) \o Kept(tail, kept)
  BY <1>4, <1>6, <1>7, KeptJoin
<1>12. Kept(chain, kept) = part
  BY <1>9, <1>10, <1>11
<1>. QED
  BY <1>3, <1>12 DEF kept

-----------------------------------------------------------------------------
(* Lists of entities by the places of their records.                       *)

RankAt(k) == IF file.records[k].kind \in Polylines THEN Len(file.records) + k ELSE k

IsEntity(e) ==
    e = [handle |-> e.handle, kind |-> e.kind, mode |-> e.mode, owner |-> e.owner,
         kids |-> e.kids, end |-> e.end]

\* s holds an entity for each place in W, in the order of their ranks.
ListOf(s, W) ==
    /\ \E T : s \in Seq(T)
    /\ \A i \in 1 .. Len(s) : IsEntity(s[i]) /\ \E k \in W : From(s[i], k)
    /\ \A k \in W : \E i \in 1 .. Len(s) : From(s[i], k)
    /\ \A i, j \in 1 .. Len(s) : i < j => Rank(s[i]) < Rank(s[j])

\* A record is found by its handle.
LEMMA PlaceIs ==
    ASSUME FileOk, NEW k \in Places
    PROVE  Place(file.records[k].handle) = k
BY DEF FileOk, Place

\* An entity has the rank of the record it comes from.
LEMMA RankIs ==
    ASSUME FileOk, NEW k \in Places, NEW e, From(e, k)
    PROVE  Rank(e) = RankAt(k) /\ RankAt(k) \in Nat
<1>1. Place(e.handle) = k /\ e.kind = file.records[k].kind
  BY PlaceIs DEF From
<1>2. Len(file.records) \in Nat /\ k \in Nat
  BY DEF FileOk, Places
<1>. QED
  BY <1>1, <1>2 DEF Rank, RankAt

\* The empty list is that of no record.
LEMMA ListEmpty ==
    ASSUME NEW W
    PROVE  ListOf(<< >>, W) <=> W = {}
<1>1. << >> \in Seq({})
  OBVIOUS
<1>2. W = {} => ListOf(<< >>, W)
  BY <1>1 DEF ListOf
<1>3. ListOf(<< >>, W) => W = {}
  BY DEF ListOf
<1>. QED
  BY <1>2, <1>3

\* A list of one entity.
LEMMA ListOne ==
    ASSUME NEW k, NEW e, IsEntity(e), From(e, k)
    PROVE  ListOf(<<e>>, {k})
<1>. DEFINE s == <<e>>
<1>1. s \in Seq({e}) /\ Len(s) = 1 /\ s[1] = e
  OBVIOUS
<1>. HIDE DEF s
<1>2. \A i \in 1 .. Len(s) : i = 1
  BY <1>1
<1>3. \E T : s \in Seq(T)
  BY <1>1
<1>4. ListOf(s, {k})
  BY <1>1, <1>2, <1>3 DEF ListOf
<1>. QED
  BY <1>4 DEF s

\* Two lists, the ranks of one below those of the other, join.
LEMMA ListJoin ==
    ASSUME FileOk, NEW V \in SUBSET Places, NEW W \in SUBSET Places, NEW s, NEW t,
           ListOf(s, V), ListOf(t, W),
           \A k \in V, l \in W : RankAt(k) < RankAt(l)
    PROVE  ListOf(s \o t, V \cup W)
<1>1. PICK S : s \in Seq(S)
  BY DEF ListOf
<1>2. PICK T : t \in Seq(T)
  BY DEF ListOf
<1>3. s \in Seq(S \cup T) /\ t \in Seq(S \cup T)
  BY <1>1, <1>2
<1>. DEFINE u == s \o t
<1>4. /\ u \in Seq(S \cup T) /\ Len(s) \in Nat /\ Len(t) \in Nat /\ Len(u) = Len(s) + Len(t)
      /\ \A i \in 1 .. Len(s) : u[i] = s[i]
      /\ \A i \in 1 .. Len(t) : u[Len(s) + i] = t[i] /\ Len(s) + i \in 1 .. Len(u)
      /\ \A i \in 1 .. Len(u) : i \in 1 .. Len(s) \/ (i - Len(s) \in 1 .. Len(t) /\ u[i] = t[i - Len(s)])
  BY <1>3
<1>. HIDE DEF u
<1>5. ASSUME NEW i \in 1 .. Len(u)
      PROVE  IsEntity(u[i]) /\ \E k \in V \cup W : From(u[i], k)
  <2>1. CASE i \in 1 .. Len(s)
    BY <1>4, <2>1 DEF ListOf
  <2>2. CASE i - Len(s) \in 1 .. Len(t) /\ u[i] = t[i - Len(s)]
    BY <1>4, <2>2 DEF ListOf
  <2>. QED
    BY <1>4, <2>1, <2>2
<1>6. ASSUME NEW k \in V \cup W
      PROVE  \E i \in 1 .. Len(u) : From(u[i], k)
  <2>1. CASE k \in V
    <3>1. PICK i \in 1 .. Len(s) : From(s[i], k)
      BY <2>1 DEF ListOf
    <3>2. i \in 1 .. Len(u) /\ u[i] = s[i]
      BY <1>4
    <3>. QED
      BY <3>1, <3>2
  <2>2. CASE k \in W
    <3>1. PICK i \in 1 .. Len(t) : From(t[i], k)
      BY <2>2 DEF ListOf
    <3>. QED
      BY <1>4, <3>1
  <2>. QED
    BY <2>1, <2>2
<1>7. ASSUME NEW i \in 1 .. Len(u), NEW j \in 1 .. Len(u), i < j
      PROVE  Rank(u[i]) < Rank(u[j])
  <2>1. CASE j \in 1 .. Len(s)
    <3>1. i \in 1 .. Len(s)
      BY <1>7, <2>1
    <3>. QED
      BY <1>4, <1>7, <2>1, <3>1 DEF ListOf
  <2>2. CASE i \in 1 .. Len(s) /\ j - Len(s) \in 1 .. Len(t) /\ u[j] = t[j - Len(s)]
    <3>1. PICK k \in V : From(s[i], k)
      BY <2>2 DEF ListOf
    <3>2. PICK l \in W : From(t[j - Len(s)], l)
      BY <2>2 DEF ListOf
    <3>3. Rank(s[i]) = RankAt(k) /\ Rank(t[j - Len(s)]) = RankAt(l)
      BY <3>1, <3>2, RankIs
    <3>. QED
      BY <1>4, <2>2, <3>3
  <2>3. CASE /\ i - Len(s) \in 1 .. Len(t) /\ u[i] = t[i - Len(s)]
             /\ j - Len(s) \in 1 .. Len(t) /\ u[j] = t[j - Len(s)]
    <3>1. i - Len(s) < j - Len(s)
      BY <1>4, <1>7
    <3>. QED
      BY <2>3, <3>1 DEF ListOf
  <2>. QED
    BY <1>4, <2>1, <2>2, <2>3
<1>8. \E U : u \in Seq(U)
  BY <1>4
<1>9. ListOf(u, V \cup W)
  BY <1>5, <1>6, <1>7, <1>8 DEF ListOf
<1>. QED
  BY <1>9 DEF u

\* The entities with other handles than those of H.
Others(s, H) == {e \in ToSet(s) : e.handle \notin H}

LEMMA ListKept ==
    ASSUME NEW W, NEW H, NEW s, ListOf(s, W)
    PROVE  ListOf(Kept(s, Others(s, H)), {k \in W : file.records[k].handle \notin H})
<1>1. PICK T : s \in Seq(T)
  BY DEF ListOf
<1>. DEFINE set == Others(s, H)
            t == Kept(s, set)
            V == {k \in W : file.records[k].handle \notin H}
<1>2. t \in Seq(T) /\ PartOf(t, s, set)
  BY <1>1, KeptTyped, KeptOrder
<1>3. \A i \in 1 .. Len(s) : s[i] \in set <=> s[i].handle \notin H
  BY <1>1 DEF Others, ToSet
<1>. HIDE DEF set, t
<1>4. ASSUME NEW i \in 1 .. Len(t)
      PROVE  IsEntity(t[i]) /\ \E k \in V : From(t[i], k)
  <2>1. PICK p \in 1 .. Len(s) : s[p] = t[i]
    BY <1>2 DEF PartOf
  <2>2. t[i].handle \notin H
    BY <1>2, <1>3, <2>1 DEF PartOf
  <2>3. PICK k \in W : From(s[p], k)
    BY DEF ListOf
  <2>4. IsEntity(s[p]) /\ k \in V
    BY <2>1, <2>2, <2>3 DEF ListOf, From
  <2>. QED
    BY <2>1, <2>3, <2>4
<1>5. ASSUME NEW k \in V
      PROVE  \E i \in 1 .. Len(t) : From(t[i], k)
  <2>1. PICK p \in 1 .. Len(s) : From(s[p], k)
    BY DEF ListOf
  <2>2. s[p] \in set
    BY <1>3, <2>1 DEF From
  <2>3. PICK i \in 1 .. Len(t) : t[i] = s[p]
    BY <1>2, <2>2 DEF PartOf
  <2>. QED
    BY <2>1, <2>3
<1>6. ASSUME NEW i \in 1 .. Len(t), NEW j \in 1 .. Len(t), i < j
      PROVE  Rank(t[i]) < Rank(t[j])
  <2>1. PICK p, q \in 1 .. Len(s) : p < q /\ s[p] = t[i] /\ s[q] = t[j]
    BY <1>2, <1>6 DEF PartOf
  <2>. QED
    BY <2>1 DEF ListOf
<1>7. \E U : t \in Seq(U)
  BY <1>2
<1>. HIDE DEF V
<1>8. ListOf(t, V)
  BY <1>4, <1>5, <1>6, <1>7 DEF ListOf
<1>. QED
  BY <1>8 DEF set, t, V

\* The head of a list has the lowest rank; the rest is the list of the others.
LEMMA ListTail ==
    ASSUME FileOk, NEW W \in SUBSET Places, NEW s, ListOf(s, W), s # << >>
    PROVE  /\ IsEntity(Head(s))
           /\ \E k \in W : /\ From(Head(s), k)
                           /\ ListOf(Tail(s), W \ {k})
                           /\ \A l \in W \ {k} : RankAt(k) < RankAt(l)
<1>1. PICK T : s \in Seq(T)
  BY DEF ListOf
<1>. DEFINE t == Tail(s)
<1>2. /\ Len(s) \in Nat \ {0} /\ Head(s) = s[1] /\ 1 \in 1 .. Len(s)
      /\ t \in Seq(T) /\ Len(t) = Len(s) - 1
      /\ \A i \in 1 .. Len(t) : t[i] = s[i + 1] /\ i + 1 \in 2 .. Len(s)
      /\ \A i \in 2 .. Len(s) : s[i] = t[i - 1] /\ i - 1 \in 1 .. Len(t)
  BY <1>1
<1>. HIDE DEF t
<1>3. IsEntity(Head(s))
  BY <1>2 DEF ListOf
<1>4. PICK k \in W : From(s[1], k)
  BY <1>2 DEF ListOf
<1>5. ASSUME NEW i \in 2 .. Len(s), NEW l \in W, From(s[i], l)
      PROVE  RankAt(k) < RankAt(l)
  <2>1. Rank(s[1]) < Rank(s[i])
    BY <1>2 DEF ListOf
  <2>2. Rank(s[1]) = RankAt(k) /\ Rank(s[i]) = RankAt(l)
    BY <1>4, <1>5, RankIs
  <2>. QED
    BY <2>1, <2>2
<1>6. RankAt(k) \in Nat
  BY <1>4, RankIs
<1>7. ASSUME NEW l \in W \ {k}
      PROVE  \E i \in 2 .. Len(s) : From(s[i], l)
  <2>1. PICK i \in 1 .. Len(s) : From(s[i], l)
    BY DEF ListOf
  <2>2. i # 1
    <3>1. SUFFICES ASSUME i = 1 PROVE FALSE
      OBVIOUS
    <3>2. file.records[k].handle = file.records[l].handle
      BY <1>4, <2>1, <3>1 DEF From
    <3>. QED
      BY <3>2 DEF FileOk
  <2>. QED
    BY <2>1, <2>2
<1>8. ASSUME NEW i \in 1 .. Len(t)
      PROVE  IsEntity(t[i]) /\ \E l \in W \ {k} : From(t[i], l)
  <2>1. t[i] = s[i + 1] /\ i + 1 \in 2 .. Len(s) /\ i + 1 \in 1 .. Len(s)
    BY <1>2
  <2>2. PICK l \in W : From(s[i + 1], l)
    BY <2>1 DEF ListOf
  <2>3. RankAt(k) < RankAt(l)
    BY <1>5, <2>1, <2>2
  <2>4. l # k
    BY <1>6, <2>3
  <2>. QED
    BY <2>1, <2>2, <2>4 DEF ListOf
<1>9. ASSUME NEW l \in W \ {k}
      PROVE  \E i \in 1 .. Len(t) : From(t[i], l)
  <2>1. PICK i \in 2 .. Len(s) : From(s[i], l)
    BY <1>7
  <2>. QED
    BY <1>2, <2>1
<1>10. ASSUME NEW i \in 1 .. Len(t), NEW j \in 1 .. Len(t), i < j
       PROVE  Rank(t[i]) < Rank(t[j])
  <2>1. i + 1 < j + 1 /\ i + 1 \in 1 .. Len(s) /\ j + 1 \in 1 .. Len(s)
    BY <1>2, <1>10
  <2>. QED
    BY <1>2, <2>1 DEF ListOf
<1>11. \E U : t \in Seq(U)
  BY <1>2
<1>12. ListOf(t, W \ {k})
  BY <1>8, <1>9, <1>10, <1>11 DEF ListOf
<1>13. \A l \in W \ {k} : RankAt(k) < RankAt(l)
  BY <1>5, <1>7
<1>. QED
  BY <1>2, <1>3, <1>4, <1>12, <1>13 DEF t

\* A change that leaves handles and kinds alone.
LEMMA ListChanged ==
    ASSUME NEW W, NEW s, NEW t, ListOf(s, W), t = [i \in DOMAIN s |-> t[i]],
           \A i \in 1 .. Len(s) : /\ IsEntity(t[i])
                                  /\ t[i].handle = s[i].handle /\ t[i].kind = s[i].kind
    PROVE  ListOf(t, W)
<1>1. PICK T : s \in Seq(T)
  BY DEF ListOf
<1>2. DOMAIN s = 1 .. Len(s) /\ Len(s) \in Nat
  BY <1>1
<1>3. t \in Seq({t[i] : i \in 1 .. Len(s)}) /\ Len(t) = Len(s)
  BY <1>2
<1>4. \A i \in 1 .. Len(s), k \in W : From(t[i], k) <=> From(s[i], k)
  BY DEF From
<1>5. \A i \in 1 .. Len(s) : Rank(t[i]) = Rank(s[i])
  BY DEF Rank
<1>6. \E U : t \in Seq(U)
  BY <1>3
<1>. QED
  BY <1>3, <1>4, <1>5, <1>6 DEF ListOf

\* One entity more.
LEMMA ListAppend ==
    ASSUME FileOk, NEW W \in SUBSET Places, NEW k \in Places, NEW s, NEW e,
           ListOf(s, W), IsEntity(e), From(e, k),
           \A l \in W : RankAt(l) < RankAt(k)
    PROVE  ListOf(Append(s, e), W \cup {k})
<1>1. PICK T : s \in Seq(T)
  BY DEF ListOf
<1>2. Append(s, e) = s \o <<e>>
  BY <1>1
<1>3. ListOf(<<e>>, {k}) /\ {k} \in SUBSET Places
  BY ListOne
<1>4. \A l \in W, m \in {k} : RankAt(l) < RankAt(m)
  OBVIOUS
<1>5. ListOf(s \o <<e>>, W \cup {k})
  BY <1>3, <1>4, ListJoin
<1>. QED
  BY <1>2, <1>5

-----------------------------------------------------------------------------
(* What a worker makes of the records after the first a, up to b.          *)

Leaves(k) ==
    /\ IsObject(file.records[k])
    /\ file.records[k].fault = "payload" => Preserved(file.records[k])
    /\ file.records[k].fault # "unread"

Wholes(a, b) == {k \in a + 1 .. b : Sane(k) /\ file.records[k].kind \in Whole}
Polys(a, b) == {k \in a + 1 .. b : Sane(k) /\ file.records[k].kind \in Polylines}
Left(a, b) == {file.records[k].handle : k \in {l \in a + 1 .. b : Leaves(l)}}
Skips(a, b) == {k \in a + 1 .. b : ~Sane(k) /\ ~Leaves(k)}

\* The links, the lists and the children that these records bring along.
Linked(a, b) == {k \in a + 1 .. b : Sane(k) /\ ~IsObject(file.records[k]) /\ ~file.r2004}
HandlesOf(W) == {file.records[k].handle : k \in W}
LinkAs(r) == IF r.next = Unlinked THEN r.handle + 1 ELSE r.next

LinksAre(next, a, b) ==
    /\ DOMAIN next = HandlesOf(Linked(a, b))
    /\ \A k \in Linked(a, b) : next[file.records[k].handle] = LinkAs(file.records[k])
ListsAre(order, a, b) ==
    /\ DOMAIN order \subseteq HandlesOf(a + 1 .. b)
    /\ \A k \in Polys(a, b) : /\ file.records[k].handle \in DOMAIN order
                              /\ order[file.records[k].handle] = file.records[k].owned
RowsAre(map, a, b, kinds) == \A h : At(map, h) = Row(a, b, h, kinds)
Bare(s) == \A i \in 1 .. Len(s) : s[i].kids = << >>

MapsOf(made, a, b) ==
    /\ RowsAre(made.verts, a, b, Vertices) /\ RowsAre(made.atts, a, b, {"attrib"})
    /\ LinksAre(made.next, a, b) /\ ListsAre(made.order, a, b)
    /\ Bare(made.ents) /\ Bare(made.polys)

IsMade(made) ==
    made = [ents |-> made.ents, objects |-> made.objects, next |-> made.next,
            verts |-> made.verts, polys |-> made.polys, order |-> made.order,
            atts |-> made.atts, ends |-> made.ends, skipped |-> made.skipped]

MadeOf(made, a, b) ==
    /\ IsMade(made)
    /\ ListOf(made.ents, Wholes(a, b))
    /\ ListOf(made.polys, Polys(a, b))
    /\ made.objects = Left(a, b)
    /\ made.skipped = Cardinality(Skips(a, b))
    /\ MapsOf(made, a, b)

\* Links are noted beside the rest.
LinkedFrom(linked, made, r) ==
    /\ IsMade(linked)
    /\ linked.ents = made.ents /\ linked.polys = made.polys
    /\ linked.objects = made.objects /\ linked.skipped = made.skipped
    /\ linked.verts = made.verts /\ linked.atts = made.atts /\ linked.order = made.order
    /\ linked.next = IF file.r2004 THEN made.next
                     ELSE With(made.next, r.handle, LinkAs(r))

LEMMA LinkReadIs ==
    ASSUME NEW made, NEW r, IsMade(made)
    PROVE  LinkedFrom(LinkRead(made, r), made, r)
<1>. DEFINE linked == LinkRead(made, r)
            next == With(made.next, r.handle, LinkAs(r))
<1>1. linked = IF file.r2004 THEN made ELSE [made EXCEPT !.next = next]
  BY DEF LinkRead, LinkAs
<1>. HIDE DEF next, linked
<1>2. /\ IsMade(linked) /\ linked.ents = made.ents /\ linked.polys = made.polys
      /\ linked.objects = made.objects /\ linked.skipped = made.skipped
      /\ linked.verts = made.verts /\ linked.atts = made.atts /\ linked.order = made.order
      /\ linked.next = IF file.r2004 THEN made.next ELSE next
  BY <1>1 DEF IsMade
<1>. QED
  BY <1>2 DEF linked, next, LinkedFrom

\* A record adds an object, an entity, a polyline or a child, and its link.
Adds(new, made, r) ==
    /\ IsMade(new)
    /\ new.ents = IF r.kind \in Whole THEN Append(made.ents, EntityOf(r)) ELSE made.ents
    /\ new.polys = IF r.kind \in Polylines THEN Append(made.polys, EntityOf(r))
                   ELSE made.polys
    /\ new.objects = IF r.kind \in Objects THEN made.objects \cup {r.handle}
                     ELSE made.objects
    /\ new.skipped = made.skipped
    /\ new.verts = IF r.kind \in Vertices THEN Pushed(made.verts, r.owner, r.handle)
                   ELSE made.verts
    /\ new.atts = IF r.kind \in {"attrib"} THEN Pushed(made.atts, r.owner, r.handle)
                  ELSE made.atts
    /\ new.order = IF r.kind \in Polylines THEN With(made.order, r.handle, r.owned)
                   ELSE made.order
    /\ new.next = IF r.kind \in Objects \/ file.r2004 THEN made.next
                  ELSE With(made.next, r.handle, LinkAs(r))

LEMMA DecodedIs ==
    ASSUME NEW made, NEW r \in Record, IsMade(made)
    PROVE  Adds(Decoded(made, r), made, r)
<1>. DEFINE linked == LinkRead(made, r)
            new == Decoded(made, r)
            next == With(made.next, r.handle, LinkAs(r))
            order == With(made.order, r.handle, r.owned)
            verts == Pushed(made.verts, r.owner, r.handle)
            atts == Pushed(made.atts, r.owner, r.handle)
            ends == With(made.ends, r.owner, r.handle)
            ents == Append(made.ents, EntityOf(r))
            polys == Append(made.polys, EntityOf(r))
<1>1. /\ IsMade(linked) /\ linked.ents = made.ents /\ linked.polys = made.polys
      /\ linked.objects = made.objects /\ linked.skipped = made.skipped
      /\ linked.verts = made.verts /\ linked.atts = made.atts /\ linked.order = made.order
      /\ linked.next = IF file.r2004 THEN made.next ELSE next
  BY LinkReadIs DEF LinkedFrom
<1>. USE DEF Whole, Polylines, Parts, Objects, Vertices
<1>2. r.kind \in Whole \cup Polylines \cup Parts \cup Objects
  BY DEF Record
<1>3. /\ r.kind \in Objects => new = [made EXCEPT !.objects = made.objects \cup {r.handle}]
      /\ r.kind \in Polylines => new = [linked EXCEPT !.order = order, !.polys = polys]
      /\ r.kind \in Vertices => new = [linked EXCEPT !.verts = verts]
      /\ r.kind = "attrib" => new = [linked EXCEPT !.atts = atts]
      /\ r.kind = "seqend" => \E x : new = [linked EXCEPT !.ends = x]
      /\ r.kind \in Whole => new = [linked EXCEPT !.ents = ents]
  <2>. HIDE DEF linked
  <2>. QED
    BY <1>1 DEF Decoded, IsObject, linked
<1>. HIDE DEF new, linked, next, order, verts, atts, ents, polys
<1>4. /\ IsMade(new)
      /\ new.ents = IF r.kind \in Whole THEN ents ELSE made.ents
      /\ new.polys = IF r.kind \in Polylines THEN polys ELSE made.polys
      /\ new.objects = IF r.kind \in Objects THEN made.objects \cup {r.handle} ELSE made.objects
      /\ new.skipped = made.skipped
      /\ new.verts = IF r.kind \in Vertices THEN verts ELSE made.verts
      /\ new.atts = IF r.kind \in {"attrib"} THEN atts ELSE made.atts
      /\ new.order = IF r.kind \in Polylines THEN order ELSE made.order
      /\ new.next = IF r.kind \in Objects \/ file.r2004 THEN made.next ELSE next
  <2>1. CASE r.kind \in Objects
    BY <1>3, <2>1 DEF IsMade
  <2>2. CASE r.kind \in Polylines
    BY <1>1, <1>3, <2>2 DEF IsMade
  <2>3. CASE r.kind \in Vertices
    BY <1>1, <1>3, <2>3 DEF IsMade
  <2>4. CASE r.kind = "attrib"
    BY <1>1, <1>3, <2>4 DEF IsMade
  <2>5. CASE r.kind = "seqend"
    <3>1. PICK x : new = [linked EXCEPT !.ends = x]
      BY <1>3, <2>5
    <3>. QED
      BY <1>1, <2>5, <3>1 DEF IsMade
  <2>6. CASE r.kind \in Whole
    BY <1>1, <1>3, <2>6 DEF IsMade
  <2>. QED
    BY <1>2, <2>1, <2>2, <2>3, <2>4, <2>5, <2>6
<1>5. Adds(new, made, r)
  BY <1>4 DEF Adds, next, order, verts, atts, ents, polys
<1>. QED
  BY <1>5 DEF new

\* What a failed record loses.
Loses(new, made, r, start) ==
    /\ IsMade(new)
    /\ new.ents = SubSeq(made.ents, 1, start)
    /\ new.polys = Kept(made.polys, Others(made.polys, {r.handle}))
    /\ new.objects = made.objects \ {r.handle}
    /\ new.skipped = made.skipped
    /\ new.verts = Without(made.verts, r.handle)
    /\ new.atts = Without(made.atts, r.handle)
    /\ new.order = made.order
    /\ new.next = Less(made.next, {r.handle})

LEMMA DiscardedIs ==
    ASSUME NEW made, NEW r, NEW start, IsMade(made)
    PROVE  Loses(Discarded(made, r, start), made, r, start)
<1>. DEFINE new == Discarded(made, r, start)
            next == Less(made.next, {r.handle})
            verts == Without(made.verts, r.handle)
            atts == Without(made.atts, r.handle)
            ends == Less(made.ends, {o \in DOMAIN made.ends : made.ends[o] = r.handle})
            others == {e \in ToSet(made.polys) : e.handle # r.handle}
            polys == Kept(made.polys, others)
            ents == SubSeq(made.ents, 1, start)
<1>1. new = [made EXCEPT !.ents = ents, !.objects = made.objects \ {r.handle},
                         !.next = next, !.polys = polys, !.verts = verts,
                         !.atts = atts, !.ends = ends]
  BY DEF Discarded
<1>2. others = Others(made.polys, {r.handle})
  BY DEF Others
<1>. HIDE DEF new, next, verts, atts, ends, others, polys, ents
<1>3. /\ IsMade(new) /\ new.ents = ents /\ new.polys = polys
      /\ new.objects = made.objects \ {r.handle} /\ new.skipped = made.skipped
      /\ new.verts = verts /\ new.atts = atts /\ new.order = made.order /\ new.next = next
  BY <1>1 DEF IsMade
<1>4. Loses(new, made, r, start)
  BY <1>2, <1>3 DEF Loses, ents, polys, verts, atts, next
<1>. QED
  BY <1>4 DEF new

\* The places of the records after the first a, up to b, are some of the file's.
LEMMA SpanIs ==
    ASSUME FileOk, NEW a \in Nat, NEW b \in Nat, b <= Len(file.records)
    PROVE  /\ Wholes(a, b) \in SUBSET Places /\ Polys(a, b) \in SUBSET Places
           /\ IsFiniteSet(Skips(a, b)) /\ Cardinality(Skips(a, b)) \in Nat
<1>1. Len(file.records) \in Nat
  BY DEF FileOk
<1>2. \A k \in a + 1 .. b : k \in Places
  BY <1>1 DEF Places
<1>3. Skips(a, b) \subseteq a + 1 .. b /\ IsFiniteSet(a + 1 .. b)
  BY FS_Interval DEF Skips
<1>4. IsFiniteSet(Skips(a, b))
  BY <1>3, FS_Subset
<1>. QED
  BY <1>2, <1>4, FS_CardinalityType DEF Wholes, Polys

\* One record more.
LEMMA SpanGrows ==
    ASSUME FileOk, NEW a \in Nat, NEW b \in Nat, a <= b, NEW k \in Places, k = b + 1
    PROVE  /\ Wholes(a, k) = Wholes(a, b) \cup
                 (IF Sane(k) /\ file.records[k].kind \in Whole THEN {k} ELSE {})
           /\ Polys(a, k) = Polys(a, b) \cup
                 (IF Sane(k) /\ file.records[k].kind \in Polylines THEN {k} ELSE {})
           /\ Skips(a, k) = Skips(a, b) \cup (IF ~Sane(k) /\ ~Leaves(k) THEN {k} ELSE {})
           /\ Left(a, k) = Left(a, b) \cup
                 (IF Leaves(k) THEN {file.records[k].handle} ELSE {})
           /\ k \notin Skips(a, b) /\ file.records[k].handle \notin Left(a, b)
<1>1. a + 1 .. k = (a + 1 .. b) \cup {k} /\ k \notin a + 1 .. b
  OBVIOUS
<1>2. \A l \in a + 1 .. b : l \in Places
  BY DEF Places
<1>3. Wholes(a, k) = Wholes(a, b) \cup
                 (IF Sane(k) /\ file.records[k].kind \in Whole THEN {k} ELSE {})
  BY <1>1 DEF Wholes
<1>4. Polys(a, k) = Polys(a, b) \cup
                 (IF Sane(k) /\ file.records[k].kind \in Polylines THEN {k} ELSE {})
  BY <1>1 DEF Polys
<1>5. Skips(a, k) = Skips(a, b) \cup (IF ~Sane(k) /\ ~Leaves(k) THEN {k} ELSE {})
  BY <1>1 DEF Skips
<1>6. Left(a, k) = Left(a, b) \cup
                 (IF Leaves(k) THEN {file.records[k].handle} ELSE {})
  BY <1>1 DEF Left
<1>7. file.records[k].handle \notin Left(a, b)
  BY <1>1, <1>2 DEF Left, FileOk
<1>. QED
  BY <1>1, <1>3, <1>4, <1>5, <1>6, <1>7 DEF Skips

\* The rank of a place is in its own part of the numbers.
LEMMA RankOrder ==
    ASSUME FileOk, NEW k \in Places, NEW l \in Places,
           \/ k < l /\ (file.records[k].kind \in Polylines <=> file.records[l].kind \in Polylines)
           \/ file.records[k].kind \notin Polylines /\ file.records[l].kind \in Polylines
    PROVE  RankAt(k) < RankAt(l)
<1>1. Len(file.records) \in Nat /\ k \in 1 .. Len(file.records) /\ l \in 1 .. Len(file.records)
  BY DEF FileOk, Places
<1>. QED
  BY <1>1 DEF RankAt

\* The entity of a record comes from it.
LEMMA EntityOfIs ==
    ASSUME NEW k
    PROVE  IsEntity(EntityOf(file.records[k])) /\ From(EntityOf(file.records[k]), k)
BY DEF IsEntity, From, EntityOf

\* What one record more does to the children's rows,
LEMMA RowsStep ==
    ASSUME FileOk, NEW a \in Nat, NEW b \in Nat, a <= b, NEW k \in Places, k = b + 1,
           NEW map, NEW kinds, RowsAre(map, a, b, kinds), NEW more,
           more = IF file.records[k].kind \in kinds
                  THEN Pushed(map, file.records[k].owner, file.records[k].handle) ELSE map
    PROVE  /\ Sane(k) => RowsAre(more, a, k, kinds)
           /\ ~Sane(k) => /\ RowsAre(map, a, k, kinds)
                          /\ RowsAre(Without(more, file.records[k].handle), a, k, kinds)
<1>. DEFINE r == file.records[k]
            x == r.handle
<1>1. r \in Record /\ x \in Nat /\ b <= Len(file.records)
  <2>1. r \in Record /\ b <= Len(file.records)
    BY DEF FileOk, Places
  <2>2. \A q \in Record : q.handle \in Nat
    BY DEF Record
  <2>. QED
    BY <2>1, <2>2
<1>2. \A h : r \in RowSet(h, kinds) <=> Sane(k) /\ r.kind \in kinds /\ r.owner = h
  BY <1>1 DEF RowSet, Sane
<1>3. \A h : Row(a, k, h, kinds) =
                IF r \in RowSet(h, kinds) THEN Append(Row(a, b, h, kinds), x)
                ELSE Row(a, b, h, kinds)
  <2>. SUFFICES ASSUME NEW h
                PROVE  Row(a, k, h, kinds) =
                          IF r \in RowSet(h, kinds) THEN Append(Row(a, b, h, kinds), x)
                          ELSE Row(a, b, h, kinds)
    OBVIOUS
  <2>1. RowGrown(a, b, k, h, kinds)
    BY RowGrows
  <2>. QED
    BY <2>1 DEF RowGrown
<1>4. ASSUME NEW h
      PROVE  /\ Row(a, b, h, kinds) \in Seq(Nat)
             /\ \A i \in 1 .. Len(Row(a, b, h, kinds)) : Row(a, b, h, kinds)[i] # x
  <2>1. /\ Row(a, b, h, kinds) \in Seq(Nat)
        /\ \A i \in 1 .. Len(Row(a, b, h, kinds)) : \E l \in a + 1 .. b :
              Row(a, b, h, kinds)[i] = file.records[l].handle
    BY <1>1, RowIs
  <2>2. \A l \in a + 1 .. b : l \in Places /\ l # k
    BY <1>1 DEF Places
  <2>3. \A l \in a + 1 .. b : file.records[l].handle # x
    BY <2>2 DEF FileOk
  <2>. QED
    BY <2>1, <2>3
<1>5. \A h : At(map, h) = Row(a, b, h, kinds)
  BY DEF RowsAre
<1>. HIDE DEF r, x
<1>6. \A h : At(more, h) = IF r.kind \in kinds /\ h = r.owner THEN Append(At(map, h), x)
                           ELSE At(map, h)
  <2>1. more = IF r.kind \in kinds THEN Pushed(map, r.owner, x) ELSE map
    BY DEF r, x
  <2>. SUFFICES ASSUME NEW h
                PROVE  At(more, h) = IF r.kind \in kinds /\ h = r.owner
                                     THEN Append(At(map, h), x) ELSE At(map, h)
    OBVIOUS
  <2>. DEFINE key == r.owner
  <2>. HIDE DEF key
  <2>2. At(Pushed(map, key, x), h) = IF h = key THEN Append(At(map, key), x) ELSE At(map, h)
    BY PushedAt
  <2>. QED
    BY <2>1, <2>2 DEF key
<1>7. ASSUME Sane(k) PROVE RowsAre(more, a, k, kinds)
  BY <1>2, <1>3, <1>5, <1>6, <1>7 DEF RowsAre
<1>8. ASSUME ~Sane(k) PROVE RowsAre(map, a, k, kinds)
  BY <1>2, <1>3, <1>5, <1>8 DEF RowsAre
<1>9. ASSUME ~Sane(k) PROVE RowsAre(Without(more, x), a, k, kinds)
  <2>. SUFFICES ASSUME NEW h PROVE At(Without(more, x), h) = Row(a, k, h, kinds)
    BY DEF RowsAre
  <2>. DEFINE row == Row(a, b, h, kinds)
  <2>1. row \in Seq(Nat) /\ \A i \in 1 .. Len(row) : row[i] # x
    BY <1>4
  <2>2. At(more, h) = row \/ At(more, h) = Append(row, x)
    BY <1>5, <1>6
  <2>3. Row(a, k, h, kinds) = row
    BY <1>2, <1>3, <1>9
  <2>. HIDE DEF row
  <2>4. /\ Kept(row, ToSet(row) \ {x}) = row
        /\ Kept(Append(row, x), ToSet(Append(row, x)) \ {x}) = row
    BY <1>1, <2>1, KeptButOne
  <2>5. At(Without(more, x), h) = Kept(At(more, h), ToSet(At(more, h)) \ {x})
    BY WithoutAt
  <2>. QED
    BY <2>2, <2>3, <2>4, <2>5
<1>. QED
  BY <1>7, <1>8, <1>9 DEF r, x

\* to the links,
LEMMA LinksStep ==
    ASSUME FileOk, NEW a \in Nat, NEW b \in Nat, a <= b, NEW k \in Places, k = b + 1,
           NEW next, LinksAre(next, a, b), NEW more,
           more = IF file.records[k].kind \in Objects \/ file.r2004 THEN next
                  ELSE With(next, file.records[k].handle, LinkAs(file.records[k]))
    PROVE  /\ Sane(k) => LinksAre(more, a, k)
           /\ ~Sane(k) => /\ LinksAre(next, a, k)
                          /\ LinksAre(Less(more, {file.records[k].handle}), a, k)
<1>. DEFINE r == file.records[k]
            x == r.handle
            new == Sane(k) /\ r.kind \notin Objects /\ ~file.r2004
<1>1. a + 1 .. k = (a + 1 .. b) \cup {k} /\ k \notin a + 1 .. b
  OBVIOUS
<1>2. Linked(a, k) = Linked(a, b) \cup (IF new THEN {k} ELSE {})
  BY <1>1 DEF Linked, IsObject
<1>3. \A l \in Linked(a, b) : file.records[l].handle # x
  <2>1. \A l \in Linked(a, b) : l \in Places /\ l # k
    BY <1>1 DEF Linked, Places
  <2>. QED
    BY <2>1 DEF FileOk
<1>4. /\ DOMAIN next = HandlesOf(Linked(a, b)) /\ x \notin DOMAIN next
      /\ \A l \in Linked(a, b) : next[file.records[l].handle] = LinkAs(file.records[l])
  BY <1>3 DEF LinksAre, HandlesOf
<1>5. ~new => LinksAre(next, a, k)
  BY <1>2, <1>4 DEF LinksAre
<1>. DEFINE link == LinkAs(r)
            with == With(next, x, link)
<1>6. /\ DOMAIN with = DOMAIN next \cup {x} /\ with[x] = link
      /\ \A h \in DOMAIN next : h # x => with[h] = next[h]
  BY DEF With, Extended
<1>. HIDE DEF with
<1>7. ASSUME new PROVE LinksAre(with, a, k)
  <2>1. HandlesOf(Linked(a, k)) = HandlesOf(Linked(a, b)) \cup {x}
    BY <1>2, <1>7 DEF HandlesOf
  <2>2. \A l \in Linked(a, b) : with[file.records[l].handle] = LinkAs(file.records[l])
    <3>1. \A l \in Linked(a, b) : file.records[l].handle \in DOMAIN next
      BY <1>4 DEF HandlesOf
    <3>. QED
      BY <1>3, <1>4, <1>6, <3>1
  <2>. QED
    BY <1>2, <1>4, <1>6, <1>7, <2>1, <2>2 DEF LinksAre
<1>8. ASSUME ~new PROVE LinksAre(Less(with, {x}), a, k) /\ LinksAre(Less(next, {x}), a, k)
  <2>1. DOMAIN Less(with, {x}) = DOMAIN next
        /\ \A h \in DOMAIN next : Less(with, {x})[h] = next[h]
    BY <1>4, <1>6 DEF Less
  <2>2. DOMAIN Less(next, {x}) = DOMAIN next
        /\ \A h \in DOMAIN next : Less(next, {x})[h] = next[h]
    BY <1>4 DEF Less
  <2>3. \A l \in Linked(a, b) : file.records[l].handle \in DOMAIN next
    BY <1>4 DEF HandlesOf
  <2>. QED
    BY <1>2, <1>4, <1>8, <2>1, <2>2, <2>3 DEF LinksAre
<1>9. more = IF r.kind \in Objects \/ file.r2004 THEN next ELSE with
  BY DEF with
<1>. QED
  BY <1>5, <1>7, <1>8, <1>9

\* and to the lists.
LEMMA ListsStep ==
    ASSUME FileOk, NEW a \in Nat, NEW b \in Nat, a <= b, NEW k \in Places, k = b + 1,
           NEW order, ListsAre(order, a, b), NEW more,
           more = IF file.records[k].kind \in Polylines
                  THEN With(order, file.records[k].handle, file.records[k].owned) ELSE order
    PROVE  ListsAre(more, a, k) /\ (~Sane(k) => ListsAre(order, a, k))
<1>. DEFINE r == file.records[k]
            x == r.handle
            with == With(order, x, r.owned)
<1>1. a + 1 .. k = (a + 1 .. b) \cup {k} /\ k \notin a + 1 .. b
  OBVIOUS
<1>2. Polys(a, k) = Polys(a, b) \cup (IF Sane(k) /\ r.kind \in Polylines THEN {k} ELSE {})
  BY SpanGrows
<1>3. \A l \in Polys(a, b) : file.records[l].handle # x
  <2>1. \A l \in Polys(a, b) : l \in Places /\ l # k
    BY <1>1 DEF Polys, Places
  <2>. QED
    BY <2>1 DEF FileOk
<1>4. HandlesOf(a + 1 .. k) = HandlesOf(a + 1 .. b) \cup {x}
  BY <1>1 DEF HandlesOf
<1>5. DOMAIN with = DOMAIN order \cup {x} /\ with[x] = r.owned
      /\ \A h \in DOMAIN order : h # x => with[h] = order[h]
  BY DEF With, Extended
<1>6. more = IF r.kind \in Polylines THEN with ELSE order
  OBVIOUS
<1>. HIDE DEF with
<1>7. CASE r.kind \in Polylines
  <2>1. DOMAIN with \subseteq HandlesOf(a + 1 .. k)
    BY <1>4, <1>5 DEF ListsAre
  <2>2. ASSUME NEW l \in Polys(a, k)
        PROVE  /\ file.records[l].handle \in DOMAIN with
               /\ with[file.records[l].handle] = file.records[l].owned
    <3>1. CASE l \in Polys(a, b)
      BY <1>3, <1>5, <3>1 DEF ListsAre
    <3>2. CASE l = k
      BY <1>5, <3>2
    <3>. QED
      BY <1>2, <3>1, <3>2
  <2>3. ListsAre(with, a, k)
    BY <2>1, <2>2 DEF ListsAre
  <2>4. ~Sane(k) => ListsAre(order, a, k)
    BY <1>2, <1>4 DEF ListsAre
  <2>. QED
    BY <1>6, <1>7, <2>3, <2>4
<1>8. CASE r.kind \notin Polylines
  BY <1>2, <1>4, <1>6, <1>8 DEF ListsAre
<1>. QED
  BY <1>7, <1>8

\* An entity that was just read has no children, nor has a part of a list.
LEMMA BareStep ==
    ASSUME NEW T, NEW s \in Seq(T), Bare(s), NEW r
    PROVE  /\ Bare(Append(s, EntityOf(r)))
           /\ \A set : Bare(Kept(s, set))
           /\ \A t : t \in Seq(T) /\ Bare(t) => Bare(s \o t)
<1>. DEFINE e == EntityOf(r)
            t == Append(s, e)
<1>1. e.kids = << >>
  BY DEF EntityOf
<1>. HIDE DEF e
<1>2. Len(t) = Len(s) + 1 /\ t[Len(s) + 1] = e /\ Len(s) \in Nat
      /\ \A i \in 1 .. Len(s) : t[i] = s[i]
  OBVIOUS
<1>. HIDE DEF t
<1>3. Bare(t)
  <2>. SUFFICES ASSUME NEW i \in 1 .. Len(t) PROVE t[i].kids = << >>
    BY DEF Bare
  <2>1. i \in 1 .. Len(s) \/ i = Len(s) + 1
    BY <1>2
  <2>. QED
    BY <1>1, <1>2, <2>1 DEF Bare
<1>4. ASSUME NEW set PROVE Bare(Kept(s, set))
  <2>1. PartOf(Kept(s, set), s, set)
    BY KeptOrder
  <2>. QED
    BY <2>1 DEF PartOf, Bare
<1>5. ASSUME NEW u, u \in Seq(T), Bare(u) PROVE Bare(s \o u)
  <2>. DEFINE v == s \o u
  <2>1. Both(v, s, u, T)
    BY <1>5, BothIs
  <2>. HIDE DEF v
  <2>2. Len(s) \in Nat /\ Len(u) \in Nat
    BY <1>5
  <2>3. ASSUME NEW i \in 1 .. Len(v) PROVE v[i].kids = << >>
    <3>1. CASE i \in 1 .. Len(s)
      BY <2>1, <3>1 DEF Both, Bare
    <3>2. CASE i \in Len(s) + 1 .. Len(s) + Len(u)
      <4>1. v[i] = u[i - Len(s)] /\ i - Len(s) \in 1 .. Len(u)
        BY <2>1, <2>2, <3>2 DEF Both
      <4>. QED
        BY <1>5, <4>1 DEF Bare
    <3>. QED
      BY <2>1, <2>2, <3>1, <3>2 DEF Both
  <2>4. Bare(v)
    BY <2>3 DEF Bare
  <2>. QED
    BY <2>4 DEF v
<1>. QED
  BY <1>3, <1>4, <1>5 DEF t, e

\* The maps after a sound record, and after one that failed.
LEMMA MapsStep ==
    ASSUME FileOk, NEW a \in Nat, NEW b \in Nat, a <= b, NEW k \in Places, k = b + 1,
           NEW made, MadeOf(made, a, b), NEW decoded, Adds(decoded, made, file.records[k])
    PROVE  /\ Sane(k) => MapsOf(decoded, a, k)
           /\ ~Sane(k) => /\ MapsOf(made, a, k)
                          /\ \A clean : /\ Loses(clean, decoded, file.records[k], Len(made.ents))
                                        /\ clean.ents = made.ents
                                        => MapsOf(clean, a, k)
<1>. DEFINE r == file.records[k]
            x == r.handle
            e == EntityOf(r)
<1>1. /\ RowsAre(made.verts, a, b, Vertices) /\ RowsAre(made.atts, a, b, {"attrib"})
      /\ LinksAre(made.next, a, b) /\ ListsAre(made.order, a, b)
      /\ Bare(made.ents) /\ Bare(made.polys)
      /\ ListOf(made.ents, Wholes(a, b)) /\ ListOf(made.polys, Polys(a, b))
  BY DEF MadeOf, MapsOf
<1>2. /\ Sane(k) => RowsAre(decoded.verts, a, k, Vertices)
      /\ ~Sane(k) => /\ RowsAre(made.verts, a, k, Vertices)
                     /\ RowsAre(Without(decoded.verts, x), a, k, Vertices)
  <2>1. decoded.verts = IF r.kind \in Vertices THEN Pushed(made.verts, r.owner, x)
                        ELSE made.verts
    BY DEF Adds
  <2>. QED
    BY <1>1, <2>1, RowsStep
<1>3. /\ Sane(k) => RowsAre(decoded.atts, a, k, {"attrib"})
      /\ ~Sane(k) => /\ RowsAre(made.atts, a, k, {"attrib"})
                     /\ RowsAre(Without(decoded.atts, x), a, k, {"attrib"})
  <2>1. decoded.atts = IF r.kind \in {"attrib"} THEN Pushed(made.atts, r.owner, x)
                       ELSE made.atts
    BY DEF Adds
  <2>. QED
    BY <1>1, <2>1, RowsStep
<1>4. /\ Sane(k) => LinksAre(decoded.next, a, k)
      /\ ~Sane(k) => LinksAre(made.next, a, k) /\ LinksAre(Less(decoded.next, {x}), a, k)
  <2>1. decoded.next = IF r.kind \in Objects \/ file.r2004 THEN made.next
                       ELSE With(made.next, x, LinkAs(r))
    BY DEF Adds
  <2>. QED
    BY <1>1, <2>1, LinksStep
<1>5. ListsAre(decoded.order, a, k) /\ (~Sane(k) => ListsAre(made.order, a, k))
  <2>1. decoded.order = IF r.kind \in Polylines THEN With(made.order, x, r.owned)
                        ELSE made.order
    BY DEF Adds
  <2>. QED
    BY <1>1, <2>1, ListsStep
<1>6. PICK S : made.ents \in Seq(S)
  BY <1>1 DEF ListOf
<1>7. PICK T : made.polys \in Seq(T)
  BY <1>1 DEF ListOf
<1>. HIDE DEF r, x
<1>8. Bare(decoded.ents) /\ Bare(decoded.polys)
  <2>1. decoded.ents = Append(made.ents, EntityOf(r)) \/ decoded.ents = made.ents
    BY DEF Adds, r
  <2>2. decoded.polys = Append(made.polys, EntityOf(r)) \/ decoded.polys = made.polys
    BY DEF Adds, r
  <2>3. Bare(Append(made.ents, EntityOf(r)))
    BY <1>1, <1>6, BareStep
  <2>4. Bare(Append(made.polys, EntityOf(r)))
    BY <1>1, <1>7, BareStep
  <2>. QED
    BY <1>1, <2>1, <2>2, <2>3, <2>4
<1>9. decoded.polys \in Seq(T \cup {EntityOf(r)})
  <2>1. decoded.polys = Append(made.polys, EntityOf(r)) \/ decoded.polys = made.polys
    BY DEF Adds, r
  <2>. DEFINE y == EntityOf(r)
  <2>. HIDE DEF y
  <2>2. made.polys \in Seq(T \cup {y}) /\ Append(made.polys, y) \in Seq(T \cup {y})
    BY <1>7
  <2>. QED
    BY <2>1, <2>2 DEF y
<1>10. ASSUME NEW clean, Loses(clean, decoded, r, Len(made.ents)), clean.ents = made.ents,
              ~Sane(k)
       PROVE  MapsOf(clean, a, k)
  <2>1. /\ clean.polys = Kept(decoded.polys, Others(decoded.polys, {x}))
        /\ clean.verts = Without(decoded.verts, x) /\ clean.atts = Without(decoded.atts, x)
        /\ clean.order = decoded.order /\ clean.next = Less(decoded.next, {x})
    BY <1>10 DEF Loses, x
  <2>2. Bare(clean.polys)
    BY <1>8, <1>9, <2>1, BareStep
  <2>. QED
    BY <1>1, <1>2, <1>3, <1>4, <1>5, <1>10, <2>1, <2>2 DEF MapsOf
<1>11. Sane(k) => MapsOf(decoded, a, k)
  BY <1>2, <1>3, <1>4, <1>5, <1>8 DEF MapsOf
<1>12. ~Sane(k) => MapsOf(made, a, k)
  BY <1>1, <1>2, <1>3, <1>4, <1>5 DEF MapsOf
<1>. QED
  BY <1>10, <1>11, <1>12 DEF r

\* A worker's next record.
LEMMA ProcessedIs ==
    ASSUME FileOk, NEW a \in Nat, NEW b \in Nat, a <= b, NEW k \in Places, k = b + 1,
           NEW made, MadeOf(made, a, b)
    PROVE  MadeOf(Processed(made, file.records[k]), a, k)
<1>. DEFINE r == file.records[k]
            e == EntityOf(r)
            new == Processed(made, r)
            decoded == Decoded(made, r)
<1>1. r \in Record /\ b <= Len(file.records) /\ k <= Len(file.records)
  BY DEF FileOk, Places
<1>2. IsEntity(e) /\ From(e, k)
  BY EntityOfIs
<1>3. /\ IsMade(made) /\ ListOf(made.ents, Wholes(a, b)) /\ ListOf(made.polys, Polys(a, b))
      /\ made.objects = Left(a, b) /\ made.skipped = Cardinality(Skips(a, b))
  BY DEF MadeOf
<1>4. Adds(decoded, made, r)
  BY <1>1, <1>3, DecodedIs
<1>5. /\ Wholes(a, b) \in SUBSET Places /\ Polys(a, b) \in SUBSET Places
      /\ IsFiniteSet(Skips(a, b)) /\ Cardinality(Skips(a, b)) \in Nat
  BY <1>1, SpanIs
<1>6. r.fault \in {"none", "unread", "payload"}
      /\ r.kind \in Whole \cup Polylines \cup Parts \cup Objects
  BY <1>1 DEF Record
<1>7. /\ Wholes(a, k) = Wholes(a, b) \cup (IF Sane(k) /\ r.kind \in Whole THEN {k} ELSE {})
      /\ Polys(a, k) = Polys(a, b) \cup (IF Sane(k) /\ r.kind \in Polylines THEN {k} ELSE {})
      /\ Skips(a, k) = Skips(a, b) \cup (IF ~Sane(k) /\ ~Leaves(k) THEN {k} ELSE {})
      /\ Left(a, k) = Left(a, b) \cup (IF Leaves(k) THEN {r.handle} ELSE {})
      /\ k \notin Skips(a, b) /\ r.handle \notin Left(a, b)
  BY SpanGrows
<1>8. Cardinality(Skips(a, k)) = IF ~Sane(k) /\ ~Leaves(k) THEN Cardinality(Skips(a, b)) + 1
                                 ELSE Cardinality(Skips(a, b))
  <2>1. Cardinality(Skips(a, b) \cup {k}) = Cardinality(Skips(a, b)) + 1
    BY <1>5, <1>7, FS_AddElement
  <2>2. Skips(a, b) \cup {} = Skips(a, b)
    OBVIOUS
  <2>. QED
    BY <1>7, <2>1, <2>2
<1>9. r.kind \in Whole => ListOf(Append(made.ents, e), Wholes(a, b) \cup {k})
  <2>1. ASSUME r.kind \in Whole, NEW l \in Wholes(a, b) PROVE RankAt(l) < RankAt(k)
    <3>1. l \in Places /\ l < k
      BY <1>5 DEF Wholes
    <3>2. file.records[l].kind \notin Polylines /\ file.records[k].kind \notin Polylines
      BY <2>1 DEF Wholes, Whole, Polylines
    <3>. QED
      BY <3>1, <3>2, RankOrder
  <2>. HIDE DEF e
  <2>. QED
    BY <1>2, <1>3, <1>5, <2>1, ListAppend
<1>10. r.kind \in Polylines => ListOf(Append(made.polys, e), Polys(a, b) \cup {k})
  <2>1. ASSUME r.kind \in Polylines, NEW l \in Polys(a, b) PROVE RankAt(l) < RankAt(k)
    <3>1. l \in Places /\ l < k
      BY <1>5 DEF Polys
    <3>2. file.records[l].kind \in Polylines /\ file.records[k].kind \in Polylines
      BY <2>1 DEF Polys
    <3>. QED
      BY <3>1, <3>2, RankOrder
  <2>. HIDE DEF e
  <2>. QED
    BY <1>2, <1>3, <1>5, <2>1, ListAppend
<1>11. Sane(k) <=> r.fault = "none"
  BY DEF Sane
<1>12. /\ Sane(k) => MapsOf(decoded, a, k)
       /\ ~Sane(k) => /\ MapsOf(made, a, k)
                      /\ \A clean : /\ Loses(clean, decoded, r, Len(made.ents))
                                    /\ clean.ents = made.ents
                                    => MapsOf(clean, a, k)
  BY <1>4, MapsStep
<1>13. CASE r.fault = "none"
  <2>1. new = decoded
    BY <1>13 DEF Processed
  <2>2. Leaves(k) <=> r.kind \in Objects
    BY <1>13 DEF Leaves, IsObject
  <2>. HIDE DEF new, decoded, e
  <2>3. ListOf(new.ents, Wholes(a, k))
    BY <1>3, <1>4, <1>7, <1>9, <1>11, <1>13, <2>1 DEF Adds, e
  <2>4. ListOf(new.polys, Polys(a, k))
    BY <1>3, <1>4, <1>7, <1>10, <1>11, <1>13, <2>1 DEF Adds, e
  <2>5. new.objects = Left(a, k) /\ new.skipped = Cardinality(Skips(a, k))
    BY <1>3, <1>4, <1>7, <1>8, <1>11, <1>13, <2>1, <2>2 DEF Adds
  <2>6. IsMade(new)
    BY <1>4, <2>1 DEF Adds
  <2>7. MadeOf(new, a, k)
    BY <1>11, <1>13, <1>12, <2>1, <2>3, <2>4, <2>5, <2>6 DEF MadeOf
  <2>. QED
    BY <2>7 DEF new
<1>14. CASE r.fault = "unread"
  <2>1. new = [made EXCEPT !.skipped = made.skipped + 1]
    BY <1>14 DEF Processed
  <2>2. ~Sane(k) /\ ~Leaves(k)
    BY <1>11, <1>14 DEF Leaves
  <2>. HIDE DEF new
  <2>3. /\ IsMade(new) /\ new.ents = made.ents /\ new.polys = made.polys
        /\ new.objects = made.objects /\ new.skipped = made.skipped + 1
        /\ new.verts = made.verts /\ new.atts = made.atts
        /\ new.order = made.order /\ new.next = made.next
    BY <1>3, <2>1 DEF IsMade
  <2>4. MapsOf(new, a, k)
    BY <1>12, <2>2, <2>3 DEF MapsOf
  <2>5. MadeOf(new, a, k)
    BY <1>3, <1>7, <1>8, <2>2, <2>3, <2>4 DEF MadeOf
  <2>. QED
    BY <2>5 DEF new
<1>15. CASE r.fault = "payload"
  <2>. DEFINE clean == Discarded(decoded, r, Len(made.ents))
  <2>1. new = IF Preserved(r) THEN [clean EXCEPT !.objects = clean.objects \cup {r.handle}]
              ELSE [clean EXCEPT !.skipped = clean.skipped + 1]
    BY <1>15 DEF Processed
  <2>2. ~Sane(k) /\ (Leaves(k) <=> Preserved(r))
    BY <1>11, <1>15 DEF Leaves, Preserved, IsObject, Objects
  <2>3. IsMade(decoded)
    BY <1>4 DEF Adds
  <2>. HIDE DEF decoded
  <2>4. Loses(clean, decoded, r, Len(made.ents))
    BY <2>3, DiscardedIs
  <2>5. clean.ents = made.ents
    <3>1. PICK T : made.ents \in Seq(T)
      BY <1>3 DEF ListOf
    <3>2. SubSeq(Append(made.ents, e), 1, Len(made.ents)) = made.ents
          /\ SubSeq(made.ents, 1, Len(made.ents)) = made.ents
      BY <3>1
    <3>. QED
      BY <1>4, <2>4, <3>2 DEF Adds, Loses
  <2>6. ListOf(clean.polys, Polys(a, b))
    <3>. DEFINE W == Polys(a, b) \cup (IF r.kind \in Polylines THEN {k} ELSE {})
    <3>1. ListOf(decoded.polys, W)
      BY <1>3, <1>4, <1>10 DEF Adds
    <3>2. ListOf(clean.polys, {l \in W : file.records[l].handle \notin {r.handle}})
      <4>1. clean.polys = Kept(decoded.polys, Others(decoded.polys, {r.handle}))
        BY <2>4 DEF Loses
      <4>. HIDE DEF W, clean, r
      <4>. QED
        BY <3>1, <4>1, ListKept
    <3>3. \A l \in Polys(a, b) : l # k /\ l \in Places
      BY <1>5 DEF Polys
    <3>4. \A l \in Polys(a, b) : file.records[l].handle # r.handle
      BY <3>3 DEF FileOk
    <3>5. {l \in W : file.records[l].handle \notin {r.handle}} = Polys(a, b)
      BY <3>4
    <3>. QED
      BY <3>2, <3>5
  <2>7. clean.objects = made.objects /\ clean.skipped = made.skipped
    BY <1>3, <1>4, <1>7, <2>4 DEF Adds, Loses
  <2>8. MapsOf(clean, a, k)
    BY <1>12, <2>2, <2>4, <2>5
  <2>. HIDE DEF clean, new
  <2>9. CASE Preserved(r)
    <3>1. /\ IsMade(new) /\ new.ents = clean.ents /\ new.polys = clean.polys
          /\ new.objects = clean.objects \cup {r.handle} /\ new.skipped = clean.skipped
          /\ new.verts = clean.verts /\ new.atts = clean.atts
          /\ new.order = clean.order /\ new.next = clean.next
      BY <2>1, <2>4, <2>9 DEF IsMade, Loses
    <3>2. MapsOf(new, a, k)
      BY <2>8, <3>1 DEF MapsOf
    <3>3. MadeOf(new, a, k)
      BY <1>3, <1>7, <1>8, <2>2, <2>5, <2>6, <2>7, <2>9, <3>1, <3>2 DEF MadeOf
    <3>. QED
      BY <3>3 DEF new
  <2>10. CASE ~Preserved(r)
    <3>1. /\ IsMade(new) /\ new.ents = clean.ents /\ new.polys = clean.polys
          /\ new.objects = clean.objects /\ new.skipped = clean.skipped + 1
          /\ new.verts = clean.verts /\ new.atts = clean.atts
          /\ new.order = clean.order /\ new.next = clean.next
      BY <2>1, <2>4, <2>10 DEF IsMade, Loses
    <3>2. MapsOf(new, a, k)
      BY <2>8, <3>1 DEF MapsOf
    <3>3. MadeOf(new, a, k)
      BY <1>3, <1>7, <1>8, <2>2, <2>5, <2>6, <2>7, <2>10, <3>1, <3>2 DEF MadeOf
    <3>. QED
      BY <3>3 DEF new
  <2>. QED
    BY <2>9, <2>10
<1>. QED
  BY <1>6, <1>13, <1>14, <1>15

\* The places up to b and those after it.
LEMMA SpanJoins ==
    ASSUME FileOk, NEW a \in Nat, NEW b \in Nat, NEW c \in Nat, a <= b, b <= c,
           c <= Len(file.records)
    PROVE  /\ Wholes(a, c) = Wholes(a, b) \cup Wholes(b, c)
           /\ Polys(a, c) = Polys(a, b) \cup Polys(b, c)
           /\ Left(a, c) = Left(a, b) \cup Left(b, c)
           /\ Cardinality(Skips(a, c)) = Cardinality(Skips(a, b)) + Cardinality(Skips(b, c))
<1>1. a + 1 .. c = (a + 1 .. b) \cup (b + 1 .. c) /\ (a + 1 .. b) \cap (b + 1 .. c) = {}
  OBVIOUS
<1>2. Wholes(a, c) = Wholes(a, b) \cup Wholes(b, c)
  BY <1>1 DEF Wholes
<1>3. Polys(a, c) = Polys(a, b) \cup Polys(b, c)
  BY <1>1 DEF Polys
<1>4. Left(a, c) = Left(a, b) \cup Left(b, c)
  BY <1>1 DEF Left
<1>5. Skips(a, c) = Skips(a, b) \cup Skips(b, c) /\ Skips(a, b) \cap Skips(b, c) = {}
  BY <1>1 DEF Skips
<1>6. Len(file.records) \in Nat /\ b <= Len(file.records)
  BY DEF FileOk
<1>7. /\ IsFiniteSet(Skips(a, b)) /\ Cardinality(Skips(a, b)) \in Nat
      /\ IsFiniteSet(Skips(b, c)) /\ Cardinality(Skips(b, c)) \in Nat
  BY <1>6, SpanIs
<1>8. Cardinality(Skips(a, b) \cup Skips(b, c)) =
        Cardinality(Skips(a, b)) + Cardinality(Skips(b, c))
          - Cardinality(Skips(a, b) \cap Skips(b, c))
  BY <1>7, FS_Union
<1>9. Cardinality({}) = 0
  BY FS_EmptySet
<1>10. /\ Cardinality(Skips(a, c)) = Cardinality(Skips(a, b) \cup Skips(b, c))
       /\ Cardinality(Skips(a, b) \cap Skips(b, c)) = 0
  BY <1>5, <1>9, Zenon
<1>11. Cardinality(Skips(a, c)) = Cardinality(Skips(a, b)) + Cardinality(Skips(b, c))
  BY <1>7, <1>8, <1>10
<1>. QED
  BY <1>2, <1>3, <1>4, <1>11

\* The maps of two chunks join: no handle is in both.
LEMMA LinksJoin ==
    ASSUME FileOk, NEW a \in Nat, NEW b \in Nat, NEW c \in Nat, a <= b, b <= c,
           c <= Len(file.records), NEW next, LinksAre(next, a, b), NEW more, LinksAre(more, b, c)
    PROVE  LinksAre(Extended(next, more), a, c)
<1>. DEFINE both == Extended(next, more)
<1>1. a + 1 .. c = (a + 1 .. b) \cup (b + 1 .. c) /\ (a + 1 .. b) \cap (b + 1 .. c) = {}
  OBVIOUS
<1>2. Linked(a, c) = Linked(a, b) \cup Linked(b, c)
  BY <1>1 DEF Linked
<1>3. \A k \in Linked(a, b), l \in Linked(b, c) :
         file.records[k].handle # file.records[l].handle
  <2>. SUFFICES ASSUME NEW k \in Linked(a, b), NEW l \in Linked(b, c)
                PROVE  file.records[k].handle # file.records[l].handle
    OBVIOUS
  <2>1. k # l /\ k \in Places /\ l \in Places
    BY <1>1 DEF Linked, Places, FileOk
  <2>. QED
    BY <2>1 DEF FileOk
<1>4. /\ DOMAIN both = DOMAIN next \cup DOMAIN more
      /\ \A h \in DOMAIN both : both[h] = IF h \in DOMAIN more THEN more[h] ELSE next[h]
  BY DEF Extended
<1>. HIDE DEF both
<1>5. DOMAIN both = HandlesOf(Linked(a, c))
  BY <1>2, <1>4 DEF LinksAre, HandlesOf
<1>6. ASSUME NEW k \in Linked(a, c)
      PROVE  both[file.records[k].handle] = LinkAs(file.records[k])
  <2>. DEFINE h == file.records[k].handle
  <2>1. CASE k \in Linked(a, b)
    <3>1. h \in DOMAIN next /\ next[h] = LinkAs(file.records[k])
      BY <2>1 DEF LinksAre, HandlesOf
    <3>2. h \notin DOMAIN more
      BY <1>3, <2>1 DEF LinksAre, HandlesOf
    <3>. QED
      BY <1>4, <3>1, <3>2
  <2>2. CASE k \in Linked(b, c)
    <3>1. h \in DOMAIN more /\ more[h] = LinkAs(file.records[k])
      BY <2>2 DEF LinksAre, HandlesOf
    <3>. QED
      BY <1>4, <3>1
  <2>. QED
    BY <1>2, <2>1, <2>2
<1>7. LinksAre(both, a, c)
  BY <1>5, <1>6 DEF LinksAre
<1>. QED
  BY <1>7 DEF both

LEMMA ListsJoin ==
    ASSUME FileOk, NEW a \in Nat, NEW b \in Nat, NEW c \in Nat, a <= b, b <= c,
           c <= Len(file.records), NEW order, ListsAre(order, a, b), NEW more, ListsAre(more, b, c)
    PROVE  ListsAre(Extended(order, more), a, c)
<1>. DEFINE both == Extended(order, more)
<1>1. a + 1 .. c = (a + 1 .. b) \cup (b + 1 .. c) /\ (a + 1 .. b) \cap (b + 1 .. c) = {}
  OBVIOUS
<1>2. /\ Polys(a, c) = Polys(a, b) \cup Polys(b, c)
      /\ HandlesOf(a + 1 .. c) = HandlesOf(a + 1 .. b) \cup HandlesOf(b + 1 .. c)
  BY <1>1 DEF Polys, HandlesOf
<1>3. \A k \in Polys(a, b) : file.records[k].handle \notin HandlesOf(b + 1 .. c)
  <2>1. \A k \in Polys(a, b), l \in b + 1 .. c : k # l /\ k \in Places /\ l \in Places
    BY <1>1 DEF Polys, Places, FileOk
  <2>. QED
    BY <2>1 DEF FileOk, HandlesOf
<1>4. /\ DOMAIN both = DOMAIN order \cup DOMAIN more
      /\ \A h \in DOMAIN both : both[h] = IF h \in DOMAIN more THEN more[h] ELSE order[h]
  BY DEF Extended
<1>. HIDE DEF both
<1>5. DOMAIN both \subseteq HandlesOf(a + 1 .. c)
  BY <1>2, <1>4 DEF ListsAre
<1>6. ASSUME NEW k \in Polys(a, c)
      PROVE  /\ file.records[k].handle \in DOMAIN both
             /\ both[file.records[k].handle] = file.records[k].owned
  <2>1. CASE k \in Polys(a, b)
    <3>1. file.records[k].handle \notin DOMAIN more
      BY <1>3, <2>1 DEF ListsAre
    <3>. QED
      BY <1>4, <2>1, <3>1 DEF ListsAre
  <2>2. CASE k \in Polys(b, c)
    BY <1>4, <2>2 DEF ListsAre
  <2>. QED
    BY <1>2, <2>1, <2>2
<1>7. ListsAre(both, a, c)
  BY <1>5, <1>6 DEF ListsAre
<1>. QED
  BY <1>7 DEF both

\* A chunk starts with nothing made.
LEMMA EmptyMade ==
    ASSUME FileOk, NEW a \in Nat
    PROVE  MadeOf(Empty, a, a)
<1>1. a + 1 .. a = {}
  OBVIOUS
<1>2. Wholes(a, a) = {} /\ Polys(a, a) = {} /\ Left(a, a) = {} /\ Skips(a, a) = {}
  BY <1>1 DEF Wholes, Polys, Left, Skips
<1>3. /\ IsMade(Empty) /\ Empty.ents = << >> /\ Empty.polys = << >>
      /\ Empty.objects = {} /\ Empty.skipped = 0
      /\ Empty.verts = << >> /\ Empty.atts = << >> /\ Empty.next = << >> /\ Empty.order = << >>
  BY DEF IsMade, Empty, Nothing
<1>4. ListOf(<< >>, {}) /\ Cardinality({}) = 0
  BY ListEmpty, FS_EmptySet
<1>5. Linked(a, a) = {} /\ DOMAIN << >> = {}
  BY <1>1 DEF Linked
<1>6. LinksAre(<< >>, a, a) /\ ListsAre(<< >>, a, a) /\ Bare(<< >>)
  BY <1>2, <1>5 DEF LinksAre, ListsAre, HandlesOf, Bare
<1>7. \A kinds : RowsAre(<< >>, a, a, kinds)
  BY <1>5, RowEmpty DEF RowsAre, At
<1>8. MapsOf(Empty, a, a)
  BY <1>3, <1>6, <1>7 DEF MapsOf
<1>. QED
  BY <1>2, <1>3, <1>4, <1>8 DEF MadeOf

\* A chunk joins what is pending.
Merges(new, all, made) ==
    /\ IsMade(new)
    /\ new.polys = all.polys \o made.polys
    /\ new.objects = all.objects \cup made.objects
    /\ new.skipped = all.skipped + made.skipped
    /\ new.verts = Joined(all.verts, made.verts) /\ new.atts = Joined(all.atts, made.atts)
    /\ new.next = Extended(all.next, made.next)
    /\ new.order = Extended(all.order, made.order)

LEMMA MergedIs ==
    ASSUME NEW all, NEW made, IsMade(all)
    PROVE  Merges(Merged(all, made), all, made)
<1>. DEFINE new == Merged(all, made)
            objects == all.objects \cup made.objects
            next == Extended(all.next, made.next)
            verts == Joined(all.verts, made.verts)
            polys == all.polys \o made.polys
            order == Extended(all.order, made.order)
            atts == Joined(all.atts, made.atts)
            ends == Extended(all.ends, made.ends)
            skipped == all.skipped + made.skipped
<1>1. new = [all EXCEPT !.objects = objects, !.next = next, !.verts = verts, !.polys = polys,
                        !.order = order, !.atts = atts, !.ends = ends, !.skipped = skipped]
  BY DEF Merged
<1>. HIDE DEF new, objects, next, verts, polys, order, atts, ends, skipped
<1>2. /\ IsMade(new) /\ new.polys = polys /\ new.objects = objects /\ new.skipped = skipped
      /\ new.verts = verts /\ new.atts = atts /\ new.next = next /\ new.order = order
  BY <1>1 DEF IsMade
<1>3. Merges(new, all, made)
  BY <1>2 DEF Merges, polys, objects, skipped, verts, atts, next, order
<1>. QED
  BY <1>3 DEF new

-----------------------------------------------------------------------------
(* Parts of the list of records.                                           *)

\* The part after the first d, up to c.
LEMMA PartIs ==
    ASSUME NEW T, NEW s \in Seq(T), NEW d \in Nat, NEW c \in Nat, d <= c, c <= Len(s)
    PROVE  /\ SubSeq(s, d + 1, c) \in Seq(T) /\ Len(SubSeq(s, d + 1, c)) = c - d
           /\ \A i \in 1 .. c - d : SubSeq(s, d + 1, c)[i] = s[d + i]
OBVIOUS

\* Its head is the next record, and its tail the part after that.
LEMMA PartTail ==
    ASSUME NEW T, NEW s \in Seq(T), NEW d \in Nat, NEW c \in Nat, d <= c, c <= Len(s),
           SubSeq(s, d + 1, c) # << >>
    PROVE  /\ d < c /\ Head(SubSeq(s, d + 1, c)) = s[d + 1]
           /\ Tail(SubSeq(s, d + 1, c)) = SubSeq(s, (d + 1) + 1, c)
<1>. DEFINE u == SubSeq(s, d + 1, c)
            v == SubSeq(s, (d + 1) + 1, c)
<1>1. u \in Seq(T) /\ Len(u) = c - d /\ \A i \in 1 .. c - d : u[i] = s[d + i]
  BY PartIs
<1>2. d < c
  BY <1>1
<1>3. d + 1 \in Nat /\ d + 1 <= c
  BY <1>2
<1>4. /\ v \in Seq(T) /\ Len(v) = c - (d + 1)
      /\ \A i \in 1 .. c - (d + 1) : v[i] = s[(d + 1) + i]
  BY <1>3, PartIs
<1>. HIDE DEF u, v
<1>5. Tail(u) \in Seq(T) /\ Len(Tail(u)) = c - (d + 1)
      /\ \A i \in 1 .. c - (d + 1) : Tail(u)[i] = u[i + 1]
  BY <1>1, <1>2
<1>6. ASSUME NEW i \in 1 .. c - (d + 1) PROVE Tail(u)[i] = v[i]
  <2>1. i + 1 \in 1 .. c - d /\ d + (i + 1) = (d + 1) + i
    OBVIOUS
  <2>. QED
    BY <1>1, <1>4, <1>5, <2>1
<1>7. Tail(u) = v
  BY <1>4, <1>5, <1>6
<1>8. Head(u) = s[d + 1]
  BY <1>1, <1>2
<1>. QED
  BY <1>2, <1>7, <1>8 DEF u, v

\* An empty part has no place in it.
LEMMA PartEmpty ==
    ASSUME NEW T, NEW s \in Seq(T), NEW d \in Nat, NEW c \in Nat, d <= c, c <= Len(s),
           SubSeq(s, d + 1, c) = << >>
    PROVE  d = c
<1>1. Len(SubSeq(s, d + 1, c)) = c - d
  BY PartIs
<1>. QED
  BY <1>1

\* A part of a part.
LEMMA PartPart ==
    ASSUME NEW T, NEW s \in Seq(T), NEW d \in Nat, NEW c \in Nat, d <= c, c <= Len(s),
           NEW x \in Nat, NEW y \in Nat, x <= y, y <= c - d
    PROVE  SubSeq(SubSeq(s, d + 1, c), x + 1, y) = SubSeq(s, (d + x) + 1, d + y)
<1>. DEFINE u == SubSeq(s, d + 1, c)
            v == SubSeq(u, x + 1, y)
            m == d + x
            n == d + y
            w == SubSeq(s, m + 1, n)
<1>1. u \in Seq(T) /\ Len(u) = c - d /\ \A i \in 1 .. c - d : u[i] = s[d + i]
  BY PartIs
<1>. HIDE DEF u
<1>2. v \in Seq(T) /\ Len(v) = y - x /\ \A i \in 1 .. y - x : v[i] = u[x + i]
  <2>1. u \in Seq(T) /\ y <= Len(u)
    BY <1>1
  <2>. QED
    BY <2>1, PartIs
<1>3. m \in Nat /\ n \in Nat /\ m <= n /\ n <= Len(s) /\ n - m = y - x
  OBVIOUS
<1>. HIDE DEF v, m, n
<1>4. w \in Seq(T) /\ Len(w) = y - x /\ \A i \in 1 .. y - x : w[i] = s[m + i]
  BY <1>3, PartIs
<1>. HIDE DEF w
<1>5. ASSUME NEW i \in 1 .. y - x PROVE v[i] = w[i]
  <2>1. x + i \in 1 .. c - d /\ d + (x + i) = m + i
    BY DEF m
  <2>. QED
    BY <1>1, <1>2, <1>4, <2>1
<1>6. v = w
  BY <1>2, <1>4, <1>5
<1>. QED
  BY <1>6 DEF u, v, w, m, n

\* How a number of records is cut into chunks: full ones, then what is left.
Least(x, y) == IF x < y THEN x ELSE y

LEMMA ChunksIs ==
    ASSUME NEW n \in Nat, NEW size \in Nat \ {0}, NEW q, q = (n + size - 1) \div size
    PROVE  /\ q \in Nat /\ q * size >= n
           /\ \A i \in 1 .. q : (i - 1) * size < n
<1>1. q \in Int /\ q * size <= n + size - 1 /\ n + size - 1 < q * size + size
  OBVIOUS
<1>2. q \in Nat
  <2>1. ASSUME q < 0 PROVE FALSE
    <3>1. (q + 1) * size <= 0
      BY <1>1, <2>1
    <3>2. (q + 1) * size = q * size + size
      BY <1>1
    <3>. QED
      BY <1>1, <3>1, <3>2
  <2>. QED
    BY <1>1, <2>1
<1>3. ASSUME NEW i \in 1 .. q PROVE (i - 1) * size < n
  <2>1. i * size <= q * size
    BY <1>2
  <2>2. (i - 1) * size = i * size - size
    BY <1>2
  <2>3. i * size \in Int /\ q * size \in Int
    BY <1>2
  <2>. QED
    BY <1>1, <2>1, <2>2, <2>3
<1>. QED
  BY <1>1, <1>2, <1>3

-----------------------------------------------------------------------------
(* The invariant of the read.                                              *)

\* The chunks of a batch follow each other: chunk i is of the records after
\* c[i - 1], up to c[i], and its worker is at d[i].
Cuts(c, d, n) ==
    /\ c \in [0 .. n -> Nat] /\ \A i \in 0 .. n : c[i] <= Len(file.records)
    /\ d \in [1 .. n -> Nat] /\ \A i \in 1 .. n : c[i - 1] <= d[i] /\ d[i] <= c[i]

Decoding(left, chunks, c, d) ==
    /\ \E T : chunks \in Seq(T)
    /\ Cuts(c, d, Len(chunks))
    /\ left = SubSeq(file.records, c[Len(chunks)] + 1, Len(file.records))
    /\ \A i \in 1 .. Len(chunks) :
          /\ chunks[i].todo = SubSeq(file.records, d[i] + 1, c[i])
          /\ MadeOf(chunks[i].made, c[i - 1], d[i])

Accepts(W) == {k \in W : file.records[k].handle \notin file.refused}

\* A polyline has the vertices that its records give it; nothing else has
\* children, as long as INSERTs have not got theirs.
WholeRow(h, kinds) == Row(0, Len(file.records), h, kinds)
PolyDrawn(e) ==
    KidsGood(e.kids, WholeRow(e.handle, Vertices), file.records[Place(e.handle)].owned)
Drawn(ents) ==
    \A i \in 1 .. Len(ents) :
        IF ents[i].kind \in Polylines THEN PolyDrawn(ents[i]) ELSE ents[i].kids = << >>
AllDrawn(ents) ==
    \A i \in 1 .. Len(ents) :
        /\ ents[i].kind \in Polylines => PolyDrawn(ents[i])
        /\ ents[i].kind = "insert" => ents[i].kids = WholeRow(ents[i].handle, {"attrib"})

\* What is pending and in the document is of the first n records, but for the
\* polylines in P, which are still to be put together.
Committed(all, ents, n, P) ==
    /\ IsMade(all)
    /\ all.objects = Left(0, n) /\ all.skipped = Cardinality(Skips(0, n))
    /\ P \subseteq Polys(0, n) /\ ListOf(all.polys, P)
    /\ \A k \in Polys(0, n) \ P, l \in P : k < l
    /\ ListOf(ents, Accepts(Wholes(0, n) \cup (Polys(0, n) \ P)))
    /\ \A h : h \notin HandlesOf(Polys(0, n) \ P) => At(all.verts, h) = Row(0, n, h, Vertices)
    /\ RowsAre(all.atts, 0, n, {"attrib"})
    /\ LinksAre(all.next, 0, n) /\ ListsAre(all.order, 0, n)
    /\ Bare(all.polys) /\ Drawn(ents)

Reading(left, chunks, all, ents) ==
    \E c, d, P :
        /\ Decoding(left, chunks, c, d)
        /\ Committed(all, ents, c[0], P)
        /\ P = Polys(0, c[0]) \/ (chunks = << >> /\ left = << >>)

Finished(all, ents) ==
    /\ IsMade(all)
    /\ all.objects = Left(0, Len(file.records))
    /\ all.skipped = Cardinality(Skips(0, Len(file.records)))
    /\ ListOf(ents, Delivered)
    /\ LinksAre(all.next, 0, Len(file.records))
    /\ AllDrawn(ents)

BlocksOk ==
    /\ file.blocks \in Seq(BlockRecord)
    /\ \A i, j \in 1 .. Len(file.blocks) :
          file.blocks[i].handle = file.blocks[j].handle => i = j

\* What the property asks of an entity, of a block, and of a document.
OwnerGood(e, mem) ==
    LET holding == {b \in Blocks : e.handle \in ToSet(mem[b])}
        naming == {b \in ToSet(file.blocks) : Names(b, e.handle)}
    IN /\ holding = IF e.kind = "marker" THEN {} ELSE {e.owner} \cap Blocks
       /\ e.kind # "marker" /\ naming # {} => e.owner \in {b.handle : b \in naming}

ListGood(b, held) ==
    /\ Cardinality(ToSet(held)) = Len(held)
    /\ FollowsLast(held, Kept(WholeChain(b), {h \in ToSet(WholeChain(b)) : Names(b, h)}))

BlocksGood(ents, mem) ==
    /\ \A e \in ToSet(ents) : OwnerGood(e, mem)
    /\ \A b \in ToSet(file.blocks) : ListGood(b, mem[b.handle])

ReadInv ==
    /\ file \in Files
    /\ phase = "records" => Reading(rest, batch, pending, entities)
    /\ phase # "records" => batch = << >> /\ Finished(pending, entities)
    /\ phase \notin {"records", "blocks"} => BlocksGood(entities, members)

\* The refused entities of a list are left out.
LEMMA AcceptedIs ==
    ASSUME NEW ents, NEW W, ListOf(ents, W)
    PROVE  ListOf(Accepted(ents), Accepts(W))
<1>1. Accepted(ents) = Kept(ents, Others(ents, file.refused))
  BY DEF Accepted, Others
<1>2. ListOf(Kept(ents, Others(ents, file.refused)), Accepts(W))
  BY ListKept DEF Accepts
<1>. QED
  BY <1>1, <1>2

\* The rows of two chunks join as their records follow each other.
LEMMA RowsJoin ==
    ASSUME FileOk, NEW a \in Nat, NEW b \in Nat, a <= b, b <= Len(file.records),
           NEW kinds, NEW map, NEW more, RowsAre(map, 0, a, kinds), RowsAre(more, a, b, kinds)
    PROVE  RowsAre(Joined(map, more), 0, b, kinds)
<1>. SUFFICES ASSUME NEW h PROVE At(Joined(map, more), h) = Row(0, b, h, kinds)
  BY DEF RowsAre
<1>1. At(Joined(map, more), h) = At(map, h) \o At(more, h)
  BY JoinedAt
<1>2. At(map, h) = Row(0, a, h, kinds) /\ At(more, h) = Row(a, b, h, kinds)
  BY DEF RowsAre
<1>3. Row(0, b, h, kinds) = Row(0, a, h, kinds) \o Row(a, b, h, kinds)
  <2>1. 0 \in Nat /\ 0 <= a
    OBVIOUS
  <2>. QED
    BY <2>1, RowJoin
<1>. QED
  BY <1>1, <1>2, <1>3

\* Lists of entities without children stay so as they join,
LEMMA BareJoin ==
    ASSUME NEW s, NEW t, NEW V, NEW W, ListOf(s, V), ListOf(t, W), Bare(s), Bare(t)
    PROVE  Bare(s \o t)
<1>1. PICK S : s \in Seq(S)
  BY DEF ListOf
<1>2. PICK T : t \in Seq(T)
  BY DEF ListOf
<1>3. s \in Seq(S \cup T) /\ t \in Seq(S \cup T)
  BY <1>1, <1>2
<1>. QED
  BY <1>3, BareStep

\* and what a chunk adds to the document has none, and is no polyline.
LEMMA DrawnJoin ==
    ASSUME NEW ents, NEW V, ListOf(ents, V), Drawn(ents), NEW a, NEW b,
           NEW more, ListOf(more, Wholes(a, b)), Bare(more)
    PROVE  Drawn(ents \o Accepted(more))
<1>. DEFINE t == Accepted(more)
            u == ents \o t
<1>1. PICK S : ents \in Seq(S)
  BY DEF ListOf
<1>2. PICK T : more \in Seq(T)
  BY DEF ListOf
<1>3. t \in Seq(T) /\ Bare(t)
  BY <1>2, KeptTyped, BareStep DEF Accepted
<1>4. ListOf(t, Accepts(Wholes(a, b)))
  BY AcceptedIs
<1>5. ASSUME NEW i \in 1 .. Len(t) PROVE t[i].kind \notin Polylines
  <2>1. PICK k \in Accepts(Wholes(a, b)) : From(t[i], k)
    BY <1>4 DEF ListOf
  <2>. QED
    BY <2>1 DEF From, Accepts, Wholes, Whole, Polylines
<1>6. ents \in Seq(S \cup T) /\ t \in Seq(S \cup T)
  BY <1>1, <1>3
<1>. HIDE DEF t
<1>7. Both(u, ents, t, S \cup T)
  BY <1>6, BothIs
<1>8. Len(ents) \in Nat /\ Len(t) \in Nat
  BY <1>6
<1>. HIDE DEF u
<1>9. ASSUME NEW i \in 1 .. Len(u)
      PROVE  IF u[i].kind \in Polylines THEN PolyDrawn(u[i]) ELSE u[i].kids = << >>
  <2>1. CASE i \in 1 .. Len(ents)
    <3>1. u[i] = ents[i]
      BY <1>7, <2>1 DEF Both
    <3>. QED
      BY <2>1, <3>1 DEF Drawn
  <2>2. CASE i \in Len(ents) + 1 .. Len(ents) + Len(t)
    <3>1. u[i] = t[i - Len(ents)] /\ i - Len(ents) \in 1 .. Len(t)
      BY <1>7, <1>8, <2>2 DEF Both
    <3>. QED
      BY <1>3, <1>5, <3>1 DEF Bare
  <2>. QED
    BY <1>7, <1>8, <2>1, <2>2 DEF Both
<1>10. Drawn(u)
  BY <1>9 DEF Drawn
<1>. QED
  BY <1>10 DEF t, u

\* A worker decodes its next record.
LEMMA DecodeStep ==
    ASSUME FileOk, NEW c, NEW d, Decoding(rest, batch, c, d), NEW i \in DOMAIN batch, Decode(i)
    PROVE  Decoding(rest', batch', c, [d EXCEPT ![i] = d[i] + 1])
<1>. DEFINE n == Len(batch)
            e == [d EXCEPT ![i] = d[i] + 1]
            made == Processed(batch[i].made, Head(batch[i].todo))
            chunk == [todo |-> Tail(batch[i].todo), made |-> made]
<1>1. PICK T : batch \in Seq(T)
  BY DEF Decoding
<1>2. n \in Nat /\ DOMAIN batch = 1 .. n /\ i \in 1 .. n
  BY <1>1
<1>3. batch' = [batch EXCEPT ![i] = chunk] /\ batch[i].todo # << >> /\ rest' = rest
  BY DEF Decode
<1>4. Cuts(c, d, n)
  BY DEF Decoding
<1>5. batch[i].todo = SubSeq(file.records, d[i] + 1, c[i])
      /\ MadeOf(batch[i].made, c[i - 1], d[i])
  BY <1>2 DEF Decoding
<1>6. i - 1 \in 0 .. n /\ i \in 0 .. n
  BY <1>2
<1>7. d[i] \in Nat /\ c[i] \in Nat /\ d[i] <= c[i] /\ c[i] <= Len(file.records)
      /\ c[i - 1] \in Nat /\ c[i - 1] <= d[i]
  BY <1>2, <1>4, <1>6 DEF Cuts
<1>8. file.records \in Seq(Record) /\ Len(file.records) \in Nat
  BY DEF FileOk
<1>9. d[i] < c[i] /\ Head(batch[i].todo) = file.records[d[i] + 1]
      /\ Tail(batch[i].todo) = SubSeq(file.records, (d[i] + 1) + 1, c[i])
  <2>. DEFINE m == d[i]
              x == c[i]
  <2>1. /\ m \in Nat /\ x \in Nat /\ m <= x /\ x <= Len(file.records)
        /\ batch[i].todo = SubSeq(file.records, m + 1, x)
        /\ SubSeq(file.records, m + 1, x) # << >>
    BY <1>3, <1>5, <1>7
  <2>. HIDE DEF m, x
  <2>2. /\ m < x /\ Head(SubSeq(file.records, m + 1, x)) = file.records[m + 1]
        /\ Tail(SubSeq(file.records, m + 1, x)) = SubSeq(file.records, (m + 1) + 1, x)
    BY <1>8, <2>1, PartTail
  <2>3. /\ m < x /\ Head(batch[i].todo) = file.records[m + 1]
        /\ Tail(batch[i].todo) = SubSeq(file.records, (m + 1) + 1, x)
    BY <2>1, <2>2
  <2>. QED
    BY <2>3 DEF m, x
<1>10. d[i] + 1 \in Places
  BY <1>7, <1>8, <1>9 DEF Places
<1>11. MadeOf(made, c[i - 1], d[i] + 1)
  BY <1>5, <1>7, <1>9, <1>10, ProcessedIs
<1>. HIDE DEF made
<1>12. chunk.todo = SubSeq(file.records, (d[i] + 1) + 1, c[i]) /\ chunk.made = made
  BY <1>9
<1>. HIDE DEF chunk
<1>13. batch' \in Seq(T \cup {chunk}) /\ Len(batch') = n
       /\ \A j \in 1 .. n : batch'[j] = IF j = i THEN chunk ELSE batch[j]
  <2>1. batch \in [1 .. n -> T \cup {chunk}]
    BY <1>1
  <2>2. batch' \in [1 .. n -> T \cup {chunk}]
        /\ \A j \in 1 .. n : batch'[j] = IF j = i THEN chunk ELSE batch[j]
    BY <1>3, <2>1
  <2>3. batch' \in Seq(T \cup {chunk}) /\ Len(batch') = n
    BY <1>2, <2>2
  <2>. QED
    BY <2>2, <2>3
<1>14. /\ e \in [1 .. n -> Nat]
       /\ \A j \in 1 .. n : e[j] = IF j = i THEN d[i] + 1 ELSE d[j]
  BY <1>2, <1>4, <1>7 DEF Cuts
<1>. HIDE DEF e
<1>15. Cuts(c, e, n)
  <2>1. ASSUME NEW j \in 1 .. n PROVE c[j - 1] <= e[j] /\ e[j] <= c[j]
    <3>1. CASE j = i
      <4>1. e[j] = d[i] + 1
        BY <1>14, <3>1
      <4>2. c[i - 1] <= d[i] + 1 /\ d[i] + 1 <= c[i]
        BY <1>7, <1>9
      <4>. QED
        BY <3>1, <4>1, <4>2
    <3>2. CASE j # i
      <4>1. e[j] = d[j]
        BY <1>14, <3>2
      <4>. QED
        BY <1>4, <4>1 DEF Cuts
    <3>. QED
      BY <3>1, <3>2
  <2>. QED
    BY <1>4, <1>14, <2>1 DEF Cuts
<1>16. ASSUME NEW j \in 1 .. n
       PROVE  /\ batch'[j].todo = SubSeq(file.records, e[j] + 1, c[j])
              /\ MadeOf(batch'[j].made, c[j - 1], e[j])
  <2>1. CASE j = i
    BY <1>11, <1>12, <1>13, <1>14, <2>1
  <2>2. CASE j # i
    <3>1. batch'[j] = batch[j] /\ e[j] = d[j]
      BY <1>13, <1>14, <2>2
    <3>2. batch[j].todo = SubSeq(file.records, d[j] + 1, c[j])
          /\ MadeOf(batch[j].made, c[j - 1], d[j])
      BY DEF Decoding
    <3>. QED
      BY <3>1, <3>2
  <2>. QED
    BY <2>1, <2>2
<1>17. rest' = SubSeq(file.records, c[n] + 1, Len(file.records))
  BY <1>3 DEF Decoding
<1>18. \E U : batch' \in Seq(U)
  BY <1>13
<1>19. Decoding(rest', batch', c, e)
  BY <1>13, <1>15, <1>16, <1>17, <1>18 DEF Decoding
<1>. QED
  BY <1>19 DEF e

\* The first chunk of a batch that is through joins what is committed.
LEMMA CommitStep ==
    ASSUME FileOk, NEW c, NEW d, Decoding(rest, batch, c, d),
           Committed(pending, entities, c[0], Polys(0, c[0])), Commit
    PROVE  /\ Decoding(rest', batch', [i \in 0 .. Len(batch) - 1 |-> c[i + 1]],
                       [i \in 1 .. Len(batch) - 1 |-> d[i + 1]])
           /\ Committed(pending', entities', c[1], Polys(0, c[1]))
<1>. DEFINE n == Len(batch)
            made == batch[1].made
            c2 == [i \in 0 .. n - 1 |-> c[i + 1]]
            d2 == [i \in 1 .. n - 1 |-> d[i + 1]]
<1>1. PICK T : batch \in Seq(T)
  BY DEF Decoding
<1>2. /\ batch # << >> /\ \A i \in DOMAIN batch : batch[i].todo = << >>
      /\ entities' = entities \o Accepted(made.ents)
      /\ pending' = Merged(pending, made)
      /\ batch' = Tail(batch) /\ rest' = rest
  BY DEF Commit
<1>3. /\ n \in Nat \ {0} /\ DOMAIN batch = 1 .. n /\ 1 \in 1 .. n
      /\ batch' \in Seq(T) /\ Len(batch') = n - 1
      /\ \A i \in 1 .. n - 1 : batch'[i] = batch[i + 1]
  BY <1>1, <1>2
<1>4. Cuts(c, d, n)
  BY DEF Decoding
<1>5. file.records \in Seq(Record) /\ Len(file.records) \in Nat
  BY DEF FileOk
<1>6. Decoding(rest', batch', c2, d2)
  <2>1. /\ c2 \in [0 .. n - 1 -> Nat] /\ d2 \in [1 .. n - 1 -> Nat]
        /\ \A i \in 0 .. n - 1 : c2[i] = c[i + 1] /\ c[i + 1] <= Len(file.records)
        /\ \A i \in 1 .. n - 1 : d2[i] = d[i + 1] /\ c2[i - 1] = c[i] /\ c2[i] = c[i + 1]
    BY <1>3, <1>4 DEF Cuts
  <2>2. ASSUME NEW i \in 1 .. n - 1
        PROVE  /\ c[i] <= d[i + 1] /\ d[i + 1] <= c[i + 1]
               /\ batch'[i].todo = SubSeq(file.records, d[i + 1] + 1, c[i + 1])
               /\ MadeOf(batch'[i].made, c[i], d[i + 1])
    <3>1. i + 1 \in 1 .. n /\ (i + 1) - 1 = i /\ batch'[i] = batch[i + 1]
      BY <1>3
    <3>2. c[i] <= d[i + 1] /\ d[i + 1] <= c[i + 1]
      BY <1>4, <3>1 DEF Cuts
    <3>3. batch[i + 1].todo = SubSeq(file.records, d[i + 1] + 1, c[i + 1])
          /\ MadeOf(batch[i + 1].made, c[i], d[i + 1])
      BY <3>1 DEF Decoding
    <3>. QED
      BY <3>1, <3>2, <3>3
  <2>. HIDE DEF c2, d2
  <2>3. Cuts(c2, d2, n - 1)
    BY <2>1, <2>2 DEF Cuts
  <2>4. rest' = SubSeq(file.records, c2[n - 1] + 1, Len(file.records))
    <3>1. n - 1 \in 0 .. n - 1 /\ (n - 1) + 1 = n
      BY <1>3
    <3>2. c2[n - 1] = c[n]
      BY <2>1, <3>1
    <3>. QED
      BY <1>2, <3>2 DEF Decoding
  <2>5. \E U : batch' \in Seq(U)
    BY <1>3
  <2>. QED
    BY <1>3, <2>1, <2>2, <2>3, <2>4, <2>5 DEF Decoding
<1>7. Committed(pending', entities', c[1], Polys(0, c[1]))
  <2>. DEFINE a == c[0]
              b == c[1]
  <2>1. /\ a \in Nat /\ b \in Nat /\ d[1] \in Nat /\ a <= d[1] /\ d[1] <= b
        /\ b <= Len(file.records)
    <3>1. 0 \in 0 .. n /\ 1 \in 0 .. n /\ 1 - 1 = 0
      BY <1>3
    <3>. QED
      BY <1>3, <1>4, <3>1 DEF Cuts
  <2>2. batch[1].todo = SubSeq(file.records, d[1] + 1, b) /\ MadeOf(made, a, d[1])
    <3>1. 1 - 1 = 0
      OBVIOUS
    <3>. QED
      BY <1>3, <3>1 DEF Decoding
  <2>3. d[1] = b
    <3>1. SubSeq(file.records, d[1] + 1, b) = << >>
      BY <1>2, <1>3, <2>2
    <3>. HIDE DEF b
    <3>. QED
      BY <1>5, <2>1, <3>1, PartEmpty
  <2>. HIDE DEF a, b, made
  <2>4. MadeOf(made, a, b)
    BY <2>2, <2>3
  <2>5. Committed(pending, entities, a, Polys(0, a))
    BY DEF a
  <2>6. IsMade(pending)
    BY <2>5 DEF Committed
  <2>7. /\ IsMade(pending') /\ pending'.polys = pending.polys \o made.polys
        /\ pending'.objects = pending.objects \cup made.objects
        /\ pending'.skipped = pending.skipped + made.skipped
        /\ pending'.verts = Joined(pending.verts, made.verts)
        /\ pending'.atts = Joined(pending.atts, made.atts)
        /\ pending'.next = Extended(pending.next, made.next)
        /\ pending'.order = Extended(pending.order, made.order)
    <3>1. Merges(Merged(pending, made), pending, made)
      BY <2>6, MergedIs
    <3>2. Merges(pending', pending, made)
      BY <1>2, <3>1 DEF made
    <3>. QED
      BY <3>2 DEF Merges
  <2>8. a <= b /\ 0 \in Nat /\ 0 <= a /\ a <= Len(file.records)
    BY <1>5, <2>1
  <2>9. /\ Wholes(0, b) = Wholes(0, a) \cup Wholes(a, b)
        /\ Polys(0, b) = Polys(0, a) \cup Polys(a, b)
        /\ Left(0, b) = Left(0, a) \cup Left(a, b)
        /\ Cardinality(Skips(0, b)) = Cardinality(Skips(0, a)) + Cardinality(Skips(a, b))
    BY <2>1, <2>8, SpanJoins
  <2>10. /\ Wholes(0, a) \in SUBSET Places /\ Wholes(a, b) \in SUBSET Places
         /\ Polys(0, a) \in SUBSET Places /\ Polys(a, b) \in SUBSET Places
    BY <2>1, <2>8, SpanIs
  <2>11. ListOf(pending'.polys, Polys(0, b))
    <3>1. ASSUME NEW k \in Polys(0, a), NEW l \in Polys(a, b) PROVE RankAt(k) < RankAt(l)
      <4>1. k \in Places /\ l \in Places /\ k < l
        BY <2>1, <2>10 DEF Polys
      <4>2. file.records[k].kind \in Polylines /\ file.records[l].kind \in Polylines
        BY DEF Polys
      <4>. QED
        BY <4>1, <4>2, RankOrder
    <3>2. ListOf(pending.polys, Polys(0, a)) /\ ListOf(made.polys, Polys(a, b))
      BY <2>4, <2>5 DEF Committed, MadeOf
    <3>3. ListOf(pending.polys \o made.polys, Polys(0, a) \cup Polys(a, b))
      BY <2>10, <3>1, <3>2, ListJoin
    <3>. QED
      BY <2>7, <2>9, <3>3
  <2>12. ListOf(entities', Accepts(Wholes(0, b)))
    <3>. DEFINE V == Accepts(Wholes(0, a))
                W == Accepts(Wholes(a, b))
    <3>1. ASSUME NEW k \in V, NEW l \in W PROVE RankAt(k) < RankAt(l)
      <4>1. k \in Places /\ l \in Places /\ k < l
        BY <2>1, <2>10 DEF Wholes, Accepts
      <4>2. file.records[k].kind \notin Polylines /\ file.records[l].kind \notin Polylines
        BY DEF Wholes, Accepts, Whole, Polylines
      <4>. QED
        BY <4>1, <4>2, RankOrder
    <3>2. ListOf(entities, V)
      <4>1. Wholes(0, a) \cup (Polys(0, a) \ Polys(0, a)) = Wholes(0, a)
        OBVIOUS
      <4>. QED
        BY <2>5, <4>1 DEF Committed
    <3>3. ListOf(Accepted(made.ents), W)
      BY <2>4, AcceptedIs DEF MadeOf
    <3>4. V \in SUBSET Places /\ W \in SUBSET Places
      BY <2>10 DEF Accepts
    <3>5. V \cup W = Accepts(Wholes(0, b))
      BY <2>9 DEF Accepts
    <3>. HIDE DEF V, W
    <3>6. ListOf(entities \o Accepted(made.ents), V \cup W)
      BY <3>1, <3>2, <3>3, <3>4, ListJoin
    <3>. QED
      BY <1>2, <3>5, <3>6 DEF made
  <2>13. /\ pending'.objects = Left(0, b)
         /\ pending'.skipped = Cardinality(Skips(0, b))
    BY <2>4, <2>5, <2>7, <2>9 DEF Committed, MadeOf
  <2>14. Wholes(0, b) \cup (Polys(0, b) \ Polys(0, b)) = Wholes(0, b)
    OBVIOUS
  <2>15. MapsOf(made, a, b)
    BY <2>4 DEF MadeOf
  <2>16. \A kinds, map, more :
            RowsAre(map, 0, a, kinds) /\ RowsAre(more, a, b, kinds)
                => RowsAre(Joined(map, more), 0, b, kinds)
    BY <2>1, <2>8, RowsJoin
  <2>17. RowsAre(pending.verts, 0, a, Vertices) /\ RowsAre(pending.atts, 0, a, {"attrib"})
    <3>1. HandlesOf(Polys(0, a) \ Polys(0, a)) = {}
      BY DEF HandlesOf
    <3>. QED
      BY <2>5, <3>1 DEF Committed, RowsAre
  <2>18. RowsAre(pending'.verts, 0, b, Vertices) /\ RowsAre(pending'.atts, 0, b, {"attrib"})
    BY <2>7, <2>15, <2>16, <2>17 DEF MapsOf
  <2>19. LinksAre(pending'.next, 0, b) /\ ListsAre(pending'.order, 0, b)
    BY <2>1, <2>5, <2>7, <2>8, <2>15, LinksJoin, ListsJoin DEF Committed, MapsOf
  <2>20. Bare(pending'.polys)
    BY <2>4, <2>5, <2>7, <2>15, BareJoin DEF Committed, MadeOf, MapsOf
  <2>21. Drawn(entities')
    BY <1>2, <2>4, <2>5, <2>15, DrawnJoin DEF Committed, MadeOf, MapsOf, made
  <2>22. Committed(pending', entities', b, Polys(0, b))
    BY <2>7, <2>11, <2>12, <2>13, <2>14, <2>18, <2>19, <2>20, <2>21 DEF Committed, RowsAre
  <2>. QED
    BY <2>22 DEF b
<1>. QED
  BY <1>6, <1>7

\* The next records are cut into the chunks of a batch.
LEMMA StartStep ==
    ASSUME FileOk, NEW c, NEW d, Decoding(rest, batch, c, d), Start
    PROVE  \E c2, d2 : Decoding(rest', batch', c2, d2) /\ c2[0] = c[0]
<1>. DEFINE s == file.records
            N == Len(s)
            a == c[0]
            size == ChunkSize * BatchChunks
            L == IF size < Len(rest) THEN size ELSE Len(rest)
            taken == SubSeq(rest, 1, L)
            q == (Len(taken) + ChunkSize - 1) \div ChunkSize
            To(i) == IF i * ChunkSize < Len(taken) THEN i * ChunkSize ELSE Len(taken)
            ChunkAt(i) == SubSeq(taken, (i - 1) * ChunkSize + 1, To(i))
            c2 == [i \in 0 .. q |-> a + Least(i * ChunkSize, Len(taken))]
            d2 == [i \in 1 .. q |-> c2[i - 1]]
<1>1. /\ batch = << >> /\ rest # << >>
      /\ batch' = [i \in 1 .. q |-> Chunk(ChunkAt(i))]
      /\ rest' = SubSeq(rest, Len(taken) + 1, Len(rest))
  BY DEF Start
<1>2. s \in Seq(Record) /\ N \in Nat
  BY DEF FileOk
<1>3. Len(batch) = 0
  BY <1>1
<1>4. a \in Nat /\ a <= N /\ rest = SubSeq(s, a + 1, N)
  <2>1. Cuts(c, d, 0)
    BY <1>3 DEF Decoding
  <2>2. 0 \in 0 .. 0
    OBVIOUS
  <2>. QED
    BY <1>3, <2>1, <2>2 DEF Cuts, Decoding
<1>5. rest \in Seq(Record) /\ Len(rest) = N - a
  BY <1>2, <1>4, PartIs
<1>6. ChunkSize \in Nat \ {0} /\ BatchChunks \in Nat \ {0} /\ size \in Nat
  BY DwgLoadAssumption
<1>. HIDE DEF size
<1>7. L \in Nat /\ L <= N - a /\ 0 <= L
  BY <1>2, <1>4, <1>5, <1>6
<1>8. taken = SubSeq(s, a + 1, a + L) /\ Len(taken) = L
  <2>1. taken = SubSeq(rest, 0 + 1, L) /\ 0 \in Nat
    OBVIOUS
  <2>. HIDE DEF a, N, L, s, taken
  <2>2. SubSeq(SubSeq(s, a + 1, N), 0 + 1, L) = SubSeq(s, (a + 0) + 1, a + L)
    BY <1>2, <1>4, <1>7, PartPart DEF N
  <2>3. (a + 0) + 1 = a + 1 /\ a + L \in Nat /\ a <= a + L /\ a + L <= Len(s)
        /\ (a + L) - a = L
    BY <1>2, <1>4, <1>7 DEF N
  <2>4. taken = SubSeq(s, a + 1, a + L)
    BY <1>4, <2>1, <2>2, <2>3
  <2>5. Len(SubSeq(s, a + 1, a + L)) = (a + L) - a
    BY <1>2, <1>4, <2>3, PartIs
  <2>. QED
    BY <2>3, <2>4, <2>5
<1>. HIDE DEF L, taken
<1>9. q = (L + ChunkSize - 1) \div ChunkSize /\ \A i : To(i) = Least(i * ChunkSize, L)
  BY <1>8 DEF Least
<1>. HIDE DEF q
<1>10. /\ q \in Nat /\ q * ChunkSize >= L
       /\ \A i \in 1 .. q : (i - 1) * ChunkSize < L
  BY <1>6, <1>7, <1>9, ChunksIs
<1>11. \A i \in 0 .. q : i * ChunkSize \in Nat
  BY <1>6, <1>10
<1>12. /\ c2 \in [0 .. q -> Nat] /\ c2[0] = a /\ c2[q] = a + L
       /\ \A i \in 0 .. q : c2[i] = a + Least(i * ChunkSize, L) /\ c2[i] <= a + L
  <2>1. \A i \in 0 .. q : Least(i * ChunkSize, L) \in Nat /\ Least(i * ChunkSize, L) <= L
    BY <1>7, <1>11 DEF Least
  <2>2. c2 = [i \in 0 .. q |-> a + Least(i * ChunkSize, L)]
    BY <1>8
  <2>3. Least(0 * ChunkSize, L) = 0
    BY <1>6, <1>7 DEF Least
  <2>4. Least(q * ChunkSize, L) = L
    BY <1>6, <1>7, <1>10 DEF Least
  <2>. HIDE DEF c2, a, N
  <2>. QED
    BY <1>4, <1>7, <1>10, <2>1, <2>2, <2>3, <2>4
<1>13. \A i \in 1 .. q : d2[i] = c2[i - 1] /\ i - 1 \in 0 .. q /\ d2[i] \in Nat
  BY <1>10, <1>12
<1>14. d2 \in [1 .. q -> Nat]
  BY <1>13
<1>. HIDE DEF c2, d2
<1>15. ASSUME NEW i \in 1 .. q
       PROVE  /\ c2[i - 1] = a + (i - 1) * ChunkSize /\ c2[i] = a + Least(i * ChunkSize, L)
              /\ (i - 1) * ChunkSize \in Nat /\ Least(i * ChunkSize, L) \in Nat
              /\ (i - 1) * ChunkSize <= Least(i * ChunkSize, L) /\ Least(i * ChunkSize, L) <= L
  <2>1. i - 1 \in 0 .. q /\ i \in 0 .. q
    BY <1>10
  <2>2. (i - 1) * ChunkSize < L /\ (i - 1) * ChunkSize \in Nat /\ i * ChunkSize \in Nat
    BY <1>10, <1>11, <2>1
  <2>3. (i - 1) * ChunkSize <= i * ChunkSize
    <3>1. (i - 1) * ChunkSize = i * ChunkSize - ChunkSize
      BY <1>6
    <3>. QED
      BY <1>6, <2>2, <3>1
  <2>4. Least((i - 1) * ChunkSize, L) = (i - 1) * ChunkSize
    BY <2>2 DEF Least
  <2>5. c2[i - 1] = a + Least((i - 1) * ChunkSize, L) /\ c2[i] = a + Least(i * ChunkSize, L)
    BY <1>12, <2>1
  <2>6. Least(i * ChunkSize, L) \in Nat /\ (i - 1) * ChunkSize <= Least(i * ChunkSize, L)
        /\ Least(i * ChunkSize, L) <= L
    BY <1>7, <2>2, <2>3 DEF Least
  <2>. QED
    BY <2>2, <2>4, <2>5, <2>6
<1>16. ASSUME NEW i \in 1 .. q
       PROVE  ChunkAt(i) = SubSeq(s, c2[i - 1] + 1, c2[i])
  <2>. DEFINE x == (i - 1) * ChunkSize
              y == Least(i * ChunkSize, L)
  <2>1. /\ x \in Nat /\ y \in Nat /\ x <= y /\ y <= L
        /\ c2[i - 1] = a + x /\ c2[i] = a + y
    BY <1>15
  <2>2. ChunkAt(i) = SubSeq(SubSeq(s, a + 1, a + L), x + 1, y)
    BY <1>8, <1>9
  <2>. HIDE DEF x, y, a, s, N
  <2>3. a + L \in Nat /\ a <= a + L /\ a + L <= Len(s) /\ (a + L) - a = L
    BY <1>2, <1>4, <1>7 DEF N
  <2>. DEFINE b == a + L
  <2>4. b \in Nat /\ a <= b /\ b <= Len(s) /\ y <= b - a
    BY <2>1, <2>3
  <2>5. SubSeq(SubSeq(s, a + 1, b), x + 1, y) = SubSeq(s, (a + x) + 1, a + y)
    <3>. HIDE DEF b
    <3>. QED
      BY <1>2, <1>4, <2>1, <2>4, PartPart
  <2>. QED
    BY <2>1, <2>2, <2>5
<1>. HIDE DEF ChunkAt
<1>17. /\ batch' \in Seq({batch'[i] : i \in 1 .. q}) /\ Len(batch') = q
       /\ \A i \in 1 .. q : batch'[i] = Chunk(ChunkAt(i))
  <2>1. batch' = [i \in 1 .. q |-> Chunk(ChunkAt(i))]
    BY <1>1
  <2>2. \A i \in 1 .. q : batch'[i] = Chunk(ChunkAt(i))
    BY <2>1
  <2>3. DOMAIN batch' = 1 .. q /\ batch' = [i \in 1 .. q |-> batch'[i]]
    BY <2>1
  <2>4. batch' \in Seq({batch'[i] : i \in 1 .. q}) /\ Len(batch') = q
    BY <1>10, <2>3
  <2>. QED
    BY <2>2, <2>4
<1>18. ASSUME NEW i \in 1 .. q
       PROVE  /\ batch'[i].todo = SubSeq(s, d2[i] + 1, c2[i])
              /\ MadeOf(batch'[i].made, c2[i - 1], d2[i])
  <2>1. batch'[i].todo = ChunkAt(i) /\ batch'[i].made = Empty
    BY <1>17 DEF Chunk
  <2>2. d2[i] = c2[i - 1] /\ c2[i - 1] \in Nat
    BY <1>12, <1>13
  <2>3. MadeOf(Empty, c2[i - 1], c2[i - 1])
    BY <2>2, EmptyMade
  <2>. QED
    BY <1>16, <2>1, <2>2, <2>3
<1>19. Cuts(c2, d2, q)
  <2>1. a + L <= N
    BY <1>2, <1>4, <1>7
  <2>2. \A i \in 0 .. q : c2[i] <= N
    BY <1>2, <1>4, <1>7, <1>12, <2>1
  <2>3. \A i \in 1 .. q : c2[i - 1] <= d2[i] /\ d2[i] <= c2[i]
    BY <1>4, <1>12, <1>13, <1>15
  <2>. QED
    BY <1>12, <1>14, <2>2, <2>3 DEF Cuts
<1>20. rest' = SubSeq(s, c2[q] + 1, N)
  <2>1. rest' = SubSeq(SubSeq(s, a + 1, N), L + 1, N - a)
    BY <1>1, <1>4, <1>5, <1>8
  <2>2. L \in Nat /\ N - a \in Nat /\ L <= N - a /\ N <= Len(s)
    BY <1>2, <1>4, <1>7
  <2>. HIDE DEF s, N, a
  <2>. DEFINE y == N - a
  <2>3. y \in Nat /\ L <= y /\ y <= N - a
    BY <2>2
  <2>. HIDE DEF y
  <2>4. SubSeq(SubSeq(s, a + 1, N), L + 1, y) = SubSeq(s, (a + L) + 1, a + y)
    BY <1>2, <1>4, <2>2, <2>3, PartPart
  <2>5. a + y = N
    BY <1>2, <1>4 DEF y
  <2>. QED
    BY <1>12, <2>1, <2>4, <2>5 DEF y
<1>21. \E U : batch' \in Seq(U)
  BY <1>17
<1>. HIDE DEF a
<1>22. Decoding(rest', batch', c2, d2)
  BY <1>17, <1>18, <1>19, <1>20, <1>21 DEF Decoding
<1>. QED
  BY <1>12, <1>22 DEF a

\* A record is the one that its handle stands for.
LEMMA RecordedIs ==
    ASSUME FileOk, NEW k \in Places
    PROVE  Recorded(file.records[k].handle) = file.records[k]
<1>. DEFINE r == file.records[k]
<1>1. file.records \in Seq(Record) /\ ToSet(file.records) = {file.records[l] : l \in Places}
  BY SetIs DEF FileOk, Places
<1>2. r \in ToSet(file.records)
  BY <1>1
<1>3. \A q \in ToSet(file.records) : q.handle = r.handle => q = r
  BY <1>1 DEF FileOk
<1>. QED
  BY <1>2, <1>3 DEF Recorded

\* The links that were read are those of the vertices.
LEMMA LinksForRow ==
    ASSUME FileOk, NEW next, LinksAre(next, 0, Len(file.records)), NEW h
    PROVE  LinksFor(next, WholeRow(h, Vertices))
<1>. DEFINE N == Len(file.records)
            verts == WholeRow(h, Vertices)
<1>1. 0 \in Nat /\ N \in Nat /\ 0 <= N /\ N <= Len(file.records) /\ 0 + 1 .. N = Places
  BY DEF FileOk, Places
<1>. HIDE DEF N
<1>2. /\ verts \in Seq(Nat)
      /\ \A i \in 1 .. Len(verts) : \E k \in 0 + 1 .. N :
            file.records[k] \in RowSet(h, Vertices) /\ verts[i] = file.records[k].handle
  BY <1>1, RowIs DEF WholeRow, N
<1>. HIDE DEF verts
<1>3. LinksAre(next, 0, N)
  BY DEF N
<1>4. CASE file.r2004
  <2>1. Linked(0, N) = {}
    BY <1>4 DEF Linked
  <2>2. DOMAIN next = {}
    BY <1>3, <2>1 DEF LinksAre, HandlesOf
  <2>. QED
    BY <1>4, <2>2 DEF LinksFor, verts
<1>5. CASE ~file.r2004
  <2>. SUFFICES ASSUME NEW v \in ToSet(verts) PROVE v \in DOMAIN next /\ next[v] = LinkOf(v)
    BY <1>5 DEF LinksFor, LinksAmong, verts
  <2>1. ToSet(verts) = {verts[i] : i \in 1 .. Len(verts)}
    BY <1>2, SetIs
  <2>2. PICK k \in 0 + 1 .. N : file.records[k] \in RowSet(h, Vertices)
                                /\ v = file.records[k].handle
    BY <1>2, <2>1
  <2>3. k \in Linked(0, N)
    BY <1>5, <2>2 DEF Linked, Sane, RowSet, IsObject, Vertices, Objects
  <2>4. v \in DOMAIN next /\ next[v] = LinkAs(file.records[k])
    BY <1>3, <2>2, <2>3 DEF LinksAre, HandlesOf
  <2>5. k \in Places
    BY <1>1
  <2>6. Recorded(v) = file.records[k]
    BY <2>2, <2>5, RecordedIs
  <2>. QED
    BY <2>2, <2>4, <2>6 DEF LinkOf, LinkAs
<1>. QED
  BY <1>4, <1>5

\* A polyline that gets its vertices is drawn as it should be, and otherwise the same.
LEMMA CompletedIs ==
    ASSUME NEW e, IsEntity(e)
    PROVE  /\ IsEntity(Completed(e))
           /\ Completed(e).handle = e.handle /\ Completed(e).kind = e.kind
           /\ e.handle \notin DOMAIN pending.verts => Completed(e).kids = e.kids
           /\ e.handle \in DOMAIN pending.verts /\ e.handle \in DOMAIN pending.order =>
                 Completed(e).kids = Fits(OrderedVertices(pending.verts[e.handle],
                                                          pending.order[e.handle], pending.next))
<1>. DEFINE new == Completed(e)
            order == IF e.handle \in DOMAIN pending.order THEN pending.order[e.handle] ELSE << >>
            verts == OrderedVertices(pending.verts[e.handle], order, pending.next)
            kids == Kept(verts, {v \in ToSet(verts) : Recorded(v).kind = "vertex"})
            end == IF e.kind = "polyface" /\ e.handle \in DOMAIN pending.ends
                   THEN pending.ends[e.handle] ELSE e.end
<1>1. new = IF e.handle \notin DOMAIN pending.verts THEN e
            ELSE [e EXCEPT !.kids = kids, !.end = end]
  BY DEF Completed
<1>2. kids = Fits(verts)
  BY DEF Fits
<1>. HIDE DEF new, verts, kids, end
<1>3. /\ IsEntity(new) /\ new.handle = e.handle /\ new.kind = e.kind
      /\ e.handle \notin DOMAIN pending.verts => new.kids = e.kids
      /\ e.handle \in DOMAIN pending.verts => new.kids = Fits(verts)
  BY <1>1, <1>2 DEF IsEntity
<1>4. e.handle \in DOMAIN pending.order =>
         verts = OrderedVertices(pending.verts[e.handle], pending.order[e.handle], pending.next)
  BY DEF verts
<1>. QED
  BY <1>3, <1>4 DEF new

LEMMA CompletedDrawn ==
    ASSUME FileOk, NEW k \in Polys(0, Len(file.records)), NEW e, IsEntity(e), From(e, k),
           e.kids = << >>, At(pending.verts, e.handle) = WholeRow(e.handle, Vertices),
           LinksAre(pending.next, 0, Len(file.records)),
           ListsAre(pending.order, 0, Len(file.records))
    PROVE  PolyDrawn(Completed(e))
<1>. DEFINE N == Len(file.records)
            h == e.handle
            verts == WholeRow(h, Vertices)
            owned == file.records[k].owned
            all == OrderedVertices(verts, owned, pending.next)
            new == Completed(e)
<1>1. N \in Nat /\ 0 \in Nat /\ 0 <= N /\ N <= Len(file.records) /\ k \in Places
  BY DEF FileOk, Places, Polys
<1>2. h = file.records[k].handle /\ Place(h) = k
  BY <1>1, PlaceIs DEF From
<1>3. owned \in Seq(Nat)
  <2>1. file.records[k] \in Record
    BY <1>1 DEF FileOk, Places
  <2>2. \A r \in Record : r.owned \in Seq(Nat)
    BY DEF Record
  <2>. QED
    BY <2>1, <2>2
<1>4. verts \in Seq(Nat) /\ Once(verts)
  <2>. HIDE DEF N
  <2>1. Row(0, N, h, Vertices) \in Seq(Nat) /\ Once(Row(0, N, h, Vertices))
    BY <1>1, RowIs
  <2>. QED
    BY <2>1 DEF WholeRow, N
<1>5. LinksFor(pending.next, verts)
  BY LinksForRow
<1>6. /\ h \in DOMAIN pending.order /\ pending.order[h] = owned
  BY <1>2 DEF ListsAre
<1>7. At(pending.verts, h) = verts
  OBVIOUS
<1>. HIDE DEF verts, owned, all, new, h, N
<1>8. InOrder(all, verts, owned)
  BY <1>3, <1>4, <1>5, OrderedIs DEF all
<1>9. KidsGood(Fits(all), verts, owned)
  BY <1>3, <1>4, <1>8, FitsInOrder
<1>10. new.kids = Fits(all)
  <2>1. CASE h \in DOMAIN pending.verts
    <3>1. pending.verts[h] = verts
      BY <1>7, <2>1 DEF At
    <3>2. new.kids = Fits(OrderedVertices(pending.verts[h], pending.order[h], pending.next))
      BY <1>6, <2>1, CompletedIs DEF new, h
    <3>. QED
      BY <1>6, <3>1, <3>2 DEF all
  <2>2. CASE h \notin DOMAIN pending.verts
    <3>1. verts = << >>
      BY <1>7, <2>2 DEF At
    <3>2. all \in Seq(Nat) /\ ToSet(all) = ToSet(verts)
      BY <1>8 DEF InOrder
    <3>3. ToSet(verts) = {}
      BY <3>1 DEF ToSet
    <3>4. all = << >>
      <4>1. \A i \in 1 .. Len(all) : all[i] \in ToSet(all)
        BY <3>2, SetIs
      <4>2. Len(all) = 0
        <5>1. ASSUME Len(all) # 0 PROVE FALSE
          <6>1. 1 \in 1 .. Len(all)
            BY <3>2, <5>1
          <6>. QED
            BY <3>2, <3>3, <4>1, <6>1
        <5>. QED
          BY <5>1
      <4>. QED
        BY <3>2, <4>2
    <3>5. Fits(<< >>) = << >>
      BY KeptEmpty DEF Fits
    <3>6. new.kids = << >>
      BY <2>2, CompletedIs DEF new, h
    <3>. QED
      BY <3>4, <3>5, <3>6
  <2>. QED
    BY <2>1, <2>2
<1>11. new.handle = h
  BY CompletedIs DEF new, h
<1>12. KidsGood(new.kids, WholeRow(new.handle, Vertices), file.records[Place(new.handle)].owned)
  BY <1>2, <1>9, <1>10, <1>11 DEF verts, owned
<1>. QED
  BY <1>12 DEF PolyDrawn, new

\* A polyline is drawn as its handle and its children are.
LEMMA PolySame ==
    ASSUME NEW e, NEW f, f.handle = e.handle, f.kids = e.kids, PolyDrawn(e)
    PROVE  PolyDrawn(f)
BY DEF PolyDrawn

\* So is an INSERT that gets its attributes,
LEMMA WithAttributesIs ==
    ASSUME NEW e, IsEntity(e)
    PROVE  /\ IsEntity(WithAttributes(e))
           /\ WithAttributes(e).handle = e.handle /\ WithAttributes(e).kind = e.kind
           /\ WithAttributes(e).kids =
                 IF e.kind = "insert" /\ e.handle \in DOMAIN pending.atts
                 THEN pending.atts[e.handle] ELSE e.kids
<1>. DEFINE new == WithAttributes(e)
            kids == IF e.handle \in DOMAIN pending.atts THEN pending.atts[e.handle] ELSE e.kids
            end == IF e.handle \in DOMAIN pending.ends THEN pending.ends[e.handle] ELSE e.end
<1>1. new = IF e.kind # "insert" THEN e ELSE [e EXCEPT !.kids = kids, !.end = end]
  BY DEF WithAttributes
<1>. HIDE DEF new, kids, end
<1>2. /\ IsEntity(new) /\ new.handle = e.handle /\ new.kind = e.kind
      /\ new.kids = IF e.kind = "insert" THEN kids ELSE e.kids
  BY <1>1 DEF IsEntity
<1>. QED
  BY <1>2 DEF new, kids

\* and an entity whose owner is corrected.
LEMMA OwnedIs ==
    ASSUME NEW e, NEW owner, IsEntity(e)
    PROVE  LET new == [e EXCEPT !.owner = owner]
           IN IsEntity(new) /\ new.handle = e.handle /\ new.kind = e.kind /\ new.kids = e.kids
BY DEF IsEntity

\* When nothing is left to read, all records have been.
LEMMA AllRead ==
    ASSUME FileOk, NEW c, NEW d, Decoding(<< >>, << >>, c, d)
    PROVE  c[0] = Len(file.records)
<1>. DEFINE N == Len(file.records)
            a == c[0]
<1>1. file.records \in Seq(Record) /\ N \in Nat
  BY DEF FileOk
<1>2. Len(<< >>) = 0 /\ 0 \in 0 .. 0
  OBVIOUS
<1>3. c[0] \in Nat /\ c[0] <= N /\ << >> = SubSeq(file.records, c[0] + 1, N)
  BY <1>2 DEF Decoding, Cuts
<1>4. a \in Nat /\ a <= N /\ SubSeq(file.records, a + 1, N) = << >> /\ N <= Len(file.records)
  BY <1>1, <1>3
<1>. HIDE DEF a, N
<1>5. a = N
  BY <1>1, <1>4, PartEmpty
<1>. QED
  BY <1>5 DEF a, N

\* The first polyline that is pending goes into the document.
LEMMA AssembleStep ==
    ASSUME FileOk, NEW n \in Nat, n = Len(file.records), NEW P,
           Committed(pending, entities, n, P), Assemble
    PROVE  \E Q : Committed(pending', entities', n, Q)
<1>. DEFINE e == Head(pending.polys)
            verts == Less(pending.verts, {e.handle})
            done == Polys(0, n) \ P
<1>1. /\ pending.polys # << >>
      /\ entities' = entities \o Accepted(<<Completed(e)>>)
      /\ pending' = [pending EXCEPT !.polys = Tail(pending.polys), !.verts = verts]
  BY DEF Assemble
<1>2. /\ IsMade(pending)
      /\ pending.objects = Left(0, n) /\ pending.skipped = Cardinality(Skips(0, n))
      /\ P \subseteq Polys(0, n) /\ ListOf(pending.polys, P)
      /\ \A k \in done, l \in P : k < l
      /\ ListOf(entities, Accepts(Wholes(0, n) \cup done))
      /\ \A h : h \notin HandlesOf(done) => At(pending.verts, h) = Row(0, n, h, Vertices)
      /\ RowsAre(pending.atts, 0, n, {"attrib"})
      /\ LinksAre(pending.next, 0, n) /\ ListsAre(pending.order, 0, n)
      /\ Bare(pending.polys) /\ Drawn(entities)
  BY DEF Committed
<1>3. Wholes(0, n) \in SUBSET Places /\ Polys(0, n) \in SUBSET Places
      /\ P \in SUBSET Places
  <2>1. 0 \in Nat /\ n <= Len(file.records)
    OBVIOUS
  <2>2. Wholes(0, n) \in SUBSET Places /\ Polys(0, n) \in SUBSET Places
    BY <2>1, SpanIs
  <2>. QED
    BY <1>2, <2>2
<1>. HIDE DEF e, verts, done
<1>4. IsEntity(e) /\ \E k \in P : /\ From(e, k) /\ ListOf(Tail(pending.polys), P \ {k})
                                  /\ \A l \in P \ {k} : RankAt(k) < RankAt(l)
  BY <1>1, <1>2, <1>3, ListTail DEF e
<1>5. PICK k \in P : /\ From(e, k) /\ ListOf(Tail(pending.polys), P \ {k})
                     /\ \A l \in P \ {k} : RankAt(k) < RankAt(l)
  BY <1>4
<1>6. \A l \in Polys(0, n) : file.records[l].kind \in Polylines
  BY DEF Polys
<1>7. \A l \in P \ {k} : k < l
  <2>. SUFFICES ASSUME NEW l \in P \ {k} PROVE k < l
    OBVIOUS
  <2>1. k \in Places /\ l \in Places /\ RankAt(k) < RankAt(l)
    BY <1>3, <1>5
  <2>2. file.records[k].kind \in Polylines /\ file.records[l].kind \in Polylines
    BY <1>2, <1>6
  <2>3. Len(file.records) \in Nat
    BY DEF FileOk
  <2>. QED
    BY <2>1, <2>2, <2>3 DEF RankAt, Places
<1>8. ListOf(Accepted(<<Completed(e)>>), Accepts({k}))
  <2>1. IsEntity(Completed(e)) /\ From(Completed(e), k)
    BY <1>4, <1>5, CompletedIs DEF From
  <2>2. ListOf(<<Completed(e)>>, {k})
    BY <2>1, ListOne
  <2>. QED
    BY <2>2, AcceptedIs
<1>. DEFINE V == Accepts(Wholes(0, n) \cup done)
            W == Accepts({k})
<1>9. V \in SUBSET Places /\ W \in SUBSET Places
  BY <1>3 DEF Accepts, done
<1>10. ASSUME NEW x \in V, NEW y \in W PROVE RankAt(x) < RankAt(y)
  <2>1. x \in Places /\ y \in Places /\ y = k
    BY <1>9 DEF Accepts
  <2>2. file.records[y].kind \in Polylines
    BY <1>2, <1>6, <2>1
  <2>3. CASE x \in Wholes(0, n)
    <3>1. file.records[x].kind \notin Polylines
      BY <2>3 DEF Wholes, Whole, Polylines
    <3>. QED
      BY <2>1, <2>2, <3>1, RankOrder
  <2>4. CASE x \in done
    <3>1. x < y /\ file.records[x].kind \in Polylines
      BY <1>2, <1>6, <2>1, <2>4 DEF done
    <3>. QED
      BY <2>1, <2>2, <3>1, RankOrder
  <2>. QED
    BY <2>3, <2>4 DEF Accepts
<1>11. ListOf(entities', V \cup W)
  <2>1. ListOf(entities, V) /\ ListOf(Accepted(<<Completed(e)>>), W)
    BY <1>2, <1>8
  <2>. HIDE DEF V, W
  <2>2. ListOf(entities \o Accepted(<<Completed(e)>>), V \cup W)
    BY <1>9, <1>10, <2>1, ListJoin
  <2>. QED
    BY <1>1, <2>2
<1>12. Polys(0, n) \ (P \ {k}) = done \cup {k}
  BY <1>2 DEF done
<1>13. V \cup W = Accepts(Wholes(0, n) \cup (Polys(0, n) \ (P \ {k})))
  BY <1>12 DEF Accepts
<1>14. ListOf(entities', Accepts(Wholes(0, n) \cup (Polys(0, n) \ (P \ {k}))))
  BY <1>11, <1>13
<1>15. \A x \in Polys(0, n) \ (P \ {k}), y \in P \ {k} : x < y
  BY <1>2, <1>7, <1>12
<1>16. /\ IsMade(pending') /\ pending'.polys = Tail(pending.polys)
       /\ pending'.objects = pending.objects /\ pending'.skipped = pending.skipped
       /\ pending'.verts = verts /\ pending'.atts = pending.atts
       /\ pending'.next = pending.next /\ pending'.order = pending.order
  BY <1>1, <1>2 DEF IsMade
<1>17. P \ {k} \subseteq Polys(0, n) /\ ListOf(pending'.polys, P \ {k})
  BY <1>2, <1>5, <1>16
<1>18. e.handle = file.records[k].handle /\ e.handle \notin HandlesOf(done)
  <2>1. \A l \in done : l # k /\ l \in Places /\ k \in Places
    BY <1>3 DEF done
  <2>2. e.handle = file.records[k].handle
    BY <1>5 DEF From
  <2>. QED
    BY <2>1, <2>2 DEF FileOk, HandlesOf
<1>19. \A h : h \notin HandlesOf(Polys(0, n) \ (P \ {k})) =>
                 At(verts, h) = Row(0, n, h, Vertices)
  <2>1. HandlesOf(Polys(0, n) \ (P \ {k})) = HandlesOf(done) \cup {e.handle}
    BY <1>12, <1>18 DEF HandlesOf
  <2>2. \A h : h # e.handle => At(verts, h) = At(pending.verts, h)
    BY LessAt DEF verts
  <2>. QED
    BY <1>2, <2>1, <2>2
<1>20. Bare(pending'.polys) /\ e.kids = << >>
  <2>1. PICK T : pending.polys \in Seq(T)
    BY <1>2 DEF ListOf
  <2>. DEFINE t == Tail(pending.polys)
  <2>2. /\ Len(pending.polys) \in Nat \ {0} /\ Head(pending.polys) = pending.polys[1]
        /\ \A i \in 1 .. Len(t) : t[i] = pending.polys[i + 1] /\ i + 1 \in 1 .. Len(pending.polys)
    BY <1>1, <2>1
  <2>. HIDE DEF t
  <2>3. Bare(t)
    BY <1>2, <2>2 DEF Bare
  <2>4. e.kids = << >>
    BY <1>2, <2>2 DEF Bare, e
  <2>. QED
    BY <1>16, <2>3, <2>4 DEF t
<1>21. Drawn(entities')
  <2>1. PolyDrawn(Completed(e))
    <3>1. At(pending.verts, e.handle) = WholeRow(e.handle, Vertices)
      BY <1>2, <1>18 DEF WholeRow
    <3>2. k \in Polys(0, Len(file.records))
      BY <1>2
    <3>. QED
      BY <1>2, <1>4, <1>5, <1>20, <3>1, <3>2, CompletedDrawn
  <2>2. Completed(e).kind \in Polylines
    <3>1. Completed(e).kind = e.kind /\ e.kind = file.records[k].kind
      BY <1>4, <1>5, CompletedIs DEF From
    <3>. QED
      BY <1>2, <1>6, <3>1
  <2>. DEFINE f == Completed(e)
  <2>. HIDE DEF f
  <2>3. PICK S : entities \in Seq(S)
    BY <1>2 DEF ListOf
  <2>. DEFINE more == Accepted(<<f>>)
  <2>4. more \in Seq({f})
    <3>1. <<f>> \in Seq({f})
      OBVIOUS
    <3>. QED
      BY <3>1, KeptTyped DEF Accepted
  <2>5. entities \in Seq(S \cup {f}) /\ more \in Seq(S \cup {f})
    BY <2>3, <2>4
  <2>. HIDE DEF more
  <2>6. Both(entities', entities, more, S \cup {f})
    BY <1>1, <2>5, BothIs DEF more, f
  <2>7. Len(entities) \in Nat /\ Len(more) \in Nat /\ \A i \in 1 .. Len(more) : more[i] = f
    BY <2>3, <2>4
  <2>8. ASSUME NEW i \in 1 .. Len(entities')
        PROVE  IF entities'[i].kind \in Polylines THEN PolyDrawn(entities'[i])
               ELSE entities'[i].kids = << >>
    <3>1. CASE i \in 1 .. Len(entities)
      <4>1. entities'[i] = entities[i]
        BY <2>6, <3>1 DEF Both
      <4>. QED
        BY <1>2, <3>1, <4>1 DEF Drawn
    <3>2. CASE i \in Len(entities) + 1 .. Len(entities) + Len(more)
      <4>1. entities'[i] = more[i - Len(entities)] /\ i - Len(entities) \in 1 .. Len(more)
        BY <2>6, <2>7, <3>2 DEF Both
      <4>2. entities'[i] = f
        BY <2>7, <4>1
      <4>. QED
        BY <2>1, <2>2, <4>2 DEF f
    <3>. QED
      BY <2>6, <2>7, <3>1, <3>2 DEF Both
  <2>. QED
    BY <2>8 DEF Drawn
<1>22. Committed(pending', entities', n, P \ {k})
  BY <1>2, <1>14, <1>15, <1>16, <1>17, <1>19, <1>20, <1>21 DEF Committed
<1>. QED
  BY <1>22

\* When nothing is left to read and no polyline is pending, the document has
\* what it has to have, and the attributes change none of it.
LEMMA AttachStep ==
    ASSUME FileOk, Reading(rest, batch, pending, entities), Attach
    PROVE  Finished(pending', entities')
<1>1. /\ rest = << >> /\ batch = << >> /\ pending.polys = << >>
      /\ entities' = IF DOMAIN pending.atts = {} THEN entities
                     ELSE [i \in DOMAIN entities |-> WithAttributes(entities[i])]
  BY DEF Attach
<1>. DEFINE N == Len(file.records)
            atts == IF DOMAIN pending.atts = {} THEN pending.atts
                    ELSE Less(pending.atts,
                              {e.handle : e \in {x \in ToSet(entities) : x.kind = "insert"}})
<1>2. pending' = [pending EXCEPT !.atts = atts]
  BY DEF Attach
<1>3. PICK c, d, P : Decoding(rest, batch, c, d) /\ Committed(pending, entities, c[0], P)
  BY DEF Reading
<1>4. file.records \in Seq(Record) /\ N \in Nat
  BY DEF FileOk
<1>5. c[0] = N
  <2>1. Decoding(<< >>, << >>, c, d)
    BY <1>1, <1>3
  <2>. QED
    BY <2>1, AllRead
<1>6. P = {}
  BY <1>1, <1>3, ListEmpty DEF Committed
<1>7. Wholes(0, N) \cup Polys(0, N)
        = {k \in Places : Sane(k) /\ file.records[k].kind \in Whole \cup Polylines}
  <2>1. 0 + 1 .. N = Places
    BY <1>4 DEF Places
  <2>. QED
    BY <2>1 DEF Wholes, Polys
<1>8. Accepts(Wholes(0, N) \cup (Polys(0, N) \ P)) = Delivered
  BY <1>6, <1>7 DEF Accepts, Delivered
<1>9. /\ IsMade(pending) /\ ListOf(entities, Delivered)
      /\ pending.objects = Left(0, N) /\ pending.skipped = Cardinality(Skips(0, N))
  BY <1>3, <1>5, <1>8 DEF Committed
<1>10. ListOf(entities', Delivered)
  <2>1. CASE DOMAIN pending.atts = {}
    BY <1>1, <1>9, <2>1
  <2>2. CASE DOMAIN pending.atts # {}
    <3>1. entities' = [i \in DOMAIN entities |-> WithAttributes(entities[i])]
      BY <1>1, <2>2
    <3>2. DOMAIN entities = 1 .. Len(entities)
      BY <1>9 DEF ListOf
    <3>3. ASSUME NEW i \in 1 .. Len(entities)
          PROVE  /\ IsEntity(entities'[i])
                 /\ entities'[i].handle = entities[i].handle
                 /\ entities'[i].kind = entities[i].kind
      <4>1. IsEntity(entities[i])
        BY <1>9 DEF ListOf
      <4>2. entities'[i] = WithAttributes(entities[i])
        BY <3>1, <3>2
      <4>. QED
        BY <4>1, <4>2, WithAttributesIs
    <3>4. entities' = [i \in DOMAIN entities |-> entities'[i]]
      BY <3>1
    <3>. QED
      BY <1>9, <3>3, <3>4, ListChanged
  <2>. QED
    BY <2>1, <2>2
<1>. HIDE DEF atts
<1>11. /\ IsMade(pending') /\ pending'.next = pending.next
       /\ pending'.objects = pending.objects /\ pending'.skipped = pending.skipped
  BY <1>2, <1>9 DEF IsMade
<1>12. /\ RowsAre(pending.atts, 0, N, {"attrib"}) /\ Drawn(entities)
       /\ LinksAre(pending.next, 0, N)
  BY <1>3, <1>5 DEF Committed
<1>13. ASSUME NEW i \in 1 .. Len(entities')
       PROVE  /\ entities'[i].kind \in Polylines => PolyDrawn(entities'[i])
              /\ entities'[i].kind = "insert" =>
                    entities'[i].kids = WholeRow(entities'[i].handle, {"attrib"})
  <2>. DEFINE e == entities[i]
              f == entities'[i]
  <2>1. Len(entities') = Len(entities) /\ DOMAIN entities = 1 .. Len(entities)
    <3>1. DOMAIN entities' = DOMAIN entities
      BY <1>1
    <3>2. DOMAIN entities = 1 .. Len(entities) /\ DOMAIN entities' = 1 .. Len(entities')
          /\ Len(entities) \in Nat /\ Len(entities') \in Nat
      <4>1. (\E T : entities \in Seq(T)) /\ (\E T : entities' \in Seq(T))
        BY <1>9, <1>10 DEF ListOf
      <4>. QED
        BY <4>1
    <3>. QED
      BY <3>1, <3>2
  <2>2. i \in 1 .. Len(entities)
    BY <2>1
  <2>3. IsEntity(e)
    BY <1>9, <2>2 DEF ListOf
  <2>4. IF e.kind \in Polylines THEN PolyDrawn(e) ELSE e.kids = << >>
    BY <1>12, <2>2 DEF Drawn
  <2>5. f = IF DOMAIN pending.atts = {} THEN e ELSE WithAttributes(e)
    BY <1>1, <2>1, <2>2
  <2>. HIDE DEF e, f
  <2>6. /\ f.kind = e.kind /\ f.handle = e.handle
        /\ f.kids = IF e.kind = "insert" /\ e.handle \in DOMAIN pending.atts
                    THEN pending.atts[e.handle] ELSE e.kids
    BY <2>3, <2>5, WithAttributesIs
  <2>7. ASSUME f.kind \in Polylines PROVE PolyDrawn(f)
    <3>1. e.kind # "insert" /\ e.kind \in Polylines
      BY <2>6, <2>7 DEF Polylines
    <3>2. f.kids = e.kids /\ PolyDrawn(e)
      BY <2>4, <2>6, <3>1
    <3>. QED
      BY <2>6, <3>2, PolySame
  <2>8. ASSUME f.kind = "insert" PROVE f.kids = WholeRow(f.handle, {"attrib"})
    <3>1. e.kind \notin Polylines
      BY <2>6, <2>8 DEF Polylines
    <3>2. f.kids = At(pending.atts, f.handle)
      BY <2>4, <2>6, <2>8, <3>1 DEF At
    <3>. QED
      BY <1>12, <3>2 DEF RowsAre, WholeRow
  <2>. QED
    BY <2>7, <2>8 DEF f
<1>14. AllDrawn(entities')
  BY <1>13 DEF AllDrawn
<1>. QED
  BY <1>9, <1>10, <1>11, <1>12, <1>14 DEF Finished

\* Nor do the owners that are corrected.
LEMMA RebuildStep ==
    ASSUME Finished(pending, entities), Rebuild
    PROVE  Finished(pending', entities')
<1>1. pending' = pending
      /\ entities' = [i \in DOMAIN entities |->
            IF entities[i].kind = "marker" THEN entities[i]
            ELSE [entities[i] EXCEPT !.owner = RebuiltOwner(entities[i])]]
  BY DEF Rebuild
<1>2. ListOf(entities, Delivered)
  BY DEF Finished
<1>3. DOMAIN entities = 1 .. Len(entities)
  BY <1>2 DEF ListOf
<1>4. ASSUME NEW i \in 1 .. Len(entities)
      PROVE  /\ IsEntity(entities'[i])
             /\ entities'[i].handle = entities[i].handle
             /\ entities'[i].kind = entities[i].kind
             /\ entities'[i].kids = entities[i].kids
  <2>. DEFINE e == entities[i]
              owner == RebuiltOwner(e)
  <2>1. IsEntity(e)
    BY <1>2 DEF ListOf
  <2>2. entities'[i] = IF e.kind = "marker" THEN e ELSE [e EXCEPT !.owner = owner]
    BY <1>1, <1>3
  <2>. HIDE DEF owner, e
  <2>3. /\ IsEntity(entities'[i])
        /\ entities'[i].handle = e.handle /\ entities'[i].kind = e.kind
        /\ entities'[i].kids = e.kids
    BY <2>1, <2>2, OwnedIs
  <2>. QED
    BY <2>3 DEF e
<1>5. entities' = [i \in DOMAIN entities |-> entities'[i]]
  BY <1>1
<1>6. ListOf(entities', Delivered)
  BY <1>2, <1>4, <1>5, ListChanged
<1>7. AllDrawn(entities')
  <2>1. Len(entities') = Len(entities)
    <3>1. DOMAIN entities' = DOMAIN entities
      BY <1>1
    <3>2. DOMAIN entities' = 1 .. Len(entities') /\ Len(entities) \in Nat /\ Len(entities') \in Nat
      BY <1>2, <1>6 DEF ListOf
    <3>. QED
      BY <1>3, <3>1, <3>2
  <2>2. AllDrawn(entities)
    BY DEF Finished
  <2>3. ASSUME NEW i \in 1 .. Len(entities')
        PROVE  /\ entities'[i].kind \in Polylines => PolyDrawn(entities'[i])
               /\ entities'[i].kind = "insert" =>
                     entities'[i].kids = WholeRow(entities'[i].handle, {"attrib"})
    <3>1. i \in 1 .. Len(entities)
      BY <2>1
    <3>2. /\ entities'[i].handle = entities[i].handle
          /\ entities'[i].kind = entities[i].kind /\ entities'[i].kids = entities[i].kids
      BY <1>4, <3>1
    <3>3. /\ entities[i].kind \in Polylines => PolyDrawn(entities[i])
          /\ entities[i].kind = "insert" =>
                entities[i].kids = WholeRow(entities[i].handle, {"attrib"})
      BY <2>2, <3>1 DEF AllDrawn
    <3>4. PolyDrawn(entities[i]) => PolyDrawn(entities'[i])
      BY <3>2, PolySame
    <3>. QED
      BY <3>2, <3>3, <3>4
  <2>. QED
    BY <2>3 DEF AllDrawn
<1>. QED
  BY <1>1, <1>6, <1>7 DEF Finished

-----------------------------------------------------------------------------
(* Blocks.                                                                 *)

\* A block is found by its handle.
BlockAt(h) == CHOOSE block \in ToSet(file.blocks) : block.handle = h

LEMMA BlockIs ==
    ASSUME BlocksOk
    PROVE  /\ ToSet(file.blocks) \subseteq BlockRecord
           /\ \A b \in ToSet(file.blocks) : b.handle \in Blocks /\ BlockAt(b.handle) = b
           /\ \A h \in Blocks : BlockAt(h) \in ToSet(file.blocks) /\ BlockAt(h).handle = h
<1>1. /\ file.blocks \in Seq(BlockRecord) /\ DOMAIN file.blocks = 1 .. Len(file.blocks)
      /\ ToSet(file.blocks) = {file.blocks[i] : i \in 1 .. Len(file.blocks)}
      /\ ToSet(file.blocks) \subseteq BlockRecord
  BY SetIs DEF BlocksOk
<1>2. Blocks = {b.handle : b \in ToSet(file.blocks)}
  BY <1>1 DEF Blocks
<1>3. \A b, c \in ToSet(file.blocks) : b.handle = c.handle => b = c
  BY <1>1 DEF BlocksOk
<1>4. \A h \in Blocks : BlockAt(h) \in ToSet(file.blocks) /\ BlockAt(h).handle = h
  BY <1>2 DEF BlockAt
<1>5. \A b \in ToSet(file.blocks) : b.handle \in Blocks
  BY <1>2
<1>. QED
  BY <1>1, <1>3, <1>4, <1>5

\* Records have finitely many handles.
LEMMA HandlesFinite ==
    ASSUME FileOk, NEW W \in SUBSET Places
    PROVE  IsFiniteSet(HandlesOf(W))
<1>1. Len(file.records) \in Nat
  BY DEF FileOk
<1>2. IsFiniteSet(1 .. Len(file.records)) /\ W \in SUBSET (1 .. Len(file.records))
  BY <1>1, FS_Interval DEF Places
<1>3. IsFiniteSet(W)
  BY <1>2, FS_Subset
<1>. DEFINE f == [k \in W |-> file.records[k].handle]
<1>4. f \in Surjection(W, HandlesOf(W))
  BY DEF HandlesOf, Surjection
<1>. QED
  BY <1>3, <1>4, FS_Surjection

\* What a block names through sound records is the chain that was read.
LEMMA NamedIs ==
    ASSUME FileOk, LinksAre(pending.next, 0, Len(file.records)), NEW b \in BlockRecord
    PROVE  /\ \E T : Canonical(b) \in Seq(T)
           /\ \A h : Names(b, h) <=> h \in ToSet(Canonical(b))
           /\ Kept(WholeChain(b), {h \in ToSet(WholeChain(b)) : Names(b, h)}) = Canonical(b)
<1>. DEFINE chain == WholeChain(b)
            part == Canonical(b)
            named == {h \in ToSet(chain) : Names(b, h)}
<1>1. CASE file.r2004
  <2>1. chain = b.list /\ part = b.list /\ b.list \in Seq(Nat)
    BY <1>1 DEF WholeChain, Canonical, BlockRecord
  <2>2. ToSet(chain) = {chain[i] : i \in DOMAIN chain}
    BY DEF ToSet
  <2>3. \A h : Names(b, h) <=> \E i \in DOMAIN chain : chain[i] = h
    BY <1>1 DEF Names
  <2>. HIDE DEF chain, part
  <2>4. \A h : Names(b, h) <=> h \in ToSet(chain)
    BY <2>2, <2>3
  <2>5. named = ToSet(chain)
    BY <2>4
  <2>6. chain \in Seq(Nat) /\ \A i \in 1 .. Len(chain) : chain[i] \in ToSet(chain)
    BY <2>1, SetIs
  <2>7. Kept(chain, ToSet(chain)) = chain
    BY <2>6, KeptWhole
  <2>. QED
    BY <2>1, <2>4, <2>5, <2>6, <2>7 DEF chain, part
<1>2. CASE ~file.r2004
  <2>. DEFINE D == {r.handle : r \in {x \in ToSet(file.records) : ~IsObject(x)}}
              linked == [h \in D |-> LinkOf(h)]
              some == DOMAIN pending.next
              N == Len(file.records)
  <2>1. chain = BlockChain(b.first, b.last, linked) /\ part = BlockChain(b.first, b.last, pending.next)
    BY <1>2 DEF WholeChain, Canonical
  <2>2. /\ N \in Nat /\ Places = 1 .. N /\ 0 + 1 .. N = Places
        /\ ToSet(file.records) = {file.records[k] : k \in Places}
    BY SetIs DEF FileOk, Places
  <2>3. Linked(0, N) = {k \in Places : Sane(k) /\ ~IsObject(file.records[k])}
    BY <1>2, <2>2 DEF Linked
  <2>4. D = HandlesOf({k \in Places : ~IsObject(file.records[k])})
    BY <2>2 DEF HandlesOf
  <2>5. some = HandlesOf(Linked(0, N))
        /\ \A k \in Linked(0, N) : pending.next[file.records[k].handle] = LinkAs(file.records[k])
    BY DEF LinksAre
  <2>. HIDE DEF N
  <2>6. IsFiniteSet(D) /\ IsFiniteSet(some)
    BY <2>3, <2>4, <2>5, HandlesFinite
  <2>7. some \subseteq D
    BY <2>3, <2>4, <2>5 DEF HandlesOf
  <2>8. \A h \in D : h \in some <=> Recorded(h).fault = "none"
    <3>. SUFFICES ASSUME NEW k \in Places, ~IsObject(file.records[k])
                  PROVE  file.records[k].handle \in some <=> Recorded(file.records[k].handle).fault = "none"
      BY <2>4 DEF HandlesOf
    <3>1. Recorded(file.records[k].handle) = file.records[k]
      BY RecordedIs
    <3>2. file.records[k].handle \in some <=> k \in Linked(0, N)
      BY <2>3, <2>5 DEF HandlesOf, FileOk
    <3>. QED
      BY <2>3, <3>1, <3>2 DEF Sane
  <2>9. \A h \in some : pending.next[h] = LinkOf(h)
    <3>. SUFFICES ASSUME NEW k \in Linked(0, N)
                  PROVE  pending.next[file.records[k].handle] = LinkOf(file.records[k].handle)
      BY <2>5 DEF HandlesOf
    <3>1. Recorded(file.records[k].handle) = file.records[k]
      BY <2>3, RecordedIs
    <3>. QED
      BY <2>5, <3>1 DEF LinkOf, LinkAs
  <2>10. DOMAIN linked = D /\ \A h \in some : pending.next[h] = linked[h]
    BY <2>7, <2>9
  <2>. HIDE DEF linked, D
  <2>11. /\ part \in Seq(some) /\ chain \in Seq(D) /\ Begins(part, chain, some)
    BY <2>1, <2>6, <2>7, <2>10, ChainBegins
  <2>. HIDE DEF part
  <2>12. (\A h : UpTo(chain, h, some) <=> h \in ToSet(part)) /\ Kept(chain, ToSet(part)) = part
    BY <2>11, BeginsIs
  <2>13. \A h : Names(b, h) <=> UpTo(chain, h, some)
    <3>1. DOMAIN chain = 1 .. Len(chain) /\ \A i \in 1 .. Len(chain) : chain[i] \in D
      BY <2>11
    <3>2. \A h : Names(b, h) <=>
             \E i \in DOMAIN chain : chain[i] = h /\ \A j \in 1 .. i : Recorded(chain[j]).fault = "none"
      BY <1>2 DEF Names
    <3>. HIDE DEF chain
    <3>3. \A i \in DOMAIN chain : \A j \in 1 .. i : chain[j] \in some <=> Recorded(chain[j]).fault = "none"
      BY <2>8, <3>1
    <3>. QED
      BY <3>2, <3>3 DEF UpTo
  <2>14. named = ToSet(part)
    <3>1. \A h : UpTo(chain, h, some) => h \in ToSet(chain)
      BY DEF UpTo, ToSet
    <3>. HIDE DEF chain
    <3>. QED
      BY <2>12, <2>13, <3>1
  <2>. HIDE DEF named, chain
  <2>15. /\ \E T : part \in Seq(T)
         /\ \A h : Names(b, h) <=> h \in ToSet(part)
         /\ Kept(chain, named) = part
    BY <2>11, <2>12, <2>13, <2>14
  <2>. QED
    BY <2>15 DEF named, chain, part
<1>. QED
  BY <1>1, <1>2

\* An entity that blocks name gets one of them as its owner.
LEMMA OwnerIs ==
    ASSUME BlocksOk, NEW e,
           {b \in ToSet(file.blocks) : e.handle \in ToSet(Canonical(b))} # {}
    PROVE  \E b \in ToSet(file.blocks) :
              e.handle \in ToSet(Canonical(b)) /\ RebuiltOwner(e) = b.handle
<1>. DEFINE N == Len(file.blocks)
            naming == {i \in DOMAIN file.blocks : e.handle \in ToSet(Canonical(file.blocks[i]))}
            last == CHOOSE i \in naming : \A j \in naming : j <= i
<1>1. /\ file.blocks \in Seq(BlockRecord) /\ N \in Nat /\ DOMAIN file.blocks = 1 .. N
      /\ ToSet(file.blocks) = {file.blocks[i] : i \in 1 .. N}
  BY SetIs DEF BlocksOk
<1>2. naming \in SUBSET (1 .. N) /\ naming # {}
  BY <1>1
<1>3. BinaryOwner(e.handle, e.owner) = file.blocks[last].handle
  BY <1>2 DEF BinaryOwner
<1>. HIDE DEF naming, N
<1>4. last \in naming
  <2>1. \E i \in naming : \A j \in naming : j <= i
    BY <1>1, <1>2, NatGreatest
  <2>. QED
    BY <2>1
<1>. HIDE DEF last
<1>5. /\ file.blocks[last] \in BlockRecord /\ file.blocks[last] \in ToSet(file.blocks)
      /\ e.handle \in ToSet(Canonical(file.blocks[last]))
  <2>1. last \in 1 .. N
    BY <1>2, <1>4
  <2>2. e.handle \in ToSet(Canonical(file.blocks[last]))
    BY <1>4 DEF naming
  <2>. QED
    BY <1>1, <2>1, <2>2
<1>6. file.blocks[last].handle # Null
  BY <1>5 DEF BlockRecord
<1>7. RebuiltOwner(e) = file.blocks[last].handle
  BY <1>3, <1>6 DEF RebuiltOwner
<1>. QED
  BY <1>5, <1>7

\* The entities that go by the owner h.
Owned(ents, h) == {i \in 1 .. Len(ents) : ents[i].kind # "marker" /\ ents[i].owner = h}

\* A list of entities has each handle once.
LEMMA HandlesDiffer ==
    ASSUME FileOk, NEW ents, ListOf(ents, Delivered)
    PROVE  \A i, j \in 1 .. Len(ents) : ents[i].handle = ents[j].handle => i = j
<1>. SUFFICES ASSUME NEW i \in 1 .. Len(ents), NEW j \in 1 .. Len(ents),
                     ents[i].handle = ents[j].handle, i < j
              PROVE  FALSE
  BY DEF ListOf
<1>1. PICK k \in Delivered : From(ents[i], k)
  BY DEF ListOf
<1>2. PICK l \in Delivered : From(ents[j], l)
  BY DEF ListOf
<1>3. k \in Places /\ l \in Places
  BY DEF Delivered
<1>4. k = l
  BY <1>1, <1>2, <1>3 DEF From, FileOk
<1>5. Rank(ents[i]) = RankAt(k) /\ Rank(ents[j]) = RankAt(k) /\ RankAt(k) \in Nat
  BY <1>1, <1>2, <1>3, <1>4, RankIs
<1>6. Rank(ents[i]) < Rank(ents[j])
  BY DEF ListOf
<1>. QED
  BY <1>5, <1>6

\* A block's list has the entities that go by it, each once and in its order.
HeldIs(held, ents, b) ==
    /\ \E T : held \in Seq(T)
    /\ Once(held) /\ ToSet(held) = {ents[i].handle : i \in Owned(ents, b.handle)}
    /\ FollowsLast(held, Canonical(b))

LEMMA MembersIs ==
    ASSUME FileOk, NEW ents, ListOf(ents, Delivered), NEW b, \E T : Canonical(b) \in Seq(T)
    PROVE  HeldIs(MembersOf(b, ents), ents, b)
<1>. DEFINE set == {e \in ToSet(ents) : e.kind # "marker" /\ e.owner = b.handle}
            kept == Kept(ents, set)
            own == Handles(kept)
            list == Canonical(b)
            H == {ents[i].handle : i \in Owned(ents, b.handle)}
            ranks == [h \in ToSet(own) |-> LastIn(list, h)]
            places == [h \in ToSet(own) |-> Recorded(h).at]
            held == MembersOf(b, ents)
<1>1. held = IF list # << >> THEN StableSort(own, ranks)
             ELSE IF file.r2004 THEN own ELSE StableSort(own, places)
  BY DEF MembersOf
<1>2. PICK T : ents \in Seq(T)
  BY DEF ListOf
<1>3. PICK U : list \in Seq(U)
  OBVIOUS
<1>4. /\ ToSet(ents) = {ents[i] : i \in 1 .. Len(ents)}
      /\ set = {ents[i] : i \in Owned(ents, b.handle)}
  <2>1. ToSet(ents) = {ents[i] : i \in 1 .. Len(ents)}
    BY <1>2, SetIs
  <2>. QED
    BY <2>1 DEF Owned
<1>5. \A i, j \in 1 .. Len(ents) : ents[i].handle = ents[j].handle => i = j
  BY HandlesDiffer
<1>6. kept \in Seq(T) /\ PartOf(kept, ents, set) /\ Once(kept)
  <2>1. Once(ents)
    BY <1>5 DEF Once
  <2>. QED
    BY <1>2, <2>1, KeptTyped, KeptOrder, KeptOnce
<1>. HIDE DEF held, list, kept, set
<1>7. /\ \A i \in 1 .. Len(kept) : \E p \in Owned(ents, b.handle) : kept[i] = ents[p]
      /\ \A p \in Owned(ents, b.handle) : \E i \in 1 .. Len(kept) : kept[i] = ents[p]
  <2>1. \A i \in 1 .. Len(kept) : kept[i] \in set
    BY <1>6 DEF PartOf
  <2>2. \A p \in 1 .. Len(ents) : ents[p] \in set => \E i \in 1 .. Len(kept) : kept[i] = ents[p]
    BY <1>6 DEF PartOf
  <2>. QED
    BY <1>4, <2>1, <2>2 DEF Owned
<1>8. own \in Seq(H) /\ Len(own) = Len(kept) /\ \A i \in 1 .. Len(kept) : own[i] = kept[i].handle
  <2>1. DOMAIN kept = 1 .. Len(kept) /\ Len(kept) \in Nat
    BY <1>6
  <2>2. own = [i \in 1 .. Len(kept) |-> kept[i].handle]
    BY <2>1 DEF Handles
  <2>3. \A i \in 1 .. Len(kept) : kept[i].handle \in H
    BY <1>7
  <2>. HIDE DEF own, H
  <2>. QED
    BY <2>1, <2>2, <2>3
<1>. HIDE DEF own
<1>9. ToSet(own) = {own[i] : i \in 1 .. Len(own)} /\ ToSet(own) \subseteq H
  BY <1>8, SetIs
<1>10. ToSet(own) = H
  <2>1. \A p \in Owned(ents, b.handle) : ents[p].handle \in ToSet(own)
    BY <1>7, <1>8, <1>9
  <2>. QED
    BY <1>9, <2>1
<1>11. Once(own)
  <2>. SUFFICES ASSUME NEW i \in 1 .. Len(kept), NEW j \in 1 .. Len(kept), own[i] = own[j]
                PROVE  i = j
    BY <1>8 DEF Once
  <2>1. PICK p \in Owned(ents, b.handle) : kept[i] = ents[p]
    BY <1>7
  <2>2. PICK q \in Owned(ents, b.handle) : kept[j] = ents[q]
    BY <1>7
  <2>3. p = q
    BY <1>5, <1>8, <2>1, <2>2 DEF Owned
  <2>. QED
    BY <1>6, <2>1, <2>2, <2>3 DEF Once
<1>12. \A i \in 1 .. Len(own) : own[i] \in ToSet(own)
  BY <1>9
<1>13. CASE list # << >>
  <2>1. \A i \in 1 .. Len(own) : ranks[own[i]] = LastIn(list, own[i])
    BY <1>12
  <2>2. \A i \in 1 .. Len(own) : ranks[own[i]] \in Nat
    BY <1>3, <2>1, LastIs
  <2>. HIDE DEF ranks, H
  <2>3. held \in Seq(H) /\ SortOf(held, own, ranks) /\ FollowsLast(held, list)
    BY <1>1, <1>3, <1>8, <1>13, <2>1, <2>2, SortedIs, SortLast
  <2>. QED
    BY <1>10, <1>11, <2>3 DEF SortOf, HeldIs, list, held, H
<1>14. CASE list = << >>
  <2>1. \A i \in 1 .. Len(own) : places[own[i]] \in Nat
    <3>. SUFFICES ASSUME NEW h \in H PROVE Recorded(h).at \in Nat
      BY <1>10, <1>12
    <3>1. PICK i \in 1 .. Len(ents) : h = ents[i].handle
      BY DEF Owned
    <3>2. PICK k \in Delivered : From(ents[i], k)
      BY <3>1 DEF ListOf
    <3>3. k \in Places /\ h = file.records[k].handle
      BY <3>1, <3>2 DEF Delivered, From
    <3>4. Recorded(h) = file.records[k] /\ file.records[k] \in Record
      BY <3>3, RecordedIs DEF FileOk, Places
    <3>. QED
      BY <3>4 DEF Record
  <2>. HIDE DEF places, H
  <2>2. StableSort(own, places) \in Seq(H) /\ SortOf(StableSort(own, places), own, places)
    BY <1>8, <2>1, SortedIs
  <2>3. held \in Seq(H) /\ Once(held) /\ ToSet(held) = H
    <3>1. held = own \/ held = StableSort(own, places)
      BY <1>1, <1>14
    <3>. QED
      BY <1>8, <1>10, <1>11, <2>2, <3>1 DEF SortOf
  <2>4. FollowsLast(held, list)
    <3>1. ToSet(list) = {}
      BY <1>14 DEF ToSet
    <3>. QED
      BY <3>1 DEF FollowsLast
  <2>. QED
    BY <2>3, <2>4 DEF HeldIs, list, held, H
<1>. QED
  BY <1>13, <1>14

\* The owners and lists that the last pass gives are as the property says.
LEMMA RebuildHolds ==
    ASSUME FileOk, BlocksOk, Finished(pending, entities), Rebuild
    PROVE  BlocksGood(entities', members')
<1>. DEFINE ents == entities'
            mem == members'
<1>1. /\ entities' = [i \in DOMAIN entities |->
            IF entities[i].kind = "marker" THEN entities[i]
            ELSE [entities[i] EXCEPT !.owner = RebuiltOwner(entities[i])]]
      /\ \A b \in Blocks : mem[b] = MembersOf(BlockAt(b), ents)
  BY DEF Rebuild, BlockAt
<1>2. ListOf(entities, Delivered) /\ LinksAre(pending.next, 0, Len(file.records))
  BY DEF Finished
<1>3. ListOf(ents, Delivered)
  BY RebuildStep DEF Finished
<1>4. \A b \in ToSet(file.blocks) :
         /\ b \in BlockRecord /\ b.handle \in Blocks /\ BlockAt(b.handle) = b
         /\ \E T : Canonical(b) \in Seq(T)
         /\ \A h : Names(b, h) <=> h \in ToSet(Canonical(b))
         /\ Kept(WholeChain(b), {h \in ToSet(WholeChain(b)) : Names(b, h)}) = Canonical(b)
  BY <1>2, BlockIs, NamedIs
<1>5. \A b \in Blocks : HeldIs(mem[b], ents, BlockAt(b)) /\ BlockAt(b).handle = b
  <2>. SUFFICES ASSUME NEW b \in Blocks
                PROVE  HeldIs(mem[b], ents, BlockAt(b)) /\ BlockAt(b).handle = b
    OBVIOUS
  <2>1. BlockAt(b) \in ToSet(file.blocks) /\ BlockAt(b).handle = b
    BY BlockIs
  <2>2. \E T : Canonical(BlockAt(b)) \in Seq(T)
    BY <1>4, <2>1
  <2>. HIDE DEF ents, mem
  <2>3. HeldIs(MembersOf(BlockAt(b), ents), ents, BlockAt(b))
    BY <1>3, <2>2, MembersIs
  <2>. QED
    BY <1>1, <2>1, <2>3
<1>6. DOMAIN entities = 1 .. Len(entities) /\ Len(ents) = Len(entities)
  <2>1. DOMAIN ents = DOMAIN entities
    BY <1>1
  <2>2. (\E T : entities \in Seq(T)) /\ (\E T : ents \in Seq(T))
    BY <1>2, <1>3 DEF ListOf
  <2>3. DOMAIN entities = 1 .. Len(entities) /\ DOMAIN ents = 1 .. Len(ents)
        /\ Len(entities) \in Nat /\ Len(ents) \in Nat
    BY <2>2
  <2>. QED
    BY <2>1, <2>3
<1>7. ASSUME NEW i \in 1 .. Len(ents)
      PROVE  /\ ents[i].handle = entities[i].handle
             /\ ents[i].kind # "marker" => ents[i].owner = RebuiltOwner(entities[i])
  <2>. DEFINE e == entities[i]
              owner == RebuiltOwner(e)
  <2>1. IsEntity(e)
    BY <1>2, <1>6 DEF ListOf
  <2>2. ents[i] = IF e.kind = "marker" THEN e ELSE [e EXCEPT !.owner = owner]
    BY <1>1, <1>6
  <2>. HIDE DEF owner, e, ents
  <2>3. e.kind # "marker" => ents[i] = [handle |-> e.handle, kind |-> e.kind, mode |-> e.mode,
                                        owner |-> owner, kids |-> e.kids, end |-> e.end]
    BY <2>1, <2>2 DEF IsEntity
  <2>. QED
    BY <2>2, <2>3 DEF e, owner
<1>8. ToSet(ents) = {ents[i] : i \in 1 .. Len(ents)}
      /\ \A i, j \in 1 .. Len(ents) : ents[i].handle = ents[j].handle => i = j
  BY <1>3, HandlesDiffer, SetIs DEF ListOf
<1>. HIDE DEF ents, mem
<1>9. ASSUME NEW i \in 1 .. Len(ents) PROVE OwnerGood(ents[i], mem)
  <2>. DEFINE e == ents[i]
              naming == {b \in ToSet(file.blocks) : Names(b, e.handle)}
  <2>1. \A b \in Blocks : e.handle \in ToSet(mem[b]) <=> e.kind # "marker" /\ e.owner = b
    <3>. SUFFICES ASSUME NEW b \in Blocks
                  PROVE  e.handle \in ToSet(mem[b]) <=> e.kind # "marker" /\ e.owner = b
      OBVIOUS
    <3>1. ToSet(mem[b]) = {ents[j].handle : j \in Owned(ents, b)}
      BY <1>5 DEF HeldIs
    <3>2. e.handle \in ToSet(mem[b]) <=> i \in Owned(ents, b)
      BY <1>8, <3>1 DEF Owned
    <3>. QED
      BY <3>2 DEF Owned
  <2>2. ASSUME e.kind # "marker", naming # {} PROVE e.owner \in {b.handle : b \in naming}
    <3>1. e.handle = entities[i].handle /\ e.owner = RebuiltOwner(entities[i])
      BY <1>7, <2>2
    <3>2. naming = {b \in ToSet(file.blocks) : entities[i].handle \in ToSet(Canonical(b))}
      BY <1>4, <3>1
    <3>3. PICK b \in ToSet(file.blocks) : /\ entities[i].handle \in ToSet(Canonical(b))
                                          /\ RebuiltOwner(entities[i]) = b.handle
      BY <2>2, <3>2, OwnerIs
    <3>. QED
      BY <3>1, <3>2, <3>3
  <2>3. {b \in Blocks : e.handle \in ToSet(mem[b])}
           = IF e.kind = "marker" THEN {} ELSE {e.owner} \cap Blocks
    BY <2>1
  <2>. QED
    BY <2>2, <2>3 DEF OwnerGood
<1>10. ASSUME NEW b \in ToSet(file.blocks) PROVE ListGood(b, mem[b.handle])
  <2>1. HeldIs(mem[b.handle], ents, b)
    BY <1>4, <1>5
  <2>2. Cardinality(ToSet(mem[b.handle])) = Len(mem[b.handle])
    BY <2>1, OnceSize DEF HeldIs
  <2>3. FollowsLast(mem[b.handle], Canonical(b))
    BY <2>1 DEF HeldIs
  <2>. QED
    BY <1>4, <2>2, <2>3 DEF ListGood
<1>11. BlocksGood(ents, mem)
  BY <1>8, <1>9, <1>10 DEF BlocksGood
<1>. QED
  BY <1>11 DEF ents, mem

-----------------------------------------------------------------------------
(* The theorem.                                                            *)

\* The files have their records in order.
LEMMA FileIsOk ==
    ASSUME file \in Files
    PROVE  FileOk /\ BlocksOk
BY FilesAssumption DEF FileOk, BlocksOk, Places

\* What the invariant says of a file stays so, as the file does.
LEMMA FileKept ==
    ASSUME file' = file
    PROVE  /\ \A r, b, p, e : Reading(r, b, p, e)' <=> Reading(r, b, p, e)
           /\ \A p, e : Finished(p, e)' <=> Finished(p, e)
           /\ \A e, m : BlocksGood(e, m)' <=> BlocksGood(e, m)
<1>1. Places' = Places
  BY DEF Places
<1>2. \A h : Place(h)' = Place(h)
  BY <1>1, Zenon DEF Place
<1>3. \A k : Sane(k)' = Sane(k)
  BY DEF Sane
<1>4. \A e, k : From(e, k)' = From(e, k)
  BY DEF From
<1>5. \A e : Rank(e)' = Rank(e)
  BY <1>2 DEF Rank
<1>6. Delivered' = Delivered
  BY <1>1, <1>3 DEF Delivered
<1>7. \A s, W : ListOf(s, W)' <=> ListOf(s, W)
  BY <1>4, <1>5 DEF ListOf
<1>8. \A k : Leaves(k)' <=> Leaves(k)
  BY DEF Leaves, Preserved
<1>9. /\ \A a, b : Wholes(a, b)' = Wholes(a, b)
      /\ \A a, b : Polys(a, b)' = Polys(a, b)
  BY <1>3 DEF Wholes, Polys
<1>10. /\ \A a, b : Left(a, b)' = Left(a, b)
       /\ \A a, b : Skips(a, b)' = Skips(a, b)
  BY <1>3, <1>8 DEF Left, Skips
<1>11. \A h : Recorded(h)' = Recorded(h)
  BY Zenon DEF Recorded
<1>12. /\ \A a, b, h, kinds : Row(a, b, h, kinds)' = Row(a, b, h, kinds)
       /\ \A h, kinds : WholeRow(h, kinds)' = WholeRow(h, kinds)
  BY DEF Row, RowSet, WholeRow
<1>13. \A s : Fits(s)' = Fits(s)
  BY <1>11 DEF Fits
<1>14. \A h : LinkOf(h)' = LinkOf(h)
  BY <1>11 DEF LinkOf
<1>15. \A hs : LinkedOrders(hs)' = LinkedOrders(hs)
  BY <1>14 DEF LinkedOrders
<1>16. \A s : OrdersOf(s)' = OrdersOf(s)
  BY <1>15 DEF OrdersOf
<1>17. \A k, v, o : KidsGood(k, v, o)' <=> KidsGood(k, v, o)
  BY <1>13, <1>16, Zenon DEF KidsGood
<1>18. \A e : PolyDrawn(e)' <=> PolyDrawn(e)
  BY <1>2, <1>12, <1>17 DEF PolyDrawn
<1>19. \A s : (Drawn(s)' <=> Drawn(s)) /\ (AllDrawn(s)' <=> AllDrawn(s))
  BY <1>12, <1>18 DEF Drawn, AllDrawn
<1>20. \A a, b : Linked(a, b)' = Linked(a, b)
  BY <1>3 DEF Linked
<1>21. \A W : HandlesOf(W)' = HandlesOf(W)
  BY DEF HandlesOf
<1>22. /\ \A n, a, b : LinksAre(n, a, b)' <=> LinksAre(n, a, b)
       /\ \A o, a, b : ListsAre(o, a, b)' <=> ListsAre(o, a, b)
       /\ \A m, a, b, kinds : RowsAre(m, a, b, kinds)' <=> RowsAre(m, a, b, kinds)
  BY <1>9, <1>12, <1>20, <1>21 DEF LinksAre, ListsAre, RowsAre
<1>23. \A m, a, b : MapsOf(m, a, b)' <=> MapsOf(m, a, b)
  BY <1>22 DEF MapsOf
<1>24. \A m, a, b : MadeOf(m, a, b)' <=> MadeOf(m, a, b)
  BY <1>7, <1>9, <1>10, <1>23 DEF MadeOf
<1>25. \A c, d, n : Cuts(c, d, n)' <=> Cuts(c, d, n)
  BY DEF Cuts
<1>26. \A l, b, c, d : Decoding(l, b, c, d)' <=> Decoding(l, b, c, d)
  BY <1>24, <1>25 DEF Decoding
<1>27. \A W : Accepts(W)' = Accepts(W)
  BY DEF Accepts
<1>28. \A p, e, n, P : Committed(p, e, n, P)' <=> Committed(p, e, n, P)
  <2>. SUFFICES ASSUME NEW p, NEW e, NEW n, NEW P
                PROVE  Committed(p, e, n, P)' <=> Committed(p, e, n, P)
    OBVIOUS
  <2>1. (\A h : h \notin HandlesOf(Polys(0, n) \ P) => At(p.verts, h) = Row(0, n, h, Vertices))'
        <=> (\A h : h \notin HandlesOf(Polys(0, n) \ P) => At(p.verts, h) = Row(0, n, h, Vertices))
    <3>1. HandlesOf(Polys(0, n) \ P)' = HandlesOf(Polys(0, n) \ P)
      BY <1>9, <1>21
    <3>2. \A h : Row(0, n, h, Vertices)' = Row(0, n, h, Vertices)
      BY <1>12
    <3>. QED
      BY <3>1, <3>2
  <2>2. (P \subseteq Polys(0, n) /\ ListOf(p.polys, P))'
        <=> P \subseteq Polys(0, n) /\ ListOf(p.polys, P)
    BY <1>7, <1>9
  <2>3. ListOf(e, Accepts(Wholes(0, n) \cup (Polys(0, n) \ P)))'
        <=> ListOf(e, Accepts(Wholes(0, n) \cup (Polys(0, n) \ P)))
    <3>1. Accepts(Wholes(0, n) \cup (Polys(0, n) \ P))' = Accepts(Wholes(0, n) \cup (Polys(0, n) \ P))
      BY <1>9, <1>27
    <3>. QED
      BY <1>7, <3>1
  <2>4. (\A k \in Polys(0, n) \ P, l \in P : k < l)' <=> \A k \in Polys(0, n) \ P, l \in P : k < l
    BY <1>9
  <2>5. (p.objects = Left(0, n) /\ p.skipped = Cardinality(Skips(0, n)))'
        <=> p.objects = Left(0, n) /\ p.skipped = Cardinality(Skips(0, n))
    BY <1>10
  <2>6. (RowsAre(p.atts, 0, n, {"attrib"}) /\ LinksAre(p.next, 0, n) /\ ListsAre(p.order, 0, n))'
        <=> RowsAre(p.atts, 0, n, {"attrib"}) /\ LinksAre(p.next, 0, n) /\ ListsAre(p.order, 0, n)
    BY <1>22
  <2>7. (Bare(p.polys) /\ Drawn(e))' <=> Bare(p.polys) /\ Drawn(e)
    BY <1>19 DEF Bare
  <2>. QED
    BY <2>1, <2>2, <2>3, <2>4, <2>5, <2>6, <2>7 DEF Committed, IsMade
<1>29. \A r, b, p, e : Reading(r, b, p, e)' <=> Reading(r, b, p, e)
  BY <1>9, <1>26, <1>28 DEF Reading
<1>30. \A p, e : Finished(p, e)' <=> Finished(p, e)
  BY <1>6, <1>7, <1>10, <1>19, <1>22 DEF Finished
<1>31. \A b : WholeChain(b)' = WholeChain(b)
  <2>. DEFINE D == {r.handle : r \in {x \in ToSet(file.records) : ~IsObject(x)}}
              linked == [h \in D |-> LinkOf(h)]
  <2>1. D' = D
    BY DEF IsObject
  <2>2. linked' = linked
    BY <1>14, <2>1
  <2>3. \A b : WholeChain(b) = IF file.r2004 THEN b.list ELSE BlockChain(b.first, b.last, linked)
    BY DEF WholeChain
  <2>4. \A b : WholeChain(b)' = IF file.r2004 THEN b.list ELSE BlockChain(b.first, b.last, linked')
    BY DEF WholeChain
  <2>. QED
    BY <2>2, <2>3, <2>4
<1>32. \A b, h : Names(b, h)' <=> Names(b, h)
  BY <1>11, <1>31 DEF Names
<1>33. Blocks' = Blocks
  BY DEF Blocks
<1>34. \A e, m : OwnerGood(e, m)' <=> OwnerGood(e, m)
  BY <1>32, <1>33 DEF OwnerGood
<1>35. \A b, l : ListGood(b, l)' <=> ListGood(b, l)
  BY <1>31, <1>32 DEF ListGood
<1>36. \A e, m : BlocksGood(e, m)' <=> BlocksGood(e, m)
  BY <1>34, <1>35 DEF BlocksGood
<1>. QED
  BY <1>29, <1>30, <1>36

\* Before the first batch nothing is read.
LEMMA InitReads ==
    ASSUME Init
    PROVE  ReadInv
<1>1. /\ file \in Files /\ rest = file.records /\ batch = << >> /\ pending = Empty
      /\ entities = << >> /\ phase = "records"
  BY DEF Init
<1>2. FileOk
  BY <1>1, FileIsOk
<1>. DEFINE c == [i \in 0 .. 0 |-> 0]
            d == [i \in 1 .. 0 |-> 0]
<1>3. file.records \in Seq(Record) /\ Len(file.records) \in Nat
  BY <1>2 DEF FileOk
<1>4. Cuts(c, d, 0) /\ c[0] = 0
  BY <1>3 DEF Cuts
<1>5. rest = SubSeq(file.records, 0 + 1, Len(file.records))
  BY <1>1, <1>3
<1>6. batch \in Seq({}) /\ Len(batch) = 0
  BY <1>1
<1>7. MadeOf(Empty, 0, 0)
  BY <1>2, EmptyMade
<1>. HIDE DEF c, d
<1>8. Decoding(rest, batch, c, d)
  BY <1>4, <1>5, <1>6 DEF Decoding
<1>9. Wholes(0, 0) = {} /\ Polys(0, 0) = {}
  <2>1. 0 + 1 .. 0 = {}
    OBVIOUS
  <2>. QED
    BY <2>1 DEF Wholes, Polys
<1>10. Accepts(Wholes(0, 0) \cup (Polys(0, 0) \ Polys(0, 0))) = {}
  BY <1>9 DEF Accepts
<1>11. ListOf(entities, {})
  BY <1>1, ListEmpty
<1>12. Committed(pending, entities, 0, Polys(0, 0))
  <2>1. HandlesOf(Polys(0, 0) \ Polys(0, 0)) = {}
    BY DEF HandlesOf
  <2>2. Drawn(entities)
    BY <1>1 DEF Drawn
  <2>. QED
    BY <1>1, <1>7, <1>10, <1>11, <2>1, <2>2 DEF Committed, MadeOf, MapsOf, RowsAre
<1>13. Reading(rest, batch, pending, entities)
  BY <1>4, <1>8, <1>12 DEF Reading
<1>. QED
  BY <1>1, <1>13 DEF ReadInv

\* Every step of the read keeps the invariant.
LEMMA NextReads ==
    ASSUME ReadInv, [Next]_vars
    PROVE  ReadInv'
<1>1. file' = file
  BY DEF Next, vars, Start, Decode, Commit, Assemble, Attach, Rebuild
<1>2. FileOk /\ BlocksOk /\ file' \in Files
  BY <1>1, FileIsOk DEF ReadInv
<1>3. ASSUME phase' = "records", Reading(rest', batch', pending', entities') PROVE ReadInv'
  <2>1. Reading(rest, batch, pending, entities)'
    BY <1>1, <1>3, FileKept
  <2>. QED
    BY <1>2, <1>3, <2>1 DEF ReadInv
<1>4. ASSUME phase' # "records", batch' = << >>, Finished(pending', entities'),
             phase' \notin {"records", "blocks"} => BlocksGood(entities', members')
      PROVE  ReadInv'
  <2>1. Finished(pending, entities)' /\ (BlocksGood(entities', members') => BlocksGood(entities, members)')
    BY <1>1, <1>4, FileKept
  <2>. QED
    BY <1>2, <1>4, <2>1 DEF ReadInv
<1>5. CASE phase = "records"
  <2>1. Reading(rest, batch, pending, entities)
    BY <1>5 DEF ReadInv
  <2>2. PICK c, d, P : /\ Decoding(rest, batch, c, d)
                       /\ Committed(pending, entities, c[0], P)
                       /\ P = Polys(0, c[0]) \/ (batch = << >> /\ rest = << >>)
    BY <2>1 DEF Reading
  <2>3. CASE Start
    <3>1. PICK c2, d2 : Decoding(rest', batch', c2, d2) /\ c2[0] = c[0]
      BY <1>2, <2>2, <2>3, StartStep
    <3>2. /\ rest # << >> /\ pending' = pending /\ entities' = entities
          /\ phase' = "records"
      BY <1>5, <2>3 DEF Start
    <3>3. P = Polys(0, c2[0]) /\ Committed(pending', entities', c2[0], P)
      BY <2>2, <3>1, <3>2
    <3>4. Reading(rest', batch', pending', entities')
      BY <3>1, <3>3 DEF Reading
    <3>. QED
      BY <1>3, <3>2, <3>4
  <2>4. CASE \E i \in DOMAIN batch : Decode(i)
    <3>1. PICK i \in DOMAIN batch : Decode(i)
      BY <2>4
    <3>2. Decoding(rest', batch', c, [d EXCEPT ![i] = d[i] + 1])
      BY <1>2, <2>2, <3>1, DecodeStep
    <3>3. pending' = pending /\ entities' = entities /\ phase' = "records"
      BY <1>5, <3>1 DEF Decode
    <3>4. P = Polys(0, c[0])
      <4>1. batch # << >>
        BY <3>1
      <4>. QED
        BY <2>2, <4>1
    <3>5. Reading(rest', batch', pending', entities')
      BY <2>2, <3>2, <3>3, <3>4 DEF Reading
    <3>. QED
      BY <1>3, <3>3, <3>5
  <2>5. CASE Commit
    <3>1. batch # << >> /\ phase' = "records"
      BY <1>5, <2>5 DEF Commit
    <3>2. P = Polys(0, c[0])
      BY <2>2, <3>1
    <3>. DEFINE c2 == [i \in 0 .. Len(batch) - 1 |-> c[i + 1]]
                d2 == [i \in 1 .. Len(batch) - 1 |-> d[i + 1]]
    <3>3. Decoding(rest', batch', c2, d2) /\ Committed(pending', entities', c[1], Polys(0, c[1]))
      BY <1>2, <2>2, <2>5, <3>2, CommitStep
    <3>4. c2[0] = c[1]
      <4>1. Len(batch) - 1 \in Nat
        BY <2>2, <3>1 DEF Decoding
      <4>2. 0 \in 0 .. Len(batch) - 1 /\ 0 + 1 = 1
        BY <4>1
      <4>. QED
        BY <4>2
    <3>. HIDE DEF c2, d2
    <3>5. Reading(rest', batch', pending', entities')
      BY <3>3, <3>4 DEF Reading
    <3>. QED
      BY <1>3, <3>1, <3>5
  <2>6. CASE Assemble
    <3>1. /\ rest = << >> /\ batch = << >> /\ rest' = rest /\ batch' = batch
          /\ phase' = "records"
      BY <1>5, <2>6 DEF Assemble
    <3>2. c[0] \in Nat /\ c[0] = Len(file.records)
      <4>1. Decoding(<< >>, << >>, c, d)
        BY <2>2, <3>1
      <4>. QED
        BY <1>2, <4>1, AllRead DEF FileOk
    <3>3. PICK Q : Committed(pending', entities', c[0], Q)
      BY <1>2, <2>2, <2>6, <3>2, AssembleStep
    <3>4. Decoding(rest', batch', c, d)
      BY <2>2, <3>1
    <3>5. batch' = << >> /\ rest' = << >>
      BY <3>1
    <3>6. Reading(rest', batch', pending', entities')
      BY <3>3, <3>4, <3>5 DEF Reading
    <3>. QED
      BY <1>3, <3>1, <3>6
  <2>7. CASE Attach
    <3>1. Finished(pending', entities') /\ phase' = "blocks" /\ batch' = << >>
      BY <1>2, <2>1, <2>7, AttachStep DEF Attach
    <3>. QED
      BY <1>4, <3>1
  <2>8. CASE Rebuild
    BY <1>5, <2>8 DEF Rebuild
  <2>9. CASE UNCHANGED vars
    <3>1. /\ rest' = rest /\ batch' = batch /\ pending' = pending /\ entities' = entities
          /\ phase' = phase
      BY <2>9 DEF vars
    <3>. QED
      BY <1>3, <1>5, <2>1, <3>1
  <2>. QED
    BY <2>3, <2>4, <2>5, <2>6, <2>7, <2>8, <2>9 DEF Next
<1>6. CASE phase # "records"
  <2>1. Finished(pending, entities) /\ batch = << >>
    BY <1>6 DEF ReadInv
  <2>2. CASE Start
    BY <1>6, <2>2 DEF Start
  <2>3. CASE \E i \in DOMAIN batch : Decode(i)
    BY <2>1, <2>3
  <2>4. CASE Commit
    BY <2>1, <2>4 DEF Commit
  <2>5. CASE Assemble
    BY <1>6, <2>5 DEF Assemble
  <2>6. CASE Attach
    BY <1>6, <2>6 DEF Attach
  <2>7. CASE Rebuild
    <3>1. /\ Finished(pending', entities') /\ BlocksGood(entities', members')
          /\ phase' # "records" /\ batch' = << >>
      BY <1>2, <2>1, <2>7, RebuildStep, RebuildHolds DEF Rebuild
    <3>. QED
      BY <1>4, <3>1
  <2>8. CASE UNCHANGED vars
    <3>1. /\ batch' = batch /\ pending' = pending /\ entities' = entities
          /\ members' = members /\ phase' = phase
      BY <2>8 DEF vars
    <3>2. phase \notin {"records", "blocks"} => BlocksGood(entities, members)
      BY DEF ReadInv
    <3>. QED
      BY <1>4, <1>6, <2>1, <3>1, <3>2
  <2>. QED
    BY <2>2, <2>3, <2>4, <2>5, <2>6, <2>7, <2>8 DEF Next
<1>. QED
  BY <1>5, <1>6

\* What the invariant says of a read that is through is what the property asks.
LEMMA FinishedIsAccounted ==
    ASSUME FileOk, Finished(pending, entities)
    PROVE  RecordsAccounted
<1>. DEFINE N == Len(file.records)
            kept == {k \in Places : file.records[k].handle \in pending.objects}
<1>1. file.records \in Seq(Record) /\ N \in Nat
  BY DEF FileOk
<1>2. /\ ListOf(entities, Delivered) /\ pending.objects = Left(0, N)
      /\ pending.skipped = Cardinality(Skips(0, N))
  BY DEF Finished
<1>3. 0 + 1 .. N = Places
  BY <1>1 DEF Places
<1>4. DOMAIN entities = 1 .. Len(entities)
  BY <1>2 DEF ListOf
<1>5. kept = {k \in Places : Leaves(k)}
  <2>1. Left(0, N) = {file.records[k].handle : k \in {l \in Places : Leaves(l)}}
    BY <1>3 DEF Left
  <2>2. ASSUME NEW k \in Places
        PROVE  file.records[k].handle \in Left(0, N) <=> Leaves(k)
    BY <2>1 DEF FileOk
  <2>. QED
    BY <1>2, <2>2
<1>6. \A k \in Places : Sane(k) /\ IsObject(file.records[k]) => k \in kept
  BY <1>5 DEF Leaves, Sane
<1>7. \A k \in kept : IsObject(file.records[k]) /\ file.records[k].fault # "unread"
  BY <1>5 DEF Leaves
<1>8. {k \in Places \ kept : ~Sane(k)} = Skips(0, N)
  BY <1>3, <1>5 DEF Skips
<1>9. pending.skipped = Cardinality({k \in Places \ kept : ~Sane(k)})
  BY <1>2, <1>8
<1>. HIDE DEF kept
<1>10. /\ \A k \in Delivered : \E i \in DOMAIN entities : From(entities[i], k)
       /\ \A i \in DOMAIN entities : \E k \in Delivered : From(entities[i], k)
       /\ \A i, j \in DOMAIN entities : i < j => Rank(entities[i]) < Rank(entities[j])
  BY <1>2, <1>4 DEF ListOf
<1>. QED
  BY <1>6, <1>7, <1>9, <1>10 DEF RecordsAccounted, kept

\* The children of an entity in the records of the file.
LEMMA ChildrenIs ==
    ASSUME FileOk, NEW e, NEW kinds
    PROVE  ChildrenOf(e, kinds) = WholeRow(e.handle, kinds)
<1>. DEFINE recs == file.records
            N == Len(recs)
            h == e.handle
            sane == {r \in ToSet(recs) : r.fault = "none"}
            ours == {r \in ToSet(SaneRecords) : r.kind \in kinds /\ r.owner = h}
            both == {r \in sane : r \in RowSet(h, kinds)}
<1>1. recs \in Seq(Record) /\ N \in Nat /\ DOMAIN recs = 1 .. N
      /\ \A i \in 1 .. N : recs[i] \in ToSet(recs) /\ recs[i] \in Record
  BY SetIs DEF FileOk
<1>2. SaneRecords = Kept(recs, sane)
  BY DEF SaneRecords
<1>3. SaneRecords \in Seq(Record) /\ PartOf(SaneRecords, recs, sane)
  BY <1>1, <1>2, KeptTyped, KeptOrder
<1>. HIDE DEF recs, N, h, sane
<1>4. Kept(SaneRecords, ours) = Kept(SaneRecords, both)
  <2>1. ASSUME NEW i \in 1 .. Len(SaneRecords)
        PROVE  SaneRecords[i] \in ours <=> SaneRecords[i] \in both
    <3>. DEFINE r == SaneRecords[i]
    <3>1. r \in sane /\ r \in Record /\ r \in ToSet(SaneRecords)
      BY <1>3, SetIs DEF PartOf
    <3>2. r.fault = "none"
      BY <3>1 DEF sane
    <3>. HIDE DEF r
    <3>. QED
      BY <3>1, <3>2 DEF RowSet, r
  <2>. HIDE DEF ours, both
  <2>. QED
    BY <1>3, <2>1, KeptSame
<1>5. both \subseteq sane
  OBVIOUS
<1>6. Kept(Kept(recs, sane), both) = Kept(recs, both)
  <2>. HIDE DEF both
  <2>. QED
    BY <1>1, <1>5, KeptKept
<1>7. Kept(recs, both) = Kept(recs, RowSet(h, kinds))
  <2>1. ASSUME NEW i \in 1 .. N PROVE recs[i] \in both <=> recs[i] \in RowSet(h, kinds)
    <3>1. recs[i] \in ToSet(recs)
      BY <1>1
    <3>. QED
      BY <3>1 DEF sane, RowSet
  <2>. HIDE DEF both
  <2>. QED
    BY <1>1, <2>1, KeptSame DEF N
<1>8. SubSeq(recs, 0 + 1, N) = recs
  <2>1. SubSeq(recs, 1, Len(recs)) = recs
    BY <1>1
  <2>. QED
    BY <2>1 DEF N
<1>9. ChildrenOf(e, kinds) = RecordHandles(Kept(SaneRecords, ours))
  BY DEF ChildrenOf, h
<1>10. WholeRow(h, kinds) = RecordHandles(Kept(recs, RowSet(h, kinds)))
  BY <1>8 DEF WholeRow, Row, recs, N
<1>. QED
  BY <1>2, <1>4, <1>6, <1>7, <1>9, <1>10 DEF h

\* What the invariant says of a read that is through is what the property asks.
LEMMA FinishedIsDrawn ==
    ASSUME FileOk, Finished(pending, entities)
    PROVE  ChildrenInDrawingOrder
<1>1. AllDrawn(entities) /\ ListOf(entities, Delivered)
  BY DEF Finished
<1>2. PICK T : entities \in Seq(T)
  BY <1>1 DEF ListOf
<1>. SUFFICES ASSUME NEW e \in ToSet(entities)
              PROVE  /\ e.kind = "insert" => e.kids = ChildrenOf(e, {"attrib"})
                     /\ e.kind \in Polylines =>
                          KidsGood(e.kids, ChildrenOf(e, {"vertex", "stray"}),
                                   Recorded(e.handle).owned)
  <2>1. \A kids, verts, owned : KidsGood(kids, verts, owned) <=>
           LET orders == IF file.r2004 THEN {} ELSE LinkedOrders(ToSet(verts))
               Fitting(s) == Kept(s, {v \in ToSet(s) : Recorded(v).kind = "vertex"})
           IN /\ Len(kids) = Len(Fitting(verts)) /\ ToSet(kids) = ToSet(Fitting(verts))
              /\ owned # << >> => Follows(kids, owned)
              /\ owned = << >> =>
                    kids = Fitting(IF Cardinality(orders) = 1 THEN CHOOSE s \in orders : TRUE
                                   ELSE verts)
    BY DEF KidsGood, Fits, OrdersOf
  <2>. QED
    BY <2>1 DEF ChildrenInDrawingOrder
<1>3. PICK i \in 1 .. Len(entities) : e = entities[i]
  BY <1>2, SetIs
<1>4. PICK k \in Delivered : From(e, k)
  BY <1>1, <1>3 DEF ListOf
<1>5. k \in Places /\ e.handle = file.records[k].handle
  BY <1>4 DEF Delivered, From
<1>6. Place(e.handle) = k /\ Recorded(e.handle) = file.records[k]
  BY <1>5, PlaceIs, RecordedIs
<1>7. /\ ChildrenOf(e, {"attrib"}) = WholeRow(e.handle, {"attrib"})
      /\ ChildrenOf(e, {"vertex", "stray"}) = WholeRow(e.handle, Vertices)
  BY ChildrenIs DEF Vertices
<1>8. e.kind = "insert" => e.kids = WholeRow(e.handle, {"attrib"})
  BY <1>1, <1>3 DEF AllDrawn
<1>9. e.kind \in Polylines =>
         KidsGood(e.kids, WholeRow(e.handle, Vertices), file.records[Place(e.handle)].owned)
  BY <1>1, <1>3 DEF AllDrawn, PolyDrawn
<1>. QED
  BY <1>6, <1>7, <1>8, <1>9

\* However the workers' steps interleave, the document that a read gives holds
\* an entity for each sound record that makes one and is not refused, and no
\* other: polylines after the rest, both in record order.  Every object is kept
\* whose record was sound or whose bytes are, and every other failed record is
\* counted (map_chunks, discard_record, the commit in build).
THEOREM RecordsAllAccounted == Spec => []RecordsAccounted
<1>1. Init => ReadInv
  BY InitReads
<1>2. ReadInv /\ [Next]_vars => ReadInv'
  BY NextReads
<1>3. ReadInv => RecordsAccounted
  BY FileIsOk, FinishedIsAccounted DEF ReadInv, RecordsAccounted, Loaded
<1>. QED
  BY <1>1, <1>2, <1>3, PTL DEF Spec

\* Nor do the steps of the workers show in the children of an entity: a polyline
\* or an INSERT has the sound vertices or attributes that name it, each once, in
\* the order of its list, else of their links, else of their records
\* (order_pending_vertices, vertex_chain_ranks, the attribute pass of build).
THEOREM ChildrenKeepDrawingOrder == Spec => []ChildrenInDrawingOrder
<1>1. Init => ReadInv
  BY InitReads
<1>2. ReadInv /\ [Next]_vars => ReadInv'
  BY NextReads
<1>3. ReadInv => ChildrenInDrawingOrder
  BY FileIsOk, FinishedIsDrawn DEF ReadInv, ChildrenInDrawingOrder, Loaded
<1>. QED
  BY <1>1, <1>2, <1>3, PTL DEF Spec

\* And every entity is then in the list of the block that names it, or of its
\* own owner, in no other and there once; a block has what it names in its order
\* ahead of the rest (rebuild_block_membership, block_entity_chain).
THEOREM BlocksHaveTheirEntities == Spec => []BlocksHoldTheirEntities
<1>1. Init => ReadInv
  BY InitReads
<1>2. ReadInv /\ [Next]_vars => ReadInv'
  BY NextReads
<1>3. ReadInv => BlocksHoldTheirEntities
  <2>. SUFFICES ASSUME ReadInv, phase = "loaded" PROVE BlocksHoldTheirEntities
    BY DEF BlocksHoldTheirEntities, Loaded
  <2>1. BlocksGood(entities, members)
    BY DEF ReadInv
  <2>. QED
    BY <2>1 DEF BlocksGood, OwnerGood, ListGood, BlocksHoldTheirEntities
<1>. QED
  BY <1>1, <1>2, <1>3, PTL DEF Spec
=============================================================================
