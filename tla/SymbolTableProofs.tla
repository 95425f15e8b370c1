------------------------- MODULE SymbolTableProofs --------------------------
(***************************************************************************)
(* What SymbolTable promises, proved for every fold of any names.  Each     *)
(* operation leaves a table that is good: typed, with no key and no handle  *)
(* twice.                                                                  *)
(***************************************************************************)
EXTENDS SymbolTable, FiniteSetTheorems, DataInduction

\* A table whose entries have keys and handles of their own, the handles below n.
KeysDiffer(t) ==
    \A i, j \in 1 .. Len(t) : KeyOf(t[i]) = KeyOf(t[j]) => i = j
HandlesDiffer(t, n) ==
    /\ \A i, j \in 1 .. Len(t) :
          t[i].handle # Null /\ t[i].handle = t[j].handle => i = j
    /\ \A i \in 1 .. Len(t) : t[i].handle < n
TableGood(t, n) == t \in Seq(Entry) /\ KeysDiffer(t) /\ HandlesDiffer(t, n)

-----------------------------------------------------------------------------
(* Keys.                                                                   *)

LEMMA EntryKey ==
    ASSUME NEW e \in Entry
    PROVE  /\ KeyOf(e) = <<e.base, e.suffix>>
           /\ e.base \in Names /\ e.suffix \in SuffixSet /\ e.name \in Names
           /\ e.handle \in Nat
BY DEF KeyOf, Entry

LEMMA KeysFinite ==
    ASSUME NEW t \in Seq(Entry)
    PROVE  /\ IsFiniteSet(Keys(t))
           /\ \A i : IsFiniteSet(OtherKeys(t, i))
<1>1. IsFiniteSet(1 .. Len(t))
  BY FS_Interval
<1>. DEFINE g == [j \in 1 .. Len(t) |-> KeyOf(t[j])]
<1>2. g \in [1 .. Len(t) -> Keys(t)]
  BY DEF Keys
<1>3. \A k \in Keys(t) : \E j \in 1 .. Len(t) : g[j] = k
  BY DEF Keys
<1>. HIDE DEF g
<1>4. IsFiniteSet(Keys(t))
  BY <1>1, <1>2, <1>3, FS_Surjection DEF Surjection
<1>5. ASSUME NEW i PROVE IsFiniteSet(OtherKeys(t, i))
  <2>1. OtherKeys(t, i) \subseteq Keys(t)
    BY DEF OtherKeys, Keys
  <2>. QED
    BY <1>4, <2>1, FS_Subset
<1>. QED
  BY <1>4, <1>5

\* The loop over "-1", "-2", ... comes to a suffix that is free: there are more
\* of them than keys.
LEMMA FreeSuffixIsFree ==
    ASSUME NEW keys, IsFiniteSet(keys), NEW base, NEW first \in Nat, NEW handle \in Nat
    PROVE  /\ FreeSuffix(keys, base, first, handle) \in Nat \X Nat
           /\ <<base, FreeSuffix(keys, base, first, handle)>> \notin keys
<1>. DEFINE N == Cardinality(keys)
            Try(k) == IF k = 0 THEN <<first, 0>> ELSE <<handle, k>>
            Good(k) == /\ <<base, Try(k)>> \notin keys
                       /\ \A j \in 0 .. k - 1 : <<base, Try(j)>> \in keys
            T == {k \in 0 .. N : <<base, Try(k)>> \notin keys}
<1>1. N \in Nat
  BY FS_CardinalityType
<1>2. \A k \in Nat : Try(k) \in Nat \X Nat /\ Try(k)[2] = k
  OBVIOUS
<1>. HIDE DEF Try
<1>3. T # {}
  <2>. SUFFICES ASSUME \A k \in 0 .. N : <<base, Try(k)>> \in keys PROVE FALSE
    OBVIOUS
  <2>. DEFINE f == [k \in 0 .. N |-> <<base, Try(k)>>]
  <2>1. f \in [0 .. N -> keys]
    OBVIOUS
  <2>2. IsFiniteSet(0 .. N) /\ Cardinality(0 .. N) = N + 1
    BY <1>1, FS_Interval
  <2>3. Cardinality(keys) < Cardinality(0 .. N)
    BY <1>1, <2>2
  <2>4. \A x, y \in 0 .. N : f[x] = f[y] => x = y
    <3>1. \A x, y \in 0 .. N : f[x] = f[y] => Try(x) = Try(y)
      OBVIOUS
    <3>. QED
      BY <1>1, <1>2, <3>1
  <2>. HIDE DEF f, N
  <2>. QED
    BY <2>1, <2>2, <2>3, <2>4, FS_PigeonHole
<1>4. T \in SUBSET Nat
  BY <1>1
<1>5. PICK x \in T : \A y \in T : x <= y
  BY <1>3, <1>4, NatLeast
<1>6. Good(x)
  <2>1. \A j \in 0 .. x - 1 : j \in 0 .. N /\ ~(x <= j)
    BY <1>1, <1>4
  <2>. QED
    BY <1>5, <2>1
<1>7. x \in 0 .. N
  OBVIOUS
<1>8. FreeSuffix(keys, base, first, handle) = Try(CHOOSE k \in 0 .. N : Good(k))
  BY DEF FreeSuffix, Try
<1>. HIDE DEF Good, N, T
<1>9. PICK k \in 0 .. N : /\ Good(k)
                          /\ FreeSuffix(keys, base, first, handle) = Try(k)
  BY <1>6, <1>7, <1>8
<1>10. k \in Nat
  BY <1>1
<1>. QED
  BY <1>2, <1>9, <1>10 DEF Good

\* A lookup finds the one place that has the plain key.
LEMMA FindIs ==
    ASSUME NEW t \in Seq(Entry), KeysDiffer(t), NEW n
    PROVE  /\ Find(t, n) = 0 <=> PlainKey(n) \notin Keys(t)
           /\ Find(t, n) # 0 => /\ Find(t, n) \in 1 .. Len(t)
                                /\ KeyOf(t[Find(t, n)]) = PlainKey(n)
           /\ \A i \in 1 .. Len(t) : KeyOf(t[i]) = PlainKey(n) => Find(t, n) = i
<1>1. CASE PlainKey(n) \in Keys(t)
  <2>1. \E i \in 1 .. Len(t) : KeyOf(t[i]) = PlainKey(n)
    BY <1>1 DEF Keys
  <2>2. /\ Find(t, n) \in 1 .. Len(t)
        /\ KeyOf(t[Find(t, n)]) = PlainKey(n)
    BY <1>1, <2>1 DEF Find
  <2>3. Find(t, n) # 0
    BY <2>2
  <2>. QED
    BY <1>1, <2>2, <2>3 DEF KeysDiffer
<1>2. CASE PlainKey(n) \notin Keys(t)
  <2>1. Find(t, n) = 0
    BY <1>2 DEF Find
  <2>2. \A i \in 1 .. Len(t) : KeyOf(t[i]) # PlainKey(n)
    BY <1>2 DEF Keys
  <2>. QED
    BY <1>2, <2>1, <2>2
<1>. QED
  BY <1>1, <1>2

-----------------------------------------------------------------------------
(* What the operations do to a good table.                                 *)

LEMMA GoodEntries ==
    ASSUME NEW t, NEW n, TableGood(t, n)
    PROVE  /\ t \in Seq(Entry) /\ Len(t) \in Nat
           /\ \A i \in 1 .. Len(t) : t[i] \in Entry /\ t[i].handle \in Nat
<1>1. t \in Seq(Entry)
  BY DEF TableGood
<1>2. \A i \in 1 .. Len(t) : t[i] \in Entry
  BY <1>1
<1>. QED
  BY <1>1, <1>2, EntryKey

\* An entry put at the end under a key that is free.
LEMMA Added ==
    ASSUME NEW t, NEW n \in Nat, NEW m \in Nat, n <= m, TableGood(t, n),
           NEW e \in Entry, KeyOf(e) \notin Keys(t),
           e.handle \in {Null, n}, e.handle < m
    PROVE  TableGood(Append(t, e), m)
<1>. DEFINE u == Append(t, e)
<1>1. t \in Seq(Entry) /\ Len(t) \in Nat /\ \A i \in 1 .. Len(t) : t[i].handle \in Nat
  BY GoodEntries
<1>2. /\ u \in Seq(Entry) /\ u[Len(t) + 1] = e /\ Len(u) = Len(t) + 1
      /\ \A i \in 1 .. Len(t) : u[i] = t[i]
      /\ \A i \in 1 .. Len(u) : i \in 1 .. Len(t) \/ i = Len(t) + 1
  BY <1>1
<1>. HIDE DEF u
<1>3. \A i \in 1 .. Len(t) : KeyOf(t[i]) # KeyOf(e)
  BY DEF Keys
<1>4. KeysDiffer(u)
  BY <1>2, <1>3 DEF TableGood, KeysDiffer
<1>5. \A i \in 1 .. Len(t) : t[i].handle < n
  BY DEF TableGood, HandlesDiffer
<1>6. e.handle \in Nat
  BY DEF Entry
<1>7. \A i \in 1 .. Len(t) : t[i].handle < m /\ (e.handle # Null => t[i].handle # e.handle)
  BY <1>1, <1>5
<1>8. HandlesDiffer(u, m)
  <2>1. \A i \in 1 .. Len(u) : u[i].handle < m
    BY <1>2, <1>7
  <2>2. ASSUME NEW i \in 1 .. Len(u), NEW j \in 1 .. Len(u),
               u[i].handle # Null, u[i].handle = u[j].handle
        PROVE  i = j
    <3>1. CASE i \in 1 .. Len(t) /\ j \in 1 .. Len(t)
      BY <1>2, <2>2, <3>1 DEF TableGood, HandlesDiffer
    <3>2. CASE i = Len(t) + 1 \/ j = Len(t) + 1
      BY <1>2, <1>7, <2>2, <3>2
    <3>. QED
      BY <1>2, <3>1, <3>2
  <2>. QED
    BY <2>1, <2>2 DEF HandlesDiffer
<1>9. TableGood(u, m)
  BY <1>2, <1>4, <1>8 DEF TableGood
<1>. QED
  BY <1>9 DEF u

\* An entry put in the place of another under a key no other entry has.
LEMMA Replaced ==
    ASSUME NEW t, NEW n \in Nat, NEW m \in Nat, n <= m, TableGood(t, n),
           NEW i \in 1 .. Len(t), NEW e \in Entry, KeyOf(e) \notin OtherKeys(t, i),
           e.handle \in {Null, n, t[i].handle}, e.handle < m
    PROVE  TableGood([t EXCEPT ![i] = e], m)
<1>. DEFINE u == [t EXCEPT ![i] = e]
<1>1. t \in Seq(Entry) /\ \A j \in 1 .. Len(t) : t[j].handle \in Nat
  BY GoodEntries
<1>2. /\ u \in Seq(Entry) /\ u[i] = e /\ Len(u) = Len(t)
      /\ \A j \in 1 .. Len(t) : j # i => u[j] = t[j]
  BY <1>1
<1>. HIDE DEF u
<1>3. \A j \in 1 .. Len(t) : j # i => KeyOf(t[j]) # KeyOf(e)
  BY DEF OtherKeys
<1>4. KeysDiffer(u)
  BY <1>2, <1>3 DEF TableGood, KeysDiffer
<1>5. \A j \in 1 .. Len(t) : t[j].handle < n
  BY DEF TableGood, HandlesDiffer
<1>6. \A j, k \in 1 .. Len(t) : t[j].handle # Null /\ t[j].handle = t[k].handle => j = k
  BY DEF TableGood, HandlesDiffer
<1>7. \A j \in 1 .. Len(t) : t[j].handle < m
  BY <1>1, <1>5
<1>8. \A j \in 1 .. Len(t) : j # i /\ e.handle # Null => t[j].handle # e.handle
  BY <1>1, <1>5, <1>6
<1>9. HandlesDiffer(u, m)
  <2>1. \A j \in 1 .. Len(u) : u[j].handle < m
    BY <1>2, <1>7
  <2>2. ASSUME NEW j \in 1 .. Len(u), NEW k \in 1 .. Len(u),
               u[j].handle # Null, u[j].handle = u[k].handle
        PROVE  j = k
    BY <1>2, <1>6, <1>8, <2>2
  <2>. QED
    BY <2>1, <2>2 DEF HandlesDiffer
<1>10. TableGood(u, m)
  BY <1>2, <1>4, <1>9 DEF TableGood
<1>. QED
  BY <1>10 DEF u

\* An entry taken out.
LEMMA Removed ==
    ASSUME NEW t, NEW n \in Nat, TableGood(t, n), NEW i \in 1 .. Len(t)
    PROVE  TableGood(RemoveAt(t, i), n)
<1>. DEFINE u == RemoveAt(t, i)
            At(j) == IF j < i THEN j ELSE j + 1
<1>1. t \in Seq(Entry) /\ Len(t) \in Nat
  BY DEF TableGood
<1>2. /\ u \in Seq(Entry) /\ Len(u) = Len(t) - 1
      /\ \A j \in 1 .. Len(u) : u[j] = t[At(j)]
  <2>. DEFINE a == SubSeq(t, 1, i - 1)
              b == SubSeq(t, i + 1, Len(t))
  <2>1. /\ a \in Seq(Entry) /\ Len(a) = i - 1
        /\ \A j \in 1 .. i - 1 : a[j] = t[j]
    BY <1>1
  <2>2. /\ b \in Seq(Entry) /\ Len(b) = Len(t) - i
        /\ \A j \in 1 .. Len(t) - i : b[j] = t[i + j]
    BY <1>1
  <2>3. u = a \o b
    BY DEF RemoveAt
  <2>. HIDE DEF a, b, u
  <2>4. u \in Seq(Entry) /\ Len(u) = Len(t) - 1
    BY <1>1, <2>1, <2>2, <2>3
  <2>5. ASSUME NEW j \in 1 .. Len(u) PROVE u[j] = t[At(j)]
    <3>1. CASE j < i
      BY <1>1, <2>1, <2>2, <2>3, <2>4, <3>1
    <3>2. CASE i <= j
      <4>1. j - (i - 1) \in 1 .. Len(t) - i /\ i + (j - (i - 1)) = j + 1
        BY <1>1, <2>4, <3>2
      <4>2. u[j] = b[j - (i - 1)]
        BY <1>1, <2>1, <2>2, <2>3, <2>4, <3>2
      <4>. QED
        BY <2>2, <3>2, <4>1, <4>2
    <3>. QED
      BY <1>1, <2>4, <3>1, <3>2
  <2>. QED
    BY <2>4, <2>5
<1>3. \A j \in 1 .. Len(t) - 1 : At(j) \in 1 .. Len(t)
  BY <1>1
<1>4. \A j, k \in 1 .. Len(t) - 1 : At(j) = At(k) => j = k
  BY <1>1
<1>. HIDE DEF u, At
<1>5. ASSUME NEW j \in 1 .. Len(u), NEW k \in 1 .. Len(u)
      PROVE  /\ u[j] = t[At(j)] /\ u[k] = t[At(k)]
             /\ At(j) \in 1 .. Len(t) /\ At(k) \in 1 .. Len(t)
             /\ At(j) = At(k) => j = k
  BY <1>2, <1>3, <1>4
<1>6. KeysDiffer(u)
  <2>. SUFFICES ASSUME NEW j \in 1 .. Len(u), NEW k \in 1 .. Len(u),
                       KeyOf(u[j]) = KeyOf(u[k])
                PROVE  j = k
    BY DEF KeysDiffer
  <2>1. At(j) = At(k)
    BY <1>5 DEF TableGood, KeysDiffer
  <2>. QED
    BY <1>5, <2>1
<1>7. HandlesDiffer(u, n)
  <2>1. ASSUME NEW j \in 1 .. Len(u) PROVE u[j].handle < n
    BY <1>5 DEF TableGood, HandlesDiffer
  <2>2. ASSUME NEW j \in 1 .. Len(u), NEW k \in 1 .. Len(u),
               u[j].handle # Null, u[j].handle = u[k].handle
        PROVE  j = k
    <3>1. At(j) = At(k)
      BY <1>5, <2>2 DEF TableGood, HandlesDiffer
    <3>. QED
      BY <1>5, <3>1
  <2>. QED
    BY <2>1, <2>2 DEF HandlesDiffer
<1>8. TableGood(u, n)
  BY <1>2, <1>6, <1>7 DEF TableGood
<1>. QED
  BY <1>8 DEF u

\* The key an entry has is no other entry's.
LEMMA OwnKey ==
    ASSUME NEW t, KeysDiffer(t), NEW i \in 1 .. Len(t)
    PROVE  KeyOf(t[i]) \notin OtherKeys(t, i)
BY DEF KeysDiffer, OtherKeys

\* An allocator further up is as good.
LEMMA Higher ==
    ASSUME NEW t, NEW n \in Nat, TableGood(t, n)
    PROVE  TableGood(t, n + 1)
<1>1. \A i \in 1 .. Len(t) : t[i].handle \in Nat
  BY GoodEntries
<1>2. \A i \in 1 .. Len(t) : t[i].handle < n
  BY DEF TableGood, HandlesDiffer
<1>3. \A i \in 1 .. Len(t) : t[i].handle < n + 1
  BY <1>1, <1>2
<1>. QED
  BY <1>3 DEF TableGood, HandlesDiffer

-----------------------------------------------------------------------------
(* resync_keys.                                                            *)

\* The first n places are re-keyed: what is stale among them has a key of its
\* present name, the plain one where nobody had or takes that name.
ResyncedTo(t, n) ==
    /\ TableGood(t, next)
    /\ Len(t) = Len(table)
    /\ \A i \in Places : /\ t[i].name = table[i].name
                         /\ t[i].handle = table[i].handle
    /\ \A i \in Places : i > n \/ ~Stale(table[i]) => t[i] = table[i]
    /\ \A i \in Places : i <= n /\ Stale(table[i]) => t[i].base = Fold[table[i].name]
    /\ \A i \in Places :
          /\ i <= n /\ Stale(table[i])
          /\ \A j \in Places \ {i} :
                Fold[table[i].name] \notin {table[j].base, Fold[table[j].name]}
          => t[i].suffix = NoSuffix

\* The new entry, among keys of others.
LEMMA RekeyedIs ==
    ASSUME NEW others, IsFiniteSet(others), NEW e \in Entry
    PROVE  /\ Rekeyed(others, e) \in Entry
           /\ KeyOf(Rekeyed(others, e)) \notin others
           /\ Rekeyed(others, e).name = e.name
           /\ Rekeyed(others, e).handle = e.handle
           /\ Rekeyed(others, e).base = Fold[e.name]
           /\ <<Fold[e.name], NoSuffix>> \notin others
                 => Rekeyed(others, e).suffix = NoSuffix
<1>. DEFINE base == Fold[e.name]
            free == FreeSuffix(others, base, e.handle, e.handle)
            suffix == IF <<base, NoSuffix>> \in others THEN free ELSE NoSuffix
<1>1. e.name \in Names /\ e.handle \in Nat
  BY EntryKey
<1>2. base \in Names
  BY <1>1, FoldAssumption
<1>3. free \in Nat \X Nat /\ <<base, free>> \notin others
  BY <1>1, FreeSuffixIsFree
<1>. HIDE DEF base, free
<1>4. suffix \in SuffixSet /\ <<base, suffix>> \notin others
  BY <1>3 DEF SuffixSet
<1>5. <<base, NoSuffix>> \notin others => suffix = NoSuffix
  OBVIOUS
<1>6. Rekeyed(others, e) = [base |-> base, suffix |-> suffix, name |-> e.name,
                            handle |-> e.handle]
  BY DEF Rekeyed, Keyed, base, free
<1>. HIDE DEF suffix
<1>. QED
  BY <1>1, <1>2, <1>4, <1>5, <1>6 DEF Entry, KeyOf, base

\* One more place.
LEMMA RekeyStep ==
    ASSUME next \in Nat, NEW t, NEW n \in Nat, n + 1 <= Len(table),
           table \in Seq(Entry), ResyncedTo(t, n)
    PROVE  ResyncedTo(IF Stale(table[n + 1]) THEN Rekey(t, n + 1) ELSE t, n + 1)
<1>. DEFINE p == n + 1
<1>1. /\ TableGood(t, next) /\ Len(t) = Len(table) /\ t \in Seq(Entry)
      /\ p \in Places /\ Places = 1 .. Len(t)
  BY DEF ResyncedTo, TableGood, Places
<1>2. /\ \A i \in Places : t[i].name = table[i].name /\ t[i].handle = table[i].handle
      /\ \A i \in Places : i > n \/ ~Stale(table[i]) => t[i] = table[i]
      /\ \A i \in Places : i <= n /\ Stale(table[i]) => t[i].base = Fold[table[i].name]
  BY DEF ResyncedTo
<1>3. \A i \in Places : /\ i > p => i > n
                        /\ i <= p => i <= n \/ i = p
                        /\ i <= n => i # p
  BY DEF Places
<1>4. p > n /\ p <= p
  OBVIOUS
<1>5. CASE ~Stale(table[p])
  <2>1. ResyncedTo(t, p)
    BY <1>2, <1>3, <1>5 DEF ResyncedTo
  <2>. QED
    BY <1>5, <2>1
<1>6. CASE Stale(table[p])
  <2>. DEFINE others == OtherKeys(t, p)
              e == Rekeyed(others, t[p])
              u == Rekey(t, p)
  <2>1. IsFiniteSet(others) /\ t[p] \in Entry /\ t[p].handle \in Nat
    BY <1>1, KeysFinite, GoodEntries
  <2>2. t[p] = table[p]
    BY <1>1, <1>2, <1>4
  <2>3. /\ e \in Entry /\ KeyOf(e) \notin others
        /\ e.name = table[p].name /\ e.handle = table[p].handle
        /\ e.base = Fold[table[p].name]
        /\ <<Fold[table[p].name], NoSuffix>> \notin others => e.suffix = NoSuffix
    BY <2>1, <2>2, RekeyedIs
  <2>4. u = [t EXCEPT ![p] = e]
    BY DEF Rekey
  <2>5. Len(u) = Len(t) /\ u[p] = e /\ \A i \in Places : i # p => u[i] = t[i]
    BY <1>1, <2>4
  <2>. HIDE DEF e, u
  <2>6. e.handle < next
    BY <1>1, <2>2, <2>3 DEF TableGood, HandlesDiffer
  <2>7. TableGood(u, next)
    <3>1. next <= next /\ p \in 1 .. Len(t) /\ e.handle \in {Null, next, t[p].handle}
      BY <1>1, <2>2, <2>3
    <3>2. KeyOf(e) \notin OtherKeys(t, p)
      BY <2>3
    <3>. HIDE DEF p
    <3>3. TableGood([t EXCEPT ![p] = e], next)
      BY <1>1, <2>3, <2>6, <3>1, <3>2, Replaced
    <3>. QED
      BY <2>4, <3>3
  <2>8. \A j \in Places : t[j].base \in {table[j].base, Fold[table[j].name]}
    <3>1. \A j \in Places : j > n \/ j <= n
      BY DEF Places
    <3>. QED
      BY <1>2, <3>1
  <2>9. ASSUME \A j \in Places \ {p} :
                  Fold[table[p].name] \notin {table[j].base, Fold[table[j].name]}
        PROVE  e.suffix = NoSuffix
    <3>1. \A j \in Places \ {p} : t[j].base # Fold[table[p].name]
      BY <2>8, <2>9
    <3>2. \A j \in Places : KeyOf(t[j]) = <<t[j].base, t[j].suffix>>
      BY DEF KeyOf
    <3>3. <<Fold[table[p].name], NoSuffix>> \notin others
      BY <1>1, <3>1, <3>2 DEF OtherKeys
    <3>. QED
      BY <2>3, <3>3
  <2>10. \A i \in Places : /\ u[i].name = table[i].name
                           /\ u[i].handle = table[i].handle
    BY <1>2, <2>3, <2>5
  <2>11. \A i \in Places : i > p \/ ~Stale(table[i]) => u[i] = table[i]
    BY <1>2, <1>3, <1>6, <2>5
  <2>12. \A i \in Places : i <= p /\ Stale(table[i]) => u[i].base = Fold[table[i].name]
    BY <1>2, <1>3, <2>3, <2>5
  <2>13. ASSUME NEW i \in Places, i <= p, Stale(table[i]),
                \A j \in Places \ {i} :
                   Fold[table[i].name] \notin {table[j].base, Fold[table[j].name]}
         PROVE  u[i].suffix = NoSuffix
    <3>1. CASE i = p
      BY <2>5, <2>9, <2>13, <3>1
    <3>2. CASE i # p
      <4>1. i <= n
        BY <1>3, <2>13, <3>2
      <4>2. t[i].suffix = NoSuffix
        BY <2>13, <4>1 DEF ResyncedTo
      <4>. QED
        BY <2>5, <3>2, <4>2
    <3>. QED
      BY <3>1, <3>2
  <2>14. Len(u) = Len(table)
    BY <1>1, <2>5
  <2>15. ResyncedTo(u, p)
    BY <2>7, <2>10, <2>11, <2>12, <2>13, <2>14 DEF ResyncedTo
  <2>. QED
    BY <1>6, <2>15 DEF u
<1>. QED
  BY <1>5, <1>6

\* The recursion of Resynced.
Resyncs(f) ==
    f = [n \in 0 .. Len(table) |->
            IF n = 0 THEN table
            ELSE IF Stale(table[n]) THEN Rekey(f[n - 1], n) ELSE f[n - 1]]

LEMMA ResyncedDef == Resynced = (CHOOSE f : Resyncs(f))[Len(table)]
BY DEF Resynced, Resyncs

\* A re-keyed table is a table, whatever place is re-keyed.
LEMMA RekeyTyped ==
    ASSUME NEW t \in Seq(Entry), NEW i
    PROVE  Rekey(t, i) \in Seq(Entry)
<1>1. CASE i \in 1 .. Len(t)
  <2>1. IsFiniteSet(OtherKeys(t, i)) /\ t[i] \in Entry
    BY <1>1, KeysFinite
  <2>2. Rekeyed(OtherKeys(t, i), t[i]) \in Entry
    BY <2>1, RekeyedIs
  <2>. QED
    BY <1>1, <2>2 DEF Rekey
<1>2. CASE i \notin 1 .. Len(t)
  <2>1. Rekey(t, i) = t
    BY <1>2 DEF Rekey
  <2>. QED
    BY <2>1
<1>. QED
  BY <1>1, <1>2

LEMMA ResyncsExists ==
    ASSUME table \in Seq(Entry)
    PROVE  \E f : Resyncs(f)
<1>. DEFINE T == Seq(Entry)
            N == Len(table)
            Step(n, t) == IF Stale(table[n]) THEN Rekey(t, n) ELSE t
            step == [p \in (1 .. N) \X T |-> Step(p[1], p[2])]
<1>1. N \in Nat /\ table \in T
  OBVIOUS
<1>2. \A n \in 1 .. N, t \in T : Step(n, t) \in T
  BY RekeyTyped
<1>. HIDE DEF Step, T, N
<1>3. step \in [(1 .. N) \X T -> T]
  BY <1>2
<1>4. \A n \in 1 .. N, t \in T : step[<<n, t>>] = Step(n, t)
  OBVIOUS
<1>. HIDE DEF step
<1>5. PICK f \in [0 .. N -> T] : Solves(f, N, table, step)
  BY <1>1, <1>3, Recursion
<1>6. \A i \in 1 .. N : f[i - 1] \in T
  BY <1>1
<1>7. ASSUME NEW i \in 0 .. N
      PROVE  f[i] = IF i = 0 THEN table ELSE Step(i, f[i - 1])
  <2>1. CASE i = 0
    BY <1>5, <2>1 DEF Solves
  <2>2. CASE i \in 1 .. N
    <3>1. f[i] = step[<<i, f[i - 1]>>]
      BY <1>5, <2>2 DEF Solves
    <3>. QED
      BY <1>4, <1>6, <2>2, <3>1
  <2>. QED
    BY <1>1, <2>1, <2>2
<1>8. f = [n \in 0 .. N |-> IF n = 0 THEN table ELSE Step(n, f[n - 1])]
  BY <1>7
<1>9. Resyncs(f)
  BY <1>8 DEF Resyncs, Step, N
<1>. QED
  BY <1>9

\* So Resynced has every stale place re-keyed.
LEMMA ResyncedIs ==
    ASSUME next \in Nat, TableGood(table, next)
    PROVE  ResyncedTo(Resynced, Len(table))
<1>1. table \in Seq(Entry) /\ Len(table) \in Nat
  BY DEF TableGood
<1>. DEFINE f == CHOOSE g : Resyncs(g)
<1>2. Resyncs(f)
  BY <1>1, ResyncsExists
<1>. HIDE DEF f
<1>. DEFINE F == [n \in 0 .. Len(table) |->
                    IF n = 0 THEN table
                    ELSE IF Stale(table[n]) THEN Rekey(f[n - 1], n) ELSE f[n - 1]]
<1>3. f = F
  BY <1>2 DEF Resyncs
<1>4. \A n \in 0 .. Len(table) :
         F[n] = IF n = 0 THEN table
                ELSE IF Stale(table[n]) THEN Rekey(f[n - 1], n) ELSE f[n - 1]
  OBVIOUS
<1>. HIDE DEF F
<1>. DEFINE P == {n \in Nat : n <= Len(table) => ResyncedTo(f[n], n)}
<1>5. 0 \in P
  <2>1. f[0] = table
    BY <1>1, <1>3, <1>4
  <2>2. \A i \in Places : ~(i <= 0)
    BY DEF Places
  <2>3. ResyncedTo(table, 0)
    BY <1>1, <2>2 DEF ResyncedTo
  <2>. QED
    BY <2>1, <2>3
<1>6. ASSUME NEW n \in Nat, n \in P PROVE n + 1 \in P
  <2>. SUFFICES ASSUME n + 1 <= Len(table) PROVE ResyncedTo(f[n + 1], n + 1)
    OBVIOUS
  <2>1. ResyncedTo(f[n], n)
    BY <1>1, <1>6
  <2>2. n + 1 \in 0 .. Len(table) /\ n + 1 # 0 /\ (n + 1) - 1 = n
    BY <1>1
  <2>3. f[n + 1] = IF Stale(table[n + 1]) THEN Rekey(f[n], n + 1) ELSE f[n]
    BY <1>3, <1>4, <2>2
  <2>4. ResyncedTo(IF Stale(table[n + 1]) THEN Rekey(f[n], n + 1) ELSE f[n], n + 1)
    BY <1>1, <2>1, RekeyStep
  <2>. QED
    BY <2>3, <2>4
<1>. HIDE DEF P
<1>7. Nat \subseteq P
  BY <1>5, <1>6, NatSetInduction
<1>8. ResyncedTo(f[Len(table)], Len(table))
  BY <1>1, <1>7 DEF P
<1>. QED
  BY <1>8, ResyncedDef DEF f

-----------------------------------------------------------------------------
(* assign_table_entry_handles.                                             *)

\* Handles given out so far leave the table and the allocator good.
AssignedTo(acc) ==
    /\ acc \in [table : Seq(Entry), next : Nat]
    /\ TableGood(acc.table, acc.next)
    /\ next <= acc.next

\* A handle set at a place of a table of entries.
LEMMA HandleSet ==
    ASSUME NEW t \in Seq(Entry), NEW i \in 1 .. Len(t), NEW h \in Nat
    PROVE  LET e == [t[i] EXCEPT !.handle = h]
           IN /\ [t EXCEPT ![i].handle = h] = [t EXCEPT ![i] = e]
              /\ e \in Entry /\ KeyOf(e) = KeyOf(t[i]) /\ e.handle = h
<1>1. t[i] \in Entry
  OBVIOUS
<1>. QED
  BY <1>1 DEF Entry, KeyOf

LEMMA AssignOneTyped ==
    ASSUME NEW acc \in [table : Seq(Entry), next : Nat], NEW n
    PROVE  AssignOne(acc, n) \in [table : Seq(Entry), next : Nat]
<1>. DEFINE t == acc.table
            i == Find(t, n)
<1>1. t \in Seq(Entry) /\ acc.next \in Nat
  OBVIOUS
<1>2. i # 0 => i \in 1 .. Len(t)
  BY DEF Find, Keys
<1>. HIDE DEF t, i
<1>3. CASE i = 0
  BY <1>1, <1>3 DEF AssignOne, t, i
<1>4. CASE i # 0
  <2>1. [t EXCEPT ![i].handle = acc.next] \in Seq(Entry)
    BY <1>1, <1>2, <1>4, HandleSet
  <2>. QED
    BY <1>1, <1>4, <2>1 DEF AssignOne, t, i
<1>. QED
  BY <1>3, <1>4

LEMMA AssignStep ==
    ASSUME next \in Nat, NEW acc, AssignedTo(acc), NEW n
    PROVE  AssignedTo(AssignOne(acc, n))
<1>. DEFINE t == acc.table
            m == acc.next
            i == Find(t, n)
            new == AssignOne(acc, n)
<1>1. /\ t \in Seq(Entry) /\ m \in Nat /\ TableGood(t, m) /\ KeysDiffer(t)
      /\ next <= m /\ next <= m + 1
  BY DEF AssignedTo, TableGood
<1>2. new \in [table : Seq(Entry), next : Nat] /\ new.next = m + 1
  <2>1. acc \in [table : Seq(Entry), next : Nat]
    BY DEF AssignedTo
  <2>. QED
    BY <2>1, AssignOneTyped DEF AssignOne
<1>3. i # 0 => i \in 1 .. Len(t)
  BY <1>1, FindIs
<1>4. new.table = IF i = 0 THEN t ELSE [t EXCEPT ![i].handle = m]
  BY DEF AssignOne
<1>. HIDE DEF t, m, i, new
<1>5. TableGood(new.table, m + 1)
  <2>1. CASE i = 0
    BY <1>1, <1>4, <2>1, Higher
  <2>2. CASE i # 0
    <3>. DEFINE e == [t[i] EXCEPT !.handle = m]
    <3>1. /\ new.table = [t EXCEPT ![i] = e]
          /\ e \in Entry /\ KeyOf(e) = KeyOf(t[i]) /\ e.handle = m
      BY <1>1, <1>3, <1>4, <2>2, HandleSet
    <3>2. KeyOf(e) \notin OtherKeys(t, i)
      BY <1>1, <1>3, <2>2, <3>1, OwnKey
    <3>3. /\ m + 1 \in Nat /\ m <= m + 1 /\ e.handle < m + 1
          /\ e.handle \in {Null, m, t[i].handle} /\ i \in 1 .. Len(t)
      BY <1>1, <1>3, <2>2, <3>1
    <3>. HIDE DEF e
    <3>4. TableGood([t EXCEPT ![i] = e], m + 1)
      BY <1>1, <3>1, <3>2, <3>3, Replaced
    <3>. QED
      BY <3>1, <3>4
  <2>. QED
    BY <2>1, <2>2
<1>6. AssignedTo(new)
  BY <1>1, <1>2, <1>5 DEF AssignedTo
<1>. QED
  BY <1>6 DEF new

\* The recursion of Assigned.
Assigns(f) ==
    f = [n \in 0 .. Len(table) |->
            IF n = 0 THEN [table |-> table, next |-> next]
            ELSE IF n \in Missing THEN AssignOne(f[n - 1], table[n].name)
            ELSE f[n - 1]]

LEMMA AssignedDef == Assigned = (CHOOSE f : Assigns(f))[Len(table)]
BY DEF Assigned, Assigns

LEMMA AssignsExists ==
    ASSUME table \in Seq(Entry), next \in Nat
    PROVE  \E f : Assigns(f)
<1>. DEFINE T == [table : Seq(Entry), next : Nat]
            N == Len(table)
            base == [table |-> table, next |-> next]
            Step(n, acc) == IF n \in Missing THEN AssignOne(acc, table[n].name) ELSE acc
            step == [p \in (1 .. N) \X T |-> Step(p[1], p[2])]
<1>1. N \in Nat /\ base \in T
  OBVIOUS
<1>2. \A n \in 1 .. N, acc \in T : Step(n, acc) \in T
  BY AssignOneTyped
<1>. HIDE DEF Step, T, N, base
<1>3. step \in [(1 .. N) \X T -> T]
  BY <1>2
<1>4. \A n \in 1 .. N, acc \in T : step[<<n, acc>>] = Step(n, acc)
  OBVIOUS
<1>. HIDE DEF step
<1>5. PICK f \in [0 .. N -> T] : Solves(f, N, base, step)
  BY <1>1, <1>3, Recursion
<1>6. \A i \in 1 .. N : f[i - 1] \in T
  BY <1>1
<1>7. ASSUME NEW i \in 0 .. N
      PROVE  f[i] = IF i = 0 THEN base ELSE Step(i, f[i - 1])
  <2>1. CASE i = 0
    BY <1>5, <2>1 DEF Solves
  <2>2. CASE i \in 1 .. N
    <3>1. f[i] = step[<<i, f[i - 1]>>]
      BY <1>5, <2>2 DEF Solves
    <3>. QED
      BY <1>4, <1>6, <2>2, <3>1
  <2>. QED
    BY <1>1, <2>1, <2>2
<1>8. f = [n \in 0 .. N |-> IF n = 0 THEN base ELSE Step(n, f[n - 1])]
  BY <1>7
<1>9. Assigns(f)
  BY <1>8 DEF Assigns, Step, N, base
<1>. QED
  BY <1>9

\* So the table it ends with is good, too.
LEMMA AssignedIs ==
    ASSUME next \in Nat, TableGood(table, next)
    PROVE  AssignedTo(Assigned)
<1>1. table \in Seq(Entry) /\ Len(table) \in Nat
  BY DEF TableGood
<1>. DEFINE base == [table |-> table, next |-> next]
            f == CHOOSE g : Assigns(g)
<1>2. Assigns(f)
  BY <1>1, AssignsExists
<1>3. AssignedTo(base)
  BY <1>1 DEF AssignedTo
<1>. HIDE DEF f
<1>. DEFINE F == [n \in 0 .. Len(table) |->
                    IF n = 0 THEN base
                    ELSE IF n \in Missing THEN AssignOne(f[n - 1], table[n].name)
                    ELSE f[n - 1]]
<1>4. f = F
  BY <1>2 DEF Assigns
<1>5. \A n \in 0 .. Len(table) :
         F[n] = IF n = 0 THEN base
                ELSE IF n \in Missing THEN AssignOne(f[n - 1], table[n].name)
                ELSE f[n - 1]
  OBVIOUS
<1>. HIDE DEF F, base
<1>. DEFINE P == {n \in Nat : n <= Len(table) => AssignedTo(f[n])}
<1>6. 0 \in P
  <2>1. f[0] = base
    BY <1>1, <1>4, <1>5
  <2>. QED
    BY <1>3, <2>1
<1>7. ASSUME NEW n \in Nat, n \in P PROVE n + 1 \in P
  <2>. SUFFICES ASSUME n + 1 <= Len(table) PROVE AssignedTo(f[n + 1])
    OBVIOUS
  <2>1. AssignedTo(f[n])
    BY <1>1, <1>7
  <2>2. n + 1 \in 0 .. Len(table) /\ n + 1 # 0 /\ (n + 1) - 1 = n
    BY <1>1
  <2>3. f[n + 1] = IF n + 1 \in Missing THEN AssignOne(f[n], table[n + 1].name)
                   ELSE f[n]
    BY <1>4, <1>5, <2>2
  <2>4. AssignedTo(AssignOne(f[n], table[n + 1].name))
    BY <2>1, AssignStep
  <2>. QED
    BY <2>1, <2>3, <2>4
<1>. HIDE DEF P
<1>8. Nat \subseteq P
  BY <1>6, <1>7, NatSetInduction
<1>9. AssignedTo(f[Len(table)])
  BY <1>1, <1>8 DEF P
<1>. QED
  BY <1>9, AssignedDef DEF f

-----------------------------------------------------------------------------
(* The inductive invariant.                                                *)

TableInv ==
    /\ TableGood(table, next)
    /\ next \in Nat \ {0}
    /\ layerOf \in [Ents -> Names]
    /\ current \in [name : Names, handle : Nat]
    /\ state \in Names

LEMMA MaxOf ==
    ASSUME NEW N \in Nat, NEW S \in SUBSET (1 .. N), S # {}
    PROVE  Max(S) \in S
<1>. DEFINE T == {N - y : y \in S}
<1>1. T \in SUBSET Nat /\ T # {}
  <2>1. \A y \in S : N - y \in Nat
    OBVIOUS
  <2>2. PICK y \in S : TRUE
    OBVIOUS
  <2>3. N - y \in T
    BY <2>2
  <2>. QED
    BY <2>1, <2>3
<1>2. PICK d \in T : \A e \in T : d <= e
  BY <1>1, NatLeast
<1>3. PICK x \in S : d = N - x
  BY <1>2
<1>4. \A y \in S : N - x <= N - y
  BY <1>2, <1>3
<1>5. \A y \in S : x >= y
  BY <1>4
<1>. QED
  BY <1>5, Zenon DEF Max

LEMMA FollowTyped ==
    ASSUME table \in Seq(Entry), NEW t, NEW n \in Names
    PROVE  FollowRename(t, n) \in Names
<1>. DEFINE moved == {i \in Places : /\ Stale(table[i]) /\ table[i].base = Fold[n]
                                     /\ Find(t, table[i].base) = 0
                                     /\ Fold[table[i].name] # Fold[n]}
<1>1. CASE moved = {}
  BY <1>1 DEF FollowRename
<1>2. CASE moved # {}
  <2>1. Len(table) \in Nat /\ moved \in SUBSET (1 .. Len(table))
    BY DEF Places
  <2>2. FollowRename(t, n) = table[Max(moved)].name
    BY <1>2 DEF FollowRename
  <2>. HIDE DEF moved
  <2>3. Max(moved) \in 1 .. Len(table)
    BY <1>2, <2>1, MaxOf
  <2>4. table[Max(moved)] \in Entry
    BY <2>3
  <2>. QED
    BY <2>2, <2>4, EntryKey
<1>. QED
  BY <1>1, <1>2

LEMMA InitTable == Init => TableInv
<1>. SUFFICES ASSUME Init PROVE TableInv
  OBVIOUS
<1>. USE SymbolTableAssumption
<1>1. PICK zero \in Protected :
         /\ table = <<[base |-> zero, suffix |-> NoSuffix, name |-> zero, handle |-> 1]>>
         /\ layerOf = [x \in Ents |-> zero]
         /\ current = [name |-> zero, handle |-> 1]
         /\ state = zero
  BY DEF Init
<1>2. next = 2 /\ zero \in Names
  BY <1>1 DEF Init
<1>. DEFINE e == [base |-> zero, suffix |-> NoSuffix, name |-> zero, handle |-> 1]
<1>3. e \in Entry /\ e.handle = 1
  BY <1>2 DEF Entry, SuffixSet
<1>. HIDE DEF e
<1>4. table \in Seq(Entry) /\ Len(table) = 1 /\ table[1] = e
  BY <1>1, <1>3 DEF e
<1>5. KeysDiffer(table) /\ HandlesDiffer(table, next)
  BY <1>2, <1>3, <1>4 DEF KeysDiffer, HandlesDiffer
<1>. QED
  BY <1>1, <1>2, <1>4, <1>5 DEF TableInv, TableGood

\* An entry under the plain key of its name.
LEMMA PlainEntry ==
    ASSUME NEW n \in Names, NEW h \in Nat
    PROVE  LET e == [base |-> Fold[n], suffix |-> NoSuffix, name |-> n, handle |-> h]
           IN e \in Entry /\ KeyOf(e) = PlainKey(n) /\ e.handle = h
BY FoldAssumption DEF Entry, SuffixSet, KeyOf, PlainKey

\* Null, or the allocator's next handle, which it then leaves behind.
LEMMA HandleGiven ==
    ASSUME next \in Nat \ {0}, NEW h \in NewHandles, Bump(h)
    PROVE  /\ h \in Nat /\ h \in {Null, next}
           /\ next' \in Nat \ {0} /\ next <= next' /\ h < next'
BY DEF NewHandles, Bump, Null

LEMMA AddKeeps ==
    ASSUME TableInv, NEW n \in Names, NEW h \in NewHandles, Add(n, h)
    PROVE  TableInv'
<1>. DEFINE e == [base |-> Fold[n], suffix |-> NoSuffix, name |-> n, handle |-> h]
<1>1. /\ Find(table, n) = 0 /\ table' = Append(table, e) /\ Bump(h)
      /\ UNCHANGED <<layerOf, current, state>>
  BY DEF Add
<1>2. /\ h \in Nat /\ h \in {Null, next}
      /\ next \in Nat /\ next' \in Nat \ {0} /\ next <= next' /\ h < next'
  BY <1>1, HandleGiven DEF TableInv
<1>3. e \in Entry /\ KeyOf(e) = PlainKey(n) /\ e.handle = h
  BY <1>2, PlainEntry
<1>4. KeyOf(e) \notin Keys(table)
  BY <1>1, <1>3, FindIs DEF TableInv, TableGood
<1>. HIDE DEF e
<1>5. TableGood(Append(table, e), next')
  BY <1>2, <1>3, <1>4, Added DEF TableInv
<1>. QED
  BY <1>1, <1>2, <1>5 DEF TableInv

LEMMA AddOrReplaceKeeps ==
    ASSUME TableInv, NEW n \in Names, NEW h \in NewHandles, AddOrReplace(n, h)
    PROVE  TableInv'
<1>. DEFINE i == Find(table, n)
            e == [base |-> Fold[n], suffix |-> NoSuffix, name |-> n, handle |-> h]
<1>1. /\ i # 0 /\ table' = [table EXCEPT ![i] = e] /\ Bump(h)
      /\ UNCHANGED <<layerOf, current, state>>
  BY DEF AddOrReplace
<1>2. /\ h \in Nat /\ h \in {Null, next}
      /\ next \in Nat /\ next' \in Nat \ {0} /\ next <= next' /\ h < next'
  BY <1>1, HandleGiven DEF TableInv
<1>3. e \in Entry /\ KeyOf(e) = PlainKey(n) /\ e.handle = h
  BY <1>2, PlainEntry
<1>4. i \in 1 .. Len(table) /\ KeyOf(table[i]) = PlainKey(n)
  BY <1>1, FindIs DEF TableInv, TableGood
<1>5. KeyOf(e) \notin OtherKeys(table, i)
  BY <1>3, <1>4, OwnKey DEF TableInv, TableGood
<1>. HIDE DEF e, i
<1>6. e.handle \in {Null, next, table[i].handle}
  BY <1>2, <1>3
<1>7. TableGood([table EXCEPT ![i] = e], next')
  BY <1>2, <1>3, <1>4, <1>5, <1>6, Replaced DEF TableInv
<1>. QED
  BY <1>1, <1>2, <1>7 DEF TableInv

LEMMA AddAllowDuplicateKeeps ==
    ASSUME TableInv, NEW n \in Names, NEW h \in NewHandles, AddAllowDuplicate(n, h)
    PROVE  TableInv'
<1>. DEFINE number == IF h # Null THEN h ELSE Len(table)
            suffix == FreeSuffix(Keys(table), Fold[n], number, h)
            e == [base |-> Fold[n], suffix |-> suffix, name |-> n, handle |-> h]
<1>1. /\ table' = Append(table, e) /\ Bump(h)
      /\ UNCHANGED <<layerOf, current, state>>
  BY DEF AddAllowDuplicate
<1>2. /\ h \in Nat /\ h \in {Null, next}
      /\ next \in Nat /\ next' \in Nat \ {0} /\ next <= next' /\ h < next'
  BY <1>1, HandleGiven DEF TableInv
<1>3. table \in Seq(Entry) /\ number \in Nat
  BY <1>2 DEF TableInv, TableGood
<1>. HIDE DEF number
<1>4. suffix \in Nat \X Nat /\ <<Fold[n], suffix>> \notin Keys(table)
  BY <1>2, <1>3, KeysFinite, FreeSuffixIsFree
<1>. HIDE DEF suffix
<1>5. e \in Entry /\ KeyOf(e) = <<Fold[n], suffix>> /\ e.handle = h
  BY <1>2, <1>4, FoldAssumption DEF Entry, SuffixSet, KeyOf
<1>. HIDE DEF e
<1>6. TableGood(Append(table, e), next')
  BY <1>2, <1>4, <1>5, Added DEF TableInv
<1>. QED
  BY <1>1, <1>2, <1>6 DEF TableInv

LEMMA RemoveKeeps ==
    ASSUME TableInv, NEW n \in Names, RemoveEntry(n)
    PROVE  TableInv'
<1>. DEFINE i == Find(table, n)
<1>1. /\ i # 0 /\ table' = RemoveAt(table, i)
      /\ UNCHANGED <<next, layerOf, current, state>>
  BY DEF RemoveEntry
<1>2. i \in 1 .. Len(table)
  BY <1>1, FindIs DEF TableInv, TableGood
<1>. HIDE DEF i
<1>3. TableGood(RemoveAt(table, i), next)
  BY <1>2, Removed DEF TableInv
<1>. QED
  BY <1>1, <1>3 DEF TableInv

LEMMA RenameInPlaceKeeps ==
    ASSUME TableInv, NEW i \in Places, NEW n \in Names, RenameInPlace(i, n)
    PROVE  TableInv'
<1>. DEFINE e == [table[i] EXCEPT !.name = n]
<1>1. /\ table' = [table EXCEPT ![i].name = n]
      /\ UNCHANGED <<next, layerOf, current, state>>
  BY DEF RenameInPlace
<1>2. /\ table \in Seq(Entry) /\ i \in 1 .. Len(table) /\ next \in Nat
      /\ KeysDiffer(table) /\ HandlesDiffer(table, next)
  BY DEF TableInv, TableGood, Places
<1>3. table[i] \in Entry
  BY <1>2
<1>4. /\ table' = [table EXCEPT ![i] = e]
      /\ e \in Entry /\ KeyOf(e) = KeyOf(table[i]) /\ e.handle = table[i].handle
  BY <1>1, <1>3 DEF Entry, KeyOf
<1>5. KeyOf(e) \notin OtherKeys(table, i) /\ e.handle < next
  BY <1>2, <1>4, OwnKey DEF HandlesDiffer
<1>. HIDE DEF e
<1>6. e.handle \in {Null, next, table[i].handle} /\ next <= next
  BY <1>2, <1>4
<1>7. TableGood([table EXCEPT ![i] = e], next)
  BY <1>2, <1>4, <1>5, <1>6, Replaced DEF TableInv
<1>. QED
  BY <1>1, <1>4, <1>7 DEF TableInv

\* rename_layer puts an entry of the new name in the place i of the entry keyed by
\* the name of the one looked up, at the place at.
LEMMA RenamedLayer ==
    ASSUME TableInv, NEW old \in Names, NEW new \in Names, RenameLayer(old, new)
    PROVE  \E at, i \in Places, e \in Entry :
              /\ Find(table, table[at].name) = i
              /\ KeyOf(e) = PlainKey(new) /\ e.name = new
              /\ Fold[new] = Fold[table[at].name] \/ Find(table, new) = 0
              /\ table' = [table EXCEPT ![i] = e]
              /\ e.handle \in {Null, next, table[i].handle} /\ e.handle < next'
              /\ next' \in Nat \ {0} /\ next <= next' /\ e.handle \in Nat
              /\ layerOf' = [x \in Ents |-> FollowLayer(layerOf[x], table[at].name, new)]
              /\ current' = IF \/ Fold[current.name] = Fold[table[at].name]
                               \/ /\ table[at].handle # Null
                                  /\ current.handle = table[at].handle
                            THEN [name |-> new, handle |-> e.handle] ELSE current
              /\ state' = FollowLayer(state, table[at].name, new)
<1>. DEFINE at == Find(table, old)
            n == table[at].name
            i == Find(table, n)
            h == IF table[i].handle = Null THEN next ELSE table[i].handle
            e == [base |-> Fold[new], suffix |-> NoSuffix, name |-> new, handle |-> h]
<1>1. /\ at # 0 /\ i # 0
      /\ Fold[new] = Fold[n] \/ Find(table, new) = 0
      /\ table' = [table EXCEPT ![i] = e]
      /\ next' = IF table[i].handle = Null THEN next + 1 ELSE next
      /\ layerOf' = [x \in Ents |-> FollowLayer(layerOf[x], n, new)]
      /\ current' = IF \/ Fold[current.name] = Fold[n]
                       \/ /\ table[at].handle # Null
                          /\ current.handle = table[at].handle
                    THEN [name |-> new, handle |-> h] ELSE current
      /\ state' = FollowLayer(state, n, new)
  BY DEF RenameLayer
<1>2. at \in Places /\ i \in Places
  BY <1>1, FindIs DEF TableInv, TableGood, Places
<1>3. /\ next \in Nat \ {0} /\ table[i].handle \in Nat
      /\ table[i].handle < next
  BY <1>2, GoodEntries DEF TableInv, TableGood, HandlesDiffer, Places
<1>a. Find(table, table[at].name) = i
  OBVIOUS
<1>b. n = table[at].name
  OBVIOUS
<1>. HIDE DEF i, at, n
<1>4. h \in Nat /\ h \in {next, table[i].handle}
  BY <1>3
<1>5. next' \in Nat \ {0} /\ next <= next' /\ h < next'
  BY <1>1, <1>3
<1>. HIDE DEF h
<1>6. e \in Entry /\ KeyOf(e) = PlainKey(new) /\ e.handle = h /\ e.name = new
  BY <1>4, PlainEntry
<1>. HIDE DEF e
<1>. QED
  BY <1>1, <1>2, <1>a, <1>b, <1>4, <1>5, <1>6

LEMMA RenameLayerKeeps ==
    ASSUME TableInv, NEW old \in Names, NEW new \in Names, RenameLayer(old, new)
    PROVE  TableInv'
<1>1. PICK at, i \in Places, e \in Entry :
         /\ Find(table, table[at].name) = i
         /\ KeyOf(e) = PlainKey(new)
         /\ Fold[new] = Fold[table[at].name] \/ Find(table, new) = 0
         /\ table' = [table EXCEPT ![i] = e]
         /\ e.handle \in {Null, next, table[i].handle} /\ e.handle < next'
         /\ next' \in Nat \ {0} /\ next <= next' /\ e.handle \in Nat
         /\ layerOf' = [x \in Ents |-> FollowLayer(layerOf[x], table[at].name, new)]
         /\ current' \in {current, [name |-> new, handle |-> e.handle]}
         /\ state' = FollowLayer(state, table[at].name, new)
  BY RenamedLayer
<1>2. /\ table \in Seq(Entry) /\ KeysDiffer(table) /\ i \in 1 .. Len(table)
      /\ next \in Nat
  BY DEF TableInv, TableGood, Places
<1>3. i # 0 /\ KeyOf(table[i]) = PlainKey(table[at].name)
  BY <1>1, <1>2, FindIs
<1>4. KeyOf(e) \notin OtherKeys(table, i)
  <2>1. CASE Fold[new] = Fold[table[at].name]
    BY <1>1, <1>2, <1>3, <2>1, OwnKey DEF PlainKey
  <2>2. CASE Find(table, new) = 0
    <3>1. KeyOf(e) \notin Keys(table)
      BY <1>1, <1>2, <2>2, FindIs
    <3>. QED
      BY <3>1 DEF Keys, OtherKeys
  <2>. QED
    BY <1>1, <2>1, <2>2
<1>5. TableGood([table EXCEPT ![i] = e], next')
  BY <1>1, <1>2, <1>4, Replaced DEF TableInv
<1>6. layerOf' \in [Ents -> Names] /\ state' \in Names
  BY <1>1 DEF TableInv, FollowLayer
<1>7. current' \in [name : Names, handle : Nat]
  BY <1>1 DEF TableInv
<1>. QED
  BY <1>1, <1>5, <1>6, <1>7 DEF TableInv

LEMMA ResyncKeeps ==
    ASSUME TableInv, ResyncTableKeys
    PROVE  TableInv'
<1>1. /\ table' = Resynced /\ next' = next /\ state' = state
      /\ layerOf' = [x \in Ents |-> FollowRename(table', layerOf[x])]
      /\ current' = [current EXCEPT !.name = FollowRename(table', current.name)]
  BY DEF ResyncTableKeys
<1>2. TableGood(table, next) /\ next \in Nat /\ table \in Seq(Entry)
  BY DEF TableInv, TableGood
<1>3. TableGood(table', next)
  BY <1>1, <1>2, ResyncedIs DEF ResyncedTo
<1>4. layerOf' \in [Ents -> Names]
  BY <1>1, <1>2, FollowTyped DEF TableInv
<1>5. current' \in [name : Names, handle : Nat]
  <2>1. current \in [name : Names, handle : Nat] /\ current.name \in Names
    BY DEF TableInv
  <2>2. FollowRename(table', current.name) \in Names
    BY <1>2, <2>1, FollowTyped
  <2>. QED
    BY <1>1, <2>1, <2>2
<1>. QED
  BY <1>1, <1>3, <1>4, <1>5 DEF TableInv

LEMMA AssignKeeps ==
    ASSUME TableInv, AssignTableEntryHandles
    PROVE  TableInv'
<1>1. /\ table' = Assigned.table /\ next' = Assigned.next
      /\ UNCHANGED <<layerOf, current, state>>
  BY DEF AssignTableEntryHandles
<1>2. AssignedTo(Assigned)
  BY AssignedIs DEF TableInv
<1>. HIDE DEF TableInv
<1>3. TableGood(table', next') /\ next <= next' /\ next' \in Nat
  BY <1>1, <1>2 DEF AssignedTo
<1>. QED
  BY <1>1, <1>3 DEF TableInv

LEMMA SettingsKeep ==
    ASSUME TableInv, NEW i \in Places,
           \/ \E x \in Ents : SetLayer(x, i)
           \/ SetCurrent(i)
           \/ SaveState(i)
    PROVE  TableInv'
<1>1. table[i].name \in Names /\ table[i].handle \in Nat
  <2>1. table[i] \in Entry
    BY GoodEntries DEF TableInv, Places
  <2>. QED
    BY <2>1, EntryKey
<1>2. CASE \E x \in Ents : SetLayer(x, i)
  BY <1>1, <1>2 DEF SetLayer, TableInv
<1>3. CASE SetCurrent(i)
  BY <1>1, <1>3 DEF SetCurrent, TableInv
<1>4. CASE SaveState(i)
  BY <1>1, <1>4 DEF SaveState, TableInv
<1>. QED
  BY <1>2, <1>3, <1>4

LEMMA StepTable == TableInv /\ [Next]_vars => TableInv'
<1>. SUFFICES ASSUME TableInv, [Next]_vars PROVE TableInv'
  OBVIOUS
<1>1. CASE \E n \in Names, h \in NewHandles : Add(n, h)
  BY <1>1, AddKeeps
<1>2. CASE \E n \in Names, h \in NewHandles : AddOrReplace(n, h)
  BY <1>2, AddOrReplaceKeeps
<1>3. CASE \E n \in Names, h \in NewHandles : AddAllowDuplicate(n, h)
  BY <1>3, AddAllowDuplicateKeeps
<1>4. CASE \E n \in Names : Fold[n] \notin Protected /\ RemoveEntry(n)
  BY <1>4, RemoveKeeps
<1>5. CASE \E i \in Places, n \in Names : RenameInPlace(i, n)
  BY <1>5, RenameInPlaceKeeps
<1>6. CASE \E old, new \in Names : RenameLayer(old, new)
  BY <1>6, RenameLayerKeeps
<1>7. CASE ResyncTableKeys
  BY <1>7, ResyncKeeps
<1>8. CASE AssignTableEntryHandles
  BY <1>8, AssignKeeps
<1>9. CASE \E i \in Places : \/ \E x \in Ents : SetLayer(x, i)
                             \/ SetCurrent(i)
                             \/ SaveState(i)
  BY <1>9, SettingsKeep
<1>10. CASE UNCHANGED vars
  BY <1>10 DEF vars, TableInv
<1>. QED
  BY <1>1, <1>2, <1>3, <1>4, <1>5, <1>6, <1>7, <1>8, <1>9, <1>10 DEF Next

LEMMA TableCorrect == Spec => []TableInv
<1>1. Init => TableInv
  BY InitTable
<1>2. TableInv /\ [Next]_vars => TableInv'
  BY StepTable
<1>. QED
  BY <1>1, <1>2, PTL DEF Spec

-----------------------------------------------------------------------------
(* The theorems.                                                           *)

\* Whatever duplicates, in-place renames, replacements, re-keyings and
\* assignments of handles a table went through, no two of its entries share a
\* key or a handle, and the allocator is above them all.
THEOREM TablesStayUnique == Spec => []EntriesUnique
<1>1. TableInv => EntriesUnique
  BY DEF TableInv, TableGood, KeysDiffer, HandlesDiffer, EntriesUnique, Places
<1>. QED
  BY <1>1, TableCorrect, PTL

\* resync_keys drops and moves no entry and leaves no key stale.
THEOREM ResyncLosesNothing == Spec => ResyncKeepsEntries
<1>. DEFINE A == ResyncTableKeys =>
                    /\ Len(table') = Len(table)
                    /\ \A i \in Places : /\ table'[i].name = table[i].name
                                         /\ table'[i].handle = table[i].handle
                    /\ ~HasStaleKeys'
<1>1. TableInv => A
  <2>. SUFFICES ASSUME TableInv, ResyncTableKeys PROVE A
    OBVIOUS
  <2>1. table' = Resynced /\ ResyncedTo(Resynced, Len(table))
    BY ResyncedIs DEF ResyncTableKeys, TableInv
  <2>2. ResyncedTo(table', Len(table))
    BY <2>1
  <2>3. Places' = Places
    BY <2>2 DEF ResyncedTo, Places
  <2>4. \A i \in Places : i <= Len(table)
    BY DEF Places
  <2>5. ASSUME NEW i \in Places PROVE ~Stale(table'[i])
    <3>1. CASE Stale(table[i])
      <4>1. table'[i].base = Fold[table'[i].name]
        BY <2>2, <2>4, <3>1 DEF ResyncedTo
      <4>. QED
        BY <4>1 DEF Stale
    <3>2. CASE ~Stale(table[i])
      <4>1. table'[i] = table[i]
        BY <2>2, <3>2 DEF ResyncedTo
      <4>. QED
        BY <3>2, <4>1
    <3>. QED
      BY <3>1, <3>2
  <2>6. ~HasStaleKeys'
    BY <2>3, <2>5 DEF HasStaleKeys, Stale
  <2>. QED
    BY <2>2, <2>6 DEF ResyncedTo
<1>2. TableInv /\ [Next]_vars => [A]_vars
  BY <1>1
<1>. QED
  BY <1>2, TableCorrect, PTL DEF Spec, ResyncKeepsEntries

\* The entry e of the name new takes the place i of the one keyed by the name of
\* the entry at the place at.
Renaming(at, i, e, new) ==
    /\ at \in Places /\ i \in Places /\ e \in Entry
    /\ Find(table, table[at].name) = i
    /\ KeyOf(e) = PlainKey(new) /\ e.name = new
    /\ table' = [table EXCEPT ![i] = e]

\* A name of the renamed entry becomes one of the same entry; any other name
\* leads where it led.
LEMMA RenameFollows ==
    ASSUME TableInv, TableInv', NEW at, NEW i, NEW e, NEW new, Renaming(at, i, e, new),
           NEW n, Find(table, n) # 0
    PROVE  /\ Find(table', FollowLayer(n, table[at].name, new)) = Find(table, n)
           /\ Find(table, n) = i <=> Fold[n] = Fold[table[at].name]
<1>. DEFINE old == table[at].name
            j == Find(table, n)
<1>1. /\ table \in Seq(Entry) /\ KeysDiffer(table)
      /\ table' \in Seq(Entry) /\ KeysDiffer(table')
      /\ i \in 1 .. Len(table) /\ Find(table, old) = i
      /\ KeyOf(e) = PlainKey(new)
  BY DEF TableInv, TableGood, Places, Renaming
<1>2. j \in 1 .. Len(table) /\ KeyOf(table[j]) = PlainKey(n)
  BY <1>1, FindIs
<1>3. i # 0 /\ KeyOf(table[i]) = PlainKey(old)
  BY <1>1, FindIs
<1>4. /\ Len(table') = Len(table) /\ table'[i] = e
      /\ \A k \in 1 .. Len(table) : k # i => table'[k] = table[k]
  BY <1>1 DEF Renaming
<1>. HIDE DEF j, old
<1>5. CASE Fold[n] = Fold[old]
  <2>1. j = i
    BY <1>1, <1>2, <1>3, <1>5 DEF PlainKey, KeysDiffer
  <2>2. Find(table', new) = i
    <3>1. i \in 1 .. Len(table') /\ KeyOf(table'[i]) = PlainKey(new)
      BY <1>1, <1>4
    <3>2. \A k \in 1 .. Len(table') : KeyOf(table'[k]) = PlainKey(new) =>
                                        Find(table', new) = k
      BY <1>1, FindIs
    <3>. QED
      BY <3>1, <3>2
  <2>3. FollowLayer(n, old, new) = new
    BY <1>5 DEF FollowLayer
  <2>. QED
    BY <1>5, <2>1, <2>2, <2>3 DEF j, old
<1>6. CASE Fold[n] # Fold[old]
  <2>1. j # i
    BY <1>2, <1>3, <1>6 DEF PlainKey
  <2>2. KeyOf(table'[j]) = PlainKey(n) /\ j \in 1 .. Len(table')
    BY <1>2, <1>4, <2>1
  <2>3. Find(table', n) = j
    BY <1>1, <2>2, FindIs
  <2>4. FollowLayer(n, old, new) = n
    BY <1>6 DEF FollowLayer
  <2>. QED
    BY <1>6, <2>1, <2>3, <2>4 DEF j, old
<1>. QED
  BY <1>5, <1>6

\* A header that named an entry by name and handle still does: only a header of
\* the renamed entry moves, for an entry that is not stale and has the handle of
\* the one looked up is that one, and is renamed itself.
LEMMA HeaderFollows ==
    ASSUME TableInv, TableInv', NEW at, NEW i, NEW e, NEW new, Renaming(at, i, e, new),
           current' = IF \/ Fold[current.name] = Fold[table[at].name]
                         \/ /\ table[at].handle # Null
                            /\ current.handle = table[at].handle
                      THEN [name |-> new, handle |-> e.handle] ELSE current,
           HeaderEntry # 0
    PROVE  HeaderEntry' = HeaderEntry
<1>. DEFINE old == table[at].name
            c == current.name
            j == Find(table, c)
<1>1. /\ j # 0 /\ HeaderEntry = j
      /\ ~Stale(table[j]) /\ current.handle = table[j].handle
  BY DEF HeaderEntry, Resolves
<1>2. /\ table \in Seq(Entry) /\ j \in 1 .. Len(table)
      /\ KeyOf(table[j]) = PlainKey(c)
  BY <1>1, FindIs DEF TableInv, TableGood
<1>3. table[j].base = Fold[c] /\ Fold[table[j].name] = Fold[c]
  BY <1>1, <1>2 DEF KeyOf, PlainKey, Stale
<1>4. /\ Find(table', FollowLayer(c, old, new)) = j
      /\ j = i <=> Fold[c] = Fold[old]
  BY <1>1, RenameFollows
<1>5. /\ at \in Places /\ i \in Places /\ e \in Entry
      /\ KeyOf(e) = PlainKey(new) /\ e.name = new
      /\ table' = [table EXCEPT ![i] = e]
  BY DEF Renaming
<1>. DEFINE Named == /\ Find(table', current'.name) = j
                      /\ table'[j].base = Fold[table'[j].name]
                      /\ current'.handle = table'[j].handle
<1>6. ASSUME Fold[c] = Fold[old] PROVE Named
  <2>1. current' = [name |-> new, handle |-> e.handle]
    BY <1>6
  <2>2. FollowLayer(c, old, new) = new
    BY <1>6 DEF FollowLayer
  <2>3. j = i /\ table'[j] = e
    BY <1>2, <1>4, <1>5, <1>6
  <2>4. e.base = Fold[new]
    BY <1>5 DEF KeyOf, PlainKey
  <2>. QED
    BY <1>4, <1>5, <2>1, <2>2, <2>3, <2>4
<1>7. ASSUME Fold[c] # Fold[old] PROVE Named
  <2>1. j # i /\ table'[j] = table[j]
    BY <1>2, <1>4, <1>5, <1>7
  <2>2. j # at
    BY <1>3, <1>7
  <2>3. ~(table[at].handle # Null /\ current.handle = table[at].handle)
    BY <1>1, <1>2, <1>5, <2>2 DEF TableInv, TableGood, HandlesDiffer, Places
  <2>4. current' = current
    BY <1>7, <2>3
  <2>5. FollowLayer(c, old, new) = c
    BY <1>7 DEF FollowLayer
  <2>. QED
    BY <1>1, <1>4, <2>1, <2>4, <2>5 DEF Stale
<1>8. Named
  BY <1>6, <1>7
<1>9. Resolves(current.name)' = Find(table', current'.name)
  BY DEF Resolves, Find
<1>. QED
  BY <1>1, <1>8, <1>9 DEF HeaderEntry, Stale

\* rename_layer leaves every entity, the saved layer state and the header on the
\* entry they named, whatever the spelling, and also when the entry looked up, or
\* another one, waits for a resync.
THEOREM RenameTakesReferences == Spec => RenameKeepsReferences
<1>. DEFINE A == ~ReferencesKept => ~ \E old, new \in Names : RenameLayer(old, new)
<1>1. TableInv /\ TableInv' => A
  <2>. SUFFICES ASSUME TableInv, TableInv',
                       NEW old \in Names, NEW new \in Names, RenameLayer(old, new)
                PROVE  ReferencesKept
    OBVIOUS
  <2>1. PICK at, i \in Places, e \in Entry :
           /\ Renaming(at, i, e, new)
           /\ layerOf' = [x \in Ents |-> FollowLayer(layerOf[x], table[at].name, new)]
           /\ current' = IF \/ Fold[current.name] = Fold[table[at].name]
                            \/ /\ table[at].handle # Null
                               /\ current.handle = table[at].handle
                         THEN [name |-> new, handle |-> e.handle] ELSE current
           /\ state' = FollowLayer(state, table[at].name, new)
    BY RenamedLayer DEF Renaming
  <2>2. \A n : Find(table, n) # 0 =>
                  Find(table', FollowLayer(n, table[at].name, new)) = Find(table, n)
    BY <2>1, RenameFollows
  <2>3. ASSUME NEW x \in Ents, Resolves(layerOf[x]) # 0
        PROVE  Resolves(layerOf[x])' = Resolves(layerOf[x])
    <3>1. layerOf'[x] = FollowLayer(layerOf[x], table[at].name, new)
      BY <2>1
    <3>2. Find(table', layerOf'[x]) = Find(table, layerOf[x])
      BY <2>2, <2>3, <3>1 DEF Resolves
    <3>. QED
      BY <3>2 DEF Resolves, Find
  <2>4. ASSUME Resolves(state) # 0 PROVE Resolves(state)' = Resolves(state)
    <3>1. Find(table', state') = Find(table, state)
      BY <2>1, <2>2, <2>4 DEF Resolves
    <3>. QED
      BY <3>1 DEF Resolves, Find
  <2>5. HeaderEntry # 0 => HeaderEntry' = HeaderEntry
    BY <2>1, HeaderFollows
  <2>. QED
    BY <2>3, <2>4, <2>5 DEF ReferencesKept
<1>2. TableInv /\ TableInv' /\ [Next]_vars => [A]_vars
  BY <1>1
<1>. QED
  BY <1>2, TableCorrect, PTL DEF Spec, RenameKeepsReferences

\* After unambiguous in-place renames a renamed entry is found under its name
\* and under no other, and a name it had follows it.
LEMMA ResyncFollows ==
    ASSUME TableInv, UnambiguousRenames, NEW t, t \in Seq(Entry), KeysDiffer(t),
           ResyncedTo(t, Len(table)), NEW n \in Names, Find(table, n) # 0
    PROVE  Find(t, FollowRename(t, n)) = Find(table, n)
<1>. DEFINE j == Find(table, n)
            moved == {i \in Places : /\ Stale(table[i]) /\ table[i].base = Fold[n]
                                     /\ Find(t, table[i].base) = 0
                                     /\ Fold[table[i].name] # Fold[n]}
<1>1. table \in Seq(Entry) /\ KeysDiffer(table) /\ Len(table) \in Nat
  BY DEF TableInv, TableGood
<1>2. /\ j \in Places /\ KeyOf(table[j]) = PlainKey(n)
      /\ table[j].base = Fold[n] /\ table[j].suffix = NoSuffix
  <2>1. j \in Places /\ KeyOf(table[j]) = PlainKey(n)
    BY <1>1, FindIs DEF Places
  <2>. QED
    BY <2>1 DEF KeyOf, PlainKey
<1>3. \A i \in Places : KeyOf(table[i]) = KeyOf(table[j]) => i = j
  BY <1>1, <1>2 DEF KeysDiffer, Places
<1>4. Fold[n] \in Names /\ Fold[Fold[n]] = Fold[n]
  BY FoldAssumption
<1>5. Places = 1 .. Len(t)
  BY DEF ResyncedTo, Places
<1>6. ASSUME NEW i \in Places, ~Stale(table[i]) PROVE t[i] = table[i]
  BY <1>6 DEF ResyncedTo
<1>7. ASSUME NEW i \in Places, Stale(table[i])
      PROVE  /\ t[i].base = Fold[table[i].name] /\ t[i].suffix = NoSuffix
             /\ KeyOf(t[i]) = PlainKey(table[i].name)
  <2>1. i <= Len(table)
    BY DEF Places
  <2>2. \A k \in Places \ {i} :
           Fold[table[i].name] \notin {table[k].base, Fold[table[k].name]}
    BY <1>7 DEF UnambiguousRenames
  <2>3. t[i].base = Fold[table[i].name] /\ t[i].suffix = NoSuffix
    BY <1>7, <2>1, <2>2 DEF ResyncedTo
  <2>. QED
    BY <2>3 DEF KeyOf, PlainKey
<1>8. FollowRename(t, n) = IF moved = {} THEN n ELSE table[Max(moved)].name
  BY DEF FollowRename
<1>. HIDE DEF j
<1>9. CASE ~Stale(table[j])
  <2>1. KeyOf(t[j]) = PlainKey(n)
    BY <1>2, <1>6, <1>9
  <2>2. Find(t, n) = j /\ j # 0
    BY <1>2, <1>5, <2>1, FindIs
  <2>3. Find(t, Fold[n]) = Find(t, n)
    BY <1>4 DEF Find, PlainKey
  <2>4. moved = {}
    BY <2>2, <2>3
  <2>. QED
    BY <1>8, <2>2, <2>4 DEF j
<1>10. CASE Stale(table[j])
  <2>1. ASSUME NEW i \in Places, i # j PROVE KeyOf(t[i]) # PlainKey(n)
    <3>1. CASE Stale(table[i])
      <4>1. Fold[n] # Fold[table[i].name]
        BY <1>2, <1>10, <2>1, <3>1 DEF UnambiguousRenames
      <4>. QED
        BY <1>7, <3>1, <4>1 DEF PlainKey
    <3>2. CASE ~Stale(table[i])
      BY <1>2, <1>3, <1>6, <2>1, <3>2
    <3>. QED
      BY <3>1, <3>2
  <2>2. Fold[table[j].name] # Fold[n]
    BY <1>2, <1>10 DEF Stale
  <2>3. KeyOf(t[j]) # PlainKey(n)
    BY <1>2, <1>7, <1>10, <2>2 DEF PlainKey
  <2>4. Find(t, n) = 0
    <3>1. \A i \in 1 .. Len(t) : KeyOf(t[i]) # PlainKey(n)
      BY <1>5, <2>1, <2>3
    <3>. QED
      BY <3>1 DEF Find, Keys
  <2>5. Find(t, Fold[n]) = Find(t, n)
    BY <1>4 DEF Find, PlainKey
  <2>6. ASSUME NEW i \in Places, Stale(table[i]), table[i].base = Fold[n]
        PROVE  i = j
    BY <1>2, <1>10, <2>6 DEF UnambiguousRenames
  <2>7. moved = {j}
    BY <1>2, <1>10, <2>2, <2>4, <2>5, <2>6
  <2>8. Max(moved) = j
    <3>1. moved \in SUBSET (1 .. Len(table)) /\ moved # {}
      BY <1>2, <2>7 DEF Places
    <3>. QED
      BY <1>1, <2>7, <3>1, MaxOf
  <2>. HIDE DEF moved
  <2>9. FollowRename(t, n) = table[j].name
    BY <1>8, <2>7, <2>8
  <2>10. Find(t, table[j].name) = j
    BY <1>2, <1>5, <1>7, <1>10, FindIs
  <2>. QED
    BY <2>9, <2>10 DEF j
<1>. QED
  BY <1>9, <1>10

\* Unambiguous in-place renames, once resynced, take the entities and the header
\* that named a renamed entry along, and move no other reference.
THEOREM ResyncTakesReferences == Spec => ReferencesFollow
<1>. DEFINE A == UnambiguousRenames /\ ResyncTableKeys
                 => /\ \A x \in Ents : Resolves(layerOf[x]) # 0 =>
                          Resolves(layerOf[x])' = Resolves(layerOf[x])
                    /\ Resolves(current.name) # 0 =>
                          Resolves(current.name)' = Resolves(current.name)
<1>1. TableInv /\ TableInv' => A
  <2>. SUFFICES ASSUME TableInv, TableInv', UnambiguousRenames, ResyncTableKeys
                PROVE  /\ \A x \in Ents : Resolves(layerOf[x]) # 0 =>
                             Resolves(layerOf[x])' = Resolves(layerOf[x])
                       /\ Resolves(current.name) # 0 =>
                             Resolves(current.name)' = Resolves(current.name)
    OBVIOUS
  <2>1. /\ table' = Resynced
        /\ layerOf' = [x \in Ents |-> FollowRename(table', layerOf[x])]
        /\ current' = [current EXCEPT !.name = FollowRename(table', current.name)]
    BY DEF ResyncTableKeys
  <2>2. ResyncedTo(table', Len(table))
    BY <2>1, ResyncedIs DEF TableInv
  <2>3. table' \in Seq(Entry) /\ KeysDiffer(table')
    BY DEF TableInv, TableGood
  <2>4. \A n \in Names : Find(table, n) # 0 =>
           Find(table', FollowRename(table', n)) = Find(table, n)
    BY <2>2, <2>3, ResyncFollows
  <2>5. ASSUME NEW x \in Ents, Resolves(layerOf[x]) # 0
        PROVE  Resolves(layerOf[x])' = Resolves(layerOf[x])
    <3>1. layerOf[x] \in Names /\ layerOf'[x] = FollowRename(table', layerOf[x])
      BY <2>1 DEF TableInv
    <3>2. Find(table', layerOf'[x]) = Find(table, layerOf[x])
      BY <2>4, <2>5, <3>1 DEF Resolves
    <3>. QED
      BY <3>2 DEF Resolves, Find
  <2>6. ASSUME Resolves(current.name) # 0
        PROVE  Resolves(current.name)' = Resolves(current.name)
    <3>1. /\ current.name \in Names
          /\ current'.name = FollowRename(table', current.name)
      BY <2>1 DEF TableInv
    <3>2. Find(table', current'.name) = Find(table, current.name)
      BY <2>4, <2>6, <3>1 DEF Resolves
    <3>. QED
      BY <3>2 DEF Resolves, Find
  <2>. QED
    BY <2>5, <2>6
<1>2. TableInv /\ TableInv' /\ [Next]_vars => [A]_vars
  BY <1>1
<1>. QED
  BY <1>2, TableCorrect, PTL DEF Spec, ReferencesFollow
=============================================================================
