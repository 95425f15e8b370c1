---------------------------- MODULE DataInduction ----------------------------
(***************************************************************************)
(* Induction over natural numbers and over sequences, stated of a set: the *)
(* theorems of the library take an operator instead, which the provers do  *)
(* not instantiate.  And the facts about recursions and lists that the     *)
(* proofs of several components need.                                      *)
(***************************************************************************)
EXTENDS Integers, Sequences, SequenceFilter, TLAPS

LOCAL INSTANCE WellFoundedInduction

\* The order of the naturals is well-founded.
LEMMA NatOrder ==
    \E R : IsWellFoundedOn(R, Nat) /\ \A x, y \in Nat : x < y => <<x, y>> \in R
<1>. DEFINE R == {ss \in Nat \X Nat : ss[1] < ss[2]}
<1>1. IsWellFoundedOn(R, Nat)
  BY NatLessThanWellFounded DEF OpToRel
<1>2. \A x, y \in Nat : x < y => <<x, y>> \in R
  OBVIOUS
<1>. HIDE DEF R
<1>. QED
  BY <1>1, <1>2

\* A set of naturals with an element has a least one.
LEMMA NatLeast ==
    ASSUME NEW T \in SUBSET Nat, T # {}
    PROVE  \E x \in T : \A y \in T : x <= y
<1>1. PICK R : IsWellFoundedOn(R, Nat) /\ \A x, y \in Nat : x < y => <<x, y>> \in R
  BY NatOrder
<1>2. PICK x \in T : \A y \in T : ~(<<y, x>> \in R)
  <2>1. T \subseteq Nat /\ IsWellFoundedOn(R, Nat)
    BY <1>1
  <2>. QED
    BY <2>1, WFMin, Zenon
<1>3. \A y \in T : ~(y < x)
  BY <1>1, <1>2
<1>4. \A y \in T : x <= y
  BY <1>3
<1>. QED
  BY <1>2, <1>4

\* A set of numbers up to n that is not empty has a greatest one.
LEMMA NatGreatest ==
    ASSUME NEW n \in Nat, NEW T \in SUBSET (1 .. n), T # {}
    PROVE  \E x \in T : \A y \in T : y <= x
<1>. DEFINE Back == {m \in Nat : n - m \in T}
<1>1. \A y \in T : y \in 1 .. n /\ n - y \in Nat /\ n - (n - y) = y
  OBVIOUS
<1>2. \A y \in T : n - y \in Back
  BY <1>1
<1>3. Back \in SUBSET Nat /\ Back # {}
  BY <1>2
<1>4. PICK b \in Back : \A c \in Back : b <= c
  BY <1>3, NatLeast
<1>5. n - b \in T /\ b \in Nat
  BY <1>4
<1>6. \A y \in T : y <= n - b
  BY <1>1, <1>2, <1>4, <1>5
<1>. QED
  BY <1>5, <1>6

\* A set that holds 0 and the successor of each of its naturals holds them all.
LEMMA NatSetInduction ==
    ASSUME NEW S, 0 \in S, \A n \in Nat : n \in S => n + 1 \in S
    PROVE  Nat \subseteq S
<1>1. ASSUME Nat \ S # {} PROVE FALSE
  <2>1. PICK x \in Nat \ S : \A y \in Nat \ S : x <= y
    BY <1>1, NatLeast
  <2>2. x # 0 /\ x - 1 \in Nat /\ x - 1 \in S
    BY <2>1
  <2>. QED
    BY <2>1, <2>2
<1>. QED
  BY <1>1

\* A sequence that is not empty is a shorter one and a last element.
LEMMA Split ==
    ASSUME NEW T, NEW list \in Seq(T), list # << >>
    PROVE  \E first \in Seq(T), x \in T :
              /\ list = Append(first, x) /\ Len(first) = Len(list) - 1
<1>. DEFINE n == Len(list)
            first == [i \in 1 .. n - 1 |-> list[i]]
<1>1. /\ n \in Nat \ {0} /\ n - 1 \in Nat /\ list[n] \in T
      /\ \A i \in 1 .. n - 1 : list[i] \in T
  OBVIOUS
<1>2. first \in Seq(T) /\ Len(first) = n - 1
  BY <1>1
<1>3. list = Append(first, list[n])
  BY <1>1, <1>2
<1>. QED
  BY <1>1, <1>2, <1>3

\* A set that holds the empty sequence and is closed under appending an
\* element holds every sequence.
LEMMA SeqSetInduction ==
    ASSUME NEW T, NEW P, << >> \in P,
           \A s \in Seq(T), x \in T : s \in P => Append(s, x) \in P
    PROVE  Seq(T) \subseteq P
<1>. DEFINE S == {n \in Nat : \A s \in Seq(T) : Len(s) = n => s \in P}
<1>1. 0 \in S
  OBVIOUS
<1>2. ASSUME NEW n \in Nat, n \in S PROVE n + 1 \in S
  <2>. SUFFICES ASSUME NEW s \in Seq(T), Len(s) = n + 1 PROVE s \in P
    OBVIOUS
  <2>1. PICK first \in Seq(T), x \in T : s = Append(first, x) /\ Len(first) = n
    BY Split
  <2>2. first \in P
    BY <1>2, <2>1
  <2>. QED
    BY <2>1, <2>2
<1>. HIDE DEF S
<1>3. Nat \subseteq S
  BY <1>1, <1>2, NatSetInduction
<1>. QED
  BY <1>3 DEF S

\* f is what n steps of a recursion make of base.
Solves(f, n, base, step) ==
    f[0] = base /\ \A i \in 1 .. n : f[i] = step[<<i, f[i - 1]>>]

\* Such a recursion, given as a function, has a solution.
LEMMA Recursion ==
    ASSUME NEW T, NEW n \in Nat, NEW base \in T, NEW step \in [(1 .. n) \X T -> T]
    PROVE  \E f \in [0 .. n -> T] : Solves(f, n, base, step)
<1>. DEFINE S == {k \in Nat : k <= n =>
                     \E f \in [0 .. k -> T] : Solves(f, k, base, step)}
<1>1. 0 \in S
  <2>. DEFINE f == [i \in 0 .. 0 |-> base]
  <2>1. f \in [0 .. 0 -> T] /\ Solves(f, 0, base, step)
    BY DEF Solves
  <2>. HIDE DEF f
  <2>. QED
    BY <2>1
<1>2. ASSUME NEW k \in Nat, k \in S PROVE k + 1 \in S
  <2>. SUFFICES ASSUME k + 1 <= n
                PROVE  \E f \in [0 .. k + 1 -> T] : Solves(f, k + 1, base, step)
    OBVIOUS
  <2>1. PICK f \in [0 .. k -> T] : Solves(f, k, base, step)
    BY <1>2
  <2>. DEFINE x == step[<<k + 1, f[k]>>]
              g == [i \in 0 .. k + 1 |-> IF i <= k THEN f[i] ELSE x]
  <2>2. x \in T
    BY <2>1
  <2>3. /\ g \in [0 .. k + 1 -> T] /\ g[k + 1] = x /\ (k + 1) - 1 = k
        /\ \A i \in 0 .. k : g[i] = f[i]
    BY <2>2
  <2>. HIDE DEF g
  <2>4. Solves(g, k + 1, base, step)
    <3>. USE DEF Solves
    <3>1. g[0] = base
      BY <2>1, <2>3
    <3>2. ASSUME NEW i \in 1 .. k + 1 PROVE g[i] = step[<<i, g[i - 1]>>]
      <4>1. CASE i = k + 1
        BY <2>3, <4>1
      <4>2. CASE i \in 1 .. k
        <5>1. i - 1 \in 0 .. k /\ i \in 0 .. k
          BY <4>2
        <5>. QED
          BY <2>1, <2>3, <4>2, <5>1
      <4>. QED
        BY <4>1, <4>2
    <3>. QED
      BY <3>1, <3>2
  <2>. QED
    BY <2>3, <2>4
<1>. HIDE DEF S
<1>3. Nat \subseteq S
  BY <1>1, <1>2, NatSetInduction
<1>. QED
  BY <1>3 DEF S

-----------------------------------------------------------------------------
(* Lists and what a filter keeps of them.                                  *)

\* f gives the part of `list` that is kept of each of its first elements.
Filters(f, list, set) ==
    f = [i \in 0 .. Len(list) |->
            IF i = 0 THEN << >>
            ELSE IF list[i] \in set THEN Append(f[i - 1], list[i]) ELSE f[i - 1]]

\* Kept is the last part of the function its definition describes.
LEMMA KeptDef ==
    ASSUME NEW list, NEW set
    PROVE  Kept(list, set) = (CHOOSE f : Filters(f, list, set))[Len(list)]
BY DEF Kept, Filters

\* One step of that function.
LEMMA FilterAt ==
    ASSUME NEW list, NEW set, NEW f, Filters(f, list, set)
    PROVE  /\ f = [i \in 0 .. Len(list) |-> f[i]]
           /\ \A i \in 0 .. Len(list) :
                 f[i] = IF i = 0 THEN << >>
                        ELSE IF list[i] \in set THEN Append(f[i - 1], list[i])
                             ELSE f[i - 1]
<1>. DEFINE F == [i \in 0 .. Len(list) |->
                    IF i = 0 THEN << >>
                    ELSE IF list[i] \in set THEN Append(f[i - 1], list[i])
                         ELSE f[i - 1]]
<1>1. f = F
  BY DEF Filters
<1>2. /\ F = [i \in 0 .. Len(list) |-> F[i]]
      /\ \A i \in 0 .. Len(list) :
            F[i] = IF i = 0 THEN << >>
                   ELSE IF list[i] \in set THEN Append(f[i - 1], list[i])
                        ELSE f[i - 1]
  OBVIOUS
<1>. HIDE DEF F
<1>. QED
  BY <1>1, <1>2

\* The description has one function,
LEMMA FilterUnique ==
    ASSUME NEW T, NEW list \in Seq(T), NEW set, NEW f, NEW g,
           Filters(f, list, set), Filters(g, list, set)
    PROVE  f = g
<1>. DEFINE S == {n \in Nat : n <= Len(list) => f[n] = g[n]}
<1>1. 0 \in S
  BY FilterAt
<1>2. ASSUME NEW n \in Nat, n \in S PROVE n + 1 \in S
  <2>. SUFFICES ASSUME n + 1 <= Len(list) PROVE f[n + 1] = g[n + 1]
    OBVIOUS
  <2>1. n + 1 \in 0 .. Len(list) /\ n + 1 # 0 /\ (n + 1) - 1 = n /\ f[n] = g[n]
    BY <1>2
  <2>. HIDE DEF S
  <2>. QED
    BY <2>1, FilterAt
<1>. HIDE DEF S
<1>3. Nat \subseteq S
  BY <1>1, <1>2, NatSetInduction
<1>4. \A n \in 0 .. Len(list) : f[n] = g[n]
  BY <1>3 DEF S
<1>5. f = [i \in 0 .. Len(list) |-> f[i]] /\ g = [i \in 0 .. Len(list) |-> g[i]]
  BY FilterAt
<1>. QED
  BY <1>4, <1>5

\* which an appended element extends,
LEMMA FilterAppend ==
    ASSUME NEW T, NEW list \in Seq(T), NEW set, NEW x \in T, NEW f,
           Filters(f, list, set)
    PROVE  Filters([i \in 0 .. Len(list) + 1 |->
                       IF i <= Len(list) THEN f[i]
                       ELSE IF x \in set THEN Append(f[Len(list)], x)
                            ELSE f[Len(list)]],
                   Append(list, x), set)
<1>. DEFINE more == Append(list, x)
            g == [i \in 0 .. Len(list) + 1 |->
                    IF i <= Len(list) THEN f[i]
                    ELSE IF x \in set THEN Append(f[Len(list)], x)
                         ELSE f[Len(list)]]
            h == [i \in 0 .. Len(more) |->
                    IF i = 0 THEN << >>
                    ELSE IF more[i] \in set THEN Append(g[i - 1], more[i]) ELSE g[i - 1]]
<1>1. Len(more) = Len(list) + 1 /\ Len(list) \in Nat
      /\ more[Len(list) + 1] = x
      /\ \A i \in 1 .. Len(list) : more[i] = list[i]
  OBVIOUS
<1>2. ASSUME NEW i \in 0 .. Len(more) PROVE g[i] = h[i]
  <2>1. CASE i = 0
    BY <1>1, <2>1, FilterAt
  <2>2. CASE i \in 1 .. Len(list)
    <3>1. f[i] = IF list[i] \in set THEN Append(f[i - 1], list[i]) ELSE f[i - 1]
      BY <2>2, FilterAt
    <3>. QED
      BY <1>1, <2>2, <3>1
  <2>3. CASE i = Len(list) + 1
    BY <1>1, <2>3
  <2>. QED
    BY <1>1, <2>1, <2>2, <2>3
<1>3. g = h
  BY <1>1, <1>2
<1>. QED
  BY <1>3 DEF Filters

\* and every list has it.
LEMMA FilterExists ==
    ASSUME NEW T, NEW list \in Seq(T), NEW set
    PROVE  \E f : Filters(f, list, set)
<1>. DEFINE S == {n \in Nat : \A l \in Seq(T) : Len(l) = n => \E f : Filters(f, l, set)}
<1>1. 0 \in S
  <2>. SUFFICES ASSUME NEW l \in Seq(T), Len(l) = 0 PROVE \E f : Filters(f, l, set)
    OBVIOUS
  <2>1. Filters([i \in 0 .. 0 |-> << >>], l, set)
    BY DEF Filters
  <2>. QED
    BY <2>1
<1>2. ASSUME NEW n \in Nat, n \in S PROVE n + 1 \in S
  <2>. SUFFICES ASSUME NEW l \in Seq(T), Len(l) = n + 1 PROVE \E f : Filters(f, l, set)
    OBVIOUS
  <2>1. PICK first \in Seq(T), x \in T : l = Append(first, x) /\ Len(first) = n
    BY Split
  <2>2. PICK f : Filters(f, first, set)
    BY <1>2, <2>1
  <2>. QED
    BY <2>1, <2>2, FilterAppend
<1>. HIDE DEF S
<1>3. Nat \subseteq S
  BY <1>1, <1>2, NatSetInduction
<1>. QED
  BY <1>3 DEF S

\* So any function that fits the description gives what is kept.
LEMMA KeptIs ==
    ASSUME NEW T, NEW list \in Seq(T), NEW set, NEW f, Filters(f, list, set)
    PROVE  Kept(list, set) = f[Len(list)]
<1>1. Filters(CHOOSE g : Filters(g, list, set), list, set)
  BY Zenon
<1>2. (CHOOSE g : Filters(g, list, set)) = f
  BY <1>1, FilterUnique
<1>. QED
  BY <1>2, KeptDef

\* Nothing is kept of an empty list.
LEMMA KeptEmpty ==
    ASSUME NEW set
    PROVE  Kept(<< >>, set) = << >>
<1>1. << >> \in Seq({})
  OBVIOUS
<1>2. Filters([i \in 0 .. 0 |-> << >>], << >>, set)
  BY DEF Filters
<1>. QED
  BY <1>1, <1>2, KeptIs

\* An appended element is kept at the end, or not at all.
LEMMA KeptAppend ==
    ASSUME NEW T, NEW list \in Seq(T), NEW set, NEW x \in T
    PROVE  Kept(Append(list, x), set) =
             IF x \in set THEN Append(Kept(list, set), x) ELSE Kept(list, set)
<1>1. PICK f : Filters(f, list, set)
  BY FilterExists
<1>. DEFINE g == [i \in 0 .. Len(list) + 1 |->
                    IF i <= Len(list) THEN f[i]
                    ELSE IF x \in set THEN Append(f[Len(list)], x)
                         ELSE f[Len(list)]]
<1>2. Filters(g, Append(list, x), set)
  BY <1>1, FilterAppend
<1>3. g[Len(list) + 1] = IF x \in set THEN Append(f[Len(list)], x) ELSE f[Len(list)]
  OBVIOUS
<1>. HIDE DEF g
<1>4. Append(list, x) \in Seq(T) /\ Len(Append(list, x)) = Len(list) + 1
  OBVIOUS
<1>. QED
  BY <1>1, <1>2, <1>3, <1>4, KeptIs

\* What is kept is a list of the same kind.
LEMMA KeptTyped ==
    ASSUME NEW T, NEW list \in Seq(T), NEW set
    PROVE  Kept(list, set) \in Seq(T)
<1>. DEFINE P == {s \in Seq(T) : Kept(s, set) \in Seq(T)}
<1>1. << >> \in P
  <2>1. Kept(<< >>, set) = << >>
    BY KeptEmpty
  <2>2. << >> \in Seq(T)
    OBVIOUS
  <2>3. Kept(<< >>, set) \in Seq(T)
    BY <2>1, <2>2, Zenon
  <2>. QED
    BY <2>2, <2>3
<1>2. ASSUME NEW s \in Seq(T), NEW x \in T, s \in P PROVE Append(s, x) \in P
  <2>1. Append(s, x) \in Seq(T) /\ Kept(s, set) \in Seq(T)
    BY <1>2
  <2>2. Kept(Append(s, x), set) \in {Append(Kept(s, set), x), Kept(s, set)}
    BY KeptAppend
  <2>3. Kept(Append(s, x), set) \in Seq(T)
    BY <2>1, <2>2
  <2>. QED
    BY <2>1, <2>3
<1>. HIDE DEF P
<1>3. Seq(T) \subseteq P
  BY <1>1, <1>2, SeqSetInduction
<1>. QED
  BY <1>3 DEF P

\* To filter twice is to filter once, with the smaller set.
LEMMA KeptKept ==
    ASSUME NEW T, NEW list \in Seq(T), NEW few, NEW many, few \subseteq many
    PROVE  Kept(Kept(list, many), few) = Kept(list, few)
<1>. DEFINE P == {s \in Seq(T) : Kept(Kept(s, many), few) = Kept(s, few)}
<1>1. << >> \in P
  BY KeptEmpty
<1>2. ASSUME NEW s \in Seq(T), NEW x \in T, s \in P PROVE Append(s, x) \in P
  <2>1. Kept(s, many) \in Seq(T)
    BY KeptTyped
  <2>2. Kept(Append(s, x), many) = IF x \in many THEN Append(Kept(s, many), x)
                                    ELSE Kept(s, many)
    BY KeptAppend
  <2>3. Kept(Append(s, x), few) = IF x \in few THEN Append(Kept(s, few), x)
                                   ELSE Kept(s, few)
    BY KeptAppend
  <2>4. Kept(Append(Kept(s, many), x), few) =
          IF x \in few THEN Append(Kept(Kept(s, many), few), x)
          ELSE Kept(Kept(s, many), few)
    BY <2>1, KeptAppend
  <2>5. Append(s, x) \in Seq(T) /\ Kept(Kept(s, many), few) = Kept(s, few)
    BY <1>2
  <2>6. Kept(Kept(Append(s, x), many), few) = Kept(Append(s, x), few)
    BY <2>2, <2>3, <2>4, <2>5
  <2>. QED
    BY <2>5, <2>6
<1>. HIDE DEF P
<1>3. Seq(T) \subseteq P
  BY <1>1, <1>2, SeqSetInduction
<1>. QED
  BY <1>3 DEF P

\* k is a part of the list s, in the same order, and has all of s that is in set.
PartOf(k, s, set) ==
    /\ \A i \in 1 .. Len(k) : k[i] \in set /\ \E p \in 1 .. Len(s) : s[p] = k[i]
    /\ \A i, j \in 1 .. Len(k) :
          i < j => \E p, q \in 1 .. Len(s) : p < q /\ s[p] = k[i] /\ s[q] = k[j]
    /\ \A p \in 1 .. Len(s) : s[p] \in set => \E i \in 1 .. Len(k) : k[i] = s[p]

\* The filter keeps exactly those elements, in the list's order.
LEMMA KeptOrder ==
    ASSUME NEW T, NEW list \in Seq(T), NEW set
    PROVE  PartOf(Kept(list, set), list, set)
<1>. DEFINE P == {s \in Seq(T) : PartOf(Kept(s, set), s, set)}
<1>1. << >> \in P
  BY KeptEmpty DEF PartOf
<1>2. ASSUME NEW s \in Seq(T), NEW x \in T, s \in P PROVE Append(s, x) \in P
  <2>. DEFINE k == Kept(s, set)
              all == Append(s, x)
              both == Kept(all, set)
  <2>1. both = IF x \in set THEN Append(k, x) ELSE k
    BY KeptAppend
  <2>2. k \in Seq(T)
    BY KeptTyped
  <2>3. PartOf(k, s, set)
    BY <1>2
  <2>4. all \in Seq(T)
    OBVIOUS
  <2>. HIDE DEF k, both
  <2>5. /\ Len(s) \in Nat /\ Len(all) = Len(s) + 1 /\ all[Len(s) + 1] = x
        /\ \A i \in 1 .. Len(s) : i \in 1 .. Len(all) /\ all[i] = s[i]
    OBVIOUS
  <2>. HIDE DEF all
  <2>6. ASSUME x \notin set PROVE PartOf(both, all, set)
    <3>1. ASSUME NEW p \in 1 .. Len(all), all[p] \in set
          PROVE  \E i \in 1 .. Len(k) : k[i] = all[p]
      <4>1. p \in 1 .. Len(s)
        BY <2>5, <2>6, <3>1
      <4>. QED
        BY <2>3, <2>5, <3>1, <4>1 DEF PartOf
    <3>2. PartOf(k, all, set)
      BY <2>3, <2>5, <3>1 DEF PartOf
    <3>. QED
      BY <2>1, <2>6, <3>2
  <2>7. ASSUME x \in set PROVE PartOf(both, all, set)
    <3>1. /\ Len(k) \in Nat /\ Len(both) = Len(k) + 1 /\ both[Len(k) + 1] = x
          /\ \A i \in 1 .. Len(k) : i \in 1 .. Len(both) /\ both[i] = k[i]
      BY <2>1, <2>2, <2>7
    <3>2. ASSUME NEW i \in 1 .. Len(both)
          PROVE  both[i] \in set /\ \E p \in 1 .. Len(all) : all[p] = both[i]
      <4>1. CASE i = Len(k) + 1
        BY <2>5, <2>7, <3>1, <4>1
      <4>2. CASE i \in 1 .. Len(k)
        <5>1. PICK p \in 1 .. Len(s) : s[p] = k[i]
          BY <2>3, <4>2 DEF PartOf
        <5>. QED
          BY <2>3, <2>5, <3>1, <4>2, <5>1 DEF PartOf
      <4>. QED
        BY <3>1, <4>1, <4>2
    <3>3. ASSUME NEW i \in 1 .. Len(both), NEW j \in 1 .. Len(both), i < j
          PROVE  \E p, q \in 1 .. Len(all) : p < q /\ all[p] = both[i] /\ all[q] = both[j]
      <4>1. i \in 1 .. Len(k)
        BY <3>1, <3>3
      <4>2. CASE j = Len(k) + 1
        <5>1. PICK p \in 1 .. Len(s) : s[p] = k[i]
          BY <2>3, <4>1 DEF PartOf
        <5>2. p < Len(s) + 1 /\ Len(s) + 1 \in 1 .. Len(all)
          BY <2>5, <5>1
        <5>. QED
          BY <2>5, <3>1, <4>1, <4>2, <5>1, <5>2
      <4>3. CASE j \in 1 .. Len(k)
        <5>1. PICK p, q \in 1 .. Len(s) : p < q /\ s[p] = k[i] /\ s[q] = k[j]
          BY <2>3, <3>3, <4>1, <4>3 DEF PartOf
        <5>. QED
          BY <2>5, <3>1, <4>1, <4>3, <5>1
      <4>. QED
        BY <3>1, <4>2, <4>3
    <3>4. ASSUME NEW p \in 1 .. Len(all), all[p] \in set
          PROVE  \E i \in 1 .. Len(both) : both[i] = all[p]
      <4>1. CASE p = Len(s) + 1
        BY <2>5, <3>1, <4>1
      <4>2. CASE p \in 1 .. Len(s)
        <5>1. PICK i \in 1 .. Len(k) : k[i] = s[p]
          BY <2>3, <2>5, <3>4, <4>2 DEF PartOf
        <5>. QED
          BY <2>5, <3>1, <4>2, <5>1
      <4>. QED
        BY <2>5, <4>1, <4>2
    <3>. QED
      BY <3>2, <3>3, <3>4 DEF PartOf
  <2>8. PartOf(both, all, set)
    BY <2>6, <2>7
  <2>. QED
    BY <2>4, <2>8 DEF all, both
<1>. HIDE DEF P
<1>3. Seq(T) \subseteq P
  BY <1>1, <1>2, SeqSetInduction
<1>. QED
  BY <1>3 DEF P

\* No element is in the list twice.
Once(list) == \A i, j \in 1 .. Len(list) : list[i] = list[j] => i = j

\* The filter keeps no element more often than the list has it.
LEMMA KeptOnce ==
    ASSUME NEW T, NEW list \in Seq(T), NEW set, Once(list)
    PROVE  Once(Kept(list, set))
<1>. DEFINE k == Kept(list, set)
<1>1. PartOf(k, list, set) /\ k \in Seq(T)
  BY KeptOrder, KeptTyped
<1>. HIDE DEF k
<1>2. ASSUME NEW i \in 1 .. Len(k), NEW j \in 1 .. Len(k), i < j PROVE k[i] # k[j]
  BY <1>1, <1>2 DEF PartOf, Once
<1>3. ASSUME NEW i \in 1 .. Len(k), NEW j \in 1 .. Len(k), k[i] = k[j] PROVE i = j
  BY <1>1, <1>2, <1>3
<1>. QED
  BY <1>3 DEF Once, k

\* Sets that agree on a list keep the same of it.
LEMMA KeptSame ==
    ASSUME NEW T, NEW list \in Seq(T), NEW some, NEW other,
           \A i \in 1 .. Len(list) : list[i] \in some <=> list[i] \in other
    PROVE  Kept(list, some) = Kept(list, other)
<1>1. PICK f : Filters(f, list, some)
  BY FilterExists
<1>. DEFINE F(set) == [i \in 0 .. Len(list) |->
                         IF i = 0 THEN << >>
                         ELSE IF list[i] \in set THEN Append(f[i - 1], list[i])
                              ELSE f[i - 1]]
<1>2. F(some) = F(other)
  OBVIOUS
<1>3. f = F(other)
  BY <1>1, <1>2 DEF Filters
<1>4. Filters(f, list, other)
  BY <1>3 DEF Filters
<1>. QED
  BY <1>1, <1>4, KeptIs

\* What is kept of two lists, one after the other.
LEMMA KeptJoin ==
    ASSUME NEW T, NEW list \in Seq(T), NEW more \in Seq(T), NEW set
    PROVE  Kept(list \o more, set) = Kept(list, set) \o Kept(more, set)
<1>. DEFINE P == {s \in Seq(T) : Kept(list \o s, set) = Kept(list, set) \o Kept(s, set)}
<1>1. Kept(list, set) \in Seq(T)
  BY KeptTyped
<1>2. << >> \in P
  <2>1. list \o << >> = list /\ Kept(list, set) \o << >> = Kept(list, set)
    BY <1>1
  <2>2. << >> \in Seq(T) /\ Kept(<< >>, set) = << >>
    BY KeptEmpty
  <2>. QED
    BY <2>1, <2>2
<1>3. ASSUME NEW s \in Seq(T), NEW x \in T, s \in P PROVE Append(s, x) \in P
  <2>1. Append(s, x) \in Seq(T) /\ list \o s \in Seq(T)
        /\ list \o Append(s, x) = Append(list \o s, x)
    OBVIOUS
  <2>2. Kept(list \o s, set) = Kept(list, set) \o Kept(s, set) /\ Kept(s, set) \in Seq(T)
    BY <1>3, KeptTyped
  <2>3. Kept(Append(list \o s, x), set) =
            IF x \in set THEN Append(Kept(list \o s, set), x) ELSE Kept(list \o s, set)
    <3>. DEFINE both == list \o s
    <3>1. both \in Seq(T)
      BY <2>1
    <3>. HIDE DEF both
    <3>2. Kept(Append(both, x), set) = IF x \in set THEN Append(Kept(both, set), x)
                                      ELSE Kept(both, set)
      BY <3>1, KeptAppend
    <3>. QED
      BY <3>2 DEF both
  <2>4. Kept(Append(s, x), set) = IF x \in set THEN Append(Kept(s, set), x) ELSE Kept(s, set)
    BY KeptAppend
  <2>5. Kept(list, set) \o Append(Kept(s, set), x) = Append(Kept(list, set) \o Kept(s, set), x)
    BY <1>1, <2>2
  <2>6. Kept(list \o Append(s, x), set) = Kept(list, set) \o Kept(Append(s, x), set)
    BY <2>1, <2>2, <2>3, <2>4, <2>5
  <2>. QED
    BY <2>1, <2>6
<1>. HIDE DEF P
<1>4. Seq(T) \subseteq P
  BY <1>2, <1>3, SeqSetInduction
<1>. QED
  BY <1>4 DEF P
=============================================================================
