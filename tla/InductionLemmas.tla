--------------------------- MODULE InductionLemmas ---------------------------
(***************************************************************************)
(* Induction on natural numbers and recursive functions, in a first-order  *)
(* form: a property is the set of the numbers that have it.  From it, that *)
(* a list can be sorted, and in one way only.  Used by the proofs about    *)
(* sums, lists and encodings.                                              *)
(***************************************************************************)
EXTENDS Integers, FiniteSetTheorems, WellFoundedInduction, TLAPS

\* A set that holds 0 and with each number the next holds every number.
LEMMA SetInduction ==
  ASSUME NEW S, 0 \in S, \A n \in Nat : n \in S => n + 1 \in S
  PROVE  Nat \subseteq S
<1> DEFINE T == Nat \ S
<1> DEFINE R == OpToRel(<, Nat)
<1>1. IsWellFoundedOn(R, Nat) BY NatLessThanWellFounded
<1>2. \A x, y \in Nat : x < y => <<x, y>> \in R BY DEF OpToRel
<1> HIDE DEF R
<1> SUFFICES ASSUME T # {} PROVE FALSE OBVIOUS
<1>3. PICK x \in T : \A y \in T : ~ (<<y, x>> \in R)
  <2>1. T \subseteq Nat OBVIOUS
  <2> HIDE DEF T
  <2> QED BY <1>1, <2>1, WFMin
<1>4. x \in Nat /\ x # 0 OBVIOUS
<1>5. x - 1 \in Nat /\ x - 1 < x BY <1>4
<1>6. <<x - 1, x>> \in R BY <1>4, <1>5, <1>2
<1>7. x - 1 \in S BY <1>3, <1>5, <1>6
<1>8. (x - 1) + 1 \in S BY <1>5, <1>7
<1> QED BY <1>4, <1>8

\* s starts with z and goes on by the steps.
Iterates(s, T, z, step) ==
  s \in [Nat -> T] /\ s[0] = z /\ \A n \in Nat : s[n + 1] = step[n][s[n]]

\* A function may be defined by its value at 0 and a step to the next.
LEMMA Recursion ==
  ASSUME NEW T, NEW z \in T, NEW step \in [Nat -> [T -> T]]
  PROVE  \E s : Iterates(s, T, z, step)
<1> DEFINE Part(n, g) == /\ g \in [Nat -> T] /\ g[0] = z
                         /\ \A m \in Nat : m < n => g[m + 1] = step[m][g[m]]
<1>1. ASSUME NEW n \in Nat, NEW g, NEW h, Part(n, g), Part(n, h)
      PROVE  \A m \in Nat : m <= n => g[m] = h[m]
  <2> DEFINE S == {m \in Nat : m <= n => g[m] = h[m]}
  <2>1. 0 \in S BY <1>1
  <2>2. \A m \in Nat : m \in S => m + 1 \in S BY <1>1
  <2> HIDE DEF S
  <2>3. Nat \subseteq S BY <2>1, <2>2, SetInduction
  <2> QED BY <2>3 DEF S
<1> DEFINE S == {n \in Nat : \E g : Part(n, g)}
<1>2. 0 \in S
  <2>1. Part(0, [m \in Nat |-> z]) OBVIOUS
  <2> QED BY <2>1
<1>3. \A n \in Nat : n \in S => n + 1 \in S
  <2> SUFFICES ASSUME NEW n \in Nat, n \in S PROVE n + 1 \in S OBVIOUS
  <2>1. PICK g : Part(n, g) OBVIOUS
  <2> DEFINE h == [g EXCEPT ![n + 1] = step[n][g[n]]]
  <2>2. h \in [Nat -> T] BY <2>1
  <2>3. Part(n + 1, h) BY <2>1, <2>2
  <2> HIDE DEF h, Part
  <2> QED BY <2>3
<1> HIDE DEF S
<1>4. Nat \subseteq S BY <1>2, <1>3, SetInduction
<1>5. \A n \in Nat : \E g : Part(n, g) BY <1>4 DEF S
<1> DEFINE G(n) == CHOOSE g : Part(n, g)
           s == [n \in Nat |-> G(n)[n]]
<1>6. \A n \in Nat : Part(n, G(n)) BY <1>5
<1> HIDE DEF G
<1>7. ASSUME NEW n \in Nat PROVE s[n + 1] = step[n][s[n]]
  <2>1. Part(n + 1, G(n + 1)) /\ Part(n, G(n)) BY <1>6
  <2>2. Part(n, G(n + 1)) BY <2>1
  <2> HIDE DEF Part
  <2>3. G(n + 1)[n] = G(n)[n] BY <2>1, <2>2, <1>1
  <2>4. G(n + 1)[n + 1] = step[n][G(n + 1)[n]] BY <2>1 DEF Part
  <2> QED BY <2>3, <2>4
<1>8. s \in [Nat -> T] /\ s[0] = z BY <1>6
<1>9. Iterates(s, T, z, step) BY <1>7, <1>8 DEF Iterates
<1> QED BY <1>9

-----------------------------------------------------------------------------
(* Sorting: lists over S, in an order R, a set of pairs. *)

TotalOrder(R, S) ==
  /\ \A x \in S : <<x, x>> \notin R
  /\ \A x, y, z \in S : <<x, y>> \in R /\ <<y, z>> \in R => <<x, z>> \in R
  /\ \A x, y \in S : x # y => <<x, y>> \in R \/ <<y, x>> \in R

\* Every element comes before the later ones or is equal to them.
InOrder(s, R, n) ==
  \A i, j \in 1..n : i < j => <<s[i], s[j]>> \in R \/ s[i] = s[j]

\* No element of the first n comes after the one at m.
IsLargest(m, s, R, n) ==
  m \in 1..n /\ \A j \in 1..n : <<s[j], s[m]>> \in R \/ s[j] = s[m]

\* A list that is not empty has a largest element.
LEMMA LargestExists ==
  ASSUME NEW S, NEW R, TotalOrder(R, S), NEW n \in Nat, NEW s \in [1..n + 1 -> S]
  PROVE  \E m : IsLargest(m, s, R, n + 1)
<1> DEFINE Largest(m, k) == m \in 1..k /\ \A j \in 1..k : <<s[j], s[m]>> \in R \/ s[j] = s[m]
           K == {k \in Nat : k <= n => \E m : Largest(m, k + 1)}
<1>1. 0 \in K
  <2>1. Largest(1, 0 + 1) OBVIOUS
  <2> HIDE DEF Largest
  <2> QED BY <2>1
<1>2. ASSUME NEW k \in Nat, k \in K PROVE k + 1 \in K
  <2> SUFFICES ASSUME k + 1 <= n PROVE \E m : Largest(m, (k + 1) + 1) OBVIOUS
  <2>1. PICK m : Largest(m, k + 1) BY <1>2
  <2>2. /\ m \in 1..n + 1 /\ k + 2 \in 1..n + 1 /\ (k + 1) + 1 = k + 2
        /\ \A j \in 1..k + 2 : j \in 1..n + 1 /\ (j \in 1..k + 1 \/ j = k + 2)
    BY <2>1
  <2>3. CASE <<s[m], s[k + 2]>> \in R \/ s[m] = s[k + 2]
    <3>1. ASSUME NEW j \in 1..k + 2 PROVE <<s[j], s[k + 2]>> \in R \/ s[j] = s[k + 2]
      <4>1. CASE j = k + 2 BY <4>1
      <4>2. CASE j \in 1..k + 1
        <5>1. <<s[j], s[m]>> \in R \/ s[j] = s[m] BY <2>1, <4>2
        <5>2. s[j] \in S /\ s[m] \in S /\ s[k + 2] \in S BY <2>2
        <5> QED BY <2>3, <5>1, <5>2 DEF TotalOrder
      <4> QED BY <2>2, <4>1, <4>2
    <3>2. Largest(k + 2, k + 2) BY <3>1
    <3> HIDE DEF Largest
    <3> QED BY <2>2, <3>2
  <2>4. CASE ~ (<<s[m], s[k + 2]>> \in R \/ s[m] = s[k + 2])
    <3>1. s[m] \in S /\ s[k + 2] \in S BY <2>2
    <3>2. <<s[k + 2], s[m]>> \in R BY <2>4, <3>1 DEF TotalOrder
    <3>3. ASSUME NEW j \in 1..k + 2 PROVE <<s[j], s[m]>> \in R \/ s[j] = s[m]
      BY <2>1, <2>2, <3>2
    <3>4. Largest(m, k + 2) BY <2>1, <3>3
    <3> HIDE DEF Largest
    <3> QED BY <2>2, <3>4
  <2> QED BY <2>3, <2>4
<1> HIDE DEF K
<1>3. Nat \subseteq K BY <1>1, <1>2, SetInduction
<1>4. \E m : Largest(m, n + 1) BY <1>3 DEF K
<1> QED BY <1>4 DEF IsLargest

\* A list can be put in order.
LEMMA SortExists ==
  ASSUME NEW S, NEW R, TotalOrder(R, S), NEW n \in Nat, NEW s \in [1..n -> S]
  PROVE  \E p \in Bijection(1..n, 1..n) : InOrder([i \in 1..n |-> s[p[i]]], R, n)
<1> DEFINE Sorts(p, k, t) == /\ p \in Bijection(1..k, 1..k)
                             /\ InOrder([i \in 1..k |-> t[p[i]]], R, k)
           K == {k \in Nat : \A t \in [1..k -> S] : \E p : Sorts(p, k, t)}
<1>1. 0 \in K
  <2> SUFFICES ASSUME NEW t \in [1..0 -> S] PROVE \E p : Sorts(p, 0, t) OBVIOUS
  <2>1. 1..0 = {} OBVIOUS
  <2>2. [i \in 1..0 |-> i] \in Bijection(1..0, 1..0)
    BY <2>1 DEF Bijection, Injection, Surjection, IsInjective
  <2>3. Sorts([i \in 1..0 |-> i], 0, t) BY <2>1, <2>2 DEF InOrder
  <2> HIDE DEF Sorts
  <2> QED BY <2>3
<1>2. ASSUME NEW k \in Nat, k \in K PROVE k + 1 \in K
  <2> HIDE DEF Sorts
  <2> SUFFICES ASSUME NEW t \in [1..k + 1 -> S] PROVE \E p : Sorts(p, k + 1, t) OBVIOUS
  <2>1. PICK m : IsLargest(m, t, R, k + 1) BY LargestExists
  <2>2. m \in 1..k + 1 /\ \A j \in 1..k + 1 : <<t[j], t[m]>> \in R \/ t[j] = t[m]
    BY <2>1 DEF IsLargest
  <2> DEFINE skip == [i \in 1..k |-> IF i < m THEN i ELSE i + 1]
             rest == [i \in 1..k |-> t[skip[i]]]
  <2>3. /\ \A i \in 1..k : skip[i] \in 1..k + 1 /\ skip[i] # m
        /\ \A i, j \in 1..k : skip[i] = skip[j] => i = j
        /\ \A j \in 1..k + 1 : j # m => \E i \in 1..k : skip[i] = j
    <3>1. \A i \in 1..k : skip[i] \in 1..k + 1 /\ skip[i] # m BY <2>2
    <3>2. \A i, j \in 1..k : skip[i] = skip[j] => i = j BY <2>2
    <3>3. ASSUME NEW j \in 1..k + 1, j # m PROVE \E i \in 1..k : skip[i] = j
      <4>1. CASE j < m
        <5>1. j \in 1..k /\ skip[j] = j BY <2>2, <4>1
        <5> QED BY <5>1
      <4>2. CASE ~ (j < m)
        <5>1. j - 1 \in 1..k /\ skip[j - 1] = j BY <2>2, <3>3, <4>2
        <5> QED BY <5>1
      <4> QED BY <4>1, <4>2
    <3> QED BY <3>1, <3>2, <3>3
  <2>4. skip \in [1..k -> 1..k + 1] BY <2>3
  <2> HIDE DEF skip
  <2>5. rest \in [1..k -> S] BY <2>4
  <2>6. PICK q : Sorts(q, k, rest)
    <3> HIDE DEF rest
    <3> QED BY <1>2, <2>5
  <2>7. /\ q \in [1..k -> 1..k]
        /\ \A i, j \in 1..k : q[i] = q[j] => i = j
        /\ \A j \in 1..k : \E i \in 1..k : q[i] = j
    BY <2>6 DEF Sorts, Bijection, Injection, Surjection, IsInjective
  <2>8. \A i, j \in 1..k : i < j =>
          <<t[skip[q[i]]], t[skip[q[j]]]>> \in R \/ t[skip[q[i]]] = t[skip[q[j]]]
    BY <2>6, <2>7 DEF InOrder, Sorts
  <2> HIDE DEF rest
  <2> DEFINE p == [i \in 1..k + 1 |-> IF i = k + 1 THEN m ELSE skip[q[i]]]
  <2>9. /\ p[k + 1] = m
        /\ \A i \in 1..k : p[i] = skip[q[i]]
        /\ \A i \in 1..k + 1 : i \in 1..k \/ i = k + 1
    BY <2>2
  <2>10. \A i \in 1..k : q[i] \in 1..k /\ skip[q[i]] \in 1..k + 1 /\ skip[q[i]] # m
    BY <2>3, <2>7
  <2>11. p \in [1..k + 1 -> 1..k + 1]
    <3>1. \A i \in 1..k + 1 : p[i] \in 1..k + 1 BY <2>2, <2>9, <2>10
    <3> QED BY <3>1
  <2> HIDE DEF p
  <2>12. p \in Bijection(1..k + 1, 1..k + 1)
    <3>1. ASSUME NEW i \in 1..k + 1, NEW j \in 1..k + 1, p[i] = p[j] PROVE i = j
      <4>1. CASE i \in 1..k /\ j \in 1..k
        <5>1. skip[q[i]] = skip[q[j]] BY <2>9, <3>1, <4>1
        <5>2. q[i] = q[j] BY <2>3, <2>10, <4>1, <5>1
        <5> QED BY <2>7, <4>1, <5>2
      <4>2. CASE i = k + 1 /\ j \in 1..k BY <2>3, <2>7, <2>9, <2>10, <3>1, <4>2
      <4>3. CASE i \in 1..k /\ j = k + 1 BY <2>3, <2>7, <2>9, <2>10, <3>1, <4>3
      <4> QED BY <2>9, <4>1, <4>2, <4>3
    <3>2. ASSUME NEW j \in 1..k + 1 PROVE \E i \in 1..k + 1 : p[i] = j
      <4>1. CASE j = m
        <5>1. k + 1 \in 1..k + 1 OBVIOUS
        <5> QED BY <2>9, <4>1, <5>1
      <4>2. CASE j # m
        <5>1. PICK u \in 1..k : skip[u] = j BY <2>3, <4>2
        <5>2. PICK i \in 1..k : q[i] = u BY <2>7
        <5>3. i \in 1..k + 1 OBVIOUS
        <5> QED BY <2>9, <5>1, <5>2, <5>3
      <4> QED BY <4>1, <4>2
    <3> QED BY <2>11, <3>1, <3>2 DEF Bijection, Injection, Surjection, IsInjective
  <2>13. ASSUME NEW i \in 1..k + 1, NEW j \in 1..k + 1, i < j
         PROVE  <<t[p[i]], t[p[j]]>> \in R \/ t[p[i]] = t[p[j]]
    <3>1. i \in 1..k BY <2>13
    <3>2. CASE j = k + 1 BY <2>2, <2>9, <2>11, <3>2
    <3>3. CASE j \in 1..k BY <2>8, <2>9, <2>13, <3>1, <3>3
    <3> QED BY <2>9, <3>2, <3>3
  <2>14. InOrder([i \in 1..k + 1 |-> t[p[i]]], R, k + 1) BY <2>13 DEF InOrder
  <2>15. Sorts(p, k + 1, t) BY <2>12, <2>14 DEF Sorts
  <2> QED BY <2>15
<1> HIDE DEF K
<1>3. Nat \subseteq K BY <1>1, <1>2, SetInduction
<1>4. \E p : Sorts(p, n, s)
  <2> HIDE DEF Sorts
  <2> QED BY <1>3 DEF K
<1> QED BY <1>4

\* ... in one way only.  If two lists with the same elements first differ at i,
\* say s[i] before t[i], then the i elements of s up to i are among the fewer
\* than i of t before i.
LEMMA SortFirst ==
  ASSUME NEW S, NEW R, TotalOrder(R, S), NEW n \in Nat,
         NEW s \in [1..n -> S], NEW t \in [1..n -> S], InOrder(s, R, n), InOrder(t, R, n),
         NEW f \in Injection(1..n, 1..n), \A i \in 1..n : s[i] = t[f[i]],
         NEW i \in 1..n
  PROVE  <<s[i], t[i]>> \notin R
<1> SUFFICES ASSUME <<s[i], t[i]>> \in R PROVE FALSE OBVIOUS
<1>1. ASSUME NEW k \in 1..i PROVE f[k] \in 1..i - 1
  <2>1. k \in 1..n /\ f[k] \in 1..n /\ s[k] \in S /\ s[i] \in S /\ t[i] \in S
    BY DEF Injection
  <2>2. <<s[k], s[i]>> \in R \/ s[k] = s[i]
    <3>1. CASE k = i BY <3>1
    <3>2. CASE k < i BY <2>1, <3>2 DEF InOrder
    <3> QED BY <3>1, <3>2
  <2>3. <<s[k], t[i]>> \in R BY <2>1, <2>2 DEF TotalOrder
  <2>4. <<t[f[k]], t[i]>> \in R BY <2>1, <2>3
  <2>5. ~ (i <= f[k])
    <3> SUFFICES ASSUME i <= f[k] PROVE FALSE OBVIOUS
    <3>1. CASE i = f[k] BY <2>1, <2>4, <3>1 DEF TotalOrder
    <3>2. CASE i < f[k]
      <4>1. <<t[i], t[f[k]]>> \in R \/ t[i] = t[f[k]] BY <2>1, <3>2 DEF InOrder
      <4>2. t[f[k]] \in S BY <2>1
      <4> QED BY <2>1, <2>4, <4>1, <4>2 DEF TotalOrder
    <3> QED BY <2>1, <3>1, <3>2
  <2> QED BY <2>1, <2>5
<1> DEFINE g == [k \in 1..i |-> f[k]]
<1>2. g \in Injection(1..i, 1..i - 1)
  <2>1. \A a, b \in 1..n : f[a] = f[b] => a = b BY DEF Injection, IsInjective
  <2>2. \A a \in 1..i : a \in 1..n OBVIOUS
  <2>3. g \in [1..i -> 1..i - 1] BY <1>1
  <2>4. \A a, b \in 1..i : g[a] = g[b] => a = b BY <2>1, <2>2
  <2> QED BY <2>3, <2>4 DEF Injection, IsInjective
<1> HIDE DEF g
<1>3. IsFiniteSet(1..i - 1) /\ Cardinality(1..i - 1) = i - 1
  <2>1. 1 \in Int /\ i - 1 \in Int /\ ~ (1 > i) OBVIOUS
  <2>2. IsFiniteSet(1..i - 1) /\ Cardinality(1..i - 1) = IF 1 > i - 1 THEN 0 ELSE (i - 1) - 1 + 1
    BY <2>1, FS_Interval
  <2> QED BY <2>2
<1>4. Cardinality(1..i) = i BY FS_Interval
<1>5. Cardinality(1..i) <= Cardinality(1..i - 1) BY <1>2, <1>3, FS_Injection
<1> QED BY <1>3, <1>4, <1>5

LEMMA SortUnique ==
  ASSUME NEW S, NEW R, TotalOrder(R, S), NEW n \in Nat,
         NEW s \in [1..n -> S], NEW t \in [1..n -> S], InOrder(s, R, n), InOrder(t, R, n),
         NEW f \in Injection(1..n, 1..n), \A i \in 1..n : s[i] = t[f[i]],
         NEW g \in Injection(1..n, 1..n), \A i \in 1..n : t[i] = s[g[i]]
  PROVE  s = t
<1>1. ASSUME NEW i \in 1..n PROVE s[i] = t[i]
  <2>1. <<s[i], t[i]>> \notin R BY SortFirst
  <2>2. <<t[i], s[i]>> \notin R BY SortFirst
  <2>3. s[i] \in S /\ t[i] \in S OBVIOUS
  <2> QED BY <2>1, <2>2, <2>3 DEF TotalOrder
<1> QED BY <1>1
=============================================================================
