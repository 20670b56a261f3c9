------------------------------ MODULE Recursion ------------------------------
(***************************************************************************)
(* Induction over the naturals, in a form the provers can instantiate: the *)
(* induction hypothesis is a set, not an operator.  And with it, that a    *)
(* function defined by recursion on an interval exists: the step is a      *)
(* function of the index and of the value before it.  Then, what           *)
(* concatenation by FlattenSeq, which recurs over its parts, returns, and  *)
(* facts about numbers and sequences that the proofs share.                *)
(***************************************************************************)
EXTENDS Integers, SequencesExt, WellFoundedInduction, TLAPS

LEMMA LeastNumber ==
  ASSUME NEW S \in SUBSET Nat, S # {}
  PROVE  \E x \in S : \A y \in S : x <= y
<1> DEFINE R == OpToRel(<, Nat)
<1>1. \A x, y \in Nat : x < y => <<x, y>> \in R
  BY DEF OpToRel
<1>2. IsWellFoundedOn(R, Nat)
  BY NatLessThanWellFounded
<1> HIDE DEF R
<1>3. PICK x \in S : \A y \in S : ~ (<<y, x>> \in R)
  BY <1>2, WFMin
<1>4. ASSUME NEW y \in S PROVE x <= y
  <2>1. ~(y < x)
    BY <1>1, <1>3, Zenon
  <2> QED
    BY <2>1
<1> QED
  BY <1>4

LEMMA GreatestNumber ==
  ASSUME NEW S \in SUBSET Nat, S # {}, NEW b \in Nat, \A x \in S : x <= b
  PROVE  \E x \in S : \A y \in S : y <= x
<1> DEFINE T == {b - x : x \in S}
<1>1. T \in SUBSET Nat /\ T # {}
  <2>1. \A x \in S : b - x \in Nat
    OBVIOUS
  <2> QED
    BY <2>1
<1>2. \A x \in S : b - x \in T
  OBVIOUS
<1>3. \A z \in T : \E x \in S : z = b - x
  OBVIOUS
<1> HIDE DEF T
<1>4. PICK z \in T : \A y \in T : z <= y
  BY <1>1, LeastNumber
<1> QED
  BY <1>2, <1>3, <1>4

LEMMA SetInduction ==
  ASSUME NEW S \in SUBSET Nat, 0 \in S, \A n \in S : n + 1 \in S
  PROVE  S = Nat
<1> SUFFICES ASSUME Nat \ S # {} PROVE FALSE
  OBVIOUS
<1>1. PICK x \in Nat \ S : \A y \in Nat \ S : x <= y
  BY LeastNumber
<1>2. x # 0 /\ x - 1 \in Nat /\ x - 1 \notin Nat \ S
  BY <1>1
<1> QED
  BY <1>1, <1>2

(* Up to a bound.                                                            *)
LEMMA IntervalInduction ==
  ASSUME NEW n \in Nat, NEW S, 0 \in S, \A i \in 0..n : i \in S /\ i < n => i + 1 \in S
  PROVE  \A i \in 0..n : i \in S
<1> DEFINE T == {i \in Nat : i <= n => i \in S}
<1>1. 0 \in T /\ \A i \in T : i + 1 \in T
  OBVIOUS
<1>2. T = Nat
  BY <1>1, SetInduction
<1> QED
  BY <1>2

(* What it takes to define a function on 0..n by recursion, and to be it.    *)
Steps(n, V, step) == step \in [1..n -> [V -> V]]

Recursive(f, n, V, start, step) ==
  /\ f \in [0..n -> V]
  /\ f[0] = start
  /\ \A i \in 1..n : f[i] = step[i][f[i - 1]]

LEMMA RecursiveFunction ==
  ASSUME NEW n \in Nat, NEW V, NEW start \in V, NEW step, Steps(n, V, step)
  PROVE  \E f : Recursive(f, n, V, start, step)
<1> DEFINE T == {k \in 0..n : \E f : Recursive(f, k, V, start, step)}
<1>1. 0 \in T
  <2>1. Recursive([i \in 0..0 |-> start], 0, V, start, step)
    BY DEF Recursive
  <2> QED
    BY <2>1
<1>2. ASSUME NEW k \in 0..n, k \in T, k < n PROVE k + 1 \in T
  <2>1. PICK f : Recursive(f, k, V, start, step)
    BY <1>2
  <2> DEFINE g == [i \in 0..(k + 1) |-> IF i = k + 1 THEN step[i][f[k]] ELSE f[i]]
  <2>2. k + 1 \in 1..n /\ f[k] \in V
    BY <1>2, <2>1 DEF Recursive
  <2>3. step[k + 1][f[k]] \in V
    BY <2>2 DEF Steps
  <2>4. g \in [0..(k + 1) -> V]
    BY <2>1, <2>3 DEF Recursive
  <2>5. Recursive(g, k + 1, V, start, step)
    BY <1>2, <2>1, <2>4 DEF Recursive
  <2> HIDE DEF g
  <2> QED
    BY <2>2, <2>5
<1> HIDE DEF T
<1>3. n \in T
  BY <1>1, <1>2, IntervalInduction
<1> QED
  BY <1>3 DEF T

(* Every value of it is in a set that each step stays in.                    *)
LEMMA RecursionStays ==
  ASSUME NEW n \in Nat, NEW V, NEW f, f[0] \in V, \A i \in 1..n : f[i - 1] \in V => f[i] \in V
  PROVE  \A i \in 0..n : f[i] \in V
<1> DEFINE T == {i \in 0..n : f[i] \in V}
<1>1. 0 \in T
  OBVIOUS
<1>2. ASSUME NEW i \in 0..n, i \in T, i < n PROVE i + 1 \in T
  <2>1. i + 1 \in 1..n /\ (i + 1) - 1 = i
    BY <1>2
  <2> QED
    BY <1>2, <2>1
<1> HIDE DEF T
<1>3. \A i \in 0..n : i \in T
  BY <1>1, <1>2, IntervalInduction
<1> QED
  BY <1>3 DEF T

(* Each element of the concatenation comes from one of the parts, in their   *)
(* order, and none of theirs is missing.                                     *)
Sources(from, parts, joined) ==
  /\ from \in [1..Len(joined) -> 1..Len(parts)]
  /\ \A z \in 1..Len(joined) : \E k \in 1..Len(parts[from[z]]) : joined[z] = parts[from[z]][k]
  /\ \A y, z \in 1..Len(joined) : y <= z => from[y] <= from[z]
  /\ \A i \in 1..Len(parts) : \A k \in 1..Len(parts[i]) :
       \E z \in 1..Len(joined) : from[z] = i /\ joined[z] = parts[i][k]

(* joined is the concatenation of the parts, one after the other.            *)
Joins(joined, parts) ==
  /\ joined[1] = parts[1]
  /\ \A i \in 2..Len(parts) : joined[i] = joined[i - 1] \o parts[i]

(* The first n of the parts.                                                 *)
SourcesUpTo(n, from, parts, joined) ==
  /\ from \in [1..Len(joined) -> 1..n]
  /\ \A z \in 1..Len(joined) : \E k \in 1..Len(parts[from[z]]) : joined[z] = parts[from[z]][k]
  /\ \A y, z \in 1..Len(joined) : y <= z => from[y] <= from[z]
  /\ \A i \in 1..n : \A k \in 1..Len(parts[i]) :
       \E z \in 1..Len(joined) : from[z] = i /\ joined[z] = parts[i][k]

(* One part more.                                                            *)
LEMMA SourcesGrow ==
  ASSUME NEW T, NEW parts \in Seq(Seq(T)), NEW n \in 1..Len(parts), n + 1 \in 1..Len(parts),
         NEW joined \in Seq(T), NEW from, SourcesUpTo(n, from, parts, joined)
  PROVE  \E more : SourcesUpTo(n + 1, more, parts, joined \o parts[n + 1])
<1> DEFINE m == Len(joined)
           next == n + 1
           part == parts[next]
           p == Len(part)
           longer == joined \o part
           l == Len(longer)
           more == [z \in 1..l |-> IF z <= m THEN from[z] ELSE next]
<1>1. part \in Seq(T) /\ joined \in Seq(T) /\ p \in Nat /\ m \in Nat
  OBVIOUS
<1>2. /\ longer \in Seq(T) /\ l = m + p
      /\ \A z \in 1..m : longer[z] = joined[z]
      /\ \A z \in (m + 1)..l : longer[z] = part[z - m]
  BY <1>1
<1>3. /\ from \in [1..m -> 1..n]
      /\ \A z \in 1..m : \E k \in 1..Len(parts[from[z]]) : joined[z] = parts[from[z]][k]
      /\ \A y, z \in 1..m : y <= z => from[y] <= from[z]
      /\ \A i \in 1..n : \A k \in 1..Len(parts[i]) :
           \E z \in 1..m : from[z] = i /\ joined[z] = parts[i][k]
  BY DEF SourcesUpTo
<1>4. n \in Nat /\ n >= 1 /\ next = n + 1
  OBVIOUS
<1> HIDE DEF longer, m, p, l, next
<1>5. \A z \in 1..m : z \in 1..l /\ more[z] = from[z] /\ from[z] \in 1..n
  BY <1>1, <1>2, <1>3
<1>6. \A z \in 1..l : z \in 1..m \/ z \in (m + 1)..l
  BY <1>1, <1>2
<1>7. \A z \in (m + 1)..l : z \in 1..l /\ more[z] = next /\ z - m \in 1..p
  BY <1>1, <1>2, SMTT(30)
<1> HIDE DEF part
<1>80. \A S : (\A z \in 1..l : more[z] \in S) => more \in [1..l -> S]
  OBVIOUS
<1> HIDE DEF more
<1>8. more \in [1..l -> 1..next]
  <2>1. ASSUME NEW z \in 1..m PROVE more[z] \in 1..next
    <3>1. more[z] \in 1..n
      BY <1>5
    <3> QED
      BY <1>4, <3>1
  <2>2. ASSUME NEW z \in (m + 1)..l PROVE more[z] \in 1..next
    BY <1>4, <1>7
  <2> QED
    BY <1>6, <1>80, <2>1, <2>2
<1>9. ASSUME NEW z \in 1..l
      PROVE  \E k \in 1..Len(parts[more[z]]) : longer[z] = parts[more[z]][k]
  <2>1. CASE z \in 1..m
    <3>1. more[z] = from[z] /\ longer[z] = joined[z]
      BY <1>2, <1>5, <2>1
    <3>2. \E k \in 1..Len(parts[from[z]]) : joined[z] = parts[from[z]][k]
      BY <1>3, <2>1
    <3> QED
      BY <3>1, <3>2
  <2>2. CASE z \in (m + 1)..l
    BY <1>2, <1>7, <2>2 DEF part, p
  <2> QED
    BY <1>6, <2>1, <2>2
<1>10. ASSUME NEW y \in 1..l, NEW z \in 1..l, y <= z
       PROVE  more[y] <= more[z]
  <2>1. CASE z \in 1..m
    <3>1. y \in 1..m
      BY <1>1, <1>2, <1>10, <2>1
    <3> QED
      BY <1>3, <1>5, <1>10, <2>1, <3>1
  <2>2. CASE z \in (m + 1)..l
    <3>1. more[z] = next /\ more[y] \in 1..next
      BY <1>7, <1>8, <2>2
    <3> QED
      BY <1>4, <3>1
  <2> QED
    BY <1>6, <2>1, <2>2
<1>11. ASSUME NEW i \in 1..next, NEW k \in 1..Len(parts[i])
       PROVE  \E z \in 1..l : more[z] = i /\ longer[z] = parts[i][k]
  <2>1. CASE i \in 1..n
    <3>1. PICK z \in 1..m : from[z] = i /\ joined[z] = parts[i][k]
      BY <1>3, <2>1
    <3> QED
      BY <1>2, <1>5, <3>1
  <2>2. CASE i = next
    <3>1. k \in 1..p /\ m + k \in (m + 1)..l /\ (m + k) - m = k
      BY <1>1, <1>2, <2>2 DEF part, p
    <3>2. longer[m + k] = part[k]
      BY <1>2, <3>1
    <3> QED
      BY <1>7, <2>2, <3>1, <3>2 DEF part
  <2> QED
    BY <1>4, <2>1, <2>2
<1>12. SourcesUpTo(next, more, parts, longer)
  BY <1>8, <1>9, <1>10, <1>11 DEF SourcesUpTo, l
<1> QED
  BY <1>12 DEF longer, next, part

LEMMA FlattenSeqJoins ==
  ASSUME NEW T, NEW parts \in Seq(Seq(T)), Len(parts) # 0
  PROVE  \E joined \in [1..Len(parts) -> Seq(T)] :
           Joins(joined, parts) /\ FlattenSeq(parts) = joined[Len(parts)]
<1> DEFINE n == Len(parts)
           V == Seq(T)
           step == [i \in 1..(n - 1) |-> [s \in V |-> s \o parts[i + 1]]]
           Whole(f) == [i \in 1..n |-> IF i = 1 THEN parts[i] ELSE f[i - 1] \o parts[i]]
<1>1. n \in Nat /\ n - 1 \in Nat /\ n \in 1..n /\ 1 \in 1..n /\ \A i \in 1..n : parts[i] \in V
  OBVIOUS
<1>2. \A i \in 1..(n - 1) : i + 1 \in 1..n
  BY <1>1
<1>3. Steps(n - 1, V, step)
  BY <1>1, <1>2 DEF Steps
<1>4. PICK f : Recursive(f, n - 1, V, parts[1], step)
  BY <1>1, <1>3, RecursiveFunction
<1> DEFINE h == [i \in 1..n |-> f[i - 1]]
<1>5. h \in [1..n -> V] /\ h[1] = parts[1]
  BY <1>1, <1>4 DEF Recursive
<1>6. ASSUME NEW i \in 2..n PROVE h[i] = h[i - 1] \o parts[i]
  <2>1. i - 1 \in 1..(n - 1) /\ (i - 1) - 1 \in 0..(n - 1) /\ i \in 1..n /\ i - 1 \in 1..n /\ (i - 1) + 1 = i
    BY <1>1
  <2>2. f[i - 1] = step[i - 1][f[(i - 1) - 1]] /\ f[(i - 1) - 1] \in V
    BY <1>4, <2>1 DEF Recursive
  <2>3. step[i - 1][f[(i - 1) - 1]] = f[(i - 1) - 1] \o parts[i]
    BY <2>1, <2>2
  <2> QED
    BY <2>1, <2>2, <2>3
<1> HIDE DEF h, step, V, n
<1>7. h = Whole(h)
  <2>1. \A i \in 1..n : i = 1 \/ i \in 2..n
    BY <1>1
  <2>2. \A i \in 2..n : i # 1
    BY <1>1, SMTT(30)
  <2> QED
    BY <1>5, <1>6, <2>1, <2>2
<1> DEFINE g == CHOOSE g : g = Whole(g)
<1>8. g = Whole(g)
  BY <1>7, ZenonT(60)
<1>9. FlattenSeq(parts) = g[n]
  BY DEF FlattenSeq, n
<1> HIDE DEF g
<1>10. g[1] = parts[1] /\ \A i \in 2..n : g[i] = g[i - 1] \o parts[i]
  <2>1. \A i \in 2..n : i \in 1..n /\ i # 1
    BY <1>1
  <2> QED
    BY <1>1, <1>8, <2>1
<1>11. \A i \in 1..n : g[i] = h[i]
  <2> DEFINE S == {i \in 0..(n - 1) : g[i + 1] = h[i + 1]}
  <2>1. 0 \in S
    BY <1>1, <1>5, <1>10
  <2>2. ASSUME NEW i \in 0..(n - 1), i \in S, i < n - 1 PROVE i + 1 \in S
    <3>1. (i + 1) + 1 \in 2..n /\ ((i + 1) + 1) - 1 = i + 1 /\ i + 1 \in 0..(n - 1)
      BY <1>1, <2>2
    <3> QED
      BY <1>6, <1>10, <2>2, <3>1, ZenonT(60)
  <2> HIDE DEF S
  <2>3. \A i \in 0..(n - 1) : i \in S
    BY <1>1, <2>1, <2>2, IntervalInduction
  <2> SUFFICES ASSUME NEW i \in 1..n PROVE g[i] = h[i]
    OBVIOUS
  <2>4. i - 1 \in 0..(n - 1) /\ (i - 1) + 1 = i
    BY <1>1
  <2> QED
    BY <2>3, <2>4 DEF S
<1>12. g \in [1..n -> V]
  BY <1>5, <1>8, <1>11
<1> QED
  BY <1>9, <1>10, <1>12 DEF Joins, n, V

LEMMA FlattenSeqIs ==
  ASSUME NEW T, NEW parts \in Seq(Seq(T))
  PROVE  FlattenSeq(parts) \in Seq(T) /\ \E from : Sources(from, parts, FlattenSeq(parts))
<1>1. CASE Len(parts) = 0
  <2>1. FlattenSeq(parts) = <<>> /\ parts = <<>>
    BY <1>1 DEF FlattenSeq
  <2>2. Sources([z \in {} |-> 0], parts, <<>>)
    BY <1>1, <2>1 DEF Sources
  <2> QED
    BY <2>1, <2>2
<1>2. CASE Len(parts) # 0
  <2> DEFINE n == Len(parts)
  <2>1. PICK joined \in [1..n -> Seq(T)] : Joins(joined, parts) /\ FlattenSeq(parts) = joined[n]
    BY <1>2, FlattenSeqJoins
  <2>2. n \in Nat /\ n \in 1..n /\ 1 \in 1..n /\ n - 1 \in Nat
    BY <1>2
  <2> HIDE DEF n
  <2> DEFINE S == {i \in 0..(n - 1) : \E from : SourcesUpTo(i + 1, from, parts, joined[i + 1])}
  <2>3. 0 \in S
    <3> DEFINE first == parts[1]
    <3>1. first \in Seq(T) /\ joined[0 + 1] = first /\ 0 \in 0..(n - 1)
      BY <2>1, <2>2 DEF Joins, n
    <3> HIDE DEF first
    <3> DEFINE from == [z \in 1..Len(first) |-> 1]
    <3>2. \A z \in 1..Len(first) : from[z] = 1
      OBVIOUS
    <3>3. from \in [1..Len(first) -> 1..1]
      OBVIOUS
    <3> HIDE DEF from
    <3>4. \A i \in 1..1 : i = 1
      OBVIOUS
    <3>5. SourcesUpTo(1, from, parts, first)
      BY <3>2, <3>3, <3>4 DEF SourcesUpTo, first
    <3>6. 0 + 1 = 1
      OBVIOUS
    <3> QED
      BY <3>1, <3>5, <3>6
  <2>4. ASSUME NEW i \in 0..(n - 1), i \in S, i < n - 1 PROVE i + 1 \in S
    <3>1. /\ i + 1 \in 1..n /\ (i + 1) + 1 \in 1..n /\ (i + 1) + 1 \in 2..n
          /\ ((i + 1) + 1) - 1 = i + 1 /\ i + 1 \in 0..(n - 1)
      BY <2>2, <2>4
    <3>2. joined[(i + 1) + 1] = joined[i + 1] \o parts[(i + 1) + 1]
      BY <2>1, <3>1 DEF Joins, n
    <3>3. PICK from : SourcesUpTo(i + 1, from, parts, joined[i + 1])
      BY <2>4
    <3>4. \E more : SourcesUpTo((i + 1) + 1, more, parts, joined[i + 1] \o parts[(i + 1) + 1])
      BY <2>1, <3>1, <3>3, SourcesGrow DEF n
    <3> QED
      BY <3>1, <3>2, <3>4
  <2> HIDE DEF S
  <2>5. n - 1 \in S
    <3> DEFINE k == n - 1
    <3>1. k \in Nat /\ k \in 0..k
      BY <2>2
    <3>2. \A i \in 0..k : i \in S /\ i < k => i + 1 \in S
      BY <2>4
    <3> HIDE DEF k
    <3>3. \A i \in 0..k : i \in S
      BY <2>3, <3>1, <3>2, IntervalInduction
    <3> QED
      BY <3>1, <3>3 DEF k
  <2>6. \E from : SourcesUpTo(n, from, parts, joined[n])
    <3>1. (n - 1) + 1 = n
      BY <2>2
    <3> QED
      BY <2>5, <3>1 DEF S
  <2> DEFINE whole == joined[n]
  <2>7. whole \in Seq(T) /\ FlattenSeq(parts) = whole
    BY <2>1, <2>2
  <2>8. PICK from : SourcesUpTo(n, from, parts, whole)
    BY <2>6
  <2> HIDE DEF whole
  <2>9. Sources(from, parts, whole)
    BY <2>8 DEF SourcesUpTo, Sources, n
  <2> QED
    BY <2>7, <2>9
<1> QED
  BY <1>1, <1>2

-----------------------------------------------------------------------------
(* Numbers, intervals and joined sequences.                                  *)

(* Every finite set of numbers is bounded.                                   *)
LEMMA FiniteBound ==
  ASSUME NEW T \in SUBSET Nat, IsFiniteSet(T)
  PROVE  \E b \in Nat : \A s \in T : s <= b
<1>1. PICK list \in Seq(T) : \A s \in T : \E i \in 1..Len(list) : list[i] = s
  BY DEF IsFiniteSet
<1> DEFINE n == Len(list)
           S == {i \in 0..n : \E b \in Nat : \A j \in 1..i : list[j] <= b}
<1>2. n \in Nat /\ \A i \in 1..n : list[i] \in Nat
  <2>1. n \in Nat /\ \A i \in 1..n : list[i] \in T
    OBVIOUS
  <2>2. \A x \in T : x \in Nat
    OBVIOUS
  <2> QED
    BY <2>1, <2>2
<1>3. 0 \in S
  BY <1>2
<1>4. ASSUME NEW i \in 0..n, i \in S, i < n PROVE i + 1 \in S
  <2>1. PICK b \in Nat : \A j \in 1..i : list[j] <= b
    BY <1>4
  <2> DEFINE c == IF list[i + 1] <= b THEN b ELSE list[i + 1]
  <2>2. i + 1 \in 1..n /\ i + 1 \in 0..n
    BY <1>2, <1>4
  <2>3. c \in Nat /\ list[i + 1] <= c /\ b <= c
    BY <1>2, <2>2
  <2> HIDE DEF c, n
  <2>4. ASSUME NEW j \in 1..(i + 1) PROVE list[j] <= c
    <3>1. CASE j \in 1..i
      <4>1. list[j] \in Nat /\ list[j] <= b
        BY <1>2, <1>4, <2>1, <3>1
      <4> QED
        BY <2>3, <4>1
    <3>2. CASE j = i + 1
      BY <2>3, <3>2
    <3> QED
      BY <1>4, <3>1, <3>2
  <2> QED
    BY <2>2, <2>3, <2>4
<1> HIDE DEF S, n
<1>5. n \in S
  <2>1. \A i \in 0..n : i \in S
    BY <1>2, <1>3, <1>4, IntervalInduction
  <2> QED
    BY <1>2, <2>1
<1>6. PICK b \in Nat : \A j \in 1..n : list[j] <= b
  BY <1>5 DEF S
<1> QED
  BY <1>1, <1>6 DEF n

(* The greatest of a set of numbers up to n is one of them.                  *)
LEMMA MaxIsIn ==
  ASSUME NEW n \in Nat, NEW Z \in SUBSET (1..n), Z # {}
  PROVE  Max(Z) \in Z
<1>1. Z \in SUBSET Nat /\ \A z \in Z : z <= n /\ z \in Int
  OBVIOUS
<1>2. PICK m \in Z : \A z \in Z : z <= m
  BY <1>1, GreatestNumber
<1>3. \A z \in Z : m >= z
  BY <1>1, <1>2
<1> QED
  BY <1>3 DEF Max

(* An interval has one least and one greatest element.                       *)
LEMMA Intervals ==
  ASSUME NEW a \in Int, NEW b \in Int, a <= b
  PROVE  /\ Min(a..b) = a
         /\ \A c, d \in Int : c <= d /\ c..d = a..b => c = a /\ d = b
<1>1. Min(a..b) = a
  <2>1. a \in a..b /\ \A y \in a..b : a <= y
    OBVIOUS
  <2>2. \A x \in a..b : (\A y \in a..b : x <= y) => x = a
    BY <2>1
  <2> HIDE DEF Min
  <2>3. Min(a..b) = CHOOSE x \in a..b : \A y \in a..b : x <= y
    BY DEF Min
  <2> DEFINE P(x) == x \in a..b /\ \A y \in a..b : x <= y
  <2>4. Min(a..b) \in a..b /\ \A y \in a..b : Min(a..b) <= y
    BY <2>1, <2>3
  <2> QED
    BY <2>2, <2>4
<1>2. ASSUME NEW c \in Int, NEW d \in Int, c <= d, c..d = a..b PROVE c = a /\ d = b
  <2>1. c \in a..b /\ d \in a..b /\ a \in c..d /\ b \in c..d
    BY <1>2
  <2> QED
    BY <2>1
<1> QED
  BY <1>1, <1>2

(* The items of two sequences joined.                                        *)
LEMMA JoinedItems ==
  ASSUME NEW T, NEW p \in Seq(T), NEW q \in Seq(T)
  PROVE  /\ Len(p \o q) = Len(p) + Len(q)
         /\ \A k \in (Len(p) + 1)..(Len(p) + Len(q)) : (p \o q)[k] = q[k - Len(p)]
OBVIOUS
=============================================================================
