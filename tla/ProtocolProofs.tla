--------------------------- MODULE ProtocolProofs ---------------------------
(***************************************************************************)
(* Proofs about Protocol.tla: the types, keyboard focus on the topmost     *)
(* window, and damage that is conservative but for what `exposed` names,   *)
(* for any number of clients, surfaces and commits.                        *)
(*                                                                         *)
(* The lemmas come first: sequences, the scene's operations, Smithay's     *)
(* tree, what a commit collects and what applying it leaves, the routing   *)
(* table, composition order.  Then the inductive invariant IInv under each *)
(* handler, and what follows from it.                                      *)
(*                                                                         *)
(* Damage comes after that.  What a scene paints in one cell, and what of  *)
(* the tree that depends on.  The damage of each operation of the scene:   *)
(* outside it, the operation leaves every cell composited as it was        *)
(* (Conservative).  The updates of a commit, each sound for the scene it   *)
(* is applied to.  Then DInv, which says that the retained frame is fresh  *)
(* but for what is exposed, under each handler, beside IInv.               *)
(***************************************************************************)
EXTENDS ProtocolInvariants, Recursion, FiniteSetTheorems

-----------------------------------------------------------------------------
(* Sequences.                                                                *)

LEMMA SurfaceBound == \E b \in Nat : \A s \in Surface : s <= b
BY SurfaceAssumption, FiniteBound

LEMMA ListsNext ==
  ASSUME NEW S \in SUBSET Nat, NEW x \in Nat, \A y \in S : y < x,
         NEW list, Lists(list, S)
  PROVE  Lists(Append(list, x), S \cup {x})
<1> DEFINE n == Len(list)
           T == S \cup {x}
           longer == Append(list, x)
<1>1. list \in Seq(S) /\ list \in Seq(T) /\ n \in Nat
  BY DEF Lists
<1>2. longer \in Seq(T) /\ Len(longer) = n + 1 /\ longer[n + 1] = x
  BY <1>1
<1>3. \A i \in 1..n : longer[i] = list[i] /\ list[i] \in S
  BY <1>1
<1> HIDE DEF longer, n
<1>4. ASSUME NEW y \in T PROVE \E i \in 1..(n + 1) : longer[i] = y
  <2>1. CASE y = x
    BY <1>1, <1>2, <2>1
  <2>2. CASE y \in S
    <3>1. PICK i \in 1..n : list[i] = y
      BY <2>2 DEF Lists, n
    <3> QED
      BY <1>1, <1>3, <3>1
  <2> QED
    BY <2>1, <2>2
<1>5. ASSUME NEW i \in 1..(n + 1), NEW j \in 1..(n + 1), i < j PROVE longer[i] < longer[j]
  <2>1. i \in 1..n
    BY <1>1, <1>5
  <2>2. CASE j \in 1..n
    BY <1>3, <1>5, <2>1, <2>2 DEF Lists, n
  <2>3. CASE j = n + 1
    BY <1>2, <1>3, <2>1, <2>3
  <2> QED
    BY <1>1, <2>2, <2>3
<1> QED
  BY <1>2, <1>4, <1>5 DEF Lists, longer

LEMMA AscendingBuilt ==
  ASSUME NEW S \in SUBSET Surface
  PROVE  \E n \in Nat : \E g : /\ \A x \in S : x < n
                               /\ \A b \in Nat : (\A x \in S : x < b) => n <= b
                               /\ AscendsBy(g, n, S) /\ Ascending(S) = g[n]
<1> DEFINE n == IF S = {} THEN 0 ELSE Max(S) + 1
           V == Seq(S)
           Step(i, s) == IF i - 1 \in S THEN Append(s, i - 1) ELSE s
           step == [i \in 1..n |-> [s \in V |-> Step(i, s)]]
           Whole(f) == [i \in 0..n |-> IF i = 0 THEN <<>> ELSE Step(i, f[i - 1])]
<1>1. S \in SUBSET Nat /\ \A x \in S : x \in Nat
  BY SurfaceAssumption
<1>2. /\ n \in Nat /\ \A x \in S : x < n
      /\ \A b \in Nat : (\A x \in S : x < b) => n <= b
  <2>1. CASE S = {}
    BY <2>1
  <2>2. CASE S # {}
    <3>1. PICK b \in Nat : \A s \in S : s <= b
      BY SurfaceBound
    <3>2. \E x \in S : \A y \in S : y <= x
      BY <1>1, <2>2, <3>1, GreatestNumber
    <3>3. \E x \in S : \A y \in S : x >= y
      BY <1>1, <3>2
    <3>4. Max(S) \in S /\ \A y \in S : Max(S) >= y
      BY <3>3 DEF Max
    <3> DEFINE m == Max(S)
    <3>5. m \in S /\ m \in Nat /\ n = m + 1 /\ \A y \in S : y \in Nat /\ m >= y
      BY <1>1, <2>2, <3>4
    <3> HIDE DEF m, n
    <3> QED
      BY <3>5
  <2> QED
    BY <2>1, <2>2
<1>3. <<>> \in V /\ \A i \in 1..n : \A s \in V : Step(i, s) \in V
  OBVIOUS
<1> HIDE DEF n, V, Step
<1>4. Steps(n, V, step) /\ \A i \in 1..n : \A s \in V : step[i][s] = Step(i, s)
  BY <1>3 DEF Steps
<1> HIDE DEF step
<1>5. PICK f : Recursive(f, n, V, <<>>, step)
  BY <1>2, <1>3, <1>4, RecursiveFunction
<1>6. f = Whole(f)
  <2>1. \A i \in 1..n : i - 1 \in 0..n
    BY <1>2
  <2>2. \A i \in 1..n : f[i] = Step(i, f[i - 1])
    BY <1>4, <1>5, <2>1 DEF Recursive
  <2>3. \A i \in 0..n : i = 0 \/ (i \in 1..n /\ i # 0)
    BY <1>2
  <2> QED
    BY <1>5, <2>2, <2>3 DEF Recursive
<1> DEFINE g == CHOOSE g : g = Whole(g)
<1>7. g = Whole(g)
  BY <1>6
<1>8. Ascending(S) = g[n]
  BY DEF Ascending, n, Step
<1> HIDE DEF g
<1>9. g[0] = <<>> /\ \A i \in 1..n : g[i] = Step(i, g[i - 1])
  BY <1>2, <1>7
<1> QED
  BY <1>2, <1>8, <1>9 DEF AscendsBy, Step

LEMMA AscendingLists == ASSUME NEW S \in SUBSET Surface PROVE Lists(Ascending(S), S)
<1> DEFINE Upto(i) == {x \in S : x < i}
<1>1. S \in SUBSET Nat /\ \A x \in S : x \in Nat
  BY SurfaceAssumption
<1>2. PICK n \in Nat : \E g : /\ \A x \in S : x < n
                              /\ \A b \in Nat : (\A x \in S : x < b) => n <= b
                              /\ AscendsBy(g, n, S) /\ Ascending(S) = g[n]
  BY AscendingBuilt
<1>3. PICK g : (\A x \in S : x < n) /\ AscendsBy(g, n, S) /\ Ascending(S) = g[n]
  BY <1>2
<1>9. /\ g[0] = <<>>
      /\ \A i \in 1..n : g[i] = IF i - 1 \in S THEN Append(g[i - 1], i - 1) ELSE g[i - 1]
  BY <1>3 DEF AscendsBy
<1> DEFINE T == {i \in 0..n : Lists(g[i], Upto(i))}
<1>10. 0 \in T
  <2>1. Upto(0) = {}
    <3>1. \A x \in S : ~(x < 0)
      BY <1>1
    <3> QED
      BY <3>1
  <2>2. Lists(<<>>, {}) /\ 0 \in 0..n
    BY <1>2 DEF Lists
  <2> HIDE DEF Upto
  <2> QED
    BY <1>9, <2>1, <2>2
<1>11. ASSUME NEW i \in 0..n, i \in T, i < n PROVE i + 1 \in T
  <2>1. i + 1 \in 1..n /\ (i + 1) - 1 = i /\ i \in Nat /\ i + 1 \in 0..n
    BY <1>2, <1>11
  <2>2. g[i + 1] = IF i \in S THEN Append(g[i], i) ELSE g[i]
    BY <1>9, <2>1
  <2>3. CASE i \in S
    <3>1. Upto(i + 1) = Upto(i) \cup {i}
      <4>1. \A x \in S : x < i + 1 <=> x < i \/ x = i
        BY <1>1, <2>1
      <4> QED
        BY <2>3, <4>1
    <3>2. Upto(i) \in SUBSET Nat /\ \A y \in Upto(i) : y < i
      BY <1>1
    <3> HIDE DEF Upto
    <3>3. Lists(Append(g[i], i), Upto(i) \cup {i})
      BY <1>11, <2>1, <3>2, ListsNext
    <3> QED
      BY <2>1, <2>2, <2>3, <3>1, <3>3
  <2>4. CASE i \notin S
    <3>1. Upto(i + 1) = Upto(i)
      <4>1. \A x \in S : x < i + 1 <=> x < i
        BY <1>1, <2>1, <2>4
      <4> QED
        BY <4>1
    <3> HIDE DEF Upto
    <3> QED
      BY <1>11, <2>1, <2>2, <2>4, <3>1
  <2> QED
    BY <2>3, <2>4
<1> HIDE DEF T
<1>12. n \in T
  <2>1. \A i \in 0..n : i \in T
    BY <1>2, <1>10, <1>11, IntervalInduction
  <2> QED
    BY <1>2, <2>1
<1>13. Upto(n) = S
  BY <1>3
<1> QED
  BY <1>3, <1>12, <1>13 DEF T

LEMMA WithoutBuilt ==
  ASSUME NEW U, NEW list \in Seq(U), NEW S
  PROVE  \E g : KeepsBy(g, list, S) /\ Without(list, S) = g[Len(list)]
<1> DEFINE n == Len(list)
           V == Seq(U)
           Step(i, s) == IF list[i] \in S THEN s ELSE Append(s, list[i])
           step == [i \in 1..n |-> [s \in V |-> Step(i, s)]]
           Whole(f) == [i \in 0..n |-> IF i = 0 THEN <<>>
                                       ELSE IF list[i] \in S THEN f[i - 1]
                                       ELSE Append(f[i - 1], list[i])]
<1>1. n \in Nat /\ \A i \in 1..n : list[i] \in U
  OBVIOUS
<1>2. <<>> \in V /\ \A i \in 1..n : \A s \in V : Step(i, s) \in V
  BY <1>1
<1> HIDE DEF n, V
<1>3. Steps(n, V, step) /\ \A i \in 1..n : \A s \in V : step[i][s] = Step(i, s)
  BY <1>2 DEF Steps
<1> HIDE DEF step
<1>4. PICK f : Recursive(f, n, V, <<>>, step)
  BY <1>1, <1>2, <1>3, RecursiveFunction
<1>5. f = Whole(f)
  <2>1. \A i \in 1..n : i - 1 \in 0..n
    BY <1>1
  <2>2. \A i \in 1..n : f[i] = Step(i, f[i - 1])
    BY <1>3, <1>4, <2>1 DEF Recursive
  <2>3. \A i \in 0..n : i = 0 \/ (i \in 1..n /\ i # 0)
    BY <1>1
  <2> QED
    BY <1>4, <2>2, <2>3 DEF Recursive
<1> DEFINE g == CHOOSE g : g = Whole(g)
<1>6. g = Whole(g)
  BY <1>5, ZenonT(60)
<1>7. Without(list, S) = g[n]
  BY DEF Without, n
<1> HIDE DEF g
<1>8. g[0] = <<>> /\ \A i \in 1..n : g[i] = Step(i, g[i - 1])
  <2>1. \A i \in 1..n : i \in 0..n /\ i # 0
    BY <1>1
  <2>2. 0 \in 0..n
    BY <1>1
  <2> QED
    BY <1>6, <2>1, <2>2
<1> QED
  BY <1>7, <1>8 DEF KeepsBy, Step, n

LEMMA WithoutIs ==
  ASSUME NEW U, NEW list \in Seq(U), NEW S
  PROVE  Remains(Without(list, S), list, S, U)
<1> DEFINE n == Len(list)
           Sifted(s, m) ==
             /\ s \in Seq(U)
             /\ \A i \in 1..Len(s) : s[i] \notin S /\ \E j \in 1..m : list[j] = s[i]
             /\ \A j \in 1..m : list[j] \notin S => \E i \in 1..Len(s) : s[i] = list[j]
<1>1. n \in Nat /\ \A i \in 1..n : list[i] \in U
  OBVIOUS
<1>7. PICK g : KeepsBy(g, list, S) /\ Without(list, S) = g[n]
  BY WithoutBuilt
<1>8. /\ g[0] = <<>>
      /\ \A i \in 1..n : g[i] = IF list[i] \in S THEN g[i - 1] ELSE Append(g[i - 1], list[i])
  BY <1>7 DEF KeepsBy
<1> HIDE DEF n
<1> DEFINE T == {i \in 0..n : Sifted(g[i], i)}
<1>9. 0 \in T
  <2>1. Sifted(<<>>, 0) /\ 0 \in 0..n
    BY <1>1
  <2> HIDE DEF Sifted
  <2> QED
    BY <1>8, <2>1
<1>10. ASSUME NEW i \in 0..n, i \in T, i < n PROVE i + 1 \in T
  <2> DEFINE m == i + 1
             s == g[i]
             e == list[m]
             l == Len(s)
  <2>1. m \in 1..n /\ m - 1 = i /\ m \in 0..n /\ i \in Nat /\ e \in U
    BY <1>1, <1>10, SMTT(30)
  <2>2. g[m] = IF e \in S THEN s ELSE Append(s, e)
    BY <1>8, <2>1
  <2>3. Sifted(s, i)
    BY <1>10
  <2>4. \A j \in 1..m : j \in 1..i \/ j = m
    BY <2>1
  <2>5. \A j \in 1..i : j \in 1..m
    BY <2>1
  <2> HIDE DEF s
  <2>6. CASE e \in S
    <3>1. Sifted(s, m)
      BY <2>3, <2>4, <2>5, <2>6
    <3> QED
      BY <2>1, <2>2, <2>6, <3>1
  <2>7. CASE e \notin S
    <3> DEFINE longer == Append(s, e)
    <3>1. /\ longer \in Seq(U) /\ Len(longer) = l + 1 /\ longer[l + 1] = e /\ l \in Nat
          /\ \A k \in 1..l : longer[k] = s[k]
      BY <2>1, <2>3
    <3> HIDE DEF longer
    <3>2. \A k \in 1..(l + 1) : k \in 1..l \/ k = l + 1
      BY <3>1
    <3>3. \A k \in 1..l : k \in 1..(l + 1)
      BY <3>1
    <3>4. m \in 1..m /\ l + 1 \in 1..(l + 1)
      BY <2>1, <3>1
    <3>5. \A k \in 1..(l + 1) : longer[k] \notin S /\ \E j \in 1..m : list[j] = longer[k]
      BY <2>3, <2>5, <2>7, <3>1, <3>2, <3>4
    <3>6. \A j \in 1..m : list[j] \notin S => \E k \in 1..(l + 1) : longer[k] = list[j]
      BY <2>3, <2>4, <3>1, <3>3, <3>4
    <3>7. Sifted(longer, m)
      BY <3>1, <3>5, <3>6
    <3> QED
      BY <2>1, <2>2, <2>7, <3>7 DEF longer
  <2> QED
    BY <2>6, <2>7
<1> HIDE DEF T
<1>11. n \in T
  <2>1. \A i \in 0..n : i \in T
    BY <1>1, <1>9, <1>10, IntervalInduction
  <2> QED
    BY <1>1, <2>1
<1>12. Sifted(Without(list, S), n)
  BY <1>7, <1>11 DEF T
<1> QED
  BY <1>12 DEF n, Remains

-----------------------------------------------------------------------------
(* The scene: what each of its operations does to the nodes.                 *)

LEMMA SceneIs ==
  ASSUME NEW sc \in Scenes
  PROVE  /\ Live(sc) \in SUBSET Surface
         /\ sc.nodes \in [Live(sc) -> Nodes]
         /\ \A id \in Live(sc) : sc.nodes[id] \in Nodes
         /\ sc.damage \in SUBSET Int
<1>1. sc.nodes \in Forests
  BY DEF Scenes
<1>2. PICK S \in SUBSET Surface : sc.nodes \in [S -> Nodes]
  BY <1>1 DEF Forests
<1> QED
  BY <1>2 DEF Scenes, Live

LEMMA ForestsAre ==
  ASSUME NEW S \in SUBSET Surface, NEW f \in [S -> Nodes]
  PROVE  f \in Forests
BY DEF Forests

LEMMA PlacedBuilt ==
  ASSUME NEW sc \in Scenes
  PROVE  \E at : Places(at, sc) /\ Placed(sc) = at[MAX_SUBSURFACE_DEPTH]
<1> DEFINE n == MAX_SUBSURFACE_DEPTH
           L == Live(sc)
           V == UNION {[S -> Int] : S \in SUBSET L}
           hangs(above, node) == node.parent = NoSurface \/ node.parent \in DOMAIN above
           base(above, node) == IF node.parent = NoSurface THEN 0 ELSE above[node.parent]
           Down(above) == {x \in L : IsVisible(sc.nodes[x]) /\ hangs(above, sc.nodes[x])}
           Step(above) == [id \in Down(above) |-> base(above, sc.nodes[id]) + sc.nodes[id].offset]
           step == [i \in 1..n |-> [above \in V |-> Step(above)]]
           Whole(f) == [d \in 0..n |-> IF d = 0 THEN <<>> ELSE Step(f[d - 1])]
<1>1. n \in Nat /\ n # 0
  BY SurfaceAssumption
<1>2. <<>> \in V
  <2>1. <<>> \in [{} -> Int] /\ {} \in SUBSET L
    OBVIOUS
  <2> QED
    BY <2>1
<1>3. ASSUME NEW above \in V PROVE Step(above) \in V
  <2>1. PICK S \in SUBSET L : above \in [S -> Int]
    OBVIOUS
  <2>2. Down(above) \in SUBSET L
    OBVIOUS
  <2>3. ASSUME NEW id \in Down(above)
        PROVE  base(above, sc.nodes[id]) + sc.nodes[id].offset \in Int
    <3>1. sc.nodes[id].offset \in Int
      BY SceneIs DEF Nodes
    <3>2. base(above, sc.nodes[id]) \in Int
      BY <2>1, <2>3
    <3> QED
      BY <3>1, <3>2
  <2>4. Step(above) \in [Down(above) -> Int]
    BY <2>3
  <2> HIDE DEF Step, Down
  <2> QED
    BY <2>2, <2>4
<1>30. \A above : Step(above) = [id \in PlacedBelow(sc, above) |->
                                   Origin(sc.nodes[id], above) + sc.nodes[id].offset]
  BY DEF PlacedBelow, Origin, Hangs
<1> HIDE DEF n, V
<1>4. Steps(n, V, step) /\ \A i \in 1..n : \A s \in V : step[i][s] = Step(s)
  BY <1>3 DEF Steps
<1> HIDE DEF step
<1>5. PICK f : Recursive(f, n, V, <<>>, step)
  BY <1>1, <1>2, <1>4, RecursiveFunction
<1>6. f = Whole(f)
  <2>1. \A d \in 1..n : d - 1 \in 0..n
    BY <1>1
  <2>2. \A d \in 1..n : f[d] = Step(f[d - 1])
    BY <1>4, <1>5, <2>1, ZenonT(60) DEF Recursive
  <2>3. \A d \in 0..n : d = 0 \/ (d \in 1..n /\ d # 0)
    BY <1>1
  <2> HIDE DEF Step
  <2> QED
    BY <1>5, <2>2, <2>3 DEF Recursive
<1> DEFINE g == CHOOSE g : g = Whole(g)
<1>7. g = Whole(g)
  BY <1>6, ZenonT(60)
<1>8. Placed(sc) = g[n]
  BY DEF Placed, n
<1> HIDE DEF g, Step
<1>9. g[0] = <<>> /\ \A d \in 1..n : g[d] = Step(g[d - 1])
  <2>1. \A d \in 1..n : d \in 0..n /\ d # 0
    BY <1>1
  <2>2. 0 \in 0..n
    BY <1>1
  <2> QED
    BY <1>7, <2>1, <2>2
<1>10. ASSUME NEW d \in 0..n PROVE g[d] \in V
  <2>1. \A d_1 \in 1..n : g[d_1 - 1] \in V => g[d_1] \in V
    BY <1>3, <1>9
  <2> QED
    BY <1>1, <1>2, <1>9, <2>1, RecursionStays
<1>11. \A d \in 0..n : \E S \in SUBSET L : g[d] \in [S -> Int]
  BY <1>10 DEF V
<1>12. Places(g, sc)
  BY <1>9, <1>11, <1>30 DEF Places, n
<1> QED
  BY <1>8, <1>12 DEF n

(* A placed node is a visible one, and a visible root is placed.             *)
LEMMA PlacedIs ==
  ASSUME NEW sc \in Scenes
  PROVE  /\ DOMAIN Placed(sc) \in SUBSET Live(sc)
         /\ \A id \in DOMAIN Placed(sc) : Placed(sc)[id] \in Int /\ IsVisible(sc.nodes[id])
         /\ \A id \in Live(sc) : IsVisible(sc.nodes[id]) /\ sc.nodes[id].parent = NoSurface
                                   => id \in DOMAIN Placed(sc)
<1> DEFINE n == MAX_SUBSURFACE_DEPTH
<1>1. PICK at : Places(at, sc) /\ Placed(sc) = at[n]
  BY PlacedBuilt
<1>2. n \in 0..n /\ n \in 1..n
  BY SurfaceAssumption
<1> HIDE DEF n
<1>3. PICK S \in SUBSET Live(sc) : Placed(sc) \in [S -> Int]
  BY <1>1, <1>2 DEF Places, n
<1>4. DOMAIN Placed(sc) = PlacedBelow(sc, at[n - 1])
  BY <1>1, <1>2 DEF Places, n
<1> QED
  BY <1>3, <1>4 DEF PlacedBelow, Hangs

LEMMA CellsAre == ASSUME NEW sc \in Scenes, NEW ids PROVE CellsOf(sc, ids) \in SUBSET Int
<1> DEFINE at == Placed(sc)
<1>1. \A id \in DOMAIN at : at[id] \in Int /\ sc.nodes[id].size \in Nat
  <2>1. \A id \in Live(sc) : sc.nodes[id].size \in Nat
    BY SceneIs DEF Nodes
  <2> QED
    BY <2>1, PlacedIs
<1>2. \A id \in DOMAIN at : at[id]..(at[id] + sc.nodes[id].size - 1) \in SUBSET Int
  BY <1>1
<1> HIDE DEF at
<1>3. CellsOf(sc, ids) = UNION {at[id]..(at[id] + sc.nodes[id].size - 1) : id \in ids \cap DOMAIN at}
  BY DEF CellsOf, at
<1> QED
  BY <1>2, <1>3

LEMMA Damaged ==
  ASSUME NEW sc \in Scenes, NEW cells \in SUBSET Int
  PROVE  AddDamage(sc, cells) \in Scenes /\ AddDamage(sc, cells).nodes = sc.nodes
BY DEF Scenes, AddDamage

LEMMA DamagedBy ==
  ASSUME NEW sc \in Scenes, NEW after \in Scenes, NEW id
  PROVE  /\ DamagingNode(sc, after, id) \in Scenes /\ DamagingNode(sc, after, id).nodes = after.nodes
         /\ DamagingSubtree(sc, after, id) \in Scenes /\ DamagingSubtree(sc, after, id).nodes = after.nodes
BY CellsAre, Damaged DEF DamagingNode, DamagingSubtree, NodeCells, SubtreeCells

(* A scene with other nodes.                                                 *)
LEMMA Replanted ==
  ASSUME NEW sc \in Scenes, NEW f \in Forests
  PROVE  [sc EXCEPT !.nodes = f] \in Scenes /\ [sc EXCEPT !.nodes = f].nodes = f
BY DEF Scenes

LEMMA Planted ==
  ASSUME NEW sc \in Scenes, NEW id \in Live(sc), NEW node \in Nodes
  PROVE  [sc.nodes EXCEPT ![id] = node] \in Forests
<1>1. [sc.nodes EXCEPT ![id] = node] \in [Live(sc) -> Nodes]
  BY SceneIs
<1> QED
  BY <1>1, SceneIs, ForestsAre

LEMMA SetRoleIs ==
  ASSUME NEW sc \in Scenes, NEW id \in Live(sc), NEW newRole \in Roles
  PROVE  /\ SetRole(sc, id, newRole) \in Scenes
         /\ SetRole(sc, id, newRole).nodes =
              [sc.nodes EXCEPT ![id] = [sc.nodes[id] EXCEPT !.role = newRole]]
<1> DEFINE f == [sc.nodes EXCEPT ![id] = [sc.nodes[id] EXCEPT !.role = newRole]]
<1>1. [sc.nodes[id] EXCEPT !.role = newRole] \in Nodes
  BY SceneIs, ZenonT(60) DEF Nodes
<1>2. f \in Forests
  BY <1>1, Planted
<1> DEFINE after == [sc EXCEPT !.nodes[id].role = newRole]
<1>3. after = [sc EXCEPT !.nodes = f]
  BY DEF Scenes
<1>4. SetRole(sc, id, newRole) = DamagingNode(sc, after, id)
  BY DEF SetRole
<1> HIDE DEF f, after
<1>5. after \in Scenes /\ after.nodes = f
  BY <1>2, <1>3, Replanted
<1> QED
  BY <1>4, <1>5, DamagedBy DEF f

LEMMA SetGeometryIs ==
  ASSUME NEW sc \in Scenes, NEW id \in Live(sc), NEW offset \in Int, NEW size \in Nat
  PROVE  /\ SetGeometry(sc, id, offset, size) \in Scenes
         /\ SetGeometry(sc, id, offset, size).nodes =
              [sc.nodes EXCEPT ![id] = Sized(sc.nodes[id], offset, size)]
<1> DEFINE f == [sc.nodes EXCEPT ![id] = Sized(sc.nodes[id], offset, size)]
<1>1. Sized(sc.nodes[id], offset, size) \in Nodes
  BY SceneIs, ZenonT(60) DEF Nodes, Sized
<1>2. f \in Forests
  BY <1>1, Planted
<1> DEFINE after == [sc EXCEPT !.nodes[id].offset = offset, !.nodes[id].size = size]
<1>3. after = [sc EXCEPT !.nodes = f]
  BY SceneIs DEF Scenes, Sized
<1>4. SetGeometry(sc, id, offset, size) = DamagingNode(sc, after, id)
  BY DEF SetGeometry
<1> HIDE DEF f, after
<1>5. after \in Scenes /\ after.nodes = f
  BY <1>2, <1>3, Replanted
<1> QED
  BY <1>4, <1>5, DamagedBy DEF f

LEMMA SetSubsurfacePositionIs ==
  ASSUME NEW sc \in Scenes, NEW id \in Live(sc), NEW offset \in Int
  PROVE  /\ SetSubsurfacePosition(sc, id, offset) \in Scenes
         /\ SetSubsurfacePosition(sc, id, offset).nodes =
              [sc.nodes EXCEPT ![id] = [sc.nodes[id] EXCEPT !.offset = offset]]
<1> DEFINE f == [sc.nodes EXCEPT ![id] = [sc.nodes[id] EXCEPT !.offset = offset]]
<1>1. [sc.nodes[id] EXCEPT !.offset = offset] \in Nodes
  BY SceneIs, ZenonT(60) DEF Nodes
<1>2. f \in Forests
  BY <1>1, Planted
<1> DEFINE after == [sc EXCEPT !.nodes[id].offset = offset]
<1>3. after = [sc EXCEPT !.nodes = f]
  BY DEF Scenes
<1>4. CASE sc.nodes[id].offset = offset
  <2>1. sc.nodes[id] = [sc.nodes[id] EXCEPT !.offset = offset]
    BY <1>4, SceneIs DEF Nodes
  <2>2. sc.nodes = f
    BY <2>1, SceneIs
  <2> QED
    BY <1>4, <2>2 DEF SetSubsurfacePosition
<1>5. CASE sc.nodes[id].offset # offset
  <2>1. SetSubsurfacePosition(sc, id, offset) =
          DamagingSubtree(sc, after, id)
    BY <1>5 DEF SetSubsurfacePosition
  <2> HIDE DEF f, after
  <2>2. after \in Scenes /\ after.nodes = f
    BY <1>2, <1>3, Replanted
  <2> QED
    BY <2>1, <2>2, DamagedBy DEF f
<1> QED
  BY <1>4, <1>5

LEMMA SetChildOrderIs ==
  ASSUME NEW sc \in Scenes, NEW id \in Live(sc), NEW order \in Seq(Surface)
  PROVE  /\ SetChildOrder(sc, id, order) \in Scenes
         /\ SetChildOrder(sc, id, order).nodes =
              [sc.nodes EXCEPT ![id] = [sc.nodes[id] EXCEPT !.children = order]]
<1> DEFINE f == [sc.nodes EXCEPT ![id] = [sc.nodes[id] EXCEPT !.children = order]]
<1>1. [sc.nodes[id] EXCEPT !.children = order] \in Nodes
  BY SceneIs, ZenonT(60) DEF Nodes
<1>2. f \in Forests
  BY <1>1, Planted
<1> DEFINE after == [sc EXCEPT !.nodes[id].children = order]
<1>3. after = [sc EXCEPT !.nodes = f]
  BY DEF Scenes
<1>4. CASE sc.nodes[id].children = order
  <2>1. sc.nodes[id] = [sc.nodes[id] EXCEPT !.children = order]
    BY <1>4, SceneIs DEF Nodes
  <2>2. sc.nodes = f
    BY <2>1, SceneIs
  <2> QED
    BY <1>4, <2>2 DEF SetChildOrder
<1>5. CASE sc.nodes[id].children # order
  <2>1. SetChildOrder(sc, id, order) =
          DamagingSubtree(sc, after, id)
    BY <1>5 DEF SetChildOrder
  <2> HIDE DEF f, after
  <2>2. after \in Scenes /\ after.nodes = f
    BY <1>2, <1>3, Replanted
  <2> QED
    BY <2>1, <2>2, DamagedBy DEF f
<1> QED
  BY <1>4, <1>5

LEMMA AttachContentIs ==
  ASSUME NEW sc \in Scenes, NEW id \in Live(sc), NEW block \in Blocks, NEW opaque \in BOOLEAN,
         NEW rects
  PROVE  /\ AttachContent(sc, id, block, opaque, rects) \in Scenes
         /\ AttachContent(sc, id, block, opaque, rects).nodes =
              [sc.nodes EXCEPT ![id] = Filled(sc.nodes[id], block, opaque)]
<1> DEFINE node == Filled(sc.nodes[id], block, opaque)
           f == [sc.nodes EXCEPT ![id] = node]
           after == [sc EXCEPT !.nodes[id].size = Len(block), !.nodes[id].source = block,
                               !.nodes[id].opaque = opaque]
           old == NodeCells(sc, id)
           new == NodeCells(after, id)
<1>0. Len(block) \in Nat
  BY DEF Blocks
<1>1. node \in Nodes
  BY <1>0, SceneIs, ZenonT(60) DEF Nodes, Filled
<1>2. f \in Forests
  BY <1>1, Planted
<1>3. after = [sc EXCEPT !.nodes = f]
  BY SceneIs DEF Scenes, Filled
<1> HIDE DEF f
<1>4. after \in Scenes /\ after.nodes = f
  BY <1>2, <1>3, Replanted
<1>5. AttachContent(sc, id, block, opaque, rects) =
        IF old # new \/ new = {} THEN AddDamage(after, old \cup new)
        ELSE AddDamage(after, {Min(new) + x : x \in rects} \cap new)
  BY DEF AttachContent
<1> HIDE DEF after
<1>6. old \in SUBSET Int /\ new \in SUBSET Int
  BY <1>4, CellsAre DEF NodeCells
<1> HIDE DEF old, new
<1> QED
  BY <1>4, <1>5, <1>6, Damaged DEF f

LEMMA ClearSourceIs ==
  ASSUME NEW sc \in Scenes, NEW id \in Live(sc)
  PROVE  /\ ClearSource(sc, id) \in Scenes
         /\ ClearSource(sc, id).nodes =
              [sc.nodes EXCEPT ![id] = [sc.nodes[id] EXCEPT !.source = NoPixels, !.opaque = FALSE]]
<1> DEFINE f == [sc.nodes EXCEPT ![id] = [sc.nodes[id] EXCEPT !.source = NoPixels, !.opaque = FALSE]]
           damaged == AddDamage(sc, SubtreeCells(sc, id))
<1>1. [sc.nodes[id] EXCEPT !.source = NoPixels, !.opaque = FALSE] \in Nodes
  BY SceneIs, ZenonT(60) DEF Nodes
<1>2. f \in Forests
  BY <1>1, Planted
<1>3. damaged \in Scenes /\ damaged.nodes = sc.nodes
  BY CellsAre, Damaged DEF SubtreeCells
<1>4. ClearSource(sc, id) = [damaged EXCEPT !.nodes[id].source = NoPixels, !.nodes[id].opaque = FALSE]
  BY DEF ClearSource
<1> HIDE DEF damaged
<1>5. ClearSource(sc, id) = [damaged EXCEPT !.nodes = f]
  BY <1>3, <1>4, SceneIs, ZenonT(60) DEF Scenes
<1> HIDE DEF f
<1> QED
  BY <1>2, <1>3, <1>5, Replanted DEF f

LEMMA CreatedIs ==
  ASSUME NEW sc \in Scenes, NEW id \in Surface, NEW client \in Client
  PROVE  /\ Created(sc, id, client) \in Scenes
         /\ Live(Created(sc, id, client)) = Live(sc) \cup {id}
         /\ Created(sc, id, client).nodes[id] = FreshNode(client)
         /\ \A x \in Live(sc) \ {id} : Created(sc, id, client).nodes[x] = sc.nodes[x]
<1> DEFINE f == Inserted(sc.nodes, id, FreshNode(client))
           L == Live(sc) \cup {id}
<1>1. FreshNode(client) \in Nodes
  BY DEF FreshNode, Nodes, Roles
<1>2. f = [x \in L |-> IF x = id THEN FreshNode(client) ELSE sc.nodes[x]]
  BY DEF Live, Inserted
<1> HIDE DEF f
<1>3. f \in [L -> Nodes] /\ L \in SUBSET Surface
  BY <1>1, <1>2, SceneIs
<1>4. f \in Forests
  BY <1>3, ForestsAre
<1>5. Created(sc, id, client) = [sc EXCEPT !.nodes = f]
  BY DEF Created, f
<1>6. Created(sc, id, client) \in Scenes /\ Created(sc, id, client).nodes = f
  BY <1>4, <1>5, Replanted
<1> QED
  BY <1>2, <1>3, <1>6 DEF Live

LEMMA DestroyedIs ==
  ASSUME NEW sc \in Scenes, NEW id
  PROVE  /\ Destroyed(sc, id) \in Scenes
         /\ Live(Destroyed(sc, id)) = Live(sc) \ {id}
         /\ \A x \in Live(sc) \ {id} : Destroyed(sc, id).nodes[x] = sc.nodes[x]
<1> DEFINE L == Live(sc) \ {id}
           f == [x \in L |-> sc.nodes[x]]
           damaged == AddDamage(sc, SubtreeCells(sc, id))
<1>1. damaged \in Scenes /\ damaged.nodes = sc.nodes
  BY CellsAre, Damaged DEF SubtreeCells
<1>2. Destroyed(sc, id) = [damaged EXCEPT !.nodes = [x \in Live(sc) \ {id} |-> damaged.nodes[x]]]
  BY DEF Destroyed
<1> HIDE DEF damaged
<1>3. Destroyed(sc, id) = [damaged EXCEPT !.nodes = f]
  BY <1>1, <1>2
<1>4. f \in [L -> Nodes] /\ L \in SUBSET Surface
  BY SceneIs
<1>5. f \in Forests /\ DOMAIN f = L /\ \A x \in L : f[x] = sc.nodes[x]
  BY <1>4, ForestsAre
<1> HIDE DEF f
<1>6. Destroyed(sc, id) \in Scenes /\ Destroyed(sc, id).nodes = f
  BY <1>1, <1>3, <1>5, Replanted
<1> QED
  BY <1>5, <1>6 DEF Live

LEMMA ClientGoneIs ==
  ASSUME NEW sc \in Scenes, NEW client
  PROVE  LET lost == {id \in Live(sc) : sc.nodes[id].client = client}
             rest == ClientGone(sc, client)
         IN  /\ rest \in Scenes
             /\ Live(rest) = Live(sc) \ lost
             /\ \A x \in Live(sc) \ lost :
                  rest.nodes[x] = [sc.nodes[x] EXCEPT !.children = Without(@, lost)]
<1> DEFINE lost == {id \in Live(sc) : sc.nodes[id].client = client}
           rest == ClientGone(sc, client)
           L == Live(sc) \ lost
           f == [id \in L |-> [sc.nodes[id] EXCEPT !.children = Without(@, lost)]]
           damaged == AddDamage(sc, CellsOf(sc, lost))
<1>1. damaged \in Scenes /\ damaged.nodes = sc.nodes
  BY CellsAre, Damaged
<1>2. rest = [damaged EXCEPT !.nodes = f]
  BY DEF ClientGone
<1> HIDE DEF damaged, rest, lost
<1>3. ASSUME NEW id \in L PROVE [sc.nodes[id] EXCEPT !.children = Without(@, lost)] \in Nodes
  <2>1. sc.nodes[id] \in Nodes /\ sc.nodes[id].children \in Seq(Surface)
    BY SceneIs DEF Nodes
  <2>2. Without(sc.nodes[id].children, lost) \in Seq(Surface)
    <3> DEFINE kids == sc.nodes[id].children
    <3>1. kids \in Seq(Surface)
      BY <2>1
    <3> HIDE DEF kids
    <3>2. Remains(Without(kids, lost), kids, lost, Surface)
      BY <3>1, WithoutIs
    <3> QED
      BY <3>2 DEF Remains, kids
  <2> QED
    BY <2>1, <2>2 DEF Nodes
<1>4. f \in [L -> Nodes] /\ L \in SUBSET Surface
  BY <1>3, SceneIs
<1>5. /\ f \in Forests /\ DOMAIN f = L
      /\ \A id \in L : f[id] = [sc.nodes[id] EXCEPT !.children = Without(@, lost)]
  BY <1>4, ForestsAre
<1> HIDE DEF f
<1>6. rest \in Scenes /\ rest.nodes = f
  BY <1>1, <1>2, <1>5, Replanted
<1>7. /\ rest \in Scenes
      /\ Live(rest) = Live(sc) \ lost
      /\ \A x \in Live(sc) \ lost :
           rest.nodes[x] = [sc.nodes[x] EXCEPT !.children = Without(@, lost)]
  BY <1>5, <1>6 DEF Live
<1> QED
  BY <1>7 DEF rest, lost

LEMMA AttachSubsurfaceIs ==
  ASSUME NEW sc \in Scenes, NEW child \in Live(sc), NEW par \in Live(sc), child # par,
         \/ sc.nodes[par].children = <<>>
         \/ \E i \in 1..Len(sc.nodes[par].children) : sc.nodes[par].children[i] = par
  PROVE  LET after == AttachSubsurface(sc, child, par)
         IN  /\ after \in Scenes
             /\ Live(after) = Live(sc)
             /\ \A x \in Live(sc) \ {child, par} : after.nodes[x] = sc.nodes[x]
             /\ after.nodes[child] = HungBelow(sc.nodes[child], par)
             /\ GainedChild(after.nodes[par], sc.nodes[par], par, child)
<1> DEFINE old == sc.nodes[par].children
           start == IF old = <<>> THEN <<par>> ELSE old
           kids == IF Contains(start, child) THEN start ELSE Append(start, child)
           first == [sc.nodes[child] EXCEPT !.parent = par, !.role = "subsurface"]
           second == [sc.nodes[par] EXCEPT !.children = kids]
           f == [sc.nodes EXCEPT ![child] = first, ![par] = second]
           moved == [sc EXCEPT !.nodes[child].parent = par, !.nodes[child].role = "subsurface",
                               !.nodes[par].children = kids]
           after == AttachSubsurface(sc, child, par)
<1>1. /\ sc.nodes \in [Live(sc) -> Nodes] /\ Live(sc) \in SUBSET Surface
      /\ sc.nodes[child] \in Nodes /\ sc.nodes[par] \in Nodes
  BY SceneIs
<1>2. old \in Seq(Surface) /\ par \in Surface /\ child \in Surface
  BY <1>1 DEF Nodes
<1>3. /\ start \in Seq(Surface)
      /\ \E i \in 1..Len(start) : start[i] = par
      /\ \A i \in 1..Len(start) : start[i] = par \/ \E j \in 1..Len(old) : old[j] = start[i]
  <2>1. CASE old = <<>>
    BY <1>2, <2>1
  <2>2. CASE old # <<>>
    BY <1>2, <2>2
  <2> QED
    BY <2>1, <2>2
<1> HIDE DEF start, old
<1>4. /\ kids \in Seq(Surface)
      /\ \E i \in 1..Len(kids) : kids[i] = par
      /\ \A i \in 1..Len(kids) :
           kids[i] \in {child, par} \/ \E j \in 1..Len(old) : old[j] = kids[i]
  <2>1. CASE Contains(start, child)
    BY <1>3, <2>1
  <2>2. CASE ~Contains(start, child)
    <3>1. /\ kids = Append(start, child) /\ kids \in Seq(Surface)
          /\ Len(kids) = Len(start) + 1 /\ Len(start) \in Nat
          /\ kids[Len(start) + 1] = child
          /\ \A i \in 1..Len(start) : kids[i] = start[i]
      BY <1>2, <1>3, <2>2
    <3> HIDE DEF kids
    <3>2. \A i \in 1..Len(kids) : i \in 1..Len(start) \/ i = Len(start) + 1
      BY <3>1
    <3>3. \A i \in 1..Len(start) : i \in 1..Len(kids)
      BY <3>1
    <3> QED
      BY <1>3, <3>1, <3>2, <3>3
  <2> QED
    BY <2>1, <2>2
<1>5. first \in Nodes /\ second \in Nodes
  <2> HIDE DEF kids
  <2> QED
    BY <1>1, <1>2, <1>4 DEF Nodes, Roles
<1>6. after = DamagingSubtree(sc, moved, child)
  BY DEF AttachSubsurface, start, old
<1> HIDE DEF kids
<1>7. moved = [sc EXCEPT !.nodes = f]
  BY <1>1 DEF Scenes
<1>8. f \in [Live(sc) -> Nodes]
  BY <1>1, <1>5
<1>9. /\ f \in Forests /\ f[child] = first /\ f[par] = second
      /\ DOMAIN f = Live(sc)
      /\ \A x \in Live(sc) \ {child, par} : f[x] = sc.nodes[x]
  BY <1>1, <1>8, ForestsAre
<1> HIDE DEF f, moved
<1>10. moved \in Scenes /\ moved.nodes = f
  BY <1>7, <1>9, Replanted
<1>11. after \in Scenes /\ after.nodes = f
  BY <1>6, <1>10, DamagedBy
<1> HIDE DEF after
<1>12. /\ after \in Scenes
       /\ Live(after) = Live(sc)
       /\ \A x \in Live(sc) \ {child, par} : after.nodes[x] = sc.nodes[x]
       /\ after.nodes[child] = first
       /\ after.nodes[par] = second
  BY <1>9, <1>11 DEF Live
<1>13. first = HungBelow(sc.nodes[child], par)
  BY DEF HungBelow
<1>14. GainedChild(after.nodes[par], sc.nodes[par], par, child)
  BY <1>4, <1>12 DEF old, GainedChild
<1> HIDE DEF first, second
<1> QED
  BY <1>12, <1>13, <1>14 DEF after

-----------------------------------------------------------------------------
(* Smithay's tree.                                                           *)

LEMMA AroundGrows ==
  ASSUME NEW list, NEW s, NEW S, NEW T, Around(list, s, S), S \subseteq T
  PROVE  Around(list, s, T)
BY DEF Around

LEMMA TreeIs ==
  ASSUME NEW w, TreeOK(w), NEW s \in DOMAIN w
  PROVE  /\ w[s] \in WlSurfaces /\ s \in Surface /\ s # NoSurface
         /\ w[s].order \in Seq(Surface)
         /\ Around(w[s].order, s, Children(w, s))
         /\ w[s].parent \in (DOMAIN w \ {s}) \cup {NoSurface}
<1>1. s \in Surface /\ w[s] \in WlSurfaces
  BY DEF TreeOK
<1> QED
  BY <1>1, SurfaceAssumption DEF TreeOK, WlSurfaces

(* Whoever is below one of S, and is not one of S, has a parent.             *)
LEMMA DescendantsAre ==
  ASSUME NEW w, DOMAIN w \in SUBSET Surface, NEW S \in SUBSET (DOMAIN w)
  PROVE  /\ WithDescendants(w, S) \in SUBSET (DOMAIN w)
         /\ S \subseteq WithDescendants(w, S)
         /\ \A x \in WithDescendants(w, S) \ S : w[x].parent # NoSurface
<1> DEFINE n == Cardinality(Surface)
           V == {D \in SUBSET (DOMAIN w) : S \subseteq D /\ \A x \in D \ S : w[x].parent # NoSurface}
           Step(above) == above \cup {x \in DOMAIN w : w[x].parent \in above}
           step == [i \in 1..n |-> [above \in V |-> Step(above)]]
           Whole(f) == [d \in 0..n |-> IF d = 0 THEN S
                                       ELSE LET above == f[d - 1]
                                            IN  above \cup {x \in DOMAIN w : w[x].parent \in above}]
<1>1. n \in Nat
  BY SurfaceAssumption, FS_CardinalityType
<1>2. S \in V
  OBVIOUS
<1>3. ASSUME NEW above \in V PROVE Step(above) \in V
  <2>1. \A x \in DOMAIN w : w[x].parent \in above => w[x].parent # NoSurface
    BY SurfaceAssumption
  <2> QED
    BY <2>1
<1> HIDE DEF n, V
<1>4. Steps(n, V, step) /\ \A i \in 1..n : \A s \in V : step[i][s] = Step(s)
  BY <1>3 DEF Steps
<1> HIDE DEF step
<1>5. PICK f : Recursive(f, n, V, S, step)
  BY <1>1, <1>2, <1>4, RecursiveFunction
<1>6. f = Whole(f)
  <2>1. \A d \in 1..n : d - 1 \in 0..n
    BY <1>1
  <2>2. \A d \in 1..n : f[d] = Step(f[d - 1])
    BY <1>4, <1>5, <2>1 DEF Recursive
  <2>3. \A d \in 0..n : d = 0 \/ (d \in 1..n /\ d # 0)
    BY <1>1
  <2> QED
    BY <1>5, <2>2, <2>3 DEF Recursive
<1> DEFINE g == CHOOSE g : g = Whole(g)
<1>7. g = Whole(g)
  BY <1>6
<1>8. WithDescendants(w, S) = g[n]
  BY DEF WithDescendants, n
<1> HIDE DEF g
<1>9. g[0] = S /\ \A d \in 1..n : g[d] = Step(g[d - 1])
  <2>1. \A d \in 1..n : d \in 0..n /\ d # 0
    BY <1>1
  <2>2. 0 \in 0..n
    BY <1>1
  <2> QED
    BY <1>7, <2>1, <2>2
<1>10. \A d \in 1..n : g[d - 1] \in V => g[d] \in V
  BY <1>3, <1>9
<1>11. g[n] \in V
  BY <1>1, <1>2, <1>9, <1>10, RecursionStays
<1> QED
  BY <1>8, <1>11 DEF V

LEMMA SynchronizedAre ==
  ASSUME NEW w, TreeOK(w)
  PROVE  \A x \in Synchronized(w) : x \in DOMAIN w /\ w[x].role = "subsurface"
<1> DEFINE S == {x \in DOMAIN w : w[x].sync}
<1>1. DOMAIN w \in SUBSET Surface /\ S \in SUBSET (DOMAIN w)
  BY DEF TreeOK
<1>2. \A x \in S : w[x].role = "subsurface"
  BY DEF TreeOK
<1>3. \A x \in DOMAIN w : w[x].parent # NoSurface => w[x].role = "subsurface"
  BY DEF TreeOK
<1> HIDE DEF S
<1>4. Synchronized(w) = WithDescendants(w, S)
  BY DEF Synchronized, S
<1> QED
  BY <1>1, <1>2, <1>3, <1>4, DescendantsAre

LEMMA EffectiveAre ==
  ASSUME NEW w, TreeOK(w), NEW s \in DOMAIN w
  PROVE  /\ s \in Effective(w, s)
         /\ \A x \in Effective(w, s) \ {s} : x \in DOMAIN w /\ w[x].role = "subsurface"
<1> DEFINE S == {x \in DOMAIN w : w[x].parent = s /\ w[x].sync}
<1>1. DOMAIN w \in SUBSET Surface /\ S \in SUBSET (DOMAIN w)
  BY DEF TreeOK
<1>2. \A x \in S : w[x].role = "subsurface"
  BY DEF TreeOK
<1>3. \A x \in DOMAIN w : w[x].parent # NoSurface => w[x].role = "subsurface"
  BY DEF TreeOK
<1> HIDE DEF S
<1>4. Effective(w, s) = {s} \cup WithDescendants(w, S)
  BY DEF Effective, S
<1> QED
  BY <1>1, <1>2, <1>3, <1>4, DescendantsAre

LEMMA OrderedChildrenAre ==
  ASSUME NEW w, TreeOK(w), NEW s \in DOMAIN w
  PROVE  LET kids == OrderedChildren(w, s)
         IN  /\ kids \in Seq(Surface)
             /\ \E i \in 1..Len(kids) : kids[i] = s
             /\ Around(kids, s, Children(w, s))
             /\ \A i \in 1..Len(kids) :
                  /\ kids[i] \in DOMAIN w
                  /\ kids[i] # s => w[kids[i]].role = "subsurface"
<1> DEFINE kids == OrderedChildren(w, s)
<1>1. /\ kids \in Seq(Surface)
      /\ \E i \in 1..Len(kids) : kids[i] = s
      /\ Around(kids, s, Children(w, s))
  <2>1. CASE w[s].order = <<>>
    <3>1. kids = <<s>>
      BY <2>1 DEF OrderedChildren
    <3>2. s \in Surface
      BY TreeIs
    <3>3. <<s>> \in Seq(Surface) /\ Len(<<s>>) = 1 /\ <<s>>[1] = s
      BY <3>2
    <3> HIDE DEF kids
    <3> QED
      BY <3>1, <3>3 DEF Around
  <2>2. CASE w[s].order # <<>>
    <3>1. kids = w[s].order
      BY <2>2 DEF OrderedChildren
    <3> HIDE DEF kids
    <3> QED
      BY <2>2, <3>1, TreeIs DEF Around
  <2> QED
    BY <2>1, <2>2
<1> HIDE DEF kids
<1>2. \A x \in Children(w, s) : x \in DOMAIN w /\ w[x].role = "subsurface"
  <2>1. s # NoSurface
    BY TreeIs
  <2> QED
    BY <2>1 DEF TreeOK, Children
<1>3. ASSUME NEW i \in 1..Len(kids)
      PROVE  kids[i] \in DOMAIN w /\ (kids[i] # s => w[kids[i]].role = "subsurface")
  BY <1>1, <1>2 DEF Around
<1> QED
  BY <1>1, <1>3 DEF kids

(* A change that leaves the links alone.                                     *)
LEMMA SameLinks ==
  ASSUME NEW w, TreeOK(w), NEW v \in [DOMAIN w -> WlSurfaces],
         \A s \in DOMAIN w : v[s].parent = w[s].parent /\ v[s].order = w[s].order,
         \A s \in DOMAIN w : v[s].role # "subsurface" =>
                               w[s].role # "subsurface" /\ v[s].cached = Nothing /\ ~v[s].sync
  PROVE  TreeOK(v)
<1>1. DOMAIN v = DOMAIN w /\ DOMAIN w \in SUBSET Surface
  BY DEF TreeOK
<1>2. \A s \in DOMAIN w : Children(v, s) = Children(w, s)
  BY <1>1 DEF Children
<1> QED
  BY <1>1, <1>2 DEF TreeOK

LEMMA NewWlTree ==
  ASSUME NEW w, TreeOK(w), NEW id \in Surface \ DOMAIN w, NEW k \in Client
  PROVE  LET v == Inserted(w, id, NewWl(k))
         IN  /\ TreeOK(v)
             /\ DOMAIN v = DOMAIN w \cup {id}
             /\ v[id] = NewWl(k)
             /\ \A s \in DOMAIN w : v[s] = w[s]
<1> DEFINE v == Inserted(w, id, NewWl(k))
           D == DOMAIN w \cup {id}
<1>1. NewWl(k) \in WlSurfaces
  BY DEF NewWl, WlSurfaces, Roles, Acts
<1>2. v = [x \in D |-> IF x = id THEN NewWl(k) ELSE w[x]]
  BY DEF Inserted
<1> HIDE DEF v
<1>3. v \in [D -> WlSurfaces] /\ D \in SUBSET Surface /\ DOMAIN v = D
  BY <1>1, <1>2 DEF TreeOK
<1>4. v[id] = NewWl(k) /\ \A s \in DOMAIN w : v[s] = w[s]
  BY <1>2
<1>5. \A s \in DOMAIN w : Children(w, s) \subseteq Children(v, s)
  BY <1>3, <1>4 DEF Children
<1>6. ASSUME NEW s \in D
      PROVE  /\ v[s].parent \in (D \ {s}) \cup {NoSurface}
             /\ v[s].role # "subsurface" =>
                  v[s].parent = NoSurface /\ v[s].cached = Nothing /\ ~v[s].sync
             /\ Around(v[s].order, s, Children(v, s))
  <2>1. CASE s = id
    <3>1. Around(<<>>, s, Children(v, s))
      BY DEF Around
    <3> QED
      BY <1>4, <2>1, <3>1 DEF NewWl
  <2>2. CASE s \in DOMAIN w
    <3>1. Around(w[s].order, s, Children(v, s))
      BY <1>5, <2>2, TreeIs, AroundGrows
    <3> QED
      BY <1>3, <1>4, <2>2, <3>1 DEF TreeOK
  <2> QED
    BY <2>1, <2>2
<1> QED
  BY <1>3, <1>4, <1>6 DEF TreeOK, v

(* A subsurface below a parent that does not have it yet.                    *)
LEMMA NewSubsurfaceTree ==
  ASSUME NEW w, TreeOK(w), NEW s \in DOMAIN w, NEW p \in DOMAIN w, s # p, NEW sync \in BOOLEAN,
         w[s].parent = NoSurface
  PROVE  TreeOK([w EXCEPT ![s].role = "subsurface", ![s].parent = p, ![s].sync = sync,
                          ![p].order = OrderedChildren(w, p) \o <<s>>])
<1> DEFINE kids == OrderedChildren(w, p)
           more == kids \o <<s>>
           v == [w EXCEPT ![s].role = "subsurface", ![s].parent = p, ![s].sync = sync,
                          ![p].order = more]
           first == [w[s] EXCEPT !.role = "subsurface", !.parent = p, !.sync = sync]
           second == [w[p] EXCEPT !.order = more]
<1>1. s \in Surface /\ p \in Surface /\ p # NoSurface /\ w[s] \in WlSurfaces /\ w[p] \in WlSurfaces
  BY TreeIs
<1>2. /\ kids \in Seq(Surface) /\ \E i \in 1..Len(kids) : kids[i] = p
      /\ Around(kids, p, Children(w, p))
  BY OrderedChildrenAre
<1> HIDE DEF kids
<1>3. /\ more \in Seq(Surface) /\ Len(more) = Len(kids) + 1 /\ Len(kids) \in Nat
      /\ more[Len(kids) + 1] = s
      /\ \A i \in 1..Len(kids) : more[i] = kids[i]
  BY <1>1, <1>2
<1> HIDE DEF more
<1>4. first \in WlSurfaces /\ second \in WlSurfaces
  BY <1>1, <1>3 DEF WlSurfaces, Roles
<1>5. /\ v \in [DOMAIN w -> WlSurfaces] /\ DOMAIN v = DOMAIN w
      /\ v[s] = first /\ v[p] = second
      /\ \A x \in DOMAIN w \ {s, p} : v[x] = w[x]
  <2>1. /\ DOMAIN v = DOMAIN w /\ v[s] = first /\ v[p] = second
        /\ \A x \in DOMAIN w \ {s, p} : v[x] = w[x]
    BY DEF TreeOK
  <2>2. \A x \in DOMAIN w : v[x] \in WlSurfaces
    BY <1>4, <2>1, TreeIs
  <2>3. v = [x \in DOMAIN w |-> v[x]]
    BY DEF TreeOK
  <2> HIDE DEF v
  <2> QED
    BY <2>1, <2>2, <2>3
<1> HIDE DEF v
<1>6. /\ first.role = "subsurface" /\ first.parent = p /\ first.order = w[s].order
      /\ second.role = w[p].role /\ second.parent = w[p].parent /\ second.order = more
      /\ second.cached = w[p].cached /\ second.sync = w[p].sync
  BY <1>1 DEF WlSurfaces
<1> HIDE DEF first, second
<1>7. /\ \A x \in DOMAIN w \ {s} : v[x].parent = w[x].parent /\ v[x].role = w[x].role
                                   /\ v[x].cached = w[x].cached /\ v[x].sync = w[x].sync
      /\ \A x \in DOMAIN w \ {p} : v[x].order = w[x].order
      /\ v[s].parent = p /\ v[s].role = "subsurface" /\ v[p].order = more
  BY <1>5, <1>6
<1>8. \A x \in DOMAIN w : Children(w, x) \subseteq Children(v, x)
  <2>1. \A x \in DOMAIN w : x # NoSurface
    BY TreeIs
  <2> QED
    BY <1>5, <1>7, <2>1 DEF Children
<1>9. s \in Children(v, p)
  BY <1>5, <1>7 DEF Children
<1>10. Around(more, p, Children(v, p))
  <2>1. \A i \in 1..Len(more) : i \in 1..Len(kids) \/ i = Len(kids) + 1
    BY <1>3
  <2>2. \A i \in 1..Len(kids) : i \in 1..Len(more)
    BY <1>3
  <2> QED
    BY <1>2, <1>3, <1>8, <1>9, <2>1, <2>2 DEF Around
<1>11. ASSUME NEW x \in DOMAIN w PROVE Around(v[x].order, x, Children(v, x))
  <2>1. CASE x = p
    BY <1>7, <1>10, <2>1
  <2>2. CASE x # p
    <3>1. Around(w[x].order, x, Children(v, x))
      BY <1>8, TreeIs, AroundGrows
    <3> QED
      BY <1>7, <2>2, <3>1
  <2> QED
    BY <2>1, <2>2
<1>12. ASSUME NEW x \in DOMAIN w
       PROVE  /\ v[x].parent \in (DOMAIN w \ {x}) \cup {NoSurface}
              /\ v[x].role # "subsurface" =>
                   v[x].parent = NoSurface /\ v[x].cached = Nothing /\ ~v[x].sync
  <2>1. CASE x = s
    BY <1>7, <2>1
  <2>2. CASE x # s
    BY <1>7, <2>2 DEF TreeOK
  <2> QED
    BY <2>1, <2>2
<1>13. DOMAIN w \in SUBSET Surface
  BY DEF TreeOK
<1>14. TreeOK(v)
  BY <1>5, <1>11, <1>12, <1>13 DEF TreeOK
<1> QED
  BY <1>14 DEF v, more, kids

LEMMA UnlinkedIs ==
  ASSUME NEW w, TreeOK(w), NEW s \in DOMAIN w
  PROVE  LET v == Unlinked(w, s)
         IN  /\ v \in [DOMAIN w -> WlSurfaces]
             /\ \A x \in DOMAIN w : v[x].client = w[x].client /\ v[x].role = w[x].role
             /\ v[s].parent = NoSurface /\ v[s].cached = Nothing /\ ~v[s].sync
             /\ \A x \in DOMAIN w \ {s} : /\ v[x].parent = w[x].parent
                                          /\ v[x].cached = w[x].cached /\ v[x].sync = w[x].sync
             /\ \A x \in DOMAIN w : Around(v[x].order, x, Children(w, x) \ {s})
             /\ KeepsKids(w, v, s)
             /\ TreeOK(v)
<1> DEFINE p == w[s].parent
           kids == IF Without(w[p].order, {s}) = <<p>> THEN <<>> ELSE Without(w[p].order, {s})
           one == [w[s] EXCEPT !.parent = NoSurface, !.sync = FALSE, !.cached = Nothing]
           detached == [w EXCEPT ![s].parent = NoSurface, ![s].sync = FALSE, ![s].cached = Nothing]
           v == Unlinked(w, s)
<1>1. /\ \A x \in DOMAIN w : w[x] \in WlSurfaces /\ x \in Surface /\ x # NoSurface
      /\ p \in (DOMAIN w \ {s}) \cup {NoSurface}
      /\ w = [x \in DOMAIN w |-> w[x]]
  BY TreeIs DEF TreeOK
<1>2. one \in WlSurfaces
  <2>1. Nothing \in Acts
    BY DEF Acts
  <2>2. w[s] \in WlSurfaces
    BY <1>1
  <2> QED
    BY <2>1, <2>2 DEF WlSurfaces
<1>3. detached = [w EXCEPT ![s] = one]
  BY <1>1 DEF WlSurfaces
<1>4. /\ one.client = w[s].client /\ one.role = w[s].role /\ one.order = w[s].order
      /\ one.parent = NoSurface /\ one.cached = Nothing /\ ~one.sync
  BY <1>1 DEF WlSurfaces
<1> HIDE DEF one
<1>5. /\ detached \in [DOMAIN w -> WlSurfaces]
      /\ \A x \in DOMAIN w : /\ detached[x].client = w[x].client
                             /\ detached[x].role = w[x].role
                             /\ detached[x].order = w[x].order
      /\ detached[s].parent = NoSurface /\ detached[s].cached = Nothing /\ ~detached[s].sync
      /\ \A x \in DOMAIN w \ {s} : detached[x] = w[x]
  BY <1>1, <1>2, <1>3, <1>4
<1>6. v = IF p = NoSurface THEN detached ELSE [detached EXCEPT ![p].order = kids]
  BY DEF Unlinked
<1> HIDE DEF detached, v
<1>7. \A x \in DOMAIN w \ {p} : Around(w[x].order, x, Children(w, x) \ {s})
  <2>1. ASSUME NEW x \in DOMAIN w \ {p} PROVE Children(w, x) \subseteq Children(w, x) \ {s}
    BY DEF Children
  <2> QED
    BY <2>1, TreeIs, AroundGrows
<1>8. /\ v \in [DOMAIN w -> WlSurfaces]
      /\ \A x \in DOMAIN w : v[x].client = w[x].client /\ v[x].role = w[x].role
      /\ v[s].parent = NoSurface /\ v[s].cached = Nothing /\ ~v[s].sync
      /\ \A x \in DOMAIN w \ {s} : /\ v[x].parent = w[x].parent
                                   /\ v[x].cached = w[x].cached /\ v[x].sync = w[x].sync
      /\ \A x \in DOMAIN w : Around(v[x].order, x, Children(w, x) \ {s})
      /\ KeepsKids(w, v, s)
  <2>1. CASE p = NoSurface
    <3>1. v = detached /\ \A x \in DOMAIN w : x # p
      BY <1>1, <1>6, <2>1
    <3>2. \A x \in DOMAIN w : Around(v[x].order, x, Children(w, x) \ {s})
      BY <1>5, <1>7, <3>1
    <3>3. KeepsKids(w, v, s)
      BY <1>5, <3>1 DEF KeepsKids
    <3> QED
      BY <1>5, <3>1, <3>2, <3>3
  <2>2. CASE p # NoSurface
    <3>1. p \in DOMAIN w /\ p # s
      BY <1>1, <2>2
    <3> DEFINE order == w[p].order
               lone == {s}
               rest == Without(order, lone)
    <3>2. order \in Seq(Surface) /\ Around(order, p, Children(w, p))
      BY <3>1, TreeIs
    <3>4. kids = IF rest = <<p>> THEN <<>> ELSE rest
      OBVIOUS
    <3>40. \A x : x \in lone <=> x = s
      OBVIOUS
    <3> HIDE DEF order, kids, lone
    <3>30. Remains(rest, order, lone, Surface)
      BY <3>2, WithoutIs
    <3>3. /\ rest \in Seq(Surface)
          /\ \A i \in 1..Len(rest) : /\ rest[i] \notin lone
                                      /\ \E j \in 1..Len(order) : order[j] = rest[i]
          /\ \A j \in 1..Len(order) : order[j] \notin lone =>
               \E i \in 1..Len(rest) : rest[i] = order[j]
      BY <3>30 DEF Remains
    <3> HIDE DEF rest
    <3>5. Around(rest, p, Children(w, p) \ {s})
      <4>1. ASSUME rest # <<>> PROVE \E i \in 1..Len(rest) : rest[i] = p
        <5>1. 1 \in 1..Len(rest)
          BY <3>3, <4>1
        <5>2. order # <<>>
          BY <3>2, <3>3, <5>1
        <5> QED
          BY <3>1, <3>2, <3>3, <3>40, <5>2 DEF Around
      <4>2. \A i \in 1..Len(rest) : rest[i] = p \/ rest[i] \in Children(w, p) \ {s}
        BY <3>2, <3>3, <3>40 DEF Around
      <4> QED
        BY <4>1, <4>2 DEF Around
    <3>6. kids \in Seq(Surface) /\ Around(kids, p, Children(w, p) \ {s})
      <4>1. Around(<<>>, p, Children(w, p) \ {s})
        BY DEF Around
      <4> QED
        BY <3>3, <3>4, <3>5, <4>1
    <3> DEFINE two == [detached[p] EXCEPT !.order = kids]
    <3>7. detached[p] = w[p] /\ w[p] \in WlSurfaces
      BY <1>1, <1>5, <3>1
    <3>8. /\ two \in WlSurfaces /\ two.order = kids
          /\ two.client = w[p].client /\ two.role = w[p].role /\ two.parent = w[p].parent
          /\ two.cached = w[p].cached /\ two.sync = w[p].sync
      BY <3>6, <3>7 DEF WlSurfaces
    <3> HIDE DEF two
    <3>9. v = [detached EXCEPT ![p] = two]
      BY <1>6, <2>2 DEF two
    <3>10. /\ v \in [DOMAIN w -> WlSurfaces] /\ v[p] = two
           /\ \A x \in DOMAIN w \ {p} : v[x] = detached[x]
      BY <1>5, <3>1, <3>8, <3>9
    <3>11. ASSUME NEW x \in DOMAIN w PROVE Around(v[x].order, x, Children(w, x) \ {s})
      BY <1>5, <1>7, <3>6, <3>8, <3>10
    <3>12. \A x \in DOMAIN w : v[x].client = w[x].client /\ v[x].role = w[x].role
      BY <1>5, <3>8, <3>10
    <3>13. v[s].parent = NoSurface /\ v[s].cached = Nothing /\ ~v[s].sync
      BY <1>5, <3>1, <3>10
    <3>14. \A x \in DOMAIN w \ {s} : /\ v[x].parent = w[x].parent
                                    /\ v[x].cached = w[x].cached /\ v[x].sync = w[x].sync
      BY <1>5, <3>8, <3>10
    <3>15. ASSUME NEW y \in ToSet(order) \ {s, p} PROVE y \in ToSet(kids)
      <4>1. PICK j \in 1..Len(order) : order[j] = y
        BY <3>2, <3>15 DEF ToSet
      <4>2. PICK i \in 1..Len(rest) : rest[i] = y
        BY <3>3, <3>15, <3>40, <4>1
      <4>3. rest # <<p>>
        BY <3>15, <4>2
      <4>4. kids = rest /\ DOMAIN rest = 1..Len(rest)
        BY <3>3, <3>4, <4>3
      <4> QED
        BY <4>2, <4>4 DEF ToSet
    <3>16. KeepsKids(w, v, s)
      <4>1. ASSUME NEW x \in DOMAIN w \ {s}, NEW y \in ToSet(w[x].order) \ {s, x}
            PROVE  y \in ToSet(v[x].order)
        <5>1. CASE x = p
          BY <3>8, <3>10, <3>15, <4>1, <5>1 DEF order
        <5>2. CASE x # p
          BY <1>5, <3>10, <4>1, <5>2
        <5> QED
          BY <5>1, <5>2
      <4> QED
        BY <4>1 DEF KeepsKids
    <3> QED
      BY <3>10, <3>11, <3>12, <3>13, <3>14, <3>16
  <2> QED
    BY <2>1, <2>2
<1> HIDE DEF p
<1>9. DOMAIN v = DOMAIN w /\ DOMAIN w \in SUBSET Surface
  BY <1>8 DEF TreeOK
<1>10. \A x \in DOMAIN w : Children(w, x) \ {s} \subseteq Children(v, x)
  BY <1>8, <1>9 DEF Children
<1>11. ASSUME NEW x \in DOMAIN w
       PROVE  /\ v[x].parent \in (DOMAIN w \ {x}) \cup {NoSurface}
              /\ v[x].role # "subsurface" =>
                   v[x].parent = NoSurface /\ v[x].cached = Nothing /\ ~v[x].sync
  <2>1. CASE x = s
    BY <1>8, <2>1
  <2>2. CASE x # s
    BY <1>8, <2>2 DEF TreeOK
  <2> QED
    BY <2>1, <2>2
<1>12. \A x \in DOMAIN w : Around(v[x].order, x, Children(v, x))
  BY <1>8, <1>10, AroundGrows
<1>13. TreeOK(v)
  BY <1>8, <1>9, <1>11, <1>12 DEF TreeOK
<1> QED
  BY <1>8, <1>13 DEF v

LEMMA DestroyedTree ==
  ASSUME NEW w, TreeOK(w), NEW s \in DOMAIN w
  PROVE  /\ TreeOK(Orphaned(w, s))
         /\ DOMAIN Orphaned(w, s) = DOMAIN w \ {s}
         /\ \A x \in DOMAIN w \ {s} : /\ Orphaned(w, s)[x].client = w[x].client
                                      /\ Orphaned(w, s)[x].role = w[x].role
         /\ \A x \in DOMAIN w \ {s} :
              Orphaned(w, s)[x].parent = IF w[x].parent = s THEN NoSurface ELSE w[x].parent
         /\ KeepsKids(w, Orphaned(w, s), s)
<1> DEFINE t == Unlinked(w, s)
           u == Drop(t, s)
           D == DOMAIN w \ {s}
           bare(x) == [u[x] EXCEPT !.parent = NoSurface, !.sync = FALSE, !.cached = Nothing]
           v == [x \in DOMAIN u |-> IF u[x].parent = s THEN bare(x) ELSE u[x]]
<1>0. Orphaned(w, s) = v
  BY DEF Orphaned
<1>1. /\ t \in [DOMAIN w -> WlSurfaces]
      /\ \A x \in DOMAIN w : t[x].client = w[x].client /\ t[x].role = w[x].role
      /\ \A x \in D : t[x].parent = w[x].parent
      /\ \A x \in DOMAIN w : Around(t[x].order, x, Children(w, x) \ {s})
      /\ KeepsKids(w, t, s)
      /\ TreeOK(t)
  BY UnlinkedIs
<1> HIDE DEF t
<1>2. DOMAIN u = D /\ \A x \in D : u[x] = t[x] /\ u[x] \in WlSurfaces
  BY <1>1 DEF Drop
<1> HIDE DEF u
<1>3. ASSUME NEW x \in D
      PROVE  /\ bare(x) \in WlSurfaces /\ bare(x).client = u[x].client /\ bare(x).role = u[x].role
             /\ bare(x).order = u[x].order
             /\ bare(x).parent = NoSurface /\ ~bare(x).sync /\ bare(x).cached = Nothing
  BY <1>2, ZenonT(60) DEF WlSurfaces, Acts
<1> HIDE DEF bare
<1>4. /\ v \in [D -> WlSurfaces] /\ DOMAIN v = D
      /\ \A x \in D : v[x].client = w[x].client /\ v[x].role = w[x].role /\ v[x].order = t[x].order
      /\ \A x \in D : v[x].parent = IF w[x].parent = s THEN NoSurface ELSE w[x].parent
      /\ \A x \in D : v[x] = t[x] \/ (v[x].parent = NoSurface /\ ~v[x].sync /\ v[x].cached = Nothing)
  BY <1>1, <1>2, <1>3
<1> HIDE DEF v
<1>5. \A x \in D : Children(w, x) \ {s} \subseteq Children(v, x)
  BY <1>4 DEF Children
<1>6. \A x \in D : Around(v[x].order, x, Children(v, x))
  BY <1>1, <1>4, <1>5, AroundGrows
<1>7. D \in SUBSET Surface
  BY DEF TreeOK
<1>8. ASSUME NEW x \in D
      PROVE  /\ v[x].parent \in (D \ {x}) \cup {NoSurface}
             /\ v[x].role # "subsurface" =>
                  v[x].parent = NoSurface /\ v[x].cached = Nothing /\ ~v[x].sync
  <2>1. w[x].parent \in (DOMAIN w \ {x}) \cup {NoSurface}
    BY TreeIs
  <2>2. v[x].parent \in (D \ {x}) \cup {NoSurface}
    BY <1>4, <2>1
  <2>3. t[x].role # "subsurface" => t[x].parent = NoSurface /\ t[x].cached = Nothing /\ ~t[x].sync
    BY <1>1 DEF TreeOK
  <2>4. v[x].role = t[x].role
    BY <1>1, <1>4
  <2> QED
    BY <1>4, <2>2, <2>3, <2>4
<1>9. TreeOK(v)
  BY <1>4, <1>6, <1>7, <1>8 DEF TreeOK
<1>10. KeepsKids(w, v, s)
  BY <1>1, <1>4 DEF KeepsKids
<1> QED
  BY <1>0, <1>4, <1>9, <1>10

-----------------------------------------------------------------------------
(* What a commit carries.                                                    *)

LEMMA JoinedSet ==
  ASSUME NEW T, NEW p \in Seq(T), NEW q \in Seq(T)
  PROVE  p \o q \in Seq(T) /\ ToSet(p \o q) = ToSet(p) \cup ToSet(q)
<1> DEFINE j == p \o q
           m == Len(p)
           n == Len(q)
<1>1. /\ j \in Seq(T) /\ Len(j) = m + n /\ m \in Nat /\ n \in Nat
      /\ \A i \in 1..m : j[i] = p[i]
      /\ \A i \in (m + 1)..(m + n) : j[i] = q[i - m]
      /\ DOMAIN j = 1..(m + n) /\ DOMAIN p = 1..m /\ DOMAIN q = 1..n
  OBVIOUS
<1> HIDE DEF j, m, n
<1>2. \A i \in 1..(m + n) : i \in 1..m \/ (i \in (m + 1)..(m + n) /\ i - m \in 1..n)
  BY <1>1
<1>3. \A i \in 1..m : i \in 1..(m + n)
  BY <1>1
<1>4. \A i \in 1..n : i + m \in (m + 1)..(m + n) /\ i + m \in 1..(m + n) /\ (i + m) - m = i
  BY <1>1
<1>5. \A i \in 1..n : j[i + m] = q[i]
  BY <1>1, <1>4
<1>6. ToSet(j) \subseteq ToSet(p) \cup ToSet(q)
  BY <1>1, <1>2 DEF ToSet
<1>7. ToSet(p) \subseteq ToSet(j)
  BY <1>1, <1>3 DEF ToSet
<1>8. ToSet(q) \subseteq ToSet(j)
  <2>1. ASSUME NEW i \in 1..n PROVE q[i] \in ToSet(j)
    <3>1. i + m \in DOMAIN j /\ j[i + m] = q[i]
      BY <1>1, <1>4, <1>5
    <3> QED
      BY <3>1, Zenon DEF ToSet
  <2> QED
    BY <1>1, <2>1 DEF ToSet
<1> QED
  BY <1>1, <1>6, <1>7, <1>8 DEF j

LEMMA SmallSets ==
  /\ ToSet(<<>>) = {}
  /\ \A e : ToSet(<<e>>) = {e}
  /\ \A e, f : ToSet(<<e, f>>) = {e, f}
<1>1. ToSet(<<>>) = {}
  BY DEF ToSet
<1>2. ASSUME NEW e PROVE ToSet(<<e>>) = {e}
  <2>1. DOMAIN <<e>> = {1}
    OBVIOUS
  <2> QED
    BY <2>1 DEF ToSet
<1>3. ASSUME NEW e, NEW f PROVE ToSet(<<e, f>>) = {e, f}
  <2>1. DOMAIN <<e, f>> = {1, 2}
    OBVIOUS
  <2> QED
    BY <2>1 DEF ToSet
<1> QED
  BY <1>1, <1>2, <1>3

LEMMA BuildPixelBlockIs ==
  ASSUME NEW prev \in Blocks \cup {NoPixels}, NEW block \in Blocks, NEW opaque, NEW damage
  PROVE  LET built == BuildPixelBlock(prev, [block |-> block, opaque |-> opaque], damage)
         IN  built.block \in Blocks /\ built.rects \in SUBSET Int
<1> DEFINE n == Len(block)
           cells == 0..(n - 1)
           clipped == damage \cap cells
           partial == /\ prev # NoPixels /\ Len(prev) = n
                      /\ clipped # {} /\ clipped # cells
           shown == [i \in DOMAIN block |->
                       IF partial /\ (i - 1) \notin clipped THEN prev[i] ELSE block[i]]
           built == BuildPixelBlock(prev, [block |-> block, opaque |-> opaque], damage)
<1>1. n \in Nat /\ n # 0 /\ DOMAIN block = 1..n /\ \A i \in 1..n : block[i] \in Colour
  BY DEF Blocks
<1>2. built.block = shown /\ built.rects = IF partial THEN clipped ELSE cells
  BY DEF BuildPixelBlock
<1>3. cells \in SUBSET Int /\ clipped \in SUBSET Int
  BY <1>1
<1>4. partial => \A i \in 1..n : prev[i] \in Colour
  BY <1>1 DEF Blocks
<1> HIDE DEF partial, clipped, cells, built, n
<1>5. shown \in [1..n -> Colour]
  BY <1>1, <1>4
<1>6. shown \in Seq(Colour) /\ shown # <<>>
  <2>1. shown \in Seq(Colour)
    BY <1>1, <1>5
  <2>2. DOMAIN shown = 1..n
    BY <1>1
  <2> HIDE DEF shown
  <2>3. Len(shown) = n
    BY <1>1, <2>1, <2>2
  <2> QED
    BY <1>1, <2>1, <2>3
<1> HIDE DEF shown
<1> QED
  BY <1>2, <1>3, <1>6 DEF built, Blocks

LEMMA CollectSurfaceIs ==
  ASSUME NEW w, TreeOK(w), NEW x \in DOMAIN w, NEW a \in Acts,
         \A s \in DOMAIN toplevels : toplevels[s] \in Toplevels,
         \A s \in DOMAIN pixels : pixels[s] \in Blocks
  PROVE  /\ CollectSurface(w, x, a) \in Seq(Updates)
         /\ OwnUpdates(ToSet(CollectSurface(w, x, a)), x, a, toplevels)
<1> DEFINE pos == [kind |-> "position", surface |-> x, offset |-> w[x].location]
           position == IF w[x].role = "subsurface" THEN <<pos>> ELSE <<>>
           built == BuildPixelBlock(BlockOf(x), a.buffer, a.damage)
           mapping == x \in DOMAIN toplevels /\ ~toplevels[x].mapped
           geo == [kind |-> "geometry", surface |-> x, size |-> Len(built.block),
                   offset |-> toplevels[x].placement - w[x].origin]
           place == IF mapping THEN <<geo>> ELSE <<>>
           con == [kind |-> "content", surface |-> x, block |-> built.block,
                   opaque |-> a.buffer.opaque, rects |-> built.rects]
           un == [kind |-> "unmap", surface |-> x]
           content == IF a = Nothing THEN <<>> ELSE IF a.kind = "detach" THEN <<un>>
                      ELSE place \o <<con>>
           all == CollectSurface(w, x, a)
<1>1. all = position \o content
  BY DEF CollectSurface
<1>2. x \in Surface /\ w[x].location \in Int /\ w[x].origin \in Int
  BY TreeIs DEF WlSurfaces
<1>3. /\ position \in Seq(Updates)
      /\ \A u \in ToSet(position) : u = pos
      /\ pos \in Updates /\ pos.kind = "position" /\ pos.surface = x
  <2>1. pos \in Updates /\ pos.kind = "position" /\ pos.surface = x
    BY <1>2 DEF Updates
  <2> HIDE DEF pos
  <2> QED
    BY <2>1, SmallSets
<1>4. un \in Updates /\ un.kind = "unmap" /\ un.surface = x
  BY <1>2 DEF Updates
<1>5. ASSUME a # Nothing, a.kind # "detach"
      PROVE  /\ con \in Updates /\ con.kind = "content" /\ con.surface = x
             /\ con.block = built.block /\ con.rects = built.rects
             /\ mapping => geo \in Updates /\ geo.kind = "geometry" /\ geo.surface = x
  <2>1. a \in [kind : {"attach"}, buffer : [block : Blocks, opaque : BOOLEAN], damage : SUBSET Int]
    BY <1>5 DEF Acts, Detach
  <2>2. BlockOf(x) \in Blocks \cup {NoPixels}
    BY DEF BlockOf
  <2>3. PICK block \in Blocks, opaque \in BOOLEAN : a.buffer = [block |-> block, opaque |-> opaque]
    BY <2>1
  <2>4. built.block \in Blocks /\ built.rects \in SUBSET Int /\ a.buffer.opaque \in BOOLEAN
    BY <2>2, <2>3, BuildPixelBlockIs
  <2> HIDE DEF built
  <2>5. /\ con \in Updates /\ con.kind = "content" /\ con.surface = x
        /\ con.block = built.block /\ con.rects = built.rects
    BY <1>2, <2>4 DEF Updates
  <2>6. Len(built.block) \in Nat \ {0}
    BY <2>4 DEF Blocks
  <2>7. ASSUME mapping PROVE geo \in Updates /\ geo.kind = "geometry" /\ geo.surface = x
    <3>1. toplevels[x].placement - w[x].origin \in Int
      BY <1>2, <2>7 DEF Toplevels
    <3> QED
      BY <1>2, <2>6, <3>1 DEF Updates
  <2> QED
    BY <2>5, <2>7
<1> HIDE DEF pos, position, un, con, geo, all, built
<1>6. /\ content \in Seq(Updates)
      /\ \A u \in ToSet(content) : u \in Updates /\ u.surface = x /\ u.kind \in {"content", "unmap", "geometry"}
      /\ \A u \in ToSet(content) : u.kind = "content" => u.block = built.block /\ u.rects = built.rects
      /\ (\E u \in ToSet(content) : u.kind = "content") <=> (a # Nothing /\ a.kind # "detach")
      /\ (\E u \in ToSet(content) : u.kind = "unmap") <=> (a # Nothing /\ a.kind = "detach")
      /\ (\E u \in ToSet(content) : u.kind = "geometry") <=>
            (a # Nothing /\ a.kind # "detach" /\ mapping)
  <2>1. CASE a = Nothing
    BY <2>1, SmallSets
  <2>2. CASE a # Nothing /\ a.kind = "detach"
    BY <1>4, <2>2, SmallSets
  <2>3. CASE a # Nothing /\ a.kind # "detach" /\ ~mapping
    <3>1. content = <<>> \o <<con>>
      BY <2>3
    <3>2. content = <<con>>
      BY <3>1, <1>5, <2>3
    <3> HIDE DEF content, mapping
    <3> QED
      BY <1>5, <2>3, <3>2, SmallSets
  <2>4. CASE a # Nothing /\ a.kind # "detach" /\ mapping
    <3>1. content = <<geo>> \o <<con>>
      BY <2>4
    <3>2. geo \in Updates /\ con \in Updates
      BY <1>5, <2>4
    <3> DEFINE p == <<geo>>
               q == <<con>>
    <3> HIDE DEF content
    <3>5. p \in Seq(Updates) /\ q \in Seq(Updates)
      BY <3>2
    <3>6. ToSet(p) = {geo} /\ ToSet(q) = {con}
      BY SmallSets, Zenon
    <3>7. content = p \o q
      BY <3>1
    <3>3. /\ p \in Seq(Updates) /\ q \in Seq(Updates)
          /\ ToSet(p) = {geo} /\ ToSet(q) = {con} /\ content = p \o q
      BY <3>5, <3>6, <3>7, Zenon
    <3> HIDE DEF p, q
    <3>4. content \in Seq(Updates) /\ ToSet(content) = {geo} \cup {con}
      BY <3>3, JoinedSet
    <3> HIDE DEF mapping
    <3> QED
      BY <1>5, <2>4, <3>4
  <2> QED
    BY <2>1, <2>2, <2>3, <2>4
<1> HIDE DEF content
<1>7. all \in Seq(Updates) /\ ToSet(all) = ToSet(position) \cup ToSet(content)
  BY <1>1, <1>3, <1>6, JoinedSet
<1>8. OwnUpdates(ToSet(all), x, a, toplevels)
  BY <1>3, <1>6, <1>7 DEF OwnUpdates, built
<1> QED
  BY <1>7, <1>8 DEF all

LEMMA GatheredJoin ==
  ASSUME NEW w, NEW assigned, NEW roots, NEW p, NEW q,
         Gathered(p, w, assigned, roots), Gathered(q, w, assigned, roots)
  PROVE  Gathered(p \o q, w, assigned, roots)
<1>1. p \o q \in Seq(Updates) /\ ToSet(p \o q) = ToSet(p) \cup ToSet(q)
  BY JoinedSet DEF Gathered
<1> DEFINE j == p \o q
<1> HIDE DEF j
<1>2. Gathered(j, w, assigned, roots)
  BY <1>1 DEF Gathered, j
<1> QED
  BY <1>2 DEF j

LEMMA GatheredFlat ==
  ASSUME NEW w, NEW assigned, NEW roots, NEW n \in Nat, NEW parts \in [1..n -> Seq(Updates)],
         \A i \in 1..n : Gathered(parts[i], w, assigned, roots)
  PROVE  Gathered(FlattenSeq(parts), w, assigned, roots)
<1> DEFINE j == FlattenSeq(parts)
<1>1. parts \in Seq(Seq(Updates)) /\ Len(parts) = n
  OBVIOUS
<1>2. j \in Seq(Updates) /\ \E from : Sources(from, parts, j)
  BY <1>1, FlattenSeqIs
<1> HIDE DEF j
<1>3. PICK from : Sources(from, parts, j)
  BY <1>2
<1>4. ASSUME NEW u \in ToSet(j) PROVE \E i \in 1..n : u \in ToSet(parts[i])
  <2>1. PICK z \in 1..Len(j) : u = j[z]
    BY <1>2 DEF ToSet
  <2>2. from[z] \in 1..n /\ \E k \in 1..Len(parts[from[z]]) : u = parts[from[z]][k]
    BY <1>1, <1>3, <2>1 DEF Sources
  <2>3. DOMAIN parts[from[z]] = 1..Len(parts[from[z]])
    BY <2>2
  <2> QED
    BY <2>2, <2>3 DEF ToSet
<1>5. ASSUME NEW i \in 1..n, NEW u \in ToSet(parts[i]) PROVE u \in ToSet(j)
  <2>1. DOMAIN parts[i] = 1..Len(parts[i]) /\ DOMAIN j = 1..Len(j)
    BY <1>2
  <2>2. PICK k \in 1..Len(parts[i]) : u = parts[i][k]
    BY <2>1 DEF ToSet
  <2>3. \E z \in 1..Len(j) : j[z] = parts[i][k]
    BY <1>1, <1>3 DEF Sources
  <2> QED
    BY <2>1, <2>2, <2>3 DEF ToSet
<1>6. ASSUME NEW u \in ToSet(j)
      PROVE  /\ u.surface \in DOMAIN w
             /\ u.kind = "order" \/ u.surface \in roots \/ w[u.surface].role = "subsurface"
             /\ IF u.kind = "order" THEN u.order = OrderedChildren(w, u.surface)
                ELSE LET own == ToSet(CollectSurface(w, u.surface, assigned[u.surface]))
                     IN  u \in own /\ own \subseteq ToSet(j)
  <2>1. PICK i \in 1..n : u \in ToSet(parts[i])
    BY <1>4
  <2>2. ToSet(parts[i]) \subseteq ToSet(j)
    BY <1>5
  <2> QED
    BY <2>1, <2>2 DEF Gathered
<1> QED
  BY <1>2, <1>6 DEF Gathered, j

LEMMA GatheredFrom ==
  ASSUME NEW w, NEW assigned, NEW list, NEW S, NEW T, Gathered(list, w, assigned, S),
         \A x \in S \ T : w[x].role = "subsurface"
  PROVE  Gathered(list, w, assigned, T)
BY DEF Gathered

LEMMA CollectTreeIs ==
  ASSUME NEW w, TreeOK(w), NEW s \in DOMAIN w, NEW assigned, AssignedOK(w, assigned),
         \A x \in DOMAIN toplevels : toplevels[x] \in Toplevels,
         \A x \in DOMAIN pixels : pixels[x] \in Blocks
  PROVE  /\ Gathered(CollectTree(w, s, assigned), w, assigned, {s})
         /\ ToSet(CollectSurface(w, s, assigned[s])) \subseteq ToSet(CollectTree(w, s, assigned))
         /\ \E rest : /\ Gathered(rest, w, assigned, {})
                      /\ CollectTree(w, s, assigned) = CollectSurface(w, s, assigned[s]) \o rest
<1> DEFINE n == MAX_SUBSURFACE_DEPTH + 1
           D == DOMAIN w
           own(x) == CollectSurface(w, x, assigned[x])
           V == {f \in [D -> Seq(Updates)] : \A x \in D : Gathered(f[x], w, assigned, {x})}
           order(x) == <<[kind |-> "order", surface |-> x, order |-> OrderedChildren(w, x)]>>
           below(above, x) ==
             FlattenSeq([i \in DOMAIN OrderedChildren(w, x) |->
                           IF OrderedChildren(w, x)[i] = x THEN <<>>
                           ELSE above[OrderedChildren(w, x)[i]]])
           rest(above, x) ==
             IF Len(OrderedChildren(w, x)) <= 1 THEN <<>> ELSE order(x) \o below(above, x)
           Step(above) == [x \in D |-> own(x) \o rest(above, x)]
           step == [d \in 1..n |-> [above \in V |-> Step(above)]]
           start == [x \in D |-> <<>>]
           Whole(f) == [d \in 0..n |-> [x \in D |->
                         IF d = 0 THEN <<>> ELSE own(x) \o rest(f[d - 1], x)]]
<1>1. n \in Nat /\ n # 0 /\ n \in 1..n /\ n - 1 \in 0..n /\ 0 \in 0..n
  BY SurfaceAssumption
<1>2. \A roots : Gathered(<<>>, w, assigned, roots)
  BY SmallSets DEF Gathered
<1>3. start \in V
  <2>1. <<>> \in Seq(Updates)
    OBVIOUS
  <2> QED
    BY <1>2, <2>1
<1>4. ASSUME NEW x \in D PROVE Gathered(own(x), w, assigned, {x}) /\ own(x) \in Seq(Updates)
  <2>1. assigned[x] \in Acts
    BY DEF AssignedOK
  <2>2. own(x) \in Seq(Updates) /\ OwnUpdates(ToSet(own(x)), x, assigned[x], toplevels)
    BY <2>1, CollectSurfaceIs
  <2>3. \A u \in ToSet(own(x)) : u.surface = x /\ u.kind # "order"
    BY <2>2 DEF OwnUpdates
  <2> QED
    BY <2>2, <2>3 DEF Gathered
<1>5. ASSUME NEW x \in D PROVE Gathered(order(x), w, assigned, {})
  <2> DEFINE e == [kind |-> "order", surface |-> x, order |-> OrderedChildren(w, x)]
  <2>1. OrderedChildren(w, x) \in Seq(Surface) /\ x \in Surface
    BY OrderedChildrenAre, TreeIs
  <2>2. e \in Updates /\ e.kind = "order" /\ e.surface = x /\ e.order = OrderedChildren(w, x)
    BY <2>1 DEF Updates
  <2> HIDE DEF e
  <2>3. <<e>> \in Seq(Updates) /\ ToSet(<<e>>) = {e}
    BY <2>2, SmallSets
  <2>4. Gathered(<<e>>, w, assigned, {})
    BY <2>2, <2>3 DEF Gathered
  <2> QED
    BY <2>4 DEF e
<1>6. ASSUME NEW above \in V, NEW x \in D PROVE Gathered(below(above, x), w, assigned, {})
  <2> DEFINE kids == OrderedChildren(w, x)
             m == Len(kids)
             parts == [i \in DOMAIN kids |-> IF kids[i] = x THEN <<>> ELSE above[kids[i]]]
  <2>1. /\ kids \in Seq(Surface)
        /\ \A i \in 1..Len(kids) : /\ kids[i] \in D
                                   /\ kids[i] # x => w[kids[i]].role = "subsurface"
    BY OrderedChildrenAre
  <2> HIDE DEF kids
  <2>2. /\ m \in Nat /\ DOMAIN kids = 1..m
        /\ \A i \in 1..m : kids[i] \in D /\ (kids[i] # x => w[kids[i]].role = "subsurface")
    BY <2>1
  <2> HIDE DEF m
  <2>3. /\ parts \in [1..m -> Seq(Updates)]
        /\ \A i \in 1..m : Gathered(parts[i], w, assigned, {})
    <3>1. ASSUME NEW i \in 1..m, kids[i] # x
          PROVE  above[kids[i]] \in Seq(Updates) /\ Gathered(above[kids[i]], w, assigned, {})
      <4>1. above[kids[i]] \in Seq(Updates) /\ Gathered(above[kids[i]], w, assigned, {kids[i]})
        BY <2>2
      <4>2. \A y \in {kids[i]} \ {} : w[y].role = "subsurface"
        BY <2>2, <3>1
      <4> QED
        BY <4>1, <4>2, GatheredFrom
    <3>2. <<>> \in Seq(Updates)
      OBVIOUS
    <3> QED
      BY <1>2, <2>2, <3>1, <3>2
  <2> HIDE DEF parts
  <2>4. Gathered(FlattenSeq(parts), w, assigned, {})
    BY <2>2, <2>3, GatheredFlat
  <2> QED
    BY <2>4 DEF parts, kids
<1> HIDE DEF own, order, below
<1>7. ASSUME NEW above \in V, NEW x \in D
      PROVE  /\ Gathered(rest(above, x), w, assigned, {})
             /\ Gathered(own(x) \o rest(above, x), w, assigned, {x})
             /\ ToSet(own(x)) \subseteq ToSet(own(x) \o rest(above, x))
  <2>1. Gathered(rest(above, x), w, assigned, {})
    BY <1>2, <1>5, <1>6, GatheredJoin
  <2>5. Gathered(rest(above, x), w, assigned, {x})
    BY <2>1, GatheredFrom
  <2>2. rest(above, x) \in Seq(Updates)
    BY <2>1 DEF Gathered
  <2> HIDE DEF rest
  <2>3. Gathered(own(x) \o rest(above, x), w, assigned, {x})
    BY <1>4, <2>5, GatheredJoin
  <2>4. ToSet(own(x) \o rest(above, x)) = ToSet(own(x)) \cup ToSet(rest(above, x))
    BY <1>4, <2>2, JoinedSet
  <2> QED
    <3>1. ToSet(own(x)) \subseteq ToSet(own(x) \o rest(above, x))
      BY <2>4
    <3> HIDE DEF own
    <3> QED
      BY <2>1, <2>3, <3>1
<1> HIDE DEF rest
<1>8. ASSUME NEW above \in V PROVE Step(above) \in V
  <2>1. \A x \in D : own(x) \o rest(above, x) \in Seq(Updates)
    BY <1>7 DEF Gathered
  <2> QED
    BY <1>7, <2>1
<1> HIDE DEF V, n, Step
<1>9. Steps(n, V, step) /\ \A i \in 1..n : \A v \in V : step[i][v] = Step(v)
  BY <1>8 DEF Steps
<1> HIDE DEF step, start
<1>10. PICK f : Recursive(f, n, V, start, step)
  BY <1>1, <1>3, <1>9, RecursiveFunction
<1>11. f = Whole(f)
  <2>1. \A d \in 1..n : d - 1 \in 0..n /\ d # 0
    BY <1>1
  <2>2. \A d \in 1..n : f[d] = [x \in D |-> own(x) \o rest(f[d - 1], x)]
    BY <1>9, <1>10, <2>1 DEF Recursive, Step
  <2>3. \A d \in 0..n : d = 0 \/ d \in 1..n
    BY <1>1
  <2>4. f[0] = [x \in D |-> <<>>]
    BY <1>10 DEF Recursive, start
  <2>5. ASSUME NEW d \in 0..n
        PROVE  f[d] = [x \in D |-> IF d = 0 THEN <<>> ELSE own(x) \o rest(f[d - 1], x)]
    <3>1. CASE d = 0
      BY <2>4, <3>1
    <3>2. CASE d \in 1..n
      BY <2>1, <2>2, <3>2, ZenonT(60)
    <3> QED
      BY <2>3, <3>1, <3>2
  <2> QED
    BY <1>10, <2>5 DEF Recursive
<1> DEFINE g == CHOOSE g : g = Whole(g)
<1>12. g = Whole(g)
  BY <1>11, ZenonT(60)
<1>13. CollectTree(w, s, assigned) = g[n][s]
  BY DEF CollectTree, n, own, rest, order, below
<1> HIDE DEF g
<1>14. g[0] = start /\ \A d \in 1..n : g[d] = Step(g[d - 1])
  <2>1. \A d \in 1..n : d \in 0..n /\ d # 0
    BY <1>1
  <2>2. g[0] = [x \in D |-> <<>>]
    BY <1>1, <1>12
  <2>3. \A d \in 1..n : g[d] = [x \in D |-> own(x) \o rest(g[d - 1], x)]
    BY <1>12, <2>1
  <2> QED
    BY <2>2, <2>3 DEF start, Step
<1>15. \A d \in 0..n : g[d] \in V
  <2>1. \A d \in 1..n : g[d - 1] \in V => g[d] \in V
    BY <1>8, <1>14
  <2> QED
    BY <1>1, <1>3, <1>14, <2>1, RecursionStays
<1>16. g[n - 1] \in V /\ CollectTree(w, s, assigned) = own(s) \o rest(g[n - 1], s)
  BY <1>1, <1>13, <1>14, <1>15 DEF Step
<1> QED
  BY <1>7, <1>16 DEF own

LEMMA ApplyUpdateIs ==
  ASSUME NEW sc \in Scenes, NEW u \in Updates
  PROVE  LET after == ApplyUpdate(sc, u)
         IN  /\ after \in Scenes
             /\ u.surface \notin Live(sc) => after = sc
             /\ u.surface \in Live(sc) =>
                  \E node : /\ after.nodes = [sc.nodes EXCEPT ![u.surface] = node]
                            /\ NodeAfter(node, sc.nodes[u.surface], u)
<1> DEFINE after == ApplyUpdate(sc, u)
           x == u.surface
           old == sc.nodes[x]
           Done(node) == after.nodes = [sc.nodes EXCEPT ![x] = node] /\ NodeAfter(node, old, u)
<1>1. x \notin Live(sc) => old = old
  OBVIOUS
<1>2. CASE u \in [kind : {"position"}, surface : Surface, offset : Int]
  <2>1. u.kind = "position" /\ u.offset \in Int
    BY <1>2
  <2>2. after = SetSubsurfacePosition(sc, x, u.offset)
    BY <2>1 DEF ApplyUpdate
  <2>3. x \notin Live(sc) => after = sc
    BY <2>2 DEF SetSubsurfacePosition
  <2>4. ASSUME x \in Live(sc)
        PROVE  after \in Scenes /\ Done([old EXCEPT !.offset = u.offset])
    <3>1. old \in Nodes
      BY <2>4, SceneIs
    <3>2. NodeAfter([old EXCEPT !.offset = u.offset], old, u)
      BY <2>1, <3>1 DEF NodeAfter, Nodes
    <3> HIDE DEF after, x, old
    <3> QED
      BY <2>1, <2>2, <2>4, <3>2, SetSubsurfacePositionIs DEF old
  <2> QED
    BY <2>3, <2>4
<1>3. CASE u \in [kind : {"geometry"}, surface : Surface, size : Nat \ {0}, offset : Int]
  <2>1. u.kind = "geometry" /\ u.offset \in Int /\ u.size \in Nat /\ u.size > 0
    BY <1>3
  <2>2. after = SetGeometry(sc, x, u.offset, u.size)
    BY <2>1 DEF ApplyUpdate
  <2>3. x \notin Live(sc) => after = sc
    BY <2>2 DEF SetGeometry
  <2>4. ASSUME x \in Live(sc)
        PROVE  after \in Scenes /\ Done(Sized(old, u.offset, u.size))
    <3>1. old \in Nodes
      BY <2>4, SceneIs
    <3> DEFINE o == u.offset
               z == u.size
    <3>2. NodeAfter(Sized(old, o, z), old, u)
      BY <2>1, <3>1 DEF NodeAfter, Nodes, Sized
    <3>3. o \in Int /\ z \in Nat /\ after = SetGeometry(sc, x, o, z)
      BY <2>1, <2>2
    <3> HIDE DEF after, x, o, z
    <3>4. /\ SetGeometry(sc, x, o, z) \in Scenes
          /\ SetGeometry(sc, x, o, z).nodes =
               [sc.nodes EXCEPT ![x] = Sized(sc.nodes[x], o, z)]
      BY <2>4, <3>3, SetGeometryIs
    <3> QED
      BY <3>2, <3>3, <3>4 DEF o, z
  <2> QED
    BY <2>3, <2>4
<1>4. CASE u \in [kind : {"order"}, surface : Surface, order : Seq(Surface)]
  <2>1. u.kind = "order" /\ u.order \in Seq(Surface)
    BY <1>4
  <2>2. after = SetChildOrder(sc, x, u.order)
    BY <2>1 DEF ApplyUpdate
  <2>3. x \notin Live(sc) => after = sc
    BY <2>2 DEF SetChildOrder
  <2>4. ASSUME x \in Live(sc)
        PROVE  after \in Scenes /\ Done([old EXCEPT !.children = u.order])
    <3>1. old \in Nodes
      BY <2>4, SceneIs
    <3>2. NodeAfter([old EXCEPT !.children = u.order], old, u)
      BY <2>1, <3>1 DEF NodeAfter, Nodes
    <3> HIDE DEF after, x, old
    <3> QED
      BY <2>1, <2>2, <2>4, <3>2, SetChildOrderIs DEF old
  <2> QED
    BY <2>3, <2>4
<1>5. CASE u \in [kind : {"content"}, surface : Surface, block : Blocks, opaque : BOOLEAN,
                  rects : SUBSET Int]
  <2>1. u.kind = "content" /\ u.block \in Blocks /\ u.opaque \in BOOLEAN
    BY <1>5
  <2>2. after = AttachContent(sc, x, u.block, u.opaque, u.rects)
    BY <2>1 DEF ApplyUpdate
  <2>3. x \notin Live(sc) => after = sc
    BY <2>2 DEF AttachContent
  <2>4. ASSUME x \in Live(sc)
        PROVE  after \in Scenes /\ Done(Filled(old, u.block, u.opaque))
    <3>1. old \in Nodes
      BY <2>4, SceneIs
    <3> DEFINE b == u.block
               p == u.opaque
               r == u.rects
    <3>2. Len(b) \in Nat /\ Len(b) > 0 /\ b \in Blocks /\ b # NoPixels
      BY <2>1, SurfaceAssumption DEF Blocks
    <3>5. after = AttachContent(sc, x, b, p, r) /\ p \in BOOLEAN
      BY <2>1, <2>2
    <3> HIDE DEF b, p, r
    <3>3. NodeAfter(Filled(old, b, p), old, u)
      <4>1. Filled(old, b, p).source = b /\ Filled(old, b, p).size = Len(b)
        BY <3>1 DEF Filled, Nodes
      <4>2. Filled(old, b, p) \in Nodes
        BY <3>1, <3>2, <3>5 DEF Nodes, Filled
      <4>3. u.kind = "content" /\ u.block = b
        BY <2>1 DEF b
      <4> QED
        BY <2>1, <3>1, <3>2, <3>5, <4>1, <4>2, <4>3 DEF NodeAfter, Nodes, Filled
    <3> HIDE DEF x, after
    <3>4. /\ AttachContent(sc, x, b, p, r) \in Scenes
          /\ AttachContent(sc, x, b, p, r).nodes =
               [sc.nodes EXCEPT ![x] = Filled(sc.nodes[x], b, p)]
      BY <2>4, <3>2, <3>5, AttachContentIs
    <3> QED
      BY <3>3, <3>4, <3>5 DEF b, p
  <2> QED
    BY <2>3, <2>4
<1>6. CASE u \in [kind : {"unmap"}, surface : Surface]
  <2>1. u.kind = "unmap"
    BY <1>6
  <2>2. after = ClearSource(sc, x)
    BY <2>1 DEF ApplyUpdate
  <2>3. x \notin Live(sc) => after = sc
    BY <2>2 DEF ClearSource
  <2>4. ASSUME x \in Live(sc)
        PROVE  after \in Scenes /\ Done([old EXCEPT !.source = NoPixels, !.opaque = FALSE])
    <3>1. old \in Nodes
      BY <2>4, SceneIs
    <3>2. NodeAfter([old EXCEPT !.source = NoPixels, !.opaque = FALSE], old, u)
      BY <2>1, <3>1 DEF NodeAfter, Nodes
    <3> HIDE DEF after, x, old
    <3> QED
      BY <2>2, <2>4, <3>2, ClearSourceIs, Zenon DEF old
  <2> QED
    BY <2>3, <2>4
<1> QED
  BY <1>2, <1>3, <1>4, <1>5, <1>6 DEF Updates

LEMMA NodeSinceNext ==
  ASSUME NEW updates, NEW i \in Nat, NEW x, NEW before, NEW node, NEW next,
         NodeSince(node, before, updates, i, x),
         LET u == updates[i + 1]
         IN  IF u.surface = x THEN NodeAfter(next, node, u) ELSE next = node,
         updates[i + 1] \in Updates,
         ~(Among(updates, i + 1, "content", x) /\ Among(updates, i + 1, "unmap", x))
  PROVE  NodeSince(next, before, updates, i + 1, x)
<1> DEFINE u == updates[i + 1]
<1>1. \A j \in 1..i : j \in 1..(i + 1)
  OBVIOUS
<1>2. i + 1 \in 1..(i + 1) /\ \A j \in 1..(i + 1) : j \in 1..i \/ j = i + 1
  OBVIOUS
<1>3. \A kind : Among(updates, i + 1, kind, x) <=>
                  Among(updates, i, kind, x) \/ (u.kind = kind /\ u.surface = x)
  BY <1>1, <1>2 DEF Among
<1>4. CASE u.surface # x
  <2>1. next = node
    BY <1>4
  <2>2. \A kind : Among(updates, i + 1, kind, x) <=> Among(updates, i, kind, x)
    BY <1>3, <1>4
  <2> HIDE DEF u
  <2> QED
    BY <1>1, <2>1, <2>2 DEF NodeSince
<1>5. CASE u.surface = x
  <2>1. NodeAfter(next, node, u)
    BY <1>5
  <2> HIDE DEF u
  <2>2. /\ next.client = before.client /\ next.role = before.role /\ next.parent = before.parent
    BY <2>1 DEF NodeAfter, NodeSince
  <2>3. \/ next.children = before.children
        \/ \E j \in 1..(i + 1) : /\ updates[j].kind = "order" /\ updates[j].surface = x
                                 /\ next.children = updates[j].order
    <3>1. CASE u.kind = "order"
      BY <1>2, <1>5, <2>1, <3>1 DEF NodeAfter, u
    <3>2. CASE u.kind # "order"
      BY <1>1, <2>1, <3>2 DEF NodeAfter, NodeSince
    <3> QED
      BY <3>1, <3>2
  <2>4. /\ next.source # NoPixels <=>
             \/ Among(updates, i + 1, "content", x)
             \/ before.source # NoPixels /\ ~Among(updates, i + 1, "unmap", x)
        /\ next.source # NoPixels => next.size > 0
    <3>1. CASE u.kind = "content"
      BY <1>3, <1>5, <2>1, <3>1 DEF NodeAfter
    <3>2. CASE u.kind = "unmap"
      BY <1>3, <1>5, <2>1, <3>2 DEF NodeAfter
    <3>3. CASE u.kind \notin {"content", "unmap"}
      BY <1>3, <2>1, <3>3 DEF NodeAfter, NodeSince
    <3> QED
      BY <3>1, <3>2, <3>3
  <2>5. Among(updates, i + 1, "content", x) =>
          \E j \in 1..(i + 1) : /\ updates[j].kind = "content" /\ updates[j].surface = x
                               /\ next.source = updates[j].block
    <3>1. CASE u.kind = "content"
      BY <1>2, <1>5, <2>1, <3>1 DEF NodeAfter, u
    <3>2. CASE u.kind = "unmap"
      BY <1>3, <1>5, <3>2
    <3>3. CASE u.kind \notin {"content", "unmap"}
      <4>1. next.source = node.source
        BY <2>1, <3>3 DEF NodeAfter
      <4>2. Among(updates, i + 1, "content", x) => Among(updates, i, "content", x)
        BY <1>3, <3>3
      <4> QED
        BY <1>1, <4>1, <4>2 DEF NodeSince
    <3> QED
      BY <3>1, <3>2, <3>3
  <2>6. ~Among(updates, i + 1, "content", x) /\ ~Among(updates, i + 1, "unmap", x) =>
          next.source = before.source
    BY <1>3, <1>5, <2>1 DEF NodeAfter, NodeSince
  <2> QED
    BY <2>2, <2>3, <2>4, <2>5, <2>6 DEF NodeSince
<1> QED
  BY <1>4, <1>5

LEMMA AppliedIs ==
  ASSUME NEW sc \in Scenes, NEW updates \in Seq(Updates), Decided(updates),
         \A x \in Live(sc) : sc.nodes[x].source # NoPixels => sc.nodes[x].size > 0
  PROVE  LeadsThrough(Applied(sc, updates), sc, updates)
<1> DEFINE n == Len(updates)
           L == Live(sc)
           V == Scenes
           step == [i \in 1..n |-> [s \in V |-> ApplyUpdate(s, updates[i])]]
           Whole(f) == [i \in 0..n |-> IF i = 0 THEN sc ELSE ApplyUpdate(f[i - 1], updates[i])]
           Since(s, i) == /\ s \in Scenes /\ Live(s) = L
                          /\ \A x \in L : NodeSince(s.nodes[x], sc.nodes[x], updates, i, x)
<1>1. n \in Nat /\ \A i \in 1..n : updates[i] \in Updates
  OBVIOUS
<1> HIDE DEF n
<1>2. \A i \in 1..n : \A s \in V : ApplyUpdate(s, updates[i]) \in V
  BY <1>1, ApplyUpdateIs
<1> HIDE DEF V
<1>3. Steps(n, V, step) /\ \A i \in 1..n : \A s \in V : step[i][s] = ApplyUpdate(s, updates[i])
  BY <1>2 DEF Steps
<1> HIDE DEF step
<1>4. sc \in V
  BY DEF V
<1>5. PICK f : Recursive(f, n, V, sc, step)
  BY <1>1, <1>3, <1>4, RecursiveFunction
<1>6. f = Whole(f)
  <2>1. \A i \in 1..n : i - 1 \in 0..n /\ i # 0
    BY <1>1
  <2>2. \A i \in 1..n : f[i] = ApplyUpdate(f[i - 1], updates[i])
    BY <1>3, <1>5, <2>1 DEF Recursive
  <2>3. \A i \in 0..n : i = 0 \/ i \in 1..n
    BY <1>1
  <2> QED
    BY <1>5, <2>1, <2>2, <2>3 DEF Recursive
<1> DEFINE g == CHOOSE g : g = Whole(g)
<1>7. g = Whole(g)
  BY <1>6
<1>8. Applied(sc, updates) = g
  BY DEF Applied, n
<1> HIDE DEF g
<1>9. g[0] = sc /\ \A i \in 1..n : g[i] = ApplyUpdate(g[i - 1], updates[i])
  <2>1. \A i \in 1..n : i \in 0..n /\ i # 0
    BY <1>1
  <2>2. 0 \in 0..n
    BY <1>1
  <2> QED
    BY <1>7, <2>1, <2>2
<1> DEFINE S == {i \in 0..n : Since(g[i], i)}
<1>10. 0 \in S
  <2>1. \A x \in L : NodeSince(sc.nodes[x], sc.nodes[x], updates, 0, x)
    BY DEF NodeSince, Among
  <2>2. Since(sc, 0) /\ 0 \in 0..n
    BY <1>1, <2>1
  <2> HIDE DEF Since
  <2> QED
    BY <1>9, <2>2
<1>11. ASSUME NEW i \in 0..n, i \in S, i < n PROVE i + 1 \in S
  <2> DEFINE u == updates[i + 1]
             s == g[i]
             t == g[i + 1]
  <2>1. i + 1 \in 1..n /\ (i + 1) - 1 = i /\ i \in Nat /\ i + 1 \in 0..n
    BY <1>1, <1>11
  <2>2. u \in Updates /\ t = ApplyUpdate(s, u)
    BY <1>1, <1>9, <2>1
  <2>3. Since(s, i)
    BY <1>11
  <2> HIDE DEF s, t
  <2>4. /\ t \in Scenes
        /\ u.surface \notin L => t = s
        /\ u.surface \in L =>
             \E node : /\ t.nodes = [s.nodes EXCEPT ![u.surface] = node]
                       /\ NodeAfter(node, s.nodes[u.surface], u)
    BY <2>2, <2>3, ApplyUpdateIs
  <2>5. s.nodes \in [L -> Nodes]
    BY <2>3, SceneIs
  <2> HIDE DEF u, L
  <2>6. Live(t) = L
    BY <2>3, <2>4, <2>5 DEF Live
  <2>7. ASSUME NEW x \in L
        PROVE  IF u.surface = x THEN NodeAfter(t.nodes[x], s.nodes[x], u) ELSE t.nodes[x] = s.nodes[x]
    BY <2>4, <2>5, <2>7
  <2>8. ASSUME NEW x \in L PROVE NodeSince(t.nodes[x], sc.nodes[x], updates, i + 1, x)
    <3>1. NodeSince(s.nodes[x], sc.nodes[x], updates, i, x)
      BY <2>3
    <3>2. ~(Among(updates, i + 1, "content", x) /\ Among(updates, i + 1, "unmap", x))
      <4>1. \A j \in 1..(i + 1) : j \in 1..n
        BY <1>1, <2>1
      <4> QED
        BY <4>1 DEF Decided, Among, n
    <3> DEFINE node == s.nodes[x]
               before == sc.nodes[x]
               next == t.nodes[x]
    <3>3. /\ NodeSince(node, before, updates, i, x)
          /\ IF updates[i + 1].surface = x THEN NodeAfter(next, node, updates[i + 1]) ELSE next = node
          /\ updates[i + 1] \in Updates
      BY <2>2, <2>7, <3>1 DEF u
    <3> HIDE DEF node, before, next
    <3>4. NodeSince(next, before, updates, i + 1, x)
      BY <2>1, <3>2, <3>3, NodeSinceNext
    <3> QED
      BY <3>4 DEF next, before
  <2>9. Since(t, i + 1)
    BY <2>4, <2>6, <2>8
  <2> QED
    BY <2>1, <2>9 DEF t
<1> HIDE DEF S
<1>12. \A i \in 0..n : i \in S
  BY <1>1, <1>10, <1>11, IntervalInduction
<1>13. \A i \in 0..n : Since(g[i], i)
  BY <1>12 DEF S
<1>14. LeadsThrough(g, sc, updates)
  BY <1>9, <1>13 DEF LeadsThrough, n, L
<1> QED
  BY <1>8, <1>14

LEMMA ApplyCommitIs ==
  ASSUME NEW sc \in Scenes, NEW updates \in Seq(Updates), Decided(updates),
         \A x \in Live(sc) : sc.nodes[x].source # NoPixels => sc.nodes[x].size > 0
  PROVE  LET after == ApplyCommit(sc, updates)
         IN  /\ after \in Scenes
             /\ Live(after) = Live(sc)
             /\ \A x \in Live(sc) :
                  NodeSince(after.nodes[x], sc.nodes[x], updates, Len(updates), x)
<1>1. Len(updates) \in 0..Len(updates)
  OBVIOUS
<1> QED
  BY <1>1, AppliedIs DEF ApplyCommit, LeadsThrough

-----------------------------------------------------------------------------
(* The routing table.                                                        *)

LEMMA ShiftedIs ==
  ASSUME NEW placed \in Seq(Spots), NEW by \in Int
  PROVE  /\ Shifted(placed, by) \in Seq(Spots)
         /\ Len(Shifted(placed, by)) = Len(placed)
         /\ \A i \in 1..Len(placed) : Shifted(placed, by)[i][1] = placed[i][1]
<1> DEFINE n == Len(placed)
           new == Shifted(placed, by)
<1>1. n \in Nat /\ DOMAIN placed = 1..n /\ \A i \in 1..n : placed[i] \in Spots
  OBVIOUS
<1>2. \A i \in 1..n : placed[i][1] \in Surface /\ placed[i][2] \in Int
  BY <1>1 DEF Spots
<1>3. new = [i \in 1..n |-> <<placed[i][1], placed[i][2] + by>>]
  BY <1>1 DEF Shifted
<1>4. \A i \in 1..n : <<placed[i][1], placed[i][2] + by>> \in Spots
  BY <1>2 DEF Spots
<1> HIDE DEF n, new
<1>5. new \in [1..n -> Spots] /\ \A i \in 1..n : new[i][1] = placed[i][1]
  BY <1>3, <1>4
<1>6. new \in Seq(Spots) /\ Len(new) = n
  BY <1>1, <1>5
<1> QED
  BY <1>5, <1>6 DEF n, new

LEMMA ShiftedShows ==
  ASSUME NEW w, NEW pix, NEW root, NEW shown, Shows(shown, w, pix, root), NEW by \in Int
  PROVE  Shows(Shifted(shown, by), w, pix, root)
<1> DEFINE new == Shifted(shown, by)
<1>1. shown \in Seq(Spots)
  BY DEF Shows
<1>2. new \in Seq(Spots) /\ Len(new) = Len(shown) /\ \A i \in 1..Len(shown) : new[i][1] = shown[i][1]
  BY <1>1, ShiftedIs
<1> HIDE DEF new
<1> QED
  BY <1>2 DEF Shows, new

LEMMA FlattenForInputIs ==
  ASSUME NEW w, TreeOK(w), NEW pix, DOMAIN pix \in SUBSET (DOMAIN w),
         NEW root \in DOMAIN w, NEW origin \in Int
  PROVE  LET shown == FlattenForInput(w, pix, root, origin)
         IN  /\ Shows(shown, w, pix, root)
             /\ root \in DOMAIN pix => \E i \in 1..Len(shown) : shown[i][1] = root
<1> DEFINE n == MAX_SUBSURFACE_DEPTH + 1
           D == DOMAIN w
           own(x) == IF x \in DOMAIN pix THEN << <<x, 0>> >> ELSE <<>>
           V == {f \in [D -> Seq(Spots)] : \A x \in D : Shows(f[x], w, pix, x)}
           parts(above, x) ==
             [i \in DOMAIN OrderedChildren(w, x) |->
                IF OrderedChildren(w, x)[i] = x THEN own(x)
                ELSE Shifted(above[OrderedChildren(w, x)[i]], w[OrderedChildren(w, x)[i]].location)]
           flat(above, x) == FlattenSeq(parts(above, x))
           Step(above) == [x \in D |-> flat(above, x)]
           step == [d \in 1..n |-> [above \in V |-> Step(above)]]
           start == [x \in D |-> <<>>]
           Whole(f) == [d \in 0..n |-> [x \in D |-> IF d = 0 THEN <<>> ELSE flat(f[d - 1], x)]]
<1>1. n \in Nat /\ n # 0 /\ n \in 1..n /\ n - 1 \in 0..n /\ 0 \in 0..n
  BY SurfaceAssumption
<1>2. \A x : Shows(<<>>, w, pix, x) /\ <<>> \in Seq(Spots)
  BY DEF Shows
<1>3. start \in V
  BY <1>2
<1>4. ASSUME NEW x \in D
      PROVE  /\ Shows(own(x), w, pix, x)
             /\ x \in DOMAIN pix => Len(own(x)) = 1 /\ own(x)[1][1] = x
  <2>1. <<x, 0>> \in Spots /\ <<x, 0>>[1] = x
    BY TreeIs DEF Spots
  <2> DEFINE e == <<x, 0>>
  <2>2. e \in Spots /\ e[1] = x
    BY <2>1
  <2> HIDE DEF e
  <2>3. <<e>> \in Seq(Spots) /\ Len(<<e>>) = 1 /\ <<e>>[1] = e /\ \A i \in 1..1 : i = 1
    BY <2>2
  <2>4. CASE x \in DOMAIN pix
    <3>1. own(x) = <<e>>
      BY <2>4 DEF e
    <3> HIDE DEF own
    <3> QED
      BY <2>2, <2>3, <2>4, <3>1 DEF Shows
  <2>5. CASE x \notin DOMAIN pix
    BY <1>2, <2>5
  <2> QED
    BY <2>4, <2>5
<1> HIDE DEF own
<1>5. ASSUME NEW above \in V, NEW x \in D
      PROVE  /\ Shows(flat(above, x), w, pix, x)
             /\ x \in DOMAIN pix => \E i \in 1..Len(flat(above, x)) : flat(above, x)[i][1] = x
  <2> DEFINE kids == OrderedChildren(w, x)
             m == Len(kids)
             list == [i \in DOMAIN kids |-> IF kids[i] = x THEN own(x)
                                            ELSE Shifted(above[kids[i]], w[kids[i]].location)]
             j == FlattenSeq(list)
  <2>1. /\ kids \in Seq(Surface) /\ \E i \in 1..Len(kids) : kids[i] = x
        /\ \A i \in 1..Len(kids) :
             kids[i] \in D /\ (kids[i] # x => w[kids[i]].role = "subsurface")
    BY OrderedChildrenAre
  <2>2. flat(above, x) = j
    OBVIOUS
  <2> HIDE DEF kids
  <2>3. /\ m \in Nat /\ DOMAIN kids = 1..m /\ \E i \in 1..m : kids[i] = x
        /\ \A i \in 1..m : kids[i] \in D /\ (kids[i] # x => w[kids[i]].role = "subsurface")
    BY <2>1
  <2> HIDE DEF m
  <2>4. ASSUME NEW i \in 1..m
        PROVE  /\ list[i] \in Seq(Spots)
               /\ \A k \in 1..Len(list[i]) :
                    /\ list[i][k][1] \in DOMAIN pix
                    /\ list[i][k][1] = x \/ w[list[i][k][1]].role = "subsurface"
    <3>1. CASE kids[i] = x
      <4>1. list[i] = own(x)
        BY <2>3, <3>1
      <4> HIDE DEF list
      <4> QED
        BY <1>4, <4>1 DEF Shows
    <3>2. CASE kids[i] # x
      <4> DEFINE c == kids[i]
                 part == Shifted(above[c], w[c].location)
      <4>1. c \in D /\ w[c].role = "subsurface"
        BY <2>3, <3>2
      <4>2. w[c].location \in Int
        BY <4>1, TreeIs DEF WlSurfaces
      <4>3. Shows(above[c], w, pix, c)
        BY <4>1
      <4>4. list[i] = part
        BY <2>3, <3>2
      <4> HIDE DEF c, list
      <4>5. Shows(part, w, pix, c)
        BY <4>2, <4>3, ShiftedShows
      <4> HIDE DEF part
      <4> QED
        BY <4>1, <4>4, <4>5 DEF Shows
    <3> QED
      BY <3>1, <3>2, ZenonT(60)
  <2>5. list \in [1..m -> Seq(Spots)]
    <3>1. list = [i \in 1..m |-> list[i]]
      BY <2>3
    <3> HIDE DEF list
    <3> QED
      BY <2>4, <3>1
  <2>6. PICK o \in 1..m : kids[o] = x /\ list[o] = own(x)
    BY <2>3
  <2> HIDE DEF list
  <2>7. list \in Seq(Seq(Spots)) /\ Len(list) = m
    BY <2>3, <2>5
  <2>8. j \in Seq(Spots) /\ \E from : Sources(from, list, j)
    BY <2>7, FlattenSeqIs
  <2> HIDE DEF j
  <2>9. PICK from : Sources(from, list, j)
    BY <2>8
  <2>10. ASSUME NEW z \in 1..Len(j)
         PROVE  j[z][1] \in DOMAIN pix /\ (j[z][1] = x \/ w[j[z][1]].role = "subsurface")
    <3>1. from[z] \in 1..m /\ \E k \in 1..Len(list[from[z]]) : j[z] = list[from[z]][k]
      BY <2>7, <2>9 DEF Sources
    <3> QED
      BY <2>4, <3>1
  <2>11. ASSUME x \in DOMAIN pix PROVE \E z \in 1..Len(j) : j[z][1] = x
    <3>1. 1 \in 1..Len(list[o]) /\ list[o][1][1] = x
      BY <1>4, <2>6, <2>11
    <3>2. \E z \in 1..Len(j) : j[z] = list[o][1]
      BY <2>7, <2>9, <3>1 DEF Sources
    <3> QED
      BY <3>1, <3>2
  <2>12. Shows(j, w, pix, x)
    BY <2>8, <2>10 DEF Shows
  <2> QED
    BY <2>2, <2>11, <2>12
<1> HIDE DEF flat
<1>6. ASSUME NEW above \in V PROVE Step(above) \in V
  <2>1. \A x \in D : flat(above, x) \in Seq(Spots)
    BY <1>5 DEF Shows
  <2> QED
    BY <1>5, <2>1
<1> HIDE DEF V, n, Step
<1>7. Steps(n, V, step) /\ \A i \in 1..n : \A v \in V : step[i][v] = Step(v)
  BY <1>6 DEF Steps
<1> HIDE DEF step, start
<1>8. PICK f : Recursive(f, n, V, start, step)
  BY <1>1, <1>3, <1>7, RecursiveFunction
<1>9. f = Whole(f)
  <2>1. \A d \in 1..n : d - 1 \in 0..n /\ d # 0
    BY <1>1
  <2>2. \A d \in 1..n : f[d] = [x \in D |-> flat(f[d - 1], x)]
    BY <1>7, <1>8, <2>1 DEF Recursive, Step
  <2>3. \A d \in 0..n : d = 0 \/ d \in 1..n
    BY <1>1
  <2>4. f[0] = [x \in D |-> <<>>]
    BY <1>8 DEF Recursive, start
  <2>5. ASSUME NEW d \in 0..n
        PROVE  f[d] = [x \in D |-> IF d = 0 THEN <<>> ELSE flat(f[d - 1], x)]
    <3>1. CASE d = 0
      BY <2>4, <3>1
    <3>2. CASE d \in 1..n
      BY <2>1, <2>2, <3>2
    <3> QED
      BY <2>3, <3>1, <3>2
  <2> QED
    BY <1>8, <2>5 DEF Recursive
<1> DEFINE g == CHOOSE g : g = Whole(g)
<1>10. g = Whole(g)
  BY <1>9
<1>11. FlattenForInput(w, pix, root, origin) = Shifted(g[n][root], origin)
  BY DEF FlattenForInput, n, flat, own
<1> HIDE DEF g
<1>12. g[0] = start /\ \A d \in 1..n : g[d] = Step(g[d - 1])
  <2>1. \A d \in 1..n : d \in 0..n /\ d # 0
    BY <1>1
  <2>2. g[0] = [x \in D |-> <<>>]
    BY <1>1, <1>10
  <2>3. \A d \in 1..n : g[d] = [x \in D |-> flat(g[d - 1], x)]
    BY <1>10, <2>1
  <2> QED
    BY <2>2, <2>3 DEF start, Step
<1>13. \A d \in 0..n : g[d] \in V
  <2>1. \A d \in 1..n : g[d - 1] \in V => g[d] \in V
    BY <1>6, <1>12
  <2> QED
    BY <1>1, <1>3, <1>12, <2>1, RecursionStays
<1> DEFINE all == flat(g[n - 1], root)
           shown == Shifted(all, origin)
<1>14. /\ Shows(all, w, pix, root)
       /\ root \in DOMAIN pix => \E i \in 1..Len(all) : all[i][1] = root
       /\ FlattenForInput(w, pix, root, origin) = shown
  <2>1. g[n - 1] \in V /\ g[n][root] = all
    BY <1>1, <1>12, <1>13 DEF Step
  <2> QED
    BY <1>5, <1>11, <2>1
<1> HIDE DEF all
<1>15. all \in Seq(Spots)
  BY <1>14 DEF Shows
<1>16. Shows(shown, w, pix, root)
  BY <1>14, ShiftedShows
<1>17. Len(shown) = Len(all) /\ \A i \in 1..Len(all) : shown[i][1] = all[i][1]
  BY <1>15, ShiftedIs
<1> HIDE DEF shown
<1> QED
  BY <1>14, <1>16, <1>17

LEMMA RoutingIs ==
  ASSUME NEW w, TreeOK(w), NEW pix, NEW tops, ToplevelsOK(w, pix, tops)
  PROVE  /\ TableOK(RefreshInputRouting(w, pix, tops), MappedToplevels(tops))
         /\ DOMAIN RefreshInputRouting(w, pix, tops) \subseteq DOMAIN pix
<1> DEFINE T == MappedToplevels(tops)
           roots == Ascending(T)
           m == Len(roots)
           parts == [i \in DOMAIN roots |->
                       FlattenForInput(w, pix, roots[i], tops[roots[i]].placement)]
           shown == FlattenSeq(parts)
           l == Len(shown)
           Ranks(s) == {z \in 1..l : shown[z][1] = s}
           last(s) == Max(Ranks(s))
           S == {shown[z][1] : z \in 1..l}
           table == RefreshInputRouting(w, pix, tops)
<1>1. /\ T \in SUBSET Surface /\ \A s \in T : s \in Nat
      /\ \A s \in T : /\ s \in DOMAIN w /\ s \in DOMAIN tops /\ s \in DOMAIN pix
                      /\ w[s].role = "toplevel" /\ tops[s].placement \in Int
  BY SurfaceAssumption DEF TreeOK, ToplevelsOK, MappedToplevels, Toplevels
<1>2. roots \in Seq(T) /\ Lists(roots, T)
  BY <1>1, AscendingLists DEF Lists
<1>3. \A s \in T : tops[s].mapped
  BY DEF MappedToplevels
<1> HIDE DEF roots
<1>4. /\ m \in Nat /\ DOMAIN roots = 1..m /\ \A i \in 1..m : roots[i] \in T
      /\ \A s \in T : \E i \in 1..m : roots[i] = s
      /\ \A i, j \in 1..m : i < j => roots[i] < roots[j]
  BY <1>2 DEF Lists
<1> HIDE DEF m
<1>5. ASSUME NEW i \in 1..m
      PROVE  /\ Shows(parts[i], w, pix, roots[i])
             /\ \E k \in 1..Len(parts[i]) : parts[i][k][1] = roots[i]
  <2>1. parts[i] = FlattenForInput(w, pix, roots[i], tops[roots[i]].placement)
    BY <1>4
  <2> DEFINE r == roots[i]
             p == tops[r].placement
  <2>2. r \in DOMAIN w /\ p \in Int /\ r \in DOMAIN pix /\ DOMAIN pix \in SUBSET (DOMAIN w)
    BY <1>1, <1>4 DEF ToplevelsOK
  <2>3. parts[i] = FlattenForInput(w, pix, r, p)
    BY <2>1
  <2> HIDE DEF r, p, parts
  <2>4. Shows(parts[i], w, pix, r) /\ \E k \in 1..Len(parts[i]) : parts[i][k][1] = r
    BY <2>2, <2>3, FlattenForInputIs
  <2> QED
    BY <2>4 DEF r
<1>6. DOMAIN parts = 1..m /\ parts \in [1..m -> Seq(Spots)]
  <2>1. parts = [i \in 1..m |-> parts[i]]
    BY <1>4
  <2> HIDE DEF parts
  <2> QED
    BY <1>5, <2>1 DEF Shows
<1> HIDE DEF parts
<1>7. parts \in Seq(Seq(Spots)) /\ Len(parts) = m
  BY <1>4, <1>6
<1>8. shown \in Seq(Spots) /\ \E from : Sources(from, parts, shown)
  BY <1>7, FlattenSeqIs
<1>9. table = [s \in {shown[z][1] : z \in DOMAIN shown} |->
                 Focus!Entry(shown[Max({z \in DOMAIN shown : shown[z][1] = s})][2]
                               ..(shown[Max({z \in DOMAIN shown : shown[z][1] = s})][2] + Len(pix[s]) - 1),
                             Max({z \in DOMAIN shown : shown[z][1] = s}), s \in DOMAIN tops)]
  BY DEF RefreshInputRouting, parts, roots, MappedToplevels
<1> HIDE DEF shown
<1>10. PICK from : Sources(from, parts, shown)
  BY <1>8
<1>11. l \in Nat /\ DOMAIN shown = 1..l /\ \A z \in 1..l : shown[z] \in Spots
  BY <1>8
<1> HIDE DEF l
<1>12. \A z \in 1..l : shown[z][1] \in Surface
  BY <1>11 DEF Spots
<1>13. /\ table = [s \in S |-> Focus!Entry(shown[last(s)][2]..(shown[last(s)][2] + Len(pix[s]) - 1),
                                          last(s), s \in DOMAIN tops)]
  BY <1>9, <1>11
<1> HIDE DEF table
<1>14. ASSUME NEW s \in S PROVE last(s) \in 1..l /\ shown[last(s)][1] = s
  <2>1. Ranks(s) \in SUBSET (1..l) /\ Ranks(s) # {}
    OBVIOUS
  <2>2. last(s) \in Ranks(s)
    BY <1>11, <2>1, MaxIsIn
  <2> QED
    BY <2>2
<1> HIDE DEF last
<1>15. /\ DOMAIN table = S
       /\ \A s \in S : table[s].focusable = (s \in DOMAIN tops) /\ table[s].z = last(s)
  BY <1>13 DEF Focus!Entry
<1>16. S \in SUBSET Surface
  BY <1>12
<1>17. S \subseteq DOMAIN pix
  <2>1. ASSUME NEW z \in 1..l PROVE shown[z][1] \in DOMAIN pix
    <3> DEFINE i == from[z]
    <3>1. i \in 1..m /\ \E k \in 1..Len(parts[i]) : shown[z] = parts[i][k]
      BY <1>7, <1>10 DEF Sources, l
    <3> HIDE DEF i
    <3> QED
      BY <1>5, <3>1 DEF Shows
  <2> QED
    BY <2>1
<1>23. table \in [S -> Entries]
  <2>1. ASSUME NEW s \in S PROVE table[s] \in Entries
    <3> DEFINE at == shown[last(s)][2]
               cells == at..(at + Len(pix[s]) - 1)
               is == s \in DOMAIN tops
    <3>1. table[s] = [cells |-> cells, z |-> last(s), focusable |-> is]
      BY <1>13 DEF Focus!Entry
    <3>2. at \in Int /\ last(s) \in Nat
      BY <1>11, <1>14 DEF Spots
    <3>3. Len(pix[s]) \in Nat
      BY <1>17 DEF ToplevelsOK, Blocks
    <3>4. cells \in SUBSET Int
      BY <3>2, <3>3
    <3>5. is \in BOOLEAN
      <4>1. CASE is
        BY <4>1
      <4>2. CASE ~is
        BY <4>2
      <4> QED
        BY <4>1, <4>2
    <3> HIDE DEF cells, is
    <3> QED
      BY <3>1, <3>2, <3>4, <3>5 DEF Entries
  <2> QED
    BY <1>13, <2>1
(* A window is in its own tree only, and there it is.                        *)
<1>18. ASSUME NEW z \in 1..l, shown[z][1] \in DOMAIN tops
       PROVE  from[z] \in 1..m /\ roots[from[z]] = shown[z][1]
  <2>1. from[z] \in 1..m /\ \E k \in 1..Len(parts[from[z]]) : shown[z] = parts[from[z]][k]
    BY <1>7, <1>10 DEF Sources, l
  <2>2. shown[z][1] = roots[from[z]] \/ w[shown[z][1]].role = "subsurface"
    BY <1>5, <2>1 DEF Shows
  <2>3. w[shown[z][1]].role = "toplevel"
    BY <1>18 DEF ToplevelsOK
  <2> QED
    BY <2>1, <2>2, <2>3
<1>19. ASSUME NEW s \in T PROVE s \in S
  <2>1. PICK i \in 1..m : roots[i] = s
    BY <1>4
  <2>2. PICK k \in 1..Len(parts[i]) : parts[i][k][1] = s
    BY <1>5, <2>1
  <2>3. \E z \in 1..l : shown[z] = parts[i][k]
    BY <1>7, <1>10, <2>2 DEF Sources, l
  <2> QED
    BY <2>2, <2>3
<1>20. ASSUME NEW s \in S, s \in DOMAIN tops PROVE s \in T
  <2>1. PICK z \in 1..l : shown[z][1] = s
    OBVIOUS
  <2>2. from[z] \in 1..m /\ roots[from[z]] = s
    BY <1>18, <1>20, <2>1
  <2> QED
    BY <1>4, <2>2
<1>21. Focusable(table) = T
  BY <1>1, <1>15, <1>19, <1>20 DEF Focusable
<1>22. ASSUME NEW r \in T, NEW s \in T, r < s PROVE table[r].z < table[s].z
  <2> DEFINE y == last(r)
             z == last(s)
  <2>1. y \in 1..l /\ z \in 1..l /\ shown[y][1] = r /\ shown[z][1] = s
    BY <1>14, <1>19
  <2>2. table[r].z = y /\ table[s].z = z
    BY <1>15, <1>19
  <2> HIDE DEF y, z
  <2>3. from[y] \in 1..m /\ roots[from[y]] = r /\ from[z] \in 1..m /\ roots[from[z]] = s
    BY <1>1, <1>18, <2>1
  <2> DEFINE i == from[y]
             j == from[z]
  <2>4. i \in 1..m /\ j \in 1..m /\ roots[i] = r /\ roots[j] = s
    BY <2>3
  <2> HIDE DEF i, j
  <2>5. r \in Nat /\ s \in Nat
    BY <1>1
  <2>6. i < j
    <3>1. i \in Nat /\ j \in Nat
      BY <1>4, <2>4
    <3>2. i # j
      BY <1>22, <2>4, <2>5
    <3>3. ~(j < i)
      BY <1>4, <1>22, <2>4, <2>5
    <3> QED
      BY <3>1, <3>2, <3>3
  <2>7. ASSUME z <= y PROVE FALSE
    <3>1. j <= i
      BY <1>10, <2>1, <2>7 DEF Sources, l, i, j
    <3> QED
      BY <1>4, <2>4, <2>6, <3>1
  <2> QED
    BY <1>11, <2>1, <2>2, <2>7
<1> QED
  BY <1>15, <1>16, <1>17, <1>21, <1>22, <1>23 DEF TableOK, table

(* Nobody is above the greatest.                                             *)
LEMMA TopmostIs ==
  ASSUME NEW table, NEW S, TableOK(table, S)
  PROVE  /\ S = {} => Focus!Topmost(table) = NoSurface
         /\ S # {} => /\ Focus!Topmost(table) \in S
                      /\ \A r \in S : r <= Focus!Topmost(table)
<1>1. /\ S = {id \in DOMAIN table : table[id].focusable} /\ S \in SUBSET Surface
      /\ \A s \in S : table[s].z \in Nat
      /\ \A r, s \in S : r < s => table[r].z < table[s].z
  BY DEF TableOK, Focusable, Entries
<1>2. \A s \in S : s \in Nat
  BY <1>1, SurfaceAssumption
<1>3. CASE S = {}
  BY <1>1, <1>3 DEF Focus!Topmost, Focus!Uppermost
<1>4. CASE S # {}
  <2> DEFINE IsTop(id) == \A x \in S \ {id} :
                             \/ table[x].z < table[id].z
                             \/ table[x].z = table[id].z /\ x < id
             top == CHOOSE id \in S : IsTop(id)
  <2>1. PICK h \in S : \A r \in S : r <= h
    <3>1. PICK b \in Nat : \A s \in Surface : s <= b
      BY SurfaceBound
    <3>2. S \in SUBSET Nat /\ \A s \in S : s <= b
      BY <1>1, <1>2, <3>1
    <3> QED
      BY <1>4, <3>2, GreatestNumber
  <2>2. IsTop(h)
    BY <1>1, <1>2, <2>1
  <2>3. top \in S /\ IsTop(top)
    BY <2>2
  <2>4. Focus!Topmost(table) = top
    BY <1>1, <1>4 DEF Focus!Topmost, Focus!Uppermost
  <2> HIDE DEF top
  <2>5. ASSUME NEW r \in S, ~(r <= top) PROVE FALSE
    <3>1. r \in S \ {top} /\ top < r
      BY <1>2, <2>3, <2>5
    <3>2. table[top].z < table[r].z /\ table[top].z \in Nat /\ table[r].z \in Nat
      BY <1>1, <2>3, <3>1
    <3> QED
      BY <2>3, <3>1, <3>2
  <2> QED
    BY <1>4, <2>3, <2>4, <2>5
<1> QED
  BY <1>3, <1>4

LEMMA UnmapIs ==
  ASSUME NEW table, NEW S, TableOK(table, S), NEW s
  PROVE  TableOK(Focus!Unmap(table, s), S \ {s})
<1> DEFINE rest == Focus!Unmap(table, s)
<1>1. DOMAIN rest = DOMAIN table \ {s} /\ \A x \in DOMAIN table \ {s} : rest[x] = table[x]
  BY DEF Focus!Unmap
<1> HIDE DEF rest
<1>2. Focusable(rest) = S \ {s}
  BY <1>1 DEF Focusable, TableOK
<1>3. S \ {s} \subseteq DOMAIN rest
  BY <1>1 DEF Focusable, TableOK
<1>4. rest \in [DOMAIN rest -> Entries]
  BY <1>1 DEF TableOK, Focus!Unmap, rest
<1> QED
  BY <1>1, <1>2, <1>3, <1>4 DEF TableOK, rest

-----------------------------------------------------------------------------
(* Composition order.                                                        *)

LEMMA ArrangedIs ==
  ASSUME NEW T, NEW kids \in Seq(Surface), NEW id, NEW own \in Seq(T),
         NEW below \in [Surface -> Seq(T)]
  PROVE  /\ Branches(kids, id, own, below) \in Seq(Seq(T))
         /\ Len(Branches(kids, id, own, below)) = Len(kids)
         /\ Arranged(kids, id, own, below) \in Seq(T)
<1> DEFINE m == Len(kids)
           parts == Branches(kids, id, own, below)
<1>1. m \in Nat /\ DOMAIN kids = 1..m /\ \A i \in 1..m : kids[i] \in Surface
  OBVIOUS
<1>2. parts = [i \in 1..m |-> IF kids[i] = id THEN own ELSE below[kids[i]]]
  BY <1>1 DEF Branches
<1> HIDE DEF m
<1>3. parts \in [1..m -> Seq(T)]
  BY <1>1, <1>2
<1> HIDE DEF parts
<1>4. parts \in Seq(Seq(T)) /\ Len(parts) = m
  BY <1>1, <1>3
<1>5. FlattenSeq(parts) \in Seq(T)
  BY <1>4, FlattenSeqIs
<1>6. Arranged(kids, id, own, below) = IF kids = <<>> THEN own ELSE FlattenSeq(parts)
  BY DEF Arranged, parts
<1> QED
  BY <1>4, <1>5, <1>6 DEF m, parts

LEMMA BranchesAre ==
  ASSUME NEW kids \in Seq(Surface), NEW id, NEW own \in Seq(Surface),
         NEW below \in [Surface -> Seq(Surface)]
  PROVE  /\ Branches(kids, id, own, below) \in Seq(Seq(Surface))
         /\ Len(Branches(kids, id, own, below)) = Len(kids)
BY ArrangedIs

LEMMA FlattenBuilt ==
  ASSUME NEW sc \in Scenes, NEW mapped \in SUBSET Surface
  PROVE  \E flat : /\ Flattens(flat, sc, mapped)
                   /\ \A root : FlattenSubtree(sc, root, mapped)
                                  = flat[MAX_SUBSURFACE_DEPTH + 1][root]
<1> DEFINE n == MAX_SUBSURFACE_DEPTH + 1
           L == Live(sc)
           V == [Surface -> Seq(mapped)]
           own(id) == IF id \in mapped THEN <<id>> ELSE <<>>
           below(above, id) ==
             LET kids == sc.nodes[id].children
             IN  FlattenSeq([i \in DOMAIN kids |->
                               IF kids[i] = id THEN own(id) ELSE above[kids[i]]])
           flat(above, id) ==
             IF id \notin L THEN <<>>
             ELSE Arranged(sc.nodes[id].children, id, OwnPlace(id, mapped), above)
           Step(above) == [id \in Surface |-> flat(above, id)]
           step == [d \in 1..n |-> [above \in V |-> Step(above)]]
           start == [id \in Surface |-> <<>>]
           all(f, d, id) == IF d = 0 \/ id \notin L THEN <<>>
                            ELSE IF sc.nodes[id].children = <<>> THEN own(id)
                            ELSE below(f[d - 1], id)
           Whole(f) == [d \in 0..n |-> [id \in Surface |-> all(f, d, id)]]
<1>1. n \in Nat /\ n # 0 /\ n \in 1..n /\ n - 1 \in 0..n /\ 0 \in 0..n
  BY SurfaceAssumption
<1>2. L \in SUBSET Surface /\ \A id \in L : sc.nodes[id].children \in Seq(Surface)
  BY SceneIs DEF Nodes
<1>3. \A id \in Surface : OwnPlace(id, mapped) \in Seq(mapped)
  <2>1. <<>> \in Seq(mapped) /\ \A id \in mapped : <<id>> \in Seq(mapped)
    OBVIOUS
  <2> QED
    BY <2>1 DEF OwnPlace
<1>4. /\ \A f, id : all(f, 0, id) = <<>>
      /\ \A f, id : \A d \in 1..n : all(f, d, id) = flat(f[d - 1], id)
  <2>1. \A d \in 1..n : d # 0
    BY <1>1
  <2>2. \A f, id : Arranged(sc.nodes[id].children, id, OwnPlace(id, mapped), f)
                     = IF sc.nodes[id].children = <<>> THEN own(id) ELSE below(f, id)
    BY DEF Arranged, Branches, OwnPlace
  <2> HIDE DEF n, own, below
  <2> QED
    BY <2>1, <2>2
<1>5. ASSUME NEW above \in V PROVE Step(above) \in V
  <2>1. ASSUME NEW id \in Surface PROVE flat(above, id) \in Seq(mapped)
    <3>1. CASE id \notin L
      BY <3>1
    <3>2. CASE id \in L
      <4>1. Arranged(sc.nodes[id].children, id, OwnPlace(id, mapped), above) \in Seq(mapped)
        BY <1>2, <1>3, <3>2, ArrangedIs
      <4> QED
        BY <3>2, <4>1
    <3> QED
      BY <3>1, <3>2
  <2> HIDE DEF flat
  <2> QED
    BY <2>1
<1>6. start \in V
  OBVIOUS
<1> DEFINE g == CHOOSE g : g = Whole(g)
<1>7. \A root : FlattenSubtree(sc, root, mapped) = g[n][root]
  BY DEF FlattenSubtree
<1> HIDE DEF g, all, flat, V, n, Step, Whole
<1>8. Steps(n, V, step) /\ \A i \in 1..n : \A v \in V : step[i][v] = Step(v)
  BY <1>5 DEF Steps
<1> HIDE DEF step, start
<1>9. PICK f : Recursive(f, n, V, start, step)
  BY <1>1, <1>6, <1>8, RecursiveFunction
<1>10. f = Whole(f)
  <2>1. \A d \in 1..n : d - 1 \in 0..n
    BY <1>1
  <2>2. \A d \in 1..n : f[d] = [id \in Surface |-> flat(f[d - 1], id)]
    BY <1>8, <1>9, <2>1 DEF Recursive, Step
  <2>3. \A d \in 0..n : d = 0 \/ d \in 1..n
    BY <1>1
  <2>4. f[0] = [id \in Surface |-> <<>>]
    BY <1>9 DEF Recursive, start
  <2>5. ASSUME NEW d \in 0..n
        PROVE  f[d] = [id \in Surface |-> all(f, d, id)]
    <3>1. CASE d = 0
      BY <1>4, <2>4, <3>1
    <3>2. CASE d \in 1..n
      BY <1>4, <2>2, <3>2
    <3> QED
      BY <2>3, <3>1, <3>2
  <2> QED
    BY <1>9, <2>5 DEF Recursive, Whole
<1>11. g = Whole(g)
  BY <1>10 DEF g
<1>12. g[0] = start /\ \A d \in 1..n : g[d] = Step(g[d - 1])
  <2>1. \A d \in 1..n : d \in 0..n
    BY <1>1
  <2>2. g = [d \in 0..n |-> [id \in Surface |-> all(g, d, id)]]
    BY <1>11 DEF Whole
  <2>3. g[0] = [id \in Surface |-> <<>>]
    BY <1>1, <1>4, <2>2
  <2>4. \A d \in 1..n : g[d] = [id \in Surface |-> all(g, d, id)]
    BY <2>1, <2>2
  <2>5. \A d \in 1..n : g[d] = [id \in Surface |-> flat(g[d - 1], id)]
    BY <1>4, <2>4
  <2> QED
    BY <2>3, <2>5 DEF start, Step
<1>13. \A d \in 0..n : g[d] \in V
  <2>1. \A d \in 1..n : g[d - 1] \in V => g[d] \in V
    BY <1>5, <1>12
  <2> QED
    BY <1>1, <1>6, <1>12, <2>1, RecursionStays
<1>14. g \in [0..n -> V]
  <2>1. g = [d \in 0..n |-> g[d]]
    BY <1>11 DEF Whole
  <2> QED
    BY <1>13, <2>1
<1>15. Flattens(g, sc, mapped)
  <2>1. \A id \in Surface : g[0][id] = <<>>
    BY <1>12 DEF start
  <2>2. \A d \in 1..n : \A id \in Surface : g[d][id] = flat(g[d - 1], id)
    BY <1>12 DEF Step
  <2> QED
    BY <1>14, <2>1, <2>2 DEF Flattens, n, V, flat
<1> QED
  BY <1>7, <1>15 DEF n

LEMMA ArrangedDraws ==
  ASSUME NEW kids \in Seq(Surface), NEW id \in Surface, NEW W, Around(kids, id, Surface \ W),
         NEW mapped, NEW above, AllDraw(above, W),
         NEW shown, shown = Arranged(kids, id, OwnPlace(id, mapped), above)
  PROVE  /\ Draws(shown, id, W)
         /\ id \in mapped => \E i \in 1..Len(shown) : shown[i] = id
<1> DEFINE own == OwnPlace(id, mapped)
           m == Len(kids)
           list == Branches(kids, id, own, above)
           j == shown
<1>1. Draws(own, id, W) /\ (id \in mapped => 1 \in 1..Len(own) /\ own[1] = id)
  <2>1. /\ <<id>> \in Seq(Surface) /\ <<id>>[1] = id /\ 1 \in 1..Len(<<id>>)
        /\ \A i \in 1..Len(<<id>>) : i = 1
        /\ <<>> \in Seq(Surface) /\ Len(<<>>) = 0
    OBVIOUS
  <2> QED
    BY <2>1 DEF Draws, OwnPlace
<1> HIDE DEF own
<1>2. CASE kids = <<>>
  <2>1. j = own
    BY <1>2 DEF Arranged, own
  <2> QED
    BY <1>1, <2>1
<1>3. CASE kids # <<>>
  <2>1. /\ m \in Nat /\ DOMAIN kids = 1..m /\ \E i \in 1..m : kids[i] = id
        /\ \A i \in 1..m : kids[i] \in Surface /\ (kids[i] # id => kids[i] \notin W)
    BY <1>3 DEF Around
  <2>2. own \in Seq(Surface)
    BY <1>1 DEF Draws
  <2>3. list \in Seq(Seq(Surface)) /\ Len(list) = m /\ j = FlattenSeq(list)
    <3>0. above \in [Surface -> Seq(Surface)]
      BY DEF AllDraw
    <3>1. list \in Seq(Seq(Surface)) /\ Len(list) = m
      BY <2>2, <3>0, BranchesAre
    <3> QED
      BY <1>3, <3>1 DEF Arranged, own
  <2>4. \A i \in 1..m : list[i] = IF kids[i] = id THEN own ELSE above[kids[i]]
    BY <2>1 DEF Branches
  <2> HIDE DEF m, list, j
  <2>5. ASSUME NEW i \in 1..m
        PROVE  \A k \in 1..Len(list[i]) : list[i][k] = id \/ list[i][k] \notin W
    <3>1. CASE kids[i] = id
      BY <1>1, <2>4, <3>1 DEF Draws
    <3>2. CASE kids[i] # id
      <4> DEFINE c == kids[i]
                 part == above[c]
      <4>1. c \in Surface /\ c \notin W
        BY <2>1, <3>2
      <4>2. Draws(part, c, W)
        BY <4>1 DEF AllDraw
      <4>3. list[i] = part
        BY <2>4, <3>2
      <4> HIDE DEF c, part
      <4> QED
        BY <4>1, <4>2, <4>3 DEF Draws
    <3> QED
      BY <3>1, <3>2
  <2>6. PICK o \in 1..m : list[o] = own
    BY <2>1, <2>4
  <2>7. j \in Seq(Surface) /\ \E from : Sources(from, list, j)
    BY <2>3, FlattenSeqIs
  <2>8. PICK from : Sources(from, list, j)
    BY <2>7
  <2>9. ASSUME NEW z \in 1..Len(j)
        PROVE  j[z] = id \/ j[z] \notin W
    <3>1. from[z] \in 1..m /\ \E k \in 1..Len(list[from[z]]) : j[z] = list[from[z]][k]
      BY <2>3, <2>8 DEF Sources
    <3> QED
      BY <2>5, <3>1
  <2>10. ASSUME id \in mapped PROVE \E z \in 1..Len(j) : j[z] = id
    <3>1. 1 \in 1..Len(list[o]) /\ list[o][1] = id
      BY <1>1, <2>6, <2>10
    <3>2. \E z \in 1..Len(j) : j[z] = list[o][1]
      BY <2>3, <2>8, <3>1, ZenonT(60) DEF Sources
    <3> QED
      BY <3>1, <3>2
  <2>11. Draws(j, id, W)
    BY <2>7, <2>9 DEF Draws
  <2> QED
    BY <2>10, <2>11 DEF j
<1> QED
  BY <1>2, <1>3

LEMMA FlattenSubtreeIs ==
  ASSUME NEW sc \in Scenes, NEW root \in Live(sc), NEW mapped \in SUBSET Surface,
         NEW W, WindowsHangNowhere(sc, W)
  PROVE  LET shown == FlattenSubtree(sc, root, mapped)
         IN  /\ Draws(shown, root, W)
             /\ root \in mapped => \E i \in 1..Len(shown) : shown[i] = root
<1> DEFINE n == MAX_SUBSURFACE_DEPTH + 1
           shown(above, id) == Arranged(sc.nodes[id].children, id, OwnPlace(id, mapped), above)
           V == {f \in [Surface -> Seq(Surface)] : AllDraw(f, W)}
<1>1. n \in Nat /\ n \in 1..n /\ n - 1 \in 0..n /\ 0 \in 0..n /\ \A d \in 1..n : d - 1 \in 0..n /\ d \in 0..n
  BY SurfaceAssumption
<1>2. Live(sc) \in SUBSET Surface /\ \A id \in Live(sc) : sc.nodes[id].children \in Seq(Surface)
  BY SceneIs DEF Nodes
<1>3. PICK g : Flattens(g, sc, mapped) /\ \A r : FlattenSubtree(sc, r, mapped) = g[n][r]
  BY FlattenBuilt
<1> HIDE DEF n
<1>4. /\ g \in [0..n -> [Surface -> Seq(Surface)]]
      /\ \A id \in Surface : g[0][id] = <<>>
      /\ \A d \in 1..n : \A id \in Surface :
           g[d][id] = IF id \notin Live(sc) THEN <<>> ELSE shown(g[d - 1], id)
  <2>1. \A list \in Seq(mapped) : list \in Seq(Surface)
    OBVIOUS
  <2> QED
    BY <1>3, <2>1 DEF Flattens, n
<1>5. ASSUME NEW above \in V, NEW id \in Live(sc)
      PROVE  /\ Draws(shown(above, id), id, W)
             /\ id \in mapped => \E i \in 1..Len(shown(above, id)) : shown(above, id)[i] = id
  <2> DEFINE kids == sc.nodes[id].children
             s == shown(above, id)
  <2>1. Around(kids, id, Surface \ W)
    BY DEF WindowsHangNowhere
  <2>2. AllDraw(above, W)
    OBVIOUS
  <2>3. kids \in Seq(Surface) /\ id \in Surface
    BY <1>2
  <2>4. s = Arranged(kids, id, OwnPlace(id, mapped), above)
    OBVIOUS
  <2> HIDE DEF s, shown, V, kids
  <2>5. Draws(s, id, W) /\ (id \in mapped => \E i \in 1..Len(s) : s[i] = id)
    BY <2>1, <2>2, <2>3, <2>4, ArrangedDraws
  <2> QED
    BY <2>5 DEF s
<1> HIDE DEF shown, V
<1>6. \A id : Draws(<<>>, id, W)
  BY DEF Draws
<1>7. g[0] \in V
  BY <1>1, <1>4, <1>6 DEF AllDraw, V
<1>8. ASSUME NEW d \in 1..n, g[d - 1] \in V PROVE g[d] \in V
  <2>1. ASSUME NEW id \in Surface PROVE Draws(g[d][id], id, W)
    <3>1. CASE id \in Live(sc)
      BY <1>4, <1>5, <1>8, <3>1
    <3>2. CASE id \notin Live(sc)
      BY <1>4, <1>6, <3>2
    <3> QED
      BY <3>1, <3>2
  <2> QED
    BY <1>1, <1>4, <2>1 DEF AllDraw, V
<1>9. g[n - 1] \in V
  <2>1. \A d \in 0..n : g[d] \in V
    BY <1>1, <1>7, <1>8, RecursionStays
  <2> QED
    BY <1>1, <2>1
<1>10. FlattenSubtree(sc, root, mapped) = shown(g[n - 1], root)
  BY <1>1, <1>2, <1>3, <1>4
<1> QED
  BY <1>5, <1>9, <1>10

(* Windows that are roots are drawn in the order of their SurfaceIds.        *)
LEMMA CompositionOrderIs ==
  ASSUME NEW sc \in Scenes, NEW W \in SUBSET (DOMAIN Placed(sc)), WindowsHangNowhere(sc, W),
         \A id \in W : sc.nodes[id].parent = NoSurface
  PROVE  LET order == CompositionOrder(sc)
         IN  /\ order \in Seq(Surface)
             /\ \A s \in W : \E i \in 1..Len(order) : order[i] = s
             /\ \A i, j \in 1..Len(order) :
                  order[i] \in W /\ order[j] \in W /\ order[i] < order[j] => i < j
<1> DEFINE R == {id \in Live(sc) : sc.nodes[id].parent = NoSurface}
           mapped == DOMAIN Placed(sc)
           roots == Ascending(R)
           m == Len(roots)
           parts == [i \in DOMAIN roots |-> FlattenSubtree(sc, roots[i], mapped)]
           order == FlattenSeq(parts)
           l == Len(order)
<1>1. R \in SUBSET Surface /\ W \in SUBSET R /\ W \in SUBSET mapped /\ mapped \in SUBSET Surface
  BY SceneIs, PlacedIs
<1>2. Lists(roots, R) /\ roots \in Seq(R)
  BY <1>1, AscendingLists DEF Lists
<1>3. CompositionOrder(sc) = order
  BY DEF CompositionOrder
<1>30. \A s \in R : s \in Live(sc) /\ s \in Nat
  BY <1>1, SurfaceAssumption
<1> HIDE DEF roots, R, mapped
<1>4. /\ m \in Nat /\ DOMAIN roots = 1..m /\ \A i \in 1..m : roots[i] \in R
      /\ \A s \in R : \E i \in 1..m : roots[i] = s
      /\ \A i, j \in 1..m : i < j => roots[i] < roots[j]
  BY <1>2 DEF Lists
<1> HIDE DEF m
<1>5. ASSUME NEW i \in 1..m
      PROVE  /\ Draws(parts[i], roots[i], W)
             /\ roots[i] \in mapped => \E k \in 1..Len(parts[i]) : parts[i][k] = roots[i]
  <2> DEFINE r == roots[i]
  <2>1. parts[i] = FlattenSubtree(sc, r, mapped)
    BY <1>4
  <2>2. r \in Live(sc)
    BY <1>4, <1>30
  <2> HIDE DEF r, parts
  <2>3. Draws(parts[i], r, W) /\ (r \in mapped => \E k \in 1..Len(parts[i]) : parts[i][k] = r)
    BY <1>1, <2>1, <2>2, FlattenSubtreeIs
  <2> QED
    BY <2>3 DEF r
<1>6. DOMAIN parts = 1..m /\ parts \in [1..m -> Seq(Surface)]
  <2>1. parts = [i \in 1..m |-> parts[i]]
    BY <1>4
  <2> HIDE DEF parts
  <2> QED
    BY <1>5, <2>1 DEF Draws
<1> HIDE DEF parts
<1>7. parts \in Seq(Seq(Surface)) /\ Len(parts) = m
  BY <1>4, <1>6
<1>8. order \in Seq(Surface) /\ \E from : Sources(from, parts, order)
  BY <1>7, FlattenSeqIs
<1> HIDE DEF order
<1>9. PICK from : Sources(from, parts, order)
  BY <1>8
<1>10. l \in Nat
  BY <1>8
<1>11. ASSUME NEW z \in 1..l, order[z] \in W
       PROVE  from[z] \in 1..m /\ roots[from[z]] = order[z]
  <2>1. from[z] \in 1..m /\ \E k \in 1..Len(parts[from[z]]) : order[z] = parts[from[z]][k]
    BY <1>7, <1>9 DEF Sources
  <2> QED
    BY <1>5, <1>11, <2>1 DEF Draws
<1>12. ASSUME NEW s \in W PROVE \E z \in 1..l : order[z] = s
  <2>1. PICK i \in 1..m : roots[i] = s
    BY <1>1, <1>4
  <2>2. PICK k \in 1..Len(parts[i]) : parts[i][k] = s
    BY <1>1, <1>5, <2>1
  <2>3. \E z \in 1..l : order[z] = parts[i][k]
    BY <1>7, <1>9, <2>2, ZenonT(60) DEF Sources
  <2> QED
    BY <2>2, <2>3
<1>13. ASSUME NEW y \in 1..l, NEW z \in 1..l, order[y] \in W, order[z] \in W, order[y] < order[z]
       PROVE  y < z
  <2> DEFINE i == from[y]
             j == from[z]
  <2>1. i \in 1..m /\ j \in 1..m /\ roots[i] = order[y] /\ roots[j] = order[z]
    BY <1>11, <1>13
  <2>2. order[y] \in Nat /\ order[z] \in Nat
    BY <1>1, <1>13, <1>30
  <2>3. z <= y => j <= i
    BY <1>9 DEF Sources
  <2> HIDE DEF i, j
  <2>4. i < j
    <3>1. i \in Nat /\ j \in Nat
      BY <1>4, <2>1
    <3>2. i # j
      BY <1>13, <2>1, <2>2
    <3>3. ~(j < i)
      BY <1>4, <1>13, <2>1, <2>2
    <3> QED
      BY <3>1, <3>2, <3>3
  <2>5. i \in Nat /\ j \in Nat /\ y \in Nat /\ z \in Nat
    BY <1>4, <1>10, <2>1
  <2> HIDE DEF l
  <2> QED
    BY <2>3, <2>4, <2>5
<1> QED
  BY <1>3, <1>8, <1>12, <1>13

-----------------------------------------------------------------------------
(* The invariant under the handlers.                                         *)

LEMMA DropIs ==
  ASSUME NEW f, NEW s
  PROVE  /\ DOMAIN Drop(f, s) = DOMAIN f \ {s}
         /\ \A x \in DOMAIN f \ {s} : Drop(f, s)[x] = f[x]
BY DEF Drop

(* What the tree leaves alone, the toplevels do not notice.                  *)
LEMMA SameToplevels ==
  ASSUME NEW w, NEW v, NEW pix, NEW tops, ToplevelsOK(w, pix, tops),
         DOMAIN tops \in SUBSET (DOMAIN v), DOMAIN pix \in SUBSET (DOMAIN v),
         \A s \in DOMAIN tops : v[s].role = w[s].role
  PROVE  ToplevelsOK(v, pix, tops)
BY DEF ToplevelsOK

LEMMA ForgottenToplevels ==
  ASSUME NEW w, NEW pix, NEW tops, ToplevelsOK(w, pix, tops), NEW s
  PROVE  /\ ToplevelsOK(w, Drop(pix, s), Drop(tops, s))
         /\ MappedToplevels(Drop(tops, s)) = MappedToplevels(tops) \ {s}
<1> DEFINE p == Drop(pix, s)
           t == Drop(tops, s)
<1>1. /\ DOMAIN p = DOMAIN pix \ {s} /\ \A x \in DOMAIN pix \ {s} : p[x] = pix[x]
      /\ DOMAIN t = DOMAIN tops \ {s} /\ \A x \in DOMAIN tops \ {s} : t[x] = tops[x]
  BY DropIs
<1>2. p = [x \in DOMAIN p |-> p[x]] /\ t = [x \in DOMAIN t |-> t[x]]
  BY <1>1 DEF Drop
<1> HIDE DEF p, t
<1>3. p \in [DOMAIN p -> Blocks] /\ t \in [DOMAIN t -> Toplevels]
  <2>1. \A x \in DOMAIN p : p[x] \in Blocks
    BY <1>1 DEF ToplevelsOK
  <2>2. \A x \in DOMAIN t : t[x] \in Toplevels
    BY <1>1 DEF ToplevelsOK
  <2> QED
    BY <1>2, <2>1, <2>2
<1>4. ToplevelsOK(w, p, t)
  <2>1. DOMAIN p \in SUBSET (DOMAIN w) /\ DOMAIN t \in SUBSET (DOMAIN w)
    BY <1>1 DEF ToplevelsOK
  <2>2. \A x \in DOMAIN t : /\ w[x].role = "toplevel"
                            /\ t[x].mapped <=> x \in DOMAIN p
                            /\ t[x].mapped => t[x].configure = "acked"
    BY <1>1 DEF ToplevelsOK
  <2> QED
    BY <1>3, <2>1, <2>2 DEF ToplevelsOK
<1>5. MappedToplevels(t) = MappedToplevels(tops) \ {s}
  BY <1>1 DEF MappedToplevels
<1> QED
  BY <1>4, <1>5 DEF p, t

(* A node that does not change keeps agreeing with a surface that does not,  *)
(* as long as no surface that may be in its children list becomes something  *)
(* else than a subsurface.                                                   *)
LEMMA NodeStays ==
  ASSUME NEW node, NEW s, NEW w, NEW v, NEW next \in Nat, NEW later \in Nat, next <= later,
         NEW pix, NEW tops, NEW pixNow, NEW topsNow,
         NodeOK(node, s, w, next, pix, tops),
         v[s].client = w[s].client, w[s].role = "subsurface" => v[s].role = "subsurface",
         s \in DOMAIN pixNow <=> s \in DOMAIN pix, s \in DOMAIN topsNow <=> s \in DOMAIN tops,
         \A x \in DOMAIN v : \/ x \in DOMAIN w /\ (w[x].role = "subsurface" => v[x].role = "subsurface")
                             \/ ~(x < next)
  PROVE  NodeOK(node, s, v, later, pixNow, topsNow)
<1> DEFINE K == {x \in Surface : x < next /\ (x \in DOMAIN w => w[x].role = "subsurface")}
           L == {x \in Surface : x < later /\ (x \in DOMAIN v => v[x].role = "subsurface")}
<1>1. K \subseteq L
  BY SurfaceAssumption
<1>2. Around(node.children, s, K)
  BY DEF NodeOK
<1> HIDE DEF K, L
<1>3. Around(node.children, s, L)
  BY <1>1, <1>2, AroundGrows
<1> QED
  BY <1>3 DEF NodeOK, L

LEMMA ServedAreLive ==
  ASSUME IInv, NEW s \in Served
  PROVE  s \in Live(scene) /\ s \in alive /\ s \in Surface
BY DEF IInv, Served, SceneOK, alive, TreeOK

LEMMA PublishedScreen ==
  ASSUME ScreenOK, NEW after, Publish(after)
  PROVE  ScreenOK' /\ scene' = after
BY DEF ScreenOK, Publish, StillExposed

LEMMA RefocusIs ==
  ASSUME NEW table, SetRouting(table)
  PROVE  focusMap' = table /\ keyboardFocus' = Focus!Topmost(focusMap')
<1>1. focusMap' = table /\ keyboardFocus' = Focus!Topmost(table)
  BY DEF SetRouting
<1> QED
  BY <1>1

LEMMA InitHolds == Init => IInv
<1> SUFFICES ASSUME Init PROVE IInv
  OBVIOUS
<1>1. wl = <<>> /\ DOMAIN wl = {} /\ pixels = <<>> /\ toplevels = <<>> /\ DOMAIN <<>> = {}
  BY DEF Init
<1>2. TreeOK(wl)
  BY <1>1 DEF TreeOK
<1>3. ToplevelsOK(wl, pixels, toplevels)
  BY <1>1 DEF ToplevelsOK
<1>4. MappedToplevels(toplevels) = {}
  BY <1>1 DEF MappedToplevels
<1>5. focusMap = <<>> /\ DOMAIN focusMap = {}
  BY <1>1 DEF Init, Focus!EmptyTable
<1>6. TableOK(focusMap, {})
  BY <1>5 DEF TableOK, Focusable
<1>7. keyboardFocus = Focus!Topmost(focusMap)
  BY <1>6, TopmostIs DEF Init
<1>8. scene \in Scenes /\ Live(scene) = {}
  <2>1. <<>> \in [{} -> Nodes]
    OBVIOUS
  <2>2. <<>> \in Forests
    BY <2>1, ForestsAre
  <2> QED
    BY <1>1, <2>2 DEF Init, EmptyScene, Scenes, Live
<1>9. SceneOK(scene, wl, gone, nextSurface, pixels, toplevels)
  BY <1>1, <1>8 DEF SceneOK
<1>10. ScreenOK /\ IdsOK /\ gone \in SUBSET Client
  BY <1>1 DEF Init, ScreenOK, IdsOK
<1> QED
  BY <1>2, <1>3, <1>4, <1>6, <1>7, <1>9, <1>10 DEF IInv

LEMMA NewSurfaceKeeps ==
  ASSUME IInv, NEW k \in Client, NewSurface(k)
  PROVE  IInv'
<1> DEFINE id == nextSurface
           after == Created(scene, id, k)
           v == Inserted(wl, id, NewWl(k))
<1>1. /\ k \notin gone /\ id \in Surface /\ nextSurface' = id + 1 /\ wl' = v
      /\ Publish(after)
      /\ nextToplevel' = nextToplevel /\ pixels' = pixels /\ toplevels' = toplevels
      /\ focusMap' = focusMap /\ keyboardFocus' = keyboardFocus /\ gone' = gone
  BY DEF NewSurface
<1>2. /\ TreeOK(wl) /\ IdsOK /\ ToplevelsOK(wl, pixels, toplevels)
      /\ SceneOK(scene, wl, gone, nextSurface, pixels, toplevels) /\ ScreenOK
  BY DEF IInv
<1>3. id \in Nat /\ id \notin DOMAIN wl /\ \A s \in DOMAIN wl : s < id /\ s \in Nat
  BY <1>2, SurfaceAssumption DEF IdsOK, TreeOK
<1>4. /\ TreeOK(v) /\ DOMAIN v = DOMAIN wl \cup {id} /\ v[id] = NewWl(k)
      /\ \A s \in DOMAIN wl : v[s] = wl[s]
  BY <1>1, <1>2, <1>3, NewWlTree
<1> HIDE DEF v
<1>5. ToplevelsOK(v, pixels, toplevels)
  <2>1. /\ DOMAIN toplevels \in SUBSET (DOMAIN wl) /\ DOMAIN pixels \in SUBSET (DOMAIN wl)
    BY <1>2 DEF ToplevelsOK
  <2> QED
    BY <1>2, <1>4, <2>1, SameToplevels
<1>6. /\ scene \in Scenes
      /\ after \in Scenes /\ Live(after) = Live(scene) \cup {id}
      /\ after.nodes[id] = FreshNode(k) /\ \A x \in Live(scene) \ {id} : after.nodes[x] = scene.nodes[x]
  BY <1>1, <1>2, CreatedIs DEF SceneOK
<1> HIDE DEF after
<1>7. ScreenOK' /\ scene' = after
  BY <1>1, <1>2, PublishedScreen
<1>8. SceneOK(after, v, gone, id + 1, pixels, toplevels)
  <2>1. Live(scene) = {s \in DOMAIN wl : wl[s].client \notin gone}
    BY <1>2 DEF SceneOK
  <2>2. Live(after) = {s \in DOMAIN v : v[s].client \notin gone}
    <3>1. v[id].client = k
      BY <1>4 DEF NewWl
    <3> QED
      BY <1>1, <1>4, <1>6, <2>1, <3>1
  <2>3. ASSUME NEW s \in Live(after) PROVE NodeOK(after.nodes[s], s, v, id + 1, pixels, toplevels)
    <3>1. CASE s = id
      <4>1. id \notin DOMAIN toplevels /\ id \notin DOMAIN pixels
        BY <1>2, <1>3 DEF ToplevelsOK
      <4>2. /\ FreshNode(k).client = k /\ FreshNode(k).role = "none"
            /\ FreshNode(k).parent = NoSurface /\ FreshNode(k).source = NoPixels
            /\ FreshNode(k).children = <<>>
        BY DEF FreshNode
      <4>3. v[id].client = k
        BY <1>4 DEF NewWl
      <4> DEFINE K == {x \in Surface : x < id + 1 /\ (x \in DOMAIN v => v[x].role = "subsurface")}
      <4>4. Around(<<>>, s, K)
        BY DEF Around
      <4> HIDE DEF K
      <4> QED
        BY <1>6, <3>1, <4>1, <4>2, <4>3, <4>4 DEF NodeOK, K
    <3>2. CASE s # id
      <4>1. s \in Live(scene) /\ after.nodes[s] = scene.nodes[s] /\ s \in DOMAIN wl
        BY <1>6, <2>1, <3>2
      <4>2. NodeOK(scene.nodes[s], s, wl, id, pixels, toplevels)
        BY <1>2, <4>1 DEF SceneOK
      <4>3. id \in Nat /\ id + 1 \in Nat /\ id <= id + 1
        BY <1>3
      <4>4. \A x \in DOMAIN v : \/ x \in DOMAIN wl /\ (wl[x].role = "subsurface" => v[x].role = "subsurface")
                                \/ ~(x < id)
        BY <1>3, <1>4
      <4>5. v[s] = wl[s]
        BY <1>4, <4>1
      <4> DEFINE node == scene.nodes[s]
                 next == id
                 later == id + 1
      <4>6. /\ NodeOK(node, s, wl, next, pixels, toplevels) /\ next \in Nat /\ later \in Nat
            /\ next <= later /\ after.nodes[s] = node
            /\ \A x \in DOMAIN v : \/ x \in DOMAIN wl /\ (wl[x].role = "subsurface" => v[x].role = "subsurface")
                                   \/ ~(x < next)
        BY <4>1, <4>2, <4>3, <4>4
      <4> HIDE DEF node, next, later
      <4>7. NodeOK(node, s, v, later, pixels, toplevels)
        BY <4>5, <4>6, NodeStays
      <4> QED
        BY <4>6, <4>7 DEF later
    <3> QED
      BY <3>1, <3>2
  <2> QED
    BY <1>6, <2>2, <2>3 DEF SceneOK
<1>9. IdsOK'
  <2>1. \A s \in DOMAIN v : s < id + 1
    BY <1>3, <1>4
  <2> QED
    BY <1>1, <1>2, <1>3, <2>1 DEF IdsOK
<1> QED
  BY <1>1, <1>4, <1>5, <1>7, <1>8, <1>9 DEF IInv

LEMMA ReplacedNode ==
  ASSUME NEW sc, NEW w, NEW v, NEW away, NEW next \in Nat, NEW pix, NEW tops, NEW pixNow, NEW topsNow,
         SceneOK(sc, w, away, next, pix, tops), SameSurfaces(w, v), NEW after \in Scenes, NEW s,
         Live(after) = Live(sc), \A x \in Live(sc) \ {s} : after.nodes[x] = sc.nodes[x],
         s \in Live(sc) => NodeOK(after.nodes[s], s, v, next, pixNow, topsNow),
         \A x \in Live(sc) \ {s} : /\ x \in DOMAIN pixNow <=> x \in DOMAIN pix
                                   /\ x \in DOMAIN topsNow <=> x \in DOMAIN tops
  PROVE  SceneOK(after, v, away, next, pixNow, topsNow)
<1>1. Live(sc) = {x \in DOMAIN w : w[x].client \notin away}
  BY DEF SceneOK
<1>2. Live(after) = {x \in DOMAIN v : v[x].client \notin away}
  BY <1>1 DEF SameSurfaces
<1>3. ASSUME NEW x \in Live(after) PROVE NodeOK(after.nodes[x], x, v, next, pixNow, topsNow)
  <2>1. CASE x = s
    BY <1>3, <2>1
  <2>2. CASE x # s
    <3> DEFINE node == sc.nodes[x]
    <3>1. NodeOK(node, x, w, next, pix, tops) /\ after.nodes[x] = node /\ x \in DOMAIN w
      BY <1>1, <1>3, <2>2 DEF SceneOK
    <3> HIDE DEF node
    <3>2. next <= next
      OBVIOUS
    <3>3. \A y \in DOMAIN v : \/ y \in DOMAIN w /\ (w[y].role = "subsurface" => v[y].role = "subsurface")
                              \/ ~(y < next)
      BY DEF SameSurfaces
    <3>4. v[x].client = w[x].client /\ (w[x].role = "subsurface" => v[x].role = "subsurface")
      BY <3>1 DEF SameSurfaces
    <3>5. /\ x \in DOMAIN pixNow <=> x \in DOMAIN pix
          /\ x \in DOMAIN topsNow <=> x \in DOMAIN tops
      BY <1>3, <2>2
    <3>6. NodeOK(node, x, v, next, pixNow, topsNow)
      BY <3>1, <3>2, <3>3, <3>4, <3>5, NodeStays
    <3> QED
      BY <3>1, <3>6
  <2> QED
    BY <2>1, <2>2
<1> QED
  BY <1>2, <1>3 DEF SceneOK

LEMMA SameScene ==
  ASSUME NEW sc, NEW w, NEW v, NEW away, NEW next \in Nat, NEW pix, NEW tops, NEW topsNow,
         SceneOK(sc, w, away, next, pix, tops), SameSurfaces(w, v), DOMAIN topsNow = DOMAIN tops
  PROVE  SceneOK(sc, v, away, next, pix, topsNow)
<1>1. sc \in Scenes
  BY DEF SceneOK
<1>2. NoSurface \notin Live(sc)
  BY <1>1, SceneIs, SurfaceAssumption
<1> DEFINE s == NoSurface
<1> HIDE DEF s
<1>3. s \notin Live(sc)
  BY <1>2 DEF s
<1> QED
  BY <1>1, <1>3, ReplacedNode

LEMMA AckConfigureKeeps ==
  ASSUME IInv, NEW s \in alive, AckConfigure(s)
  PROVE  IInv'
<1> DEFINE t == [toplevels EXCEPT ![s].configure = "acked"]
<1>1. /\ s \in DOMAIN toplevels /\ toplevels' = t
      /\ wl' = wl /\ nextSurface' = nextSurface /\ nextToplevel' = nextToplevel /\ pixels' = pixels
      /\ focusMap' = focusMap /\ keyboardFocus' = keyboardFocus /\ gone' = gone
      /\ scene' = scene /\ screen' = screen /\ exposed' = exposed
  BY DEF AckConfigure
<1>2. /\ TreeOK(wl) /\ IdsOK /\ ToplevelsOK(wl, pixels, toplevels)
      /\ SceneOK(scene, wl, gone, nextSurface, pixels, toplevels) /\ ScreenOK
      /\ TableOK(focusMap, MappedToplevels(toplevels))
  BY DEF IInv
<1>3. /\ DOMAIN t = DOMAIN toplevels /\ t \in [DOMAIN toplevels -> Toplevels]
      /\ \A x \in DOMAIN toplevels : /\ t[x].mapped = toplevels[x].mapped
                                     /\ toplevels[x].configure = "acked" => t[x].configure = "acked"
  BY <1>1, <1>2 DEF ToplevelsOK, Toplevels
<1> HIDE DEF t
<1>4. ToplevelsOK(wl, pixels, t) /\ MappedToplevels(t) = MappedToplevels(toplevels)
  BY <1>2, <1>3 DEF ToplevelsOK, MappedToplevels
<1>5. nextSurface \in Nat /\ SameSurfaces(wl, wl)
  BY <1>2 DEF IdsOK, SameSurfaces
<1>6. SceneOK(scene, wl, gone, nextSurface, pixels, t)
  BY <1>2, <1>3, <1>5, SameScene
<1> QED
  BY <1>1, <1>2, <1>4, <1>6 DEF IInv, IdsOK, ScreenOK

LEMMA NewToplevelKeeps ==
  ASSUME IInv, NEW s \in alive, NewToplevel(s)
  PROVE  IInv'
<1> DEFINE v == [wl EXCEPT ![s].role = "toplevel"]
           top == [placement |-> AllocCascadePlacement(nextToplevel),
                   mapped |-> FALSE, configure |-> "unsent"]
           t == Inserted(toplevels, s, top)
           after == SetRole(scene, s, "toplevel")
<1>1. /\ s \in Served /\ s \notin DOMAIN toplevels /\ wl[s].role # "subsurface" /\ s \notin DOMAIN pixels
      /\ wl' = v /\ toplevels' = t /\ nextToplevel' = nextToplevel + 1
      /\ Publish(after)
      /\ nextSurface' = nextSurface /\ pixels' = pixels
      /\ focusMap' = focusMap /\ keyboardFocus' = keyboardFocus /\ gone' = gone
  BY DEF NewToplevel
<1>2. /\ TreeOK(wl) /\ IdsOK /\ ToplevelsOK(wl, pixels, toplevels)
      /\ SceneOK(scene, wl, gone, nextSurface, pixels, toplevels) /\ ScreenOK
      /\ TableOK(focusMap, MappedToplevels(toplevels))
  BY DEF IInv
<1>3. s \in Live(scene) /\ s \in DOMAIN wl /\ s \in Surface
  BY <1>1, ServedAreLive DEF alive
<1>4. /\ DOMAIN v = DOMAIN wl /\ v \in [DOMAIN wl -> WlSurfaces]
      /\ v[s].role = "toplevel"
      /\ \A x \in DOMAIN wl : /\ v[x].client = wl[x].client /\ v[x].parent = wl[x].parent
                              /\ v[x].order = wl[x].order /\ v[x].cached = wl[x].cached
                              /\ v[x].sync = wl[x].sync
                              /\ x # s => v[x].role = wl[x].role
  BY <1>2, <1>3, ZenonT(60) DEF TreeOK, WlSurfaces, Roles
<1>5. TreeOK(v)
  <2>1. wl[s].cached = Nothing /\ ~wl[s].sync
    BY <1>1, <1>2, <1>3 DEF TreeOK
  <2>2. \A x \in DOMAIN wl : v[x].role # "subsurface" =>
                               wl[x].role # "subsurface" /\ v[x].cached = Nothing /\ ~v[x].sync
    BY <1>1, <1>2, <1>4, <2>1 DEF TreeOK
  <2> HIDE DEF v
  <2> QED
    BY <1>2, <1>4, <2>2, SameLinks
<1>6. SameSurfaces(wl, v)
  BY <1>1, <1>4 DEF SameSurfaces
<1> HIDE DEF v
<1>7. top \in Toplevels /\ ~top.mapped
  <2>1. AllocCascadePlacement(nextToplevel) \in Int
    <3>1. nextToplevel \in Nat
      BY <1>2 DEF IdsOK
    <3>2. nextToplevel % CASCADE_WRAP \in Int
      BY <3>1, ProtocolAssumption
    <3> DEFINE r == nextToplevel % CASCADE_WRAP
    <3>3. r \in Int
      BY <3>2
    <3> HIDE DEF r
    <3>4. CASCADE_ORIGIN + r * CASCADE_STEP \in Int
      BY <3>3, ProtocolAssumption
    <3> QED
      BY <3>4 DEF AllocCascadePlacement, r
  <2> QED
    BY <2>1 DEF Toplevels
<1> HIDE DEF top
<1>8. /\ DOMAIN t = DOMAIN toplevels \cup {s} /\ t[s] = top
      /\ \A x \in DOMAIN toplevels : t[x] = toplevels[x]
      /\ t \in [DOMAIN t -> Toplevels]
  <2>1. /\ DOMAIN t = DOMAIN toplevels \cup {s} /\ t[s] = top
        /\ \A x \in DOMAIN toplevels : t[x] = toplevels[x]
    BY <1>1 DEF Inserted
  <2>2. t = [x \in DOMAIN t |-> t[x]]
    BY DEF Inserted
  <2>3. \A x \in DOMAIN t : t[x] \in Toplevels
    BY <1>2, <1>7, <2>1 DEF ToplevelsOK
  <2> HIDE DEF t
  <2> QED
    BY <2>1, <2>2, <2>3
<1> HIDE DEF t
<1>9. ToplevelsOK(v, pixels, t)
  <2>1. DOMAIN t \in SUBSET (DOMAIN v) /\ DOMAIN pixels \in SUBSET (DOMAIN v)
    BY <1>2, <1>3, <1>4, <1>8 DEF ToplevelsOK
  <2>2. pixels \in [DOMAIN pixels -> Blocks]
    BY <1>2 DEF ToplevelsOK
  <2>3. ASSUME NEW x \in DOMAIN t
        PROVE  /\ v[x].role = "toplevel"
               /\ t[x].mapped <=> x \in DOMAIN pixels
               /\ t[x].mapped => t[x].configure = "acked"
    <3>1. CASE x = s
      BY <1>1, <1>4, <1>7, <1>8, <3>1
    <3>2. CASE x # s
      <4>1. x \in DOMAIN toplevels /\ t[x] = toplevels[x] /\ x \in DOMAIN wl
        BY <1>2, <1>8, <3>2 DEF ToplevelsOK
      <4>2. v[x].role = wl[x].role
        BY <1>4, <3>2, <4>1
      <4> QED
        BY <1>2, <4>1, <4>2 DEF ToplevelsOK
    <3> QED
      BY <3>1, <3>2
  <2> QED
    BY <1>8, <2>1, <2>2, <2>3 DEF ToplevelsOK
<1>10. MappedToplevels(t) = MappedToplevels(toplevels)
  BY <1>7, <1>8 DEF MappedToplevels
<1>11. /\ scene \in Scenes /\ after \in Scenes
       /\ after.nodes = [scene.nodes EXCEPT ![s] = [scene.nodes[s] EXCEPT !.role = "toplevel"]]
  BY <1>2, <1>3, SetRoleIs DEF SceneOK, Roles
<1> HIDE DEF after
<1>12. SceneOK(after, v, gone, nextSurface, pixels, t)
  <2> DEFINE old == scene.nodes[s]
             node == [old EXCEPT !.role = "toplevel"]
  <2>1. old \in Nodes /\ NodeOK(old, s, wl, nextSurface, pixels, toplevels)
    BY <1>2, <1>3, SceneIs DEF SceneOK
  <2>2. /\ Live(after) = Live(scene) /\ \A x \in Live(scene) \ {s} : after.nodes[x] = scene.nodes[x]
        /\ after.nodes[s] = node
    BY <1>3, <1>11, SceneIs DEF Live
  <2>3. /\ node.client = old.client /\ node.role = "toplevel" /\ node.parent = old.parent
        /\ node.source = old.source /\ node.size = old.size /\ node.children = old.children
    BY <2>1 DEF Nodes
  <2> HIDE DEF node, old
  <2> DEFINE K == {x \in Surface : x < nextSurface /\ (x \in DOMAIN wl => wl[x].role = "subsurface")}
             L == {x \in Surface : x < nextSurface /\ (x \in DOMAIN v => v[x].role = "subsurface")}
  <2>4. K \subseteq L
    BY <1>6 DEF SameSurfaces
  <2>5. Around(old.children, s, K)
    BY <2>1 DEF NodeOK
  <2> HIDE DEF K, L
  <2>6. Around(node.children, s, L)
    BY <2>3, <2>4, <2>5, AroundGrows
  <2>7. NodeOK(node, s, v, nextSurface, pixels, t)
    <3>1. node.parent = NoSurface
      BY <1>1, <2>1, <2>3 DEF NodeOK
    <3>2. s \in DOMAIN t /\ s \notin DOMAIN pixels /\ v[s].client = wl[s].client
      BY <1>1, <1>3, <1>4, <1>8
    <3> QED
      BY <2>1, <2>3, <2>6, <3>1, <3>2 DEF NodeOK, L
  <2>8. nextSurface \in Nat /\ \A x \in Live(scene) \ {s} : x \in DOMAIN t <=> x \in DOMAIN toplevels
    BY <1>2, <1>8 DEF IdsOK
  <2> QED
    BY <1>2, <1>6, <1>11, <2>2, <2>7, <2>8, ReplacedNode, ZenonT(60)
<1>13. ScreenOK' /\ scene' = after
  BY <1>1, <1>2, PublishedScreen
<1>14. IdsOK'
  BY <1>1, <1>2, <1>4 DEF IdsOK
<1>15. gone \in SUBSET Client /\ keyboardFocus = Focus!Topmost(focusMap)
  BY DEF IInv
<1> QED
  BY <1>1, <1>2, <1>5, <1>9, <1>10, <1>12, <1>13, <1>14, <1>15 DEF IInv

(* A handler that changes Smithay's tree only.                               *)
LEMMA TreeOnlyKeeps ==
  ASSUME IInv, NEW v, TreeOK(v), DOMAIN v = DOMAIN wl,
         \A x \in DOMAIN wl : v[x].client = wl[x].client /\ v[x].role = wl[x].role,
         wl' = v, UNCHANGED <<protoVars, gone, scene, screen, exposed>>
  PROVE  IInv'
<1>1. /\ TreeOK(wl) /\ IdsOK /\ ToplevelsOK(wl, pixels, toplevels)
      /\ SceneOK(scene, wl, gone, nextSurface, pixels, toplevels) /\ ScreenOK
      /\ TableOK(focusMap, MappedToplevels(toplevels))
      /\ gone \in SUBSET Client /\ keyboardFocus = Focus!Topmost(focusMap)
  BY DEF IInv
<1>2. /\ nextSurface' = nextSurface /\ nextToplevel' = nextToplevel /\ pixels' = pixels
      /\ toplevels' = toplevels /\ focusMap' = focusMap /\ keyboardFocus' = keyboardFocus
      /\ gone' = gone /\ scene' = scene /\ screen' = screen /\ exposed' = exposed
  BY DEF protoVars
<1>3. ToplevelsOK(v, pixels, toplevels)
  <2>1. DOMAIN toplevels \in SUBSET (DOMAIN v) /\ DOMAIN pixels \in SUBSET (DOMAIN v)
    BY <1>1 DEF ToplevelsOK
  <2> QED
    BY <1>1, <2>1, SameToplevels
<1>4. SameSurfaces(wl, v) /\ nextSurface \in Nat
  BY <1>1 DEF SameSurfaces, IdsOK
<1>5. SceneOK(scene, v, gone, nextSurface, pixels, toplevels)
  BY <1>1, <1>4, SameScene
<1> QED
  BY <1>1, <1>2, <1>3, <1>5 DEF IInv, IdsOK, ScreenOK

LEMMA SubsurfaceDestroyedKeeps ==
  ASSUME IInv, NEW s \in alive, SubsurfaceDestroyed(s)
  PROVE  IInv'
<1> DEFINE v == Unlinked(wl, s)
<1>1. TreeOK(wl) /\ s \in DOMAIN wl
  BY DEF IInv, alive
<1>2. /\ v \in [DOMAIN wl -> WlSurfaces] /\ TreeOK(v)
      /\ \A x \in DOMAIN wl : v[x].client = wl[x].client /\ v[x].role = wl[x].role
  BY <1>1, UnlinkedIs
<1>3. wl' = v /\ UNCHANGED <<protoVars, gone, scene, screen, exposed>>
  BY DEF SubsurfaceDestroyed
<1> HIDE DEF v
<1>4. DOMAIN v = DOMAIN wl
  BY <1>2
<1> QED
  BY <1>2, <1>3, <1>4, TreeOnlyKeeps

LEMMA AssignmentsAre ==
  ASSUME NEW s \in Surface, NEW a \in Assignments(s)
  PROVE  a \in Acts
<1>1. CASE a = Nothing \/ a = Detach
  BY <1>1 DEF Acts
<1>2. ASSUME NEW b \in Buffers(s) \ {NoPixels}, NEW d \in Damages, a = Attach(b, d)
      PROVE  a \in Acts
  <2>1. b \in [block : Blocks, opaque : BOOLEAN] /\ d \in SUBSET Int
    BY <1>2, ProtocolAssumption
  <2>2. Attach(b, d) \in [kind : {"attach"}, buffer : [block : Blocks, opaque : BOOLEAN],
                          damage : SUBSET Int]
    BY <2>1 DEF Attach
  <2> QED
    BY <1>2, <2>2 DEF Acts
<1> QED
  BY <1>1, <1>2 DEF Assignments

LEMMA MergeIs ==
  ASSUME NEW old \in Acts, NEW new \in Acts
  PROVE  Merge(old, new) \in Acts
<1> DEFINE A == [kind : {"attach"}, buffer : [block : Blocks, opaque : BOOLEAN], damage : SUBSET Int]
<1>1. CASE new # Nothing /\ old # Nothing /\ old.kind = "attach" /\ new.kind = "attach"
  <2>1. old \in A /\ new \in A
    BY <1>1 DEF Acts, Detach
  <2> DEFINE d == IF old.damage = {} \/ new.damage = {} THEN {} ELSE old.damage \cup new.damage
  <2>2. d \in SUBSET Int /\ new.buffer \in [block : Blocks, opaque : BOOLEAN]
    BY <2>1
  <2>3. Merge(old, new) = Attach(new.buffer, d)
    BY <1>1 DEF Merge
  <2> HIDE DEF d
  <2>4. Attach(new.buffer, d) \in A
    BY <2>2 DEF Attach
  <2> QED
    BY <2>3, <2>4 DEF Acts
<1>2. CASE ~(new # Nothing /\ old # Nothing /\ old.kind = "attach" /\ new.kind = "attach")
  BY <1>2 DEF Merge
<1> QED
  BY <1>1, <1>2

LEMMA CachedCommitKeeps ==
  ASSUME IInv, NEW s \in alive, NEW a \in Assignments(s), CachedCommit(s, a)
  PROVE  IInv'
<1> DEFINE c == Merge(wl[s].cached, a)
           v == [wl EXCEPT ![s].cached = c]
<1>1. TreeOK(wl) /\ s \in DOMAIN wl /\ s \in Synchronized(wl)
  BY DEF IInv, alive, CachedCommit
<1>2. /\ wl[s].role = "subsurface" /\ wl \in [DOMAIN wl -> WlSurfaces]
      /\ s \in Surface /\ wl[s].cached \in Acts
  BY <1>1, SynchronizedAre DEF TreeOK, WlSurfaces
<1>3. c \in Acts
  BY <1>2, AssignmentsAre, MergeIs
<1>4. wl' = v /\ UNCHANGED <<protoVars, gone, scene, screen, exposed>>
  BY DEF CachedCommit
<1> HIDE DEF c
<1>5. /\ DOMAIN v = DOMAIN wl /\ v \in [DOMAIN wl -> WlSurfaces]
      /\ \A x \in DOMAIN wl : /\ v[x].client = wl[x].client /\ v[x].role = wl[x].role
                              /\ v[x].parent = wl[x].parent /\ v[x].order = wl[x].order
                              /\ v[x].sync = wl[x].sync
                              /\ x # s => v[x].cached = wl[x].cached
  BY <1>1, <1>2, <1>3 DEF WlSurfaces
<1> HIDE DEF v
<1>6. TreeOK(v)
  <2>1. \A x \in DOMAIN wl : v[x].role # "subsurface" =>
                               wl[x].role # "subsurface" /\ v[x].cached = Nothing /\ ~v[x].sync
    BY <1>1, <1>2, <1>5 DEF TreeOK
  <2> QED
    BY <1>1, <1>5, <2>1, SameLinks
<1> QED
  BY <1>4, <1>5, <1>6, TreeOnlyKeeps

(* The render side changes neither the nodes nor anything of this thread.    *)
LEMMA RenderSideKeeps ==
  ASSUME IInv, NEW sc \in Scenes, sc.nodes = scene.nodes, scene' = sc, ScreenOK',
         UNCHANGED <<wl, protoVars, gone>>
  PROVE  IInv'
<1>1. /\ nextSurface' = nextSurface /\ nextToplevel' = nextToplevel /\ pixels' = pixels
      /\ toplevels' = toplevels /\ focusMap' = focusMap /\ keyboardFocus' = keyboardFocus
      /\ gone' = gone /\ wl' = wl
  BY DEF protoVars
<1>2. SceneOK(sc, wl, gone, nextSurface, pixels, toplevels)
  BY DEF IInv, SceneOK, Live
<1> QED
  BY <1>1, <1>2 DEF IInv, IdsOK

LEMMA TickKeeps == ASSUME IInv, Tick PROVE IInv'
<1>1. scene \in Scenes /\ scene.nodes \in Forests
  BY DEF IInv, SceneOK, Scenes
<1> DEFINE sc == Drained(scene)
<1>2. sc \in Scenes /\ sc.nodes = scene.nodes
  BY <1>1 DEF Drained, Scenes
<1>3. scene' = sc /\ UNCHANGED <<wl, protoVars, gone>>
  BY DEF Tick
<1>4. ScreenOK'
  <2>1. DOMAIN screen' = Output
    BY DEF Tick, CompositeInto
  <2>2. exposed' \in SUBSET Surface
    BY DEF Tick, IInv, ScreenOK
  <2> QED
    BY <2>1, <2>2 DEF ScreenOK
<1> HIDE DEF sc
<1> QED
  BY <1>2, <1>3, <1>4, RenderSideKeeps

LEMMA RepaintAllKeeps == ASSUME IInv, RepaintAll PROVE IInv'
<1>1. scene \in Scenes /\ ScreenOK
  BY DEF IInv, SceneOK
<1> DEFINE sc == DamageFull(scene)
<1>2. sc \in Scenes /\ sc.nodes = scene.nodes
  BY <1>1 DEF DamageFull, Scenes
<1>3. Publish(sc) /\ UNCHANGED <<wl, protoVars, gone>>
  BY DEF RepaintAll
<1> HIDE DEF sc
<1>4. ScreenOK' /\ scene' = sc
  BY <1>1, <1>3, PublishedScreen
<1> QED
  BY <1>2, <1>3, <1>4, RenderSideKeeps

LEMMA ForgetIs ==
  ASSUME IInv, NEW s, Forget(s)
  PROVE  /\ ToplevelsOK(wl, pixels', toplevels')
         /\ DOMAIN pixels' = DOMAIN pixels \ {s} /\ DOMAIN toplevels' = DOMAIN toplevels \ {s}
         /\ TableOK(focusMap', MappedToplevels(toplevels'))
         /\ keyboardFocus' = Focus!Topmost(focusMap')
<1>1. /\ pixels' = Drop(pixels, s) /\ toplevels' = Drop(toplevels, s)
      /\ SetRouting(Focus!Unmap(focusMap, s))
  BY DEF Forget
<1>2. ToplevelsOK(wl, pixels, toplevels) /\ TableOK(focusMap, MappedToplevels(toplevels))
  BY DEF IInv
<1>3. /\ ToplevelsOK(wl, pixels', toplevels')
      /\ MappedToplevels(toplevels') = MappedToplevels(toplevels) \ {s}
  BY <1>1, <1>2, ForgottenToplevels
<1>4. focusMap' = Focus!Unmap(focusMap, s) /\ keyboardFocus' = Focus!Topmost(focusMap')
  BY <1>1, RefocusIs
<1>5. TableOK(focusMap', MappedToplevels(toplevels) \ {s})
  BY <1>2, <1>4, UnmapIs
<1> QED
  BY <1>1, <1>3, <1>4, <1>5, DropIs

LEMMA ToplevelDestroyedKeeps ==
  ASSUME IInv, NEW s \in alive, ToplevelDestroyed(s)
  PROVE  IInv'
<1> DEFINE mid == ClearSource(scene, s)
           after == SetRole(mid, s, "none")
<1>1. /\ Forget(s) /\ Publish(after) /\ s \in DOMAIN toplevels
      /\ wl' = wl /\ nextSurface' = nextSurface /\ nextToplevel' = nextToplevel /\ gone' = gone
  BY DEF ToplevelDestroyed
<1>2. /\ TreeOK(wl) /\ IdsOK /\ ToplevelsOK(wl, pixels, toplevels)
      /\ SceneOK(scene, wl, gone, nextSurface, pixels, toplevels) /\ ScreenOK
      /\ gone \in SUBSET Client
  BY DEF IInv
<1>3. /\ ToplevelsOK(wl, pixels', toplevels')
      /\ DOMAIN pixels' = DOMAIN pixels \ {s} /\ DOMAIN toplevels' = DOMAIN toplevels \ {s}
      /\ TableOK(focusMap', MappedToplevels(toplevels'))
      /\ keyboardFocus' = Focus!Topmost(focusMap')
  BY <1>1, ForgetIs
<1>4. scene \in Scenes
  BY <1>2 DEF SceneOK
<1> DEFINE p == pixels'
           t == toplevels'
<1>5. /\ after \in Scenes /\ Live(after) = Live(scene)
      /\ \A x \in Live(scene) \ {s} : after.nodes[x] = scene.nodes[x]
      /\ s \in Live(scene) => NodeOK(after.nodes[s], s, wl, nextSurface, p, t)
  <2>1. CASE s \notin Live(scene)
    <3>1. mid = scene
      BY <2>1 DEF ClearSource
    <3>2. after = scene
      BY <2>1, <3>1 DEF SetRole
    <3> QED
      BY <1>4, <2>1, <3>2
  <2>2. CASE s \in Live(scene)
    <3> DEFINE old == scene.nodes[s]
               empty == [old EXCEPT !.source = NoPixels, !.opaque = FALSE]
               node == [empty EXCEPT !.role = "none"]
    <3>1. mid \in Scenes /\ mid.nodes = [scene.nodes EXCEPT ![s] = empty]
      BY <1>4, <2>2, ClearSourceIs, Zenon
    <3>2. /\ scene.nodes \in [Live(scene) -> Nodes] /\ old \in Nodes
          /\ NodeOK(old, s, wl, nextSurface, pixels, toplevels)
      BY <1>2, <1>4, <2>2, SceneIs DEF SceneOK
    <3>3. /\ node.client = old.client /\ node.role = "none" /\ node.parent = old.parent
          /\ node.source = NoPixels /\ node.children = old.children
      BY <3>2 DEF Nodes
    <3> HIDE DEF mid, old
    <3>4. Live(mid) = Live(scene) /\ mid.nodes[s] = empty
      BY <2>2, <3>1, <3>2 DEF Live
    <3>5. "none" \in Roles
      BY DEF Roles
    <3>6. after \in Scenes /\ after.nodes = [mid.nodes EXCEPT ![s] = [mid.nodes[s] EXCEPT !.role = "none"]]
      BY <2>2, <3>1, <3>4, <3>5, SetRoleIs
    <3> HIDE DEF after, empty
    <3>7. after.nodes = [[scene.nodes EXCEPT ![s] = empty] EXCEPT ![s] = node]
      BY <3>1, <3>4, <3>6
    <3> HIDE DEF node
    <3>8. /\ Live(after) = Live(scene) /\ after.nodes[s] = node
          /\ \A x \in Live(scene) \ {s} : after.nodes[x] = scene.nodes[x]
      BY <2>2, <3>2, <3>7 DEF Live
    <3>9. NodeOK(node, s, wl, nextSurface, p, t)
      BY <1>3, <3>2, <3>3 DEF NodeOK
    <3> QED
      BY <3>6, <3>8, <3>9
  <2> QED
    BY <2>1, <2>2
<1> HIDE DEF after
<1>6. \A x \in Live(scene) \ {s} : /\ x \in DOMAIN p <=> x \in DOMAIN pixels
                                   /\ x \in DOMAIN t <=> x \in DOMAIN toplevels
  BY <1>3
<1>7. SameSurfaces(wl, wl) /\ nextSurface \in Nat
  BY <1>2 DEF SameSurfaces, IdsOK
<1> HIDE DEF p, t
<1>8. SceneOK(after, wl, gone, nextSurface, p, t)
  BY <1>2, <1>5, <1>6, <1>7, ReplacedNode
<1>9. ScreenOK' /\ scene' = after
  BY <1>1, <1>2, PublishedScreen
<1> QED
  BY <1>1, <1>2, <1>3, <1>8, <1>9 DEF IInv, IdsOK, p, t

LEMMA SurfaceDestroyedKeeps ==
  ASSUME IInv, NEW s \in alive, SurfaceDestroyed(s)
  PROVE  IInv'
<1> DEFINE v == Orphaned(wl, s)
           after == Destroyed(scene, s)
<1>1. /\ Forget(s) /\ Publish(after) /\ wl' = v
      /\ nextSurface' = nextSurface /\ nextToplevel' = nextToplevel /\ gone' = gone
  BY Zenon DEF SurfaceDestroyed, Orphaned
<1>2. /\ TreeOK(wl) /\ IdsOK /\ ToplevelsOK(wl, pixels, toplevels)
      /\ SceneOK(scene, wl, gone, nextSurface, pixels, toplevels) /\ ScreenOK
      /\ gone \in SUBSET Client /\ s \in DOMAIN wl
  BY DEF IInv, alive
<1>3. /\ TreeOK(v) /\ DOMAIN v = DOMAIN wl \ {s}
      /\ \A x \in DOMAIN v : v[x].client = wl[x].client /\ v[x].role = wl[x].role
  <2>1. /\ TreeOK(v) /\ DOMAIN v = DOMAIN wl \ {s}
        /\ \A x \in DOMAIN wl \ {s} : v[x].client = wl[x].client /\ v[x].role = wl[x].role
    BY <1>2, DestroyedTree, ZenonT(90)
  <2> HIDE DEF v
  <2> QED
    BY <2>1
<1> HIDE DEF v
<1>4. /\ ToplevelsOK(wl, pixels', toplevels')
      /\ DOMAIN pixels' = DOMAIN pixels \ {s} /\ DOMAIN toplevels' = DOMAIN toplevels \ {s}
      /\ TableOK(focusMap', MappedToplevels(toplevels'))
      /\ keyboardFocus' = Focus!Topmost(focusMap')
  BY <1>1, ForgetIs
<1> DEFINE p == pixels'
           t == toplevels'
<1>5. ToplevelsOK(v, p, t)
  <2>1. DOMAIN t \in SUBSET (DOMAIN v) /\ DOMAIN p \in SUBSET (DOMAIN v)
    BY <1>2, <1>3, <1>4 DEF ToplevelsOK
  <2>2. \A x \in DOMAIN t : v[x].role = wl[x].role
    BY <1>3, <2>1
  <2>3. ToplevelsOK(wl, p, t)
    BY <1>4
  <2> HIDE DEF p, t
  <2> QED
    BY <2>1, <2>2, <2>3, SameToplevels
<1>6. /\ scene \in Scenes /\ after \in Scenes /\ Live(after) = Live(scene) \ {s}
      /\ \A x \in Live(scene) \ {s} : after.nodes[x] = scene.nodes[x]
  BY <1>2, DestroyedIs DEF SceneOK
<1> HIDE DEF after
<1>7. SceneOK(after, v, gone, nextSurface, p, t)
  <2>1. Live(scene) = {x \in DOMAIN wl : wl[x].client \notin gone}
    BY <1>2 DEF SceneOK
  <2>2. Live(after) = {x \in DOMAIN v : v[x].client \notin gone}
    BY <1>3, <1>6, <2>1
  <2>3. ASSUME NEW x \in Live(after) PROVE NodeOK(after.nodes[x], x, v, nextSurface, p, t)
    <3> DEFINE node == scene.nodes[x]
    <3>1. NodeOK(node, x, wl, nextSurface, pixels, toplevels) /\ after.nodes[x] = node
      BY <1>2, <1>6, <2>3 DEF SceneOK
    <3>2. x \in DOMAIN v /\ x # s
      BY <1>6, <2>2, <2>3
    <3>3. nextSurface \in Nat /\ nextSurface <= nextSurface
      BY <1>2 DEF IdsOK
    <3>4. /\ x \in DOMAIN p <=> x \in DOMAIN pixels
          /\ x \in DOMAIN t <=> x \in DOMAIN toplevels
      BY <1>4, <3>2
    <3>5. \A y \in DOMAIN v : \/ y \in DOMAIN wl /\ (wl[y].role = "subsurface" => v[y].role = "subsurface")
                              \/ ~(y < nextSurface)
      BY <1>3
    <3>6. v[x].client = wl[x].client /\ (wl[x].role = "subsurface" => v[x].role = "subsurface")
      BY <1>3, <3>2
    <3> HIDE DEF node, p, t
    <3>7. NodeOK(node, x, v, nextSurface, p, t)
      BY <3>1, <3>3, <3>4, <3>5, <3>6, NodeStays
    <3> QED
      BY <3>1, <3>7
  <2> QED
    BY <1>6, <2>2, <2>3 DEF SceneOK
<1>8. ScreenOK' /\ scene' = after
  BY <1>1, <1>2, PublishedScreen
<1>9. IdsOK'
  BY <1>1, <1>2, <1>3 DEF IdsOK
<1> QED
  BY <1>1, <1>2, <1>3, <1>4, <1>5, <1>7, <1>8, <1>9 DEF IInv

LEMMA NewSubsurfaceKeeps ==
  ASSUME IInv, NEW s \in alive, NEW p \in alive, NEW sync \in BOOLEAN, NewSubsurface(s, p, sync)
  PROVE  IInv'
<1> DEFINE v == [wl EXCEPT ![s].role = "subsurface", ![s].parent = p, ![s].sync = sync,
                           ![p].order = OrderedChildren(wl, p) \o <<s>>]
           after == AttachSubsurface(scene, s, p)
<1>1. /\ s \in Served /\ p \in Served /\ wl[s].role # "toplevel" /\ wl[s].parent = NoSurface
      /\ p \notin WithDescendants(wl, {s})
      /\ wl' = v /\ Publish(after)
      /\ nextSurface' = nextSurface /\ nextToplevel' = nextToplevel /\ pixels' = pixels
      /\ toplevels' = toplevels /\ focusMap' = focusMap /\ keyboardFocus' = keyboardFocus
      /\ gone' = gone
  BY DEF NewSubsurface, protoVars
<1>2. /\ TreeOK(wl) /\ IdsOK /\ ToplevelsOK(wl, pixels, toplevels)
      /\ SceneOK(scene, wl, gone, nextSurface, pixels, toplevels) /\ ScreenOK
      /\ TableOK(focusMap, MappedToplevels(toplevels))
      /\ gone \in SUBSET Client /\ keyboardFocus = Focus!Topmost(focusMap)
  BY DEF IInv
<1>3. /\ s \in Live(scene) /\ s \in DOMAIN wl /\ s \in Surface
      /\ p \in Live(scene) /\ p \in DOMAIN wl /\ p \in Surface
  BY <1>1, ServedAreLive DEF alive
<1>4. s # p
  <2> DEFINE S == {s}
  <2>1. DOMAIN wl \in SUBSET Surface /\ S \in SUBSET (DOMAIN wl) /\ s \in S
    BY <1>2, <1>3 DEF TreeOK
  <2>2. p \notin WithDescendants(wl, S)
    BY <1>1, SMTT(30)
  <2> HIDE DEF S
  <2> QED
    BY <2>1, <2>2, DescendantsAre
<1>5. TreeOK(v)
  BY <1>1, <1>2, <1>3, <1>4, NewSubsurfaceTree, ZenonT(60)
<1>6. /\ DOMAIN v = DOMAIN wl /\ v[s].role = "subsurface" /\ v[s].client = wl[s].client
      /\ \A x \in DOMAIN wl \ {s} : v[x].client = wl[x].client /\ v[x].role = wl[x].role
  <2> DEFINE o == OrderedChildren(wl, p) \o <<s>>
             S == [wl[s] EXCEPT !.role = "subsurface", !.parent = p, !.sync = sync]
             P == [wl[p] EXCEPT !.order = o]
  <2>1. v = [[wl EXCEPT ![s] = S] EXCEPT ![p] = P]
    BY <1>4
  <2>2. wl[s] \in WlSurfaces /\ wl[p] \in WlSurfaces
    BY <1>2, <1>3 DEF TreeOK
  <2> HIDE DEF o, v
  <2>3. S.role = "subsurface" /\ S.client = wl[s].client /\ P.client = wl[p].client /\ P.role = wl[p].role
    BY <2>2 DEF WlSurfaces
  <2> HIDE DEF S, P
  <2> QED
    BY <1>3, <1>4, <2>1, <2>3
<1> HIDE DEF v
<1>7. SameSurfaces(wl, v)
  BY <1>3, <1>6 DEF SameSurfaces
<1>8. s \notin DOMAIN toplevels
  BY <1>1, <1>2 DEF ToplevelsOK
<1>9. ToplevelsOK(v, pixels, toplevels)
  <2>1. DOMAIN toplevels \in SUBSET (DOMAIN v) /\ DOMAIN pixels \in SUBSET (DOMAIN v)
    BY <1>2, <1>6 DEF ToplevelsOK
  <2>2. \A x \in DOMAIN toplevels : v[x].role = wl[x].role
    BY <1>6, <1>8, <2>1
  <2> QED
    BY <1>2, <2>1, <2>2, SameToplevels
<1> DEFINE child == scene.nodes[s]
           par == scene.nodes[p]
<1>10. /\ scene \in Scenes /\ child \in Nodes /\ par \in Nodes
       /\ NodeOK(child, s, wl, nextSurface, pixels, toplevels)
       /\ NodeOK(par, p, wl, nextSurface, pixels, toplevels)
  BY <1>2, <1>3, SceneIs DEF SceneOK
<1>11. \/ scene.nodes[p].children = <<>>
       \/ \E i \in 1..Len(scene.nodes[p].children) : scene.nodes[p].children[i] = p
  BY <1>10 DEF NodeOK, Around
<1>12. /\ after \in Scenes
       /\ Live(after) = Live(scene)
       /\ \A x \in Live(scene) \ {s, p} : after.nodes[x] = scene.nodes[x]
       /\ after.nodes[s] = HungBelow(child, p)
       /\ GainedChild(after.nodes[p], par, p, s)
  BY <1>3, <1>4, <1>10, <1>11, AttachSubsurfaceIs
<1>13. PICK kids \in Seq(Surface) :
            /\ after.nodes[p] = [par EXCEPT !.children = kids]
            /\ \E i \in 1..Len(kids) : kids[i] = p
            /\ \A i \in 1..Len(kids) :
                 \/ kids[i] \in {s, p}
                 \/ \E j \in 1..Len(par.children) : par.children[j] = kids[i]
  BY <1>12 DEF GainedChild
<1> HIDE DEF after
<1> DEFINE K == {x \in Surface : x < nextSurface /\ (x \in DOMAIN wl => wl[x].role = "subsurface")}
           L == {x \in Surface : x < nextSurface /\ (x \in DOMAIN v => v[x].role = "subsurface")}
<1>14. K \subseteq L /\ s \in L
  BY <1>2, <1>3, <1>6, <1>7 DEF SameSurfaces, IdsOK
<1>15. NodeOK(after.nodes[s], s, v, nextSurface, pixels, toplevels)
  <2> DEFINE node == after.nodes[s]
  <2>1. /\ node.client = child.client /\ node.role = "subsurface" /\ node.source = child.source
        /\ node.size = child.size /\ node.children = child.children
    BY <1>10, <1>12 DEF Nodes, HungBelow
  <2>2. Around(child.children, s, K)
    BY <1>10 DEF NodeOK
  <2> HIDE DEF node, child, K, L
  <2>3. Around(node.children, s, L)
    BY <1>14, <2>1, <2>2, AroundGrows
  <2>4. NodeOK(node, s, v, nextSurface, pixels, toplevels)
    BY <1>6, <1>8, <1>10, <2>1, <2>3 DEF NodeOK, L
  <2> QED
    BY <2>4 DEF node
<1>16. NodeOK(after.nodes[p], p, v, nextSurface, pixels, toplevels)
  <2> DEFINE node == after.nodes[p]
  <2>1. /\ node.client = par.client /\ node.role = par.role /\ node.source = par.source
        /\ node.size = par.size /\ node.parent = par.parent /\ node.children = kids
    BY <1>10, <1>13 DEF Nodes
  <2>2. Around(par.children, p, K)
    BY <1>10 DEF NodeOK
  <2> HIDE DEF node, par, K, L
  <2>3. Around(kids, p, L)
    <3>1. ASSUME NEW i \in 1..Len(kids) PROVE kids[i] = p \/ kids[i] \in L
      <4>1. CASE kids[i] \in {s, p}
        BY <1>14, <4>1
      <4>2. ASSUME NEW j \in 1..Len(par.children), par.children[j] = kids[i]
            PROVE  kids[i] = p \/ kids[i] \in L
        BY <1>14, <2>2, <4>2 DEF Around
      <4> QED
        BY <1>13, <4>1, <4>2
    <3> QED
      BY <1>13, <3>1 DEF Around
  <2>4. v[p].client = wl[p].client /\ v[p].role = wl[p].role
    BY <1>3, <1>4, <1>6
  <2>5. NodeOK(node, p, v, nextSurface, pixels, toplevels)
    BY <1>10, <2>1, <2>3, <2>4 DEF NodeOK, L
  <2> QED
    BY <2>5 DEF node
<1>17. SceneOK(after, v, gone, nextSurface, pixels, toplevels)
  <2>1. Live(scene) = {x \in DOMAIN wl : wl[x].client \notin gone}
    BY <1>2 DEF SceneOK
  <2>2. Live(after) = {x \in DOMAIN v : v[x].client \notin gone}
    BY <1>3, <1>6, <1>12, <2>1
  <2>3. ASSUME NEW x \in Live(after) PROVE NodeOK(after.nodes[x], x, v, nextSurface, pixels, toplevels)
    <3>1. CASE x \in {s, p}
      BY <1>15, <1>16, <3>1
    <3>2. CASE x \notin {s, p}
      <4> DEFINE node == scene.nodes[x]
      <4>1. /\ NodeOK(node, x, wl, nextSurface, pixels, toplevels) /\ after.nodes[x] = node
            /\ x \in DOMAIN wl
        BY <1>2, <1>12, <2>1, <2>3, <3>2 DEF SceneOK
      <4>2. nextSurface \in Nat /\ nextSurface <= nextSurface
        BY <1>2 DEF IdsOK
      <4>3. \A y \in DOMAIN v : \/ y \in DOMAIN wl /\ (wl[y].role = "subsurface" => v[y].role = "subsurface")
                                \/ ~(y < nextSurface)
        BY <1>7 DEF SameSurfaces
      <4>4. v[x].client = wl[x].client /\ (wl[x].role = "subsurface" => v[x].role = "subsurface")
        BY <1>7, <4>1 DEF SameSurfaces
      <4> HIDE DEF node
      <4>5. NodeOK(node, x, v, nextSurface, pixels, toplevels)
        BY <4>1, <4>2, <4>3, <4>4, NodeStays
      <4> QED
        BY <4>1, <4>5
    <3> QED
      BY <3>1, <3>2
  <2> QED
    BY <1>12, <2>2, <2>3 DEF SceneOK
<1>18. ScreenOK' /\ scene' = after
  BY <1>1, <1>2, PublishedScreen
<1> QED
  BY <1>1, <1>2, <1>5, <1>6, <1>9, <1>17, <1>18 DEF IInv, IdsOK

LEMMA WithoutAround ==
  ASSUME NEW list \in Seq(Surface), NEW s, NEW S, Around(list, s, S), NEW lost, s \notin lost
  PROVE  Around(Without(list, lost), s, S)
<1> DEFINE rest == Without(list, lost)
<1>0. Remains(rest, list, lost, Surface)
  BY WithoutIs
<1> HIDE DEF rest
<1>1. /\ rest \in Seq(Surface)
      /\ \A i \in 1..Len(rest) :
           /\ rest[i] \notin lost
           /\ \E j \in 1..Len(list) : list[j] = rest[i]
      /\ \A j \in 1..Len(list) : list[j] \notin lost => \E i \in 1..Len(rest) : rest[i] = list[j]
  BY <1>0 DEF Remains
<1>2. ASSUME rest # <<>> PROVE \E i \in 1..Len(rest) : rest[i] = s
  <2>1. 1 \in 1..Len(rest)
    BY <1>1, <1>2
  <2>2. list # <<>>
    BY <1>1, <2>1
  <2>3. PICK j \in 1..Len(list) : list[j] = s
    BY <2>2 DEF Around
  <2> QED
    BY <1>1, <2>3
<1>3. ASSUME NEW i \in 1..Len(rest) PROVE rest[i] = s \/ rest[i] \in S
  BY <1>1 DEF Around
<1> QED
  BY <1>2, <1>3 DEF Around, rest

(* A client's connection ends.                                               *)
LEMMA ClientGoneKeeps ==
  ASSUME IInv, NEW k \in Client, gone' = gone \cup {k}, Publish(ClientGone(scene, k)),
         UNCHANGED <<wl, protoVars>>
  PROVE  IInv'
<1> DEFINE lost == {id \in Live(scene) : scene.nodes[id].client = k}
           after == ClientGone(scene, k)
<1>1. /\ nextSurface' = nextSurface /\ nextToplevel' = nextToplevel /\ pixels' = pixels
      /\ toplevels' = toplevels /\ focusMap' = focusMap /\ keyboardFocus' = keyboardFocus
      /\ wl' = wl
  BY DEF protoVars
<1>2. /\ SceneOK(scene, wl, gone, nextSurface, pixels, toplevels) /\ ScreenOK /\ IdsOK
      /\ scene \in Scenes /\ gone \in SUBSET Client
  BY DEF IInv, SceneOK
<1>3. /\ after \in Scenes /\ Live(after) = Live(scene) \ lost
      /\ \A x \in Live(scene) \ lost :
           after.nodes[x] = [scene.nodes[x] EXCEPT !.children = Without(@, lost)]
  BY <1>2, ClientGoneIs, ZenonT(90)
<1>4. \A x \in Live(scene) : x \in lost <=> wl[x].client = k
  BY <1>2 DEF SceneOK, NodeOK
<1>5. ScreenOK' /\ scene' = after
  BY <1>2, PublishedScreen
<1> HIDE DEF after, lost
<1>6. Live(after) = {x \in DOMAIN wl : wl[x].client \notin gone \cup {k}}
  BY <1>2, <1>3, <1>4 DEF SceneOK
<1>7. ASSUME NEW x \in Live(after)
      PROVE  NodeOK(after.nodes[x], x, wl, nextSurface, pixels, toplevels)
  <2> DEFINE old == scene.nodes[x]
             node == after.nodes[x]
             K == {y \in Surface : y < nextSurface /\ (y \in DOMAIN wl => wl[y].role = "subsurface")}
  <2>1. /\ x \in Live(scene) /\ x \notin lost
        /\ old \in Nodes /\ NodeOK(old, x, wl, nextSurface, pixels, toplevels)
    BY <1>2, <1>3, <1>7, SceneIs DEF SceneOK
  <2>2. node = [old EXCEPT !.children = Without(old.children, lost)]
    BY <1>3, <2>1
  <2>3. old.children \in Seq(Surface) /\ Around(old.children, x, K)
    BY <2>1 DEF Nodes, NodeOK
  <2> HIDE DEF node, old, K
  <2> DEFINE c == old.children
  <2>4. c \in Seq(Surface) /\ Around(c, x, K) /\ c = old.children
    BY <2>3
  <2> HIDE DEF c
  <2>5. Around(Without(c, lost), x, K)
    BY <2>1, <2>4, WithoutAround
  <2>6. /\ node.client = old.client /\ node.role = old.role /\ node.parent = old.parent
        /\ node.source = old.source /\ node.size = old.size /\ node.children = Without(c, lost)
    BY <2>1, <2>2, <2>4 DEF Nodes
  <2>7. NodeOK(node, x, wl, nextSurface, pixels, toplevels)
    BY <2>1, <2>5, <2>6 DEF NodeOK, K
  <2> QED
    BY <2>7 DEF node
<1>8. SceneOK(after, wl, gone \cup {k}, nextSurface, pixels, toplevels)
  BY <1>3, <1>6, <1>7 DEF SceneOK
<1> QED
  BY <1>1, <1>2, <1>5, <1>8 DEF IInv, IdsOK

LEMMA UnconfiguredCommitKeeps ==
  ASSUME IInv, NEW s \in alive, NEW a, UnconfiguredCommit(s, a)
  PROVE  IInv'
<1> DEFINE k == wl[s].client
<1>1. k \in Client
  BY DEF IInv, TreeOK, WlSurfaces, alive
<1>2. /\ gone' = gone \cup {k} /\ Publish(ClientGone(scene, k)) /\ UNCHANGED <<wl, protoVars>>
  BY DEF UnconfiguredCommit
<1> HIDE DEF k
<1> QED
  BY <1>1, <1>2, ClientGoneKeeps

LEMMA CommitUpdatesAre ==
  ASSUME NEW w, TreeOK(w), NEW s \in DOMAIN w, NEW assigned, AssignedOK(w, assigned),
         \A x \in DOMAIN toplevels : toplevels[x] \in Toplevels,
         \A x \in DOMAIN pixels : pixels[x] \in Blocks
  PROVE  CommitUpdates(CollectTree(w, s, assigned), w, assigned)
<1> DEFINE updates == CollectTree(w, s, assigned)
           own(x) == ToSet(CollectSurface(w, x, assigned[x]))
           set == ToSet(updates)
           content == Updated(updates, "content")
           unmap == Updated(updates, "unmap")
           geometry == Updated(updates, "geometry")
<1>1. Gathered(updates, w, assigned, {s})
  BY CollectTreeIs
<1>2. /\ updates \in Seq(Updates)
      /\ \A u \in set : /\ u.surface \in DOMAIN w
                        /\ u.kind = "order" => u.order = OrderedChildren(w, u.surface)
                        /\ u.kind # "order" => u \in own(u.surface) /\ own(u.surface) \subseteq set
  BY <1>1 DEF Gathered
<1>3. ASSUME NEW x \in DOMAIN w PROVE OwnUpdates(own(x), x, assigned[x], toplevels)
  <2> DEFINE a == assigned[x]
  <2>1. a \in Acts
    BY DEF AssignedOK
  <2> HIDE DEF a
  <2>2. OwnUpdates(ToSet(CollectSurface(w, x, a)), x, a, toplevels)
    BY <2>1, CollectSurfaceIs
  <2> QED
    BY <2>2 DEF a
<1>4. \A i \in 1..Len(updates) : updates[i] \in set
  BY <1>2 DEF ToSet
<1>5. /\ content = {u.surface : u \in {v \in set : v.kind = "content"}}
      /\ unmap = {u.surface : u \in {v \in set : v.kind = "unmap"}}
      /\ geometry = {u.surface : u \in {v \in set : v.kind = "geometry"}}
  BY DEF Updated
<1> HIDE DEF updates, own, set, content, unmap, geometry
<1>6. ASSUME NEW x \in content
      PROVE  /\ x \in DOMAIN w /\ assigned[x] # Nothing /\ assigned[x].kind # "detach"
             /\ own(x) \subseteq set
  <2>1. PICK u \in set : u.kind = "content" /\ u.surface = x
    BY <1>5, <1>6
  <2>2. x \in DOMAIN w /\ u \in own(x) /\ own(x) \subseteq set
    BY <1>2, <2>1
  <2> QED
    BY <1>3, <2>1, <2>2 DEF OwnUpdates
<1>7. ASSUME NEW x \in unmap
      PROVE  x \in DOMAIN w /\ assigned[x] # Nothing /\ assigned[x].kind = "detach"
  <2>1. PICK u \in set : u.kind = "unmap" /\ u.surface = x
    BY <1>5, <1>7
  <2>2. x \in DOMAIN w /\ u \in own(x)
    BY <1>2, <2>1
  <2> QED
    BY <1>3, <2>1, <2>2 DEF OwnUpdates
<1>8. ASSUME NEW x \in geometry
      PROVE  x \in content /\ x \in DOMAIN toplevels /\ ~toplevels[x].mapped
  <2>1. PICK u \in set : u.kind = "geometry" /\ u.surface = x
    BY <1>5, <1>8
  <2>2. x \in DOMAIN w /\ u \in own(x) /\ own(x) \subseteq set
    BY <1>2, <2>1
  <2>3. assigned[x] # Nothing /\ assigned[x].kind # "detach" /\ x \in DOMAIN toplevels /\ ~toplevels[x].mapped
    BY <1>3, <2>1, <2>2 DEF OwnUpdates
  <2>4. PICK c \in own(x) : c.kind = "content" /\ c.surface = x
    BY <1>3, <2>2, <2>3 DEF OwnUpdates
  <2> QED
    BY <1>5, <2>2, <2>3, <2>4
<1>9. ASSUME NEW x \in content, x \in DOMAIN toplevels, ~toplevels[x].mapped
      PROVE  x \in geometry
  <2>1. PICK g \in own(x) : g.kind = "geometry" /\ g.surface = x
    BY <1>3, <1>6, <1>9 DEF OwnUpdates
  <2> QED
    BY <1>5, <1>6, <2>1
<1>10. geometry = {x \in content \cap DOMAIN toplevels : ~toplevels[x].mapped}
  BY <1>8, <1>9
<1>11. content \cap unmap = {} /\ content \in SUBSET (DOMAIN w) /\ unmap \in SUBSET (DOMAIN w)
  BY <1>6, <1>7
<1>12. \A i \in 1..Len(updates) :
         updates[i].kind = "order" =>
           /\ updates[i].surface \in DOMAIN w
           /\ updates[i].order = OrderedChildren(w, updates[i].surface)
  BY <1>2, <1>4
<1>13. \A x \in content \cup unmap : assigned[x] # Nothing
  BY <1>6, <1>7
<1>14. CommitUpdates(updates, w, assigned)
  BY <1>2, <1>10, <1>11, <1>12, <1>13 DEF CommitUpdates, content, unmap, geometry
<1> QED
  BY <1>14 DEF updates

LEMMA UpdatedAmong ==
  ASSUME NEW updates \in Seq(Updates), NEW kind, NEW x
  PROVE  x \in Updated(updates, kind) <=> Among(updates, Len(updates), kind, x)
<1>1. ToSet(updates) = {updates[i] : i \in 1..Len(updates)}
  BY DEF ToSet
<1> QED
  BY <1>1 DEF Updated, Among

(* What the updates of a commit make of the pixels and of the toplevels.     *)
LEMMA PixelsAfterAre ==
  ASSUME NEW updates \in Seq(Updates), pixels \in [DOMAIN pixels -> Blocks]
  PROVE  /\ DOMAIN PixelsAfter(updates) =
              Updated(updates, "content") \cup (DOMAIN pixels \ Updated(updates, "unmap"))
         /\ PixelsAfter(updates) \in [DOMAIN PixelsAfter(updates) -> Blocks]
<1> DEFINE content == Updated(updates, "content")
           set == ToSet(updates)
           shown == {u \in set : u.kind = "content"}
           pick(x) == CHOOSE u \in shown : u.surface = x
           D == content \cup (DOMAIN pixels \ Updated(updates, "unmap"))
           pix == PixelsAfter(updates)
<1>1. \A u \in set : u \in Updates
  BY DEF ToSet
<1>2. content = {u.surface : u \in shown}
  BY DEF Updated
<1>3. pix = [x \in D |-> IF x \in content THEN pick(x).block ELSE pixels[x]]
  BY DEF PixelsAfter
<1> HIDE DEF content, set, pix, D
<1>4. ASSUME NEW x \in content PROVE pick(x).block \in Blocks
  <2>1. pick(x) \in shown
    BY <1>2
  <2>2. pick(x) \in Updates /\ pick(x).kind = "content"
    BY <1>1, <2>1
  <2> HIDE DEF pick
  <2> QED
    BY <2>2 DEF Updates
<1> HIDE DEF pick
<1>5. \A x \in D : pix[x] \in Blocks
  BY <1>3, <1>4 DEF D
<1>6. pix \in [D -> Blocks] /\ DOMAIN pix = D
  <2>1. pix = [x \in D |-> pix[x]]
    BY <1>3
  <2> QED
    BY <1>5, <2>1
<1> QED
  BY <1>6 DEF D, pix, content

LEMMA ToplevelsAfterAre ==
  ASSUME NEW updates, toplevels \in [DOMAIN toplevels -> Toplevels]
  PROVE  LET tops == ToplevelsAfter(updates)
         IN  /\ tops \in [DOMAIN toplevels -> Toplevels] /\ DOMAIN tops = DOMAIN toplevels
             /\ \A x \in DOMAIN toplevels :
                  /\ tops[x].configure = toplevels[x].configure
                  /\ tops[x].mapped <=> toplevels[x].mapped \/ x \in Updated(updates, "geometry")
<1> DEFINE G == Updated(updates, "geometry")
           top(x) == [toplevels[x] EXCEPT !.mapped = @ \/ x \in G]
           tops == ToplevelsAfter(updates)
<1>1. tops = [x \in DOMAIN toplevels |-> top(x)]
  BY DEF ToplevelsAfter
<1> HIDE DEF G
<1>2. ASSUME NEW x \in DOMAIN toplevels
      PROVE  /\ top(x) \in Toplevels /\ top(x).configure = toplevels[x].configure
             /\ top(x).mapped <=> toplevels[x].mapped \/ x \in G
  <2>1. toplevels[x] \in Toplevels
    OBVIOUS
  <2> DEFINE b == toplevels[x].mapped \/ x \in G
  <2>2. b \in BOOLEAN
    OBVIOUS
  <2>3. top(x) = [toplevels[x] EXCEPT !.mapped = b]
    OBVIOUS
  <2> HIDE DEF b, top
  <2>4. top(x) \in Toplevels /\ top(x).configure = toplevels[x].configure /\ top(x).mapped = b
    BY <2>1, <2>2, <2>3 DEF Toplevels
  <2> QED
    BY <2>4 DEF b
<1> HIDE DEF top, tops
<1> QED
  BY <1>1, <1>2 DEF tops, G

(* The bookkeeping after a commit.                                           *)
LEMMA PostCommitIs ==
  ASSUME IInv, NEW s, NEW w, NEW assigned, CommitOf(s, w, assigned), NEW updates,
         CommitUpdates(updates, w, assigned),
         PostCommit(s, w, PixelsAfter(updates), ToplevelsAfter(updates))
  PROVE  /\ ToplevelsOK(w, PixelsAfter(updates), toplevels')
         /\ DOMAIN toplevels' = DOMAIN toplevels
         /\ TableOK(focusMap', MappedToplevels(toplevels'))
         /\ keyboardFocus' = Focus!Topmost(focusMap')
         /\ DOMAIN focusMap' \subseteq DOMAIN focusMap \cup DOMAIN PixelsAfter(updates)
<1> DEFINE content == Updated(updates, "content")
           unmap == Updated(updates, "unmap")
           geometry == Updated(updates, "geometry")
           pix == PixelsAfter(updates)
           tops == ToplevelsAfter(updates)
<1>1. ToplevelsOK(wl, pixels, toplevels) /\ TableOK(focusMap, MappedToplevels(toplevels))
  BY DEF IInv
<1>2. /\ TreeOK(w) /\ DOMAIN w = DOMAIN wl
      /\ \A x \in DOMAIN w : w[x].client = wl[x].client /\ w[x].role = wl[x].role
      /\ \A x \in DOMAIN toplevels : assigned[x] # Nothing => x = s /\ toplevels[x].configure = "acked"
  BY DEF CommitOf
<1>3. /\ updates \in Seq(Updates)
      /\ content \in SUBSET (DOMAIN w) /\ unmap \in SUBSET (DOMAIN w) /\ content \cap unmap = {}
      /\ \A x \in content \cup unmap : assigned[x] # Nothing
      /\ geometry = {x \in content \cap DOMAIN toplevels : ~toplevels[x].mapped}
  BY DEF CommitUpdates
<1>4. DOMAIN pix = content \cup (DOMAIN pixels \ unmap) /\ pix \in [DOMAIN pix -> Blocks]
  BY <1>1, <1>3, PixelsAfterAre DEF ToplevelsOK
<1>5. /\ tops \in [DOMAIN toplevels -> Toplevels] /\ DOMAIN tops = DOMAIN toplevels
      /\ \A x \in DOMAIN toplevels : /\ tops[x].configure = toplevels[x].configure
                                     /\ tops[x].mapped <=> toplevels[x].mapped \/ x \in geometry
  BY <1>1, ToplevelsAfterAre DEF ToplevelsOK
<1> DEFINE unmapped == s \in DOMAIN tops /\ s \notin DOMAIN pix /\ tops[s].mapped
           unsent == s \in DOMAIN tops /\ tops[s].configure = "unsent"
           bare == [tops EXCEPT ![s].mapped = FALSE, ![s].configure = "unsent"]
           cleared == IF unmapped THEN bare ELSE tops
           sent == [tops EXCEPT ![s].configure = "sent"]
<1>6. /\ toplevels' = IF unsent THEN sent ELSE cleared
      /\ SetRouting(IF unmapped THEN Focus!Unmap(focusMap, s) ELSE RefreshInputRouting(w, pix, tops))
  BY DEF PostCommit
<1> HIDE DEF content, unmap, geometry, pix, tops
<1>7. /\ DOMAIN tops \in SUBSET (DOMAIN w) /\ DOMAIN pix \in SUBSET (DOMAIN w)
      /\ \A x \in DOMAIN tops : w[x].role = "toplevel"
  BY <1>1, <1>2, <1>3, <1>4, <1>5 DEF ToplevelsOK
<1>8. ASSUME NEW x \in DOMAIN tops
      PROVE  /\ tops[x].mapped => tops[x].configure = "acked"
             /\ x \in DOMAIN pix => tops[x].mapped
             /\ x # s => (tops[x].mapped => x \in DOMAIN pix)
             /\ x # s => (tops[x].mapped <=> toplevels[x].mapped)
  <2>1. /\ x \in DOMAIN toplevels
        /\ toplevels[x].mapped <=> x \in DOMAIN pixels
        /\ toplevels[x].mapped => toplevels[x].configure = "acked"
        /\ tops[x].configure = toplevels[x].configure
        /\ tops[x].mapped <=> toplevels[x].mapped \/ x \in geometry
    BY <1>1, <1>5 DEF ToplevelsOK
  <2>2. x \in geometry <=> x \in content /\ ~toplevels[x].mapped
    BY <1>3, <2>1
  <2>3. x \in content \cup unmap => x = s /\ toplevels[x].configure = "acked"
    BY <1>2, <1>3, <2>1
  <2> QED
    BY <1>4, <2>1, <2>2, <2>3
<1>9. CASE unmapped
  <2>1. s \in DOMAIN tops /\ s \notin DOMAIN pix /\ tops[s].mapped /\ ~unsent
    BY <1>8, <1>9
  <2>2. toplevels' = bare /\ SetRouting(Focus!Unmap(focusMap, s))
    BY <1>6, <1>9, <2>1
  <2>3. /\ DOMAIN bare = DOMAIN tops /\ bare \in [DOMAIN tops -> Toplevels]
        /\ ~bare[s].mapped /\ \A x \in DOMAIN tops \ {s} : bare[x] = tops[x]
    BY <1>5, <2>1, ZenonT(60) DEF Toplevels
  <2> HIDE DEF unmapped, unsent, cleared, sent, bare
  <2>4. ToplevelsOK(w, pix, bare)
    <3>1. ASSUME NEW x \in DOMAIN tops
          PROVE  /\ bare[x].mapped <=> x \in DOMAIN pix
                 /\ bare[x].mapped => bare[x].configure = "acked"
      <4>1. CASE x = s
        BY <2>1, <2>3, <4>1
      <4>2. CASE x # s
        BY <1>8, <2>3, <4>2
      <4> QED
        BY <4>1, <4>2
    <3> QED
      BY <1>4, <1>7, <2>3, <3>1 DEF ToplevelsOK
  <2>5. MappedToplevels(bare) = MappedToplevels(toplevels) \ {s}
    <3>1. \A x \in DOMAIN toplevels : bare[x].mapped <=> toplevels[x].mapped /\ x # s
      BY <1>5, <1>8, <2>3
    <3> QED
      BY <1>5, <2>3, <3>1 DEF MappedToplevels
  <2>6. focusMap' = Focus!Unmap(focusMap, s) /\ keyboardFocus' = Focus!Topmost(focusMap')
    BY <2>2, RefocusIs
  <2>7. TableOK(focusMap', MappedToplevels(toplevels) \ {s})
    BY <1>1, <2>6, UnmapIs
  <2>8. DOMAIN focusMap' \subseteq DOMAIN focusMap
    BY <2>6 DEF Focus!Unmap
  <2> QED
    BY <1>5, <2>2, <2>3, <2>4, <2>5, <2>6, <2>7, <2>8 DEF pix
<1>10. CASE ~unmapped
  <2>1. SetRouting(RefreshInputRouting(w, pix, tops))
    BY <1>6, <1>10
  <2>2. toplevels' = IF unsent THEN sent ELSE tops
    BY <1>6, <1>10
  <2>3. ToplevelsOK(w, pix, tops)
    <3>1. ASSUME NEW x \in DOMAIN tops
          PROVE  /\ tops[x].mapped <=> x \in DOMAIN pix
                 /\ tops[x].mapped => tops[x].configure = "acked"
      <4>1. CASE x = s
        BY <1>8, <1>10, <4>1
      <4>2. CASE x # s
        BY <1>8, <4>2
      <4> QED
        BY <4>1, <4>2
    <3> QED
      BY <1>4, <1>5, <1>7, <3>1 DEF ToplevelsOK
  <2>4. /\ ToplevelsOK(w, pix, toplevels') /\ DOMAIN toplevels' = DOMAIN tops
        /\ MappedToplevels(toplevels') = MappedToplevels(tops)
    <3>1. CASE ~unsent
      BY <2>2, <2>3, <3>1
    <3>2. CASE unsent
      <4>1. s \in DOMAIN tops /\ ~tops[s].mapped
        BY <1>8, <3>2
      <4>2. /\ DOMAIN sent = DOMAIN tops /\ sent \in [DOMAIN tops -> Toplevels]
            /\ sent[s].mapped = tops[s].mapped /\ \A x \in DOMAIN tops \ {s} : sent[x] = tops[x]
        BY <1>5, <4>1 DEF Toplevels
      <4>3. toplevels' = sent
        BY <2>2, <3>2
      <4> HIDE DEF sent
      <4>4. ASSUME NEW x \in DOMAIN tops
            PROVE  /\ sent[x].mapped <=> tops[x].mapped
                   /\ sent[x].mapped => sent[x] = tops[x]
        BY <4>1, <4>2
      <4>5. ToplevelsOK(w, pix, sent)
        BY <2>3, <4>2, <4>4 DEF ToplevelsOK
      <4>6. MappedToplevels(sent) = MappedToplevels(tops)
        BY <4>2, <4>4 DEF MappedToplevels
      <4> QED
        BY <4>2, <4>3, <4>5, <4>6
    <3> QED
      BY <3>1, <3>2
  <2>5. /\ focusMap' = RefreshInputRouting(w, pix, tops)
        /\ keyboardFocus' = Focus!Topmost(focusMap')
    BY <2>1, RefocusIs
  <2>6. TableOK(focusMap', MappedToplevels(tops)) /\ DOMAIN focusMap' \subseteq DOMAIN pix
    BY <1>2, <2>3, <2>5, RoutingIs
  <2> QED
    BY <1>5, <2>4, <2>5, <2>6 DEF pix
<1> QED
  BY <1>9, <1>10

(* The scene after a commit agrees with this thread.                         *)
LEMMA SceneAfterCommit ==
  ASSUME IInv, NEW s, NEW w, NEW assigned, CommitOf(s, w, assigned), NEW updates,
         CommitUpdates(updates, w, assigned), NEW tops, DOMAIN tops = DOMAIN toplevels
  PROVE  LET after == ApplyCommit(scene, updates)
         IN  /\ SceneOK(after, w, gone, nextSurface, PixelsAfter(updates), tops)
             /\ Live(after) = Live(scene)
<1> DEFINE content == Updated(updates, "content")
           unmap == Updated(updates, "unmap")
           pix == PixelsAfter(updates)
           after == ApplyCommit(scene, updates)
           n == Len(updates)
<1>1. /\ SceneOK(scene, wl, gone, nextSurface, pixels, toplevels) /\ IdsOK
      /\ ToplevelsOK(wl, pixels, toplevels)
  BY DEF IInv
<1>2. /\ TreeOK(w) /\ DOMAIN w = DOMAIN wl
      /\ \A x \in DOMAIN w : w[x].client = wl[x].client /\ w[x].role = wl[x].role
  BY DEF CommitOf
<1>3. /\ updates \in Seq(Updates) /\ content \cap unmap = {}
      /\ \A i \in 1..n : updates[i].kind = "order" =>
           /\ updates[i].surface \in DOMAIN w
           /\ updates[i].order = OrderedChildren(w, updates[i].surface)
  BY DEF CommitUpdates
<1>4. DOMAIN pix = content \cup (DOMAIN pixels \ unmap)
  BY <1>1, <1>3, PixelsAfterAre DEF ToplevelsOK
<1>5. \A x : /\ x \in content <=> Among(updates, n, "content", x)
             /\ x \in unmap <=> Among(updates, n, "unmap", x)
  BY <1>3, UpdatedAmong
<1>6. Decided(updates)
  BY <1>3, <1>5 DEF Decided
<1>7. /\ scene \in Scenes
      /\ \A x \in Live(scene) : scene.nodes[x].source # NoPixels => scene.nodes[x].size > 0
  BY <1>1 DEF SceneOK, NodeOK
<1>8. /\ after \in Scenes /\ Live(after) = Live(scene)
      /\ \A x \in Live(scene) : NodeSince(after.nodes[x], scene.nodes[x], updates, n, x)
  BY <1>3, <1>6, <1>7, ApplyCommitIs
<1> HIDE DEF after, content, unmap, pix, n
<1>9. ASSUME NEW x \in Live(scene) PROVE NodeOK(after.nodes[x], x, w, nextSurface, pix, tops)
  <2> DEFINE old == scene.nodes[x]
             node == after.nodes[x]
             K == {y \in Surface : y < nextSurface /\ (y \in DOMAIN wl => wl[y].role = "subsurface")}
             L == {y \in Surface : y < nextSurface /\ (y \in DOMAIN w => w[y].role = "subsurface")}
  <2>1. /\ NodeOK(old, x, wl, nextSurface, pixels, toplevels) /\ NodeSince(node, old, updates, n, x)
        /\ x \in DOMAIN w
    BY <1>1, <1>2, <1>8 DEF SceneOK
  <2> HIDE DEF old, node
  <2>2. /\ node.client = old.client /\ node.role = old.role /\ node.parent = old.parent
        /\ node.source # NoPixels <=> x \in content \/ (old.source # NoPixels /\ x \notin unmap)
        /\ node.source # NoPixels => node.size > 0
        /\ \/ node.children = old.children
           \/ \E j \in 1..n : /\ updates[j].kind = "order" /\ updates[j].surface = x
                              /\ node.children = updates[j].order
    BY <1>5, <2>1 DEF NodeSince
  <2>3. K \subseteq L
    BY <1>2
  <2>4. Around(node.children, x, L)
    <3>1. CASE node.children = old.children
      <4>1. Around(old.children, x, K)
        BY <2>1 DEF NodeOK
      <4> HIDE DEF K, L
      <4> QED
        BY <2>3, <3>1, <4>1, AroundGrows
    <3>2. ASSUME NEW j \in 1..n, updates[j].kind = "order", updates[j].surface = x,
                 node.children = updates[j].order
          PROVE  Around(node.children, x, L)
      <4> DEFINE kids == OrderedChildren(w, x)
      <4>1. node.children = kids
        BY <1>3, <3>2
      <4>2. /\ kids \in Seq(Surface) /\ \E i \in 1..Len(kids) : kids[i] = x
            /\ \A i \in 1..Len(kids) : /\ kids[i] \in DOMAIN w
                                       /\ kids[i] # x => w[kids[i]].role = "subsurface"
        BY <1>2, <2>1, OrderedChildrenAre
      <4> HIDE DEF kids
      <4>3. \A y \in DOMAIN w : y \in Surface /\ y < nextSurface
        BY <1>1, <1>2 DEF IdsOK, TreeOK
      <4> QED
        BY <4>1, <4>2, <4>3 DEF Around
    <3> QED
      BY <2>2, <3>1, <3>2
  <2> HIDE DEF K
  <2>5. node.client = w[x].client /\ (node.role = "toplevel" <=> x \in DOMAIN tops)
    BY <1>2, <2>1, <2>2 DEF NodeOK
  <2>6. node.source # NoPixels <=> x \in DOMAIN pix
    BY <1>4, <1>3, <2>1, <2>2 DEF NodeOK
  <2>7. node.parent # NoSurface => w[x].role = "subsurface"
    BY <1>2, <2>1, <2>2 DEF NodeOK
  <2>8. NodeOK(node, x, w, nextSurface, pix, tops)
    BY <2>2, <2>4, <2>5, <2>6, <2>7 DEF NodeOK
  <2> QED
    BY <2>8 DEF node
<1>10. Live(scene) = {x \in DOMAIN w : w[x].client \notin gone}
  BY <1>1, <1>2 DEF SceneOK
<1>11. SceneOK(after, w, gone, nextSurface, pix, tops)
  BY <1>8, <1>9, <1>10 DEF SceneOK
<1> QED
  BY <1>8, <1>11 DEF after, pix

LEMMA EffectiveCommitKeeps ==
  ASSUME IInv, NEW s, NEW w, NEW assigned, CommitOf(s, w, assigned), EffectiveCommit(s, w, assigned)
  PROVE  IInv' /\ (SidesOK => SidesOK')
<1> DEFINE updates == CollectTree(w, s, assigned)
           pix == PixelsAfter(updates)
           tops == ToplevelsAfter(updates)
           after == ApplyCommit(scene, updates)
           v == [x \in DOMAIN w |-> IF x \in Effective(w, s) THEN [w[x] EXCEPT !.cached = Nothing]
                                    ELSE w[x]]
<1>1. /\ SceneOK(scene, wl, gone, nextSurface, pixels, toplevels) /\ IdsOK /\ ScreenOK
      /\ ToplevelsOK(wl, pixels, toplevels) /\ gone \in SUBSET Client
  BY DEF IInv
<1>2. /\ TreeOK(w) /\ DOMAIN w = DOMAIN wl /\ s \in DOMAIN w
      /\ \A x \in DOMAIN w : w[x].client = wl[x].client /\ w[x].role = wl[x].role
      /\ AssignedOK(w, assigned)
  BY DEF CommitOf
<1>3. CommitUpdates(updates, w, assigned)
  BY <1>1, <1>2, CommitUpdatesAre DEF ToplevelsOK
<1>4. /\ wl' = v /\ pixels' = pix /\ PostCommit(s, w, pix, tops) /\ scene' = after
      /\ exposed' = StillExposed(after, ExposedAfter(Applied(scene, updates), updates))
      /\ nextSurface' = nextSurface /\ nextToplevel' = nextToplevel /\ gone' = gone
      /\ screen' = screen
  BY DEF EffectiveCommit, Published, Effect, ApplyCommit
<1> HIDE DEF updates
<1>5. /\ ToplevelsOK(w, pix, toplevels') /\ DOMAIN toplevels' = DOMAIN toplevels
      /\ TableOK(focusMap', MappedToplevels(toplevels'))
      /\ keyboardFocus' = Focus!Topmost(focusMap')
      /\ DOMAIN focusMap' \subseteq DOMAIN focusMap \cup DOMAIN pix
  BY <1>3, <1>4, PostCommitIs
<1> DEFINE t == toplevels'
<1>6. DOMAIN t = DOMAIN toplevels
  BY <1>5
<1> HIDE DEF t
<1>7. SceneOK(after, w, gone, nextSurface, pix, t) /\ Live(after) = Live(scene)
  BY <1>3, <1>6, SceneAfterCommit
<1>8. /\ v \in [DOMAIN w -> WlSurfaces] /\ DOMAIN v = DOMAIN w
      /\ \A x \in DOMAIN w : /\ v[x].client = w[x].client /\ v[x].role = w[x].role
                             /\ v[x].parent = w[x].parent /\ v[x].order = w[x].order
                             /\ v[x].sync = w[x].sync
                             /\ v[x].cached = w[x].cached \/ v[x].cached = Nothing
  <2>1. \A x \in DOMAIN w : w[x] \in WlSurfaces
    BY <1>2 DEF TreeOK
  <2>2. Nothing \in Acts
    BY DEF Acts
  <2>3. ASSUME NEW x \in DOMAIN w
        PROVE  /\ v[x] \in WlSurfaces
               /\ v[x].client = w[x].client /\ v[x].role = w[x].role
               /\ v[x].parent = w[x].parent /\ v[x].order = w[x].order
               /\ v[x].sync = w[x].sync
               /\ v[x].cached = w[x].cached \/ v[x].cached = Nothing
    <3>1. CASE x \in Effective(w, s)
      <4>1. v[x] = [w[x] EXCEPT !.cached = Nothing]
        BY <3>1
      <4> HIDE DEF v
      <4> QED
        BY <2>1, <2>2, <4>1 DEF WlSurfaces
    <3>2. CASE x \notin Effective(w, s)
      <4>1. v[x] = w[x]
        BY <3>2
      <4> HIDE DEF v
      <4> QED
        BY <2>1, <4>1
    <3> QED
      BY <3>1, <3>2
  <2>4. v = [x \in DOMAIN w |-> v[x]]
    OBVIOUS
  <2> HIDE DEF v
  <2> QED
    BY <2>3, <2>4
<1> HIDE DEF v, pix, tops, after
<1>9. TreeOK(v)
  <2>1. \A x \in DOMAIN w : v[x].role # "subsurface" =>
                              w[x].role # "subsurface" /\ v[x].cached = Nothing /\ ~v[x].sync
    BY <1>2, <1>8 DEF TreeOK
  <2> QED
    BY <1>2, <1>8, <2>1, SameLinks
<1>10. ToplevelsOK(v, pix, t)
  <2>1. DOMAIN t \in SUBSET (DOMAIN w) /\ DOMAIN pix \in SUBSET (DOMAIN w) /\ ToplevelsOK(w, pix, t)
    BY <1>5 DEF ToplevelsOK, t
  <2>2. DOMAIN t \in SUBSET (DOMAIN v) /\ DOMAIN pix \in SUBSET (DOMAIN v)
    BY <1>8, <2>1
  <2>3. \A x \in DOMAIN t : v[x].role = w[x].role
    BY <1>8, <2>1
  <2> QED
    BY <2>1, <2>2, <2>3, SameToplevels
<1>11. SceneOK(after, v, gone, nextSurface, pix, t)
  <2>1. SameSurfaces(w, v) /\ nextSurface \in Nat
    BY <1>1, <1>8 DEF SameSurfaces, IdsOK
  <2> QED
    BY <1>7, <2>1, SameScene
<1>12. ScreenOK'
  <2>1. scene \in Scenes /\ after \in Scenes
    BY <1>1, <1>7 DEF SceneOK
  <2>2. Live(scene) \in SUBSET Surface /\ Live(after) \in SUBSET Surface
    BY <2>1, SceneIs
  <2>3. DOMAIN Placed(after) \in SUBSET Surface
    BY <2>1, <2>2, PlacedIs
  <2>4. exposed' \in SUBSET Surface
    BY <1>4, <2>3 DEF StillExposed
  <2> QED
    BY <1>1, <1>4, <2>4 DEF ScreenOK
<1>13. IdsOK'
  BY <1>1, <1>2, <1>4, <1>8 DEF IdsOK
<1>14. ASSUME SidesOK PROVE SidesOK'
  <2>1. alive' = alive /\ DOMAIN pix \subseteq alive
    BY <1>2, <1>4, <1>5, <1>8 DEF alive, ToplevelsOK
  <2> QED
    BY <1>4, <1>5, <1>14, <2>1 DEF SidesOK
<1> QED
  BY <1>1, <1>4, <1>5, <1>9, <1>10, <1>11, <1>12, <1>13, <1>14 DEF IInv, t

(* The assignments that become current with a commit are all s's own and its *)
(* subsurfaces'.                                                             *)
LEMMA AssignedAre ==
  ASSUME IInv, NEW s \in alive, Commits(s), NEW a \in Acts,
         a # Nothing /\ s \in DOMAIN toplevels => toplevels[s].configure = "acked",
         NEW w, TreeOK(w), DOMAIN w = DOMAIN wl,
         \A x \in DOMAIN w : w[x].client = wl[x].client /\ w[x].role = wl[x].role
  PROVE  CommitOf(s, w, Assigned(s, a))
<1> DEFINE g == Assigned(s, a)
<1>1. TreeOK(wl) /\ ToplevelsOK(wl, pixels, toplevels) /\ s \in DOMAIN wl
  BY DEF IInv, alive
<1>2. \A x \in DOMAIN wl : g[x] = IF x = s THEN a ELSE IF x \in Effective(wl, s) THEN wl[x].cached
                                                   ELSE Nothing
  BY DEF Assigned, alive
<1> HIDE DEF g
<1>3. \A x \in DOMAIN wl : wl[x].cached \in Acts /\ Nothing \in Acts
  BY <1>1 DEF TreeOK, WlSurfaces, Acts
<1>4. AssignedOK(w, g)
  BY <1>2, <1>3 DEF AssignedOK
<1>5. ASSUME NEW x \in DOMAIN toplevels, g[x] # Nothing
      PROVE  x = s /\ toplevels[x].configure = "acked"
  <2>1. x \in DOMAIN wl /\ wl[x].role = "toplevel"
    BY <1>1 DEF ToplevelsOK
  <2>2. x \notin Effective(wl, s) \ {s}
    BY <1>1, <2>1, EffectiveAre
  <2>3. x = s
    BY <1>2, <1>5, <2>1, <2>2
  <2> QED
    BY <1>2, <1>5, <2>1, <2>3
<1> QED
  BY <1>1, <1>4, <1>5 DEF CommitOf, g

LEMMA CommitKeeps ==
  ASSUME IInv, NEW s \in alive, NEW a \in Assignments(s), Commit(s, a)
  PROVE  IInv' /\ (SidesOK => SidesOK')
<1>1. s \in Surface /\ TreeOK(wl)
  BY DEF IInv, TreeOK, alive
<1>2. a \in Acts
  BY <1>1, AssignmentsAre
<1>3. /\ Commits(s) /\ EffectiveCommit(s, wl, Assigned(s, a))
      /\ a # Nothing /\ s \in DOMAIN toplevels => toplevels[s].configure = "acked"
  BY DEF Commit
<1> DEFINE w == wl
<1>4. /\ TreeOK(w) /\ DOMAIN w = DOMAIN wl
      /\ \A x \in DOMAIN w : w[x].client = wl[x].client /\ w[x].role = wl[x].role
  BY <1>1
<1>5. CommitOf(s, w, Assigned(s, a))
  <2> HIDE DEF w
  <2> QED
    BY <1>2, <1>3, <1>4, AssignedAre
<1> QED
  BY <1>3, <1>5, EffectiveCommitKeeps

(* A commit of s that changes double-buffered state of the tree and assigns  *)
(* no buffer to s itself.                                                    *)
LEMMA TreeCommitKeeps ==
  ASSUME IInv, NEW s \in alive, Commits(s), NEW w, TreeOK(w), DOMAIN w = DOMAIN wl,
         \A x \in DOMAIN w : w[x].client = wl[x].client /\ w[x].role = wl[x].role,
         EffectiveCommit(s, w, Assigned(s, Nothing))
  PROVE  IInv' /\ (SidesOK => SidesOK')
<1> DEFINE a == Nothing
<1>1. a \in Acts /\ (a # Nothing /\ s \in DOMAIN toplevels => toplevels[s].configure = "acked")
  BY DEF Acts
<1> HIDE DEF a
<1>2. CommitOf(s, w, Assigned(s, a))
  BY <1>1, AssignedAre
<1> QED
  BY <1>2, EffectiveCommitKeeps DEF a

LEMMA CommitMoveKeeps ==
  ASSUME IInv, NEW s \in alive, NEW child \in alive, NEW to \in Locations, CommitMove(s, child, to)
  PROVE  IInv' /\ (SidesOK => SidesOK')
<1> DEFINE w == [wl EXCEPT ![child].location = to]
<1>1. TreeOK(wl) /\ child \in DOMAIN wl /\ to \in Int
  BY ProtocolAssumption DEF IInv, alive
<1>2. /\ w \in [DOMAIN wl -> WlSurfaces] /\ DOMAIN w = DOMAIN wl
      /\ \A x \in DOMAIN wl : /\ w[x].client = wl[x].client /\ w[x].role = wl[x].role
                              /\ w[x].parent = wl[x].parent /\ w[x].order = wl[x].order
                              /\ w[x].cached = wl[x].cached /\ w[x].sync = wl[x].sync
  BY <1>1, ZenonT(60) DEF TreeOK, WlSurfaces
<1>3. Commits(s) /\ EffectiveCommit(s, w, Assigned(s, Nothing))
  BY DEF CommitMove
<1> HIDE DEF w
<1>4. TreeOK(w)
  <2>1. \A x \in DOMAIN wl : w[x].role # "subsurface" =>
                               wl[x].role # "subsurface" /\ w[x].cached = Nothing /\ ~w[x].sync
    BY <1>1, <1>2 DEF TreeOK
  <2> QED
    BY <1>1, <1>2, <2>1, SameLinks
<1> QED
  BY <1>2, <1>3, <1>4, TreeCommitKeeps

LEMMA CommitGeometryKeeps ==
  ASSUME IInv, NEW s \in alive, NEW origin \in Origins(s), CommitGeometry(s, origin)
  PROVE  IInv' /\ (SidesOK => SidesOK')
<1> DEFINE w == [wl EXCEPT ![s].origin = origin]
<1>1. TreeOK(wl) /\ s \in DOMAIN wl /\ s \in Surface
  BY DEF IInv, alive, TreeOK
<1>2. origin \in Int
  BY <1>1, ProtocolAssumption
<1>3. /\ w \in [DOMAIN wl -> WlSurfaces] /\ DOMAIN w = DOMAIN wl
      /\ \A x \in DOMAIN wl : /\ w[x].client = wl[x].client /\ w[x].role = wl[x].role
                              /\ w[x].parent = wl[x].parent /\ w[x].order = wl[x].order
                              /\ w[x].cached = wl[x].cached /\ w[x].sync = wl[x].sync
  BY <1>1, <1>2, ZenonT(60) DEF TreeOK, WlSurfaces
<1>4. Commits(s) /\ EffectiveCommit(s, w, Assigned(s, Nothing))
  BY DEF CommitGeometry
<1> HIDE DEF w
<1>5. TreeOK(w)
  <2>1. \A x \in DOMAIN wl : w[x].role # "subsurface" =>
                               wl[x].role # "subsurface" /\ w[x].cached = Nothing /\ ~w[x].sync
    BY <1>1, <1>3 DEF TreeOK
  <2> QED
    BY <1>1, <1>3, <2>1, SameLinks
<1> QED
  BY <1>3, <1>4, <1>5, TreeCommitKeeps

LEMMA CommitRestackKeeps ==
  ASSUME IInv, NEW s \in alive, NEW i, NEW j, CommitRestack(s, i, j)
  PROVE  IInv' /\ (SidesOK => SidesOK')
<1> DEFINE old == wl[s].order
           new == [old EXCEPT ![i] = old[j], ![j] = old[i]]
           w == [wl EXCEPT ![s].order = new]
<1>1. TreeOK(wl) /\ s \in DOMAIN wl
  BY DEF IInv, alive
<1>2. i \in DOMAIN old /\ j \in DOMAIN old /\ Commits(s) /\ EffectiveCommit(s, w, Assigned(s, Nothing))
  BY DEF CommitRestack
<1>3. old \in Seq(Surface) /\ Around(old, s, Children(wl, s)) /\ wl[s] \in WlSurfaces
  BY <1>1, TreeIs
<1>4. Around(new, s, Children(wl, s)) /\ new \in Seq(Surface)
  <2> HIDE DEF old
  <2>1. /\ new \in Seq(Surface) /\ Len(new) = Len(old) /\ DOMAIN old = 1..Len(old)
        /\ \A k \in 1..Len(old) : new[k] = IF k = j THEN old[i] ELSE IF k = i THEN old[j] ELSE old[k]
        /\ old # <<>>
    BY <1>2, <1>3
  <2>2. PICK k \in 1..Len(old) : old[k] = s
    BY <1>3, <2>1 DEF Around
  <2> HIDE DEF new
  <2>3. \E m \in 1..Len(new) : new[m] = s
    <3>1. new[k] = s \/ new[i] = s \/ new[j] = s
      BY <1>2, <2>1, <2>2
    <3> QED
      BY <1>2, <2>1, <2>2, <3>1
  <2>4. \A m \in 1..Len(new) : \E l \in 1..Len(old) : new[m] = old[l]
    BY <1>2, <2>1
  <2> QED
    BY <1>3, <2>1, <2>3, <2>4 DEF Around
<1> HIDE DEF new, old
<1>5. /\ w \in [DOMAIN wl -> WlSurfaces] /\ DOMAIN w = DOMAIN wl
      /\ w[s].order = new
      /\ \A x \in DOMAIN wl : /\ w[x].client = wl[x].client /\ w[x].role = wl[x].role
                              /\ w[x].parent = wl[x].parent
                              /\ w[x].cached = wl[x].cached /\ w[x].sync = wl[x].sync
                              /\ x # s => w[x].order = wl[x].order
  BY <1>1, <1>4, ZenonT(60) DEF TreeOK, WlSurfaces
<1> HIDE DEF w
<1>6. TreeOK(w)
  <2>1. \A x \in DOMAIN wl : Children(w, x) = Children(wl, x)
    BY <1>5 DEF Children
  <2>2. \A x \in DOMAIN wl : Around(w[x].order, x, Children(w, x))
    BY <1>1, <1>4, <1>5, <2>1 DEF TreeOK
  <2> QED
    BY <1>1, <1>5, <2>2 DEF TreeOK
<1> QED
  BY <1>2, <1>5, <1>6, TreeCommitKeeps

(* The invariant is inductive.                                               *)
LEMMA Inductive == IInv /\ [Next]_vars => IInv'
<1> SUFFICES ASSUME IInv, [Next]_vars PROVE IInv'
  OBVIOUS
<1>1. ASSUME NEW k \in Client, NewSurface(k) \/ Disconnect(k) PROVE IInv'
  <2>1. CASE NewSurface(k)
    BY <2>1, NewSurfaceKeeps
  <2>2. CASE Disconnect(k)
    BY <2>2, ClientGoneKeeps DEF Disconnect
  <2> QED
    BY <1>1, <2>1, <2>2
<1>2. ASSUME NEW s \in alive,
             \/ NewToplevel(s) \/ AckConfigure(s) \/ ToplevelDestroyed(s)
             \/ SubsurfaceDestroyed(s) \/ SurfaceDestroyed(s)
      PROVE  IInv'
  BY <1>2, NewToplevelKeeps, AckConfigureKeeps, ToplevelDestroyedKeeps, SubsurfaceDestroyedKeeps,
     SurfaceDestroyedKeeps
<1>3. ASSUME NEW s \in alive, NEW p \in alive, NEW sync \in BOOLEAN, NewSubsurface(s, p, sync)
      PROVE  IInv'
  BY <1>3, NewSubsurfaceKeeps
<1>4. ASSUME NEW s \in alive, NEW a \in Assignments(s),
             CachedCommit(s, a) \/ UnconfiguredCommit(s, a) \/ Commit(s, a)
      PROVE  IInv'
  BY <1>4, CachedCommitKeeps, UnconfiguredCommitKeeps, CommitKeeps
<1>5. ASSUME NEW s \in alive, NEW child \in alive, NEW to \in Locations, CommitMove(s, child, to)
      PROVE  IInv'
  BY <1>5, CommitMoveKeeps
<1>6. ASSUME NEW s \in alive, NEW i, NEW j, CommitRestack(s, i, j)
      PROVE  IInv'
  BY <1>6, CommitRestackKeeps
<1>7. ASSUME NEW s \in alive, NEW origin \in Origins(s), CommitGeometry(s, origin)
      PROVE  IInv'
  BY <1>7, CommitGeometryKeeps
<1>8. CASE Tick
  BY <1>8, TickKeeps
<1>9. CASE RepaintAll
  BY <1>9, RepaintAllKeeps
<1>10. CASE UNCHANGED vars
  BY <1>10 DEF IInv, IdsOK, ScreenOK, vars, protoVars
<1> QED
  BY <1>1, <1>2, <1>3, <1>4, <1>5, <1>6, <1>7, <1>8, <1>9, <1>10 DEF Next

-----------------------------------------------------------------------------
(* What follows from the invariant.                                          *)

(* The windows drawn are the mapped toplevels, once nobody is left that the  *)
(* scene has dropped and this thread has not.                                *)
LEMMA DrawnAreMapped ==
  ASSUME IInv, \A s \in alive : wl[s].client \notin gone
  PROVE  /\ DrawnToplevels = MappedToplevels(toplevels)
         /\ \A s \in DrawnToplevels : /\ scene.nodes[s].parent = NoSurface
                                      /\ s \in DOMAIN wl /\ wl[s].role = "toplevel"
<1>1. /\ scene \in Scenes /\ ToplevelsOK(wl, pixels, toplevels)
      /\ Live(scene) = {s \in DOMAIN wl : wl[s].client \notin gone}
      /\ \A s \in Live(scene) : NodeOK(scene.nodes[s], s, wl, nextSurface, pixels, toplevels)
  BY DEF IInv, SceneOK
<1>2. Live(scene) = DOMAIN wl
  BY <1>1 DEF alive
<1>3. /\ DOMAIN Placed(scene) \in SUBSET Live(scene)
      /\ \A id \in DOMAIN Placed(scene) : IsVisible(scene.nodes[id])
      /\ \A id \in Live(scene) : IsVisible(scene.nodes[id]) /\ scene.nodes[id].parent = NoSurface
                                   => id \in DOMAIN Placed(scene)
  BY <1>1, PlacedIs
<1>4. ASSUME NEW s \in DrawnToplevels
      PROVE  /\ s \in MappedToplevels(toplevels) /\ scene.nodes[s].parent = NoSurface
             /\ s \in DOMAIN wl /\ wl[s].role = "toplevel"
  <2>1. s \in DOMAIN Placed(scene) /\ scene.nodes[s].role = "toplevel"
    BY DEF DrawnToplevels
  <2>2. /\ s \in DOMAIN wl /\ scene.nodes[s].source # NoPixels
        /\ NodeOK(scene.nodes[s], s, wl, nextSurface, pixels, toplevels)
    BY <1>1, <1>2, <1>3, <2>1 DEF IsVisible
  <2>3. s \in DOMAIN toplevels /\ s \in DOMAIN pixels
    BY <2>1, <2>2 DEF NodeOK
  <2>4. wl[s].role = "toplevel" /\ toplevels[s].mapped
    BY <1>1, <2>3 DEF ToplevelsOK
  <2> QED
    BY <2>2, <2>3, <2>4 DEF NodeOK, MappedToplevels
<1>5. ASSUME NEW s \in MappedToplevels(toplevels) PROVE s \in DrawnToplevels
  <2>1. s \in DOMAIN toplevels /\ toplevels[s].mapped
    BY DEF MappedToplevels
  <2>2. s \in DOMAIN pixels /\ s \in DOMAIN wl /\ wl[s].role = "toplevel"
    BY <1>1, <2>1 DEF ToplevelsOK
  <2>3. s \in Live(scene) /\ NodeOK(scene.nodes[s], s, wl, nextSurface, pixels, toplevels)
    BY <1>1, <1>2, <2>2
  <2>4. /\ scene.nodes[s].role = "toplevel" /\ scene.nodes[s].parent = NoSurface
        /\ scene.nodes[s].source # NoPixels /\ scene.nodes[s].size > 0
    BY <2>1, <2>2, <2>3 DEF NodeOK
  <2> QED
    BY <1>3, <2>3, <2>4 DEF IsVisible, DrawnToplevels
<1> QED
  BY <1>4, <1>5

LEMMA IInvFocus == IInv => FocusIsTopmostWindow
<1> SUFFICES ASSUME IInv, \A s \in alive : wl[s].client \notin gone
             PROVE  LET windows == DrawnToplevels
                        order   == CompositionOrder(scene)
                    IN  IF windows = {} THEN keyboardFocus = NoSurface
                        ELSE \E i \in DOMAIN order :
                               /\ order[i] = keyboardFocus /\ keyboardFocus \in windows
                               /\ \A j \in (i + 1)..Len(order) :
                                    order[j] \notin windows \ {keyboardFocus}
  BY DEF FocusIsTopmostWindow
<1> DEFINE W == DrawnToplevels
           order == CompositionOrder(scene)
           l == Len(order)
<1>1. /\ W = MappedToplevels(toplevels)
      /\ \A s \in W : scene.nodes[s].parent = NoSurface /\ s \in DOMAIN wl /\ wl[s].role = "toplevel"
  BY DrawnAreMapped
<1>2. /\ TableOK(focusMap, MappedToplevels(toplevels)) /\ keyboardFocus = Focus!Topmost(focusMap)
      /\ scene \in Scenes /\ TreeOK(wl)
      /\ \A s \in Live(scene) : NodeOK(scene.nodes[s], s, wl, nextSurface, pixels, toplevels)
  BY DEF IInv, SceneOK
<1>3. W \in SUBSET (DOMAIN Placed(scene))
  BY DEF DrawnToplevels
<1> HIDE DEF W
<1>4. /\ W = {} => keyboardFocus = NoSurface
      /\ W # {} => keyboardFocus \in W /\ \A r \in W : r <= keyboardFocus
  BY <1>1, <1>2, TopmostIs
<1>5. WindowsHangNowhere(scene, W)
  <2>1. ASSUME NEW id \in Live(scene) PROVE Around(scene.nodes[id].children, id, Surface \ W)
    <3> DEFINE K == {x \in Surface : x < nextSurface /\ (x \in DOMAIN wl => wl[x].role = "subsurface")}
               kids == scene.nodes[id].children
    <3>1. Around(kids, id, K)
      BY <1>2 DEF NodeOK
    <3>2. K \subseteq Surface \ W
      BY <1>1
    <3> HIDE DEF K, kids
    <3>3. Around(kids, id, Surface \ W)
      BY <3>1, <3>2, AroundGrows
    <3> QED
      BY <3>3 DEF kids
  <2> QED
    BY <2>1 DEF WindowsHangNowhere
<1>6. /\ order \in Seq(Surface)
      /\ \A s \in W : \E i \in 1..l : order[i] = s
      /\ \A i, j \in 1..l : order[i] \in W /\ order[j] \in W /\ order[i] < order[j] => i < j
  BY <1>1, <1>2, <1>3, <1>5, CompositionOrderIs
<1>7. \A s \in W : s \in Nat
  BY <1>1, <1>2, SurfaceAssumption DEF TreeOK
<1> HIDE DEF order
<1>8. l \in Nat /\ DOMAIN order = 1..l
  BY <1>6
<1>9. ASSUME W # {}
      PROVE  \E i \in DOMAIN order :
               /\ order[i] = keyboardFocus /\ keyboardFocus \in W
               /\ \A j \in (i + 1)..l : order[j] \notin W \ {keyboardFocus}
  <2>1. PICK i \in 1..l : order[i] = keyboardFocus
    BY <1>4, <1>6, <1>9
  <2>2. ASSUME NEW j \in (i + 1)..l, order[j] \in W \ {keyboardFocus} PROVE FALSE
    <3>1. j \in 1..l /\ i < j
      BY <1>8, <2>1
    <3>2. order[j] \in W /\ order[i] \in W /\ order[j] < order[i]
      BY <1>4, <1>7, <1>9, <2>1, <2>2
    <3>3. j < i
      BY <1>6, <2>1, <3>1, <3>2
    <3> QED
      BY <1>8, <2>1, <3>1, <3>3
  <2> QED
    BY <1>4, <1>8, <1>9, <2>1, <2>2
<1> QED
  BY <1>4, <1>9 DEF W, order

-----------------------------------------------------------------------------
(* Theorems.                                                                 *)

LEMMA Invariance == Spec => []IInv
<1> QED
  BY InitHolds, Inductive, PTL DEF Spec

(* Keyboard focus is on the window that is drawn topmost, after every        *)
(* handler (refocus_keyboard): the routing table that the dispatch thread    *)
(* keeps and the tree that the scene thread keeps, two replicas updated      *)
(* by different code, never disagree on which window that is.                *)
THEOREM FocusOnTop == Spec => []FocusIsTopmostWindow
<1> QED
  BY Invariance, IInvFocus, PTL

(* The scene has a node for exactly the surfaces of the clients that are     *)
(* still connected, and each node's client, role, content and children agree *)
(* with what the dispatch thread knows of its surface (Scene::apply and      *)
(* Scene::apply_commit, against the messages that protocol.rs sends).        *)
THEOREM SceneFollows ==
  Spec => []SceneOK(scene, wl, gone, nextSurface, pixels, toplevels)
<1>1. IInv => SceneOK(scene, wl, gone, nextSurface, pixels, toplevels)
  BY DEF IInv
<1> QED
  BY <1>1, Invariance, PTL

-----------------------------------------------------------------------------
(* Painting.  What a node adds to a cell is a function from what is below it *)
(* to what is then there; a list of nodes composes them.                     *)

(* Composition of effects is associative and NoEffect its unit.              *)
LEMMA EffectsCompose ==
  /\ NoEffect \in Effects
  /\ \A f, g \in Effects : Then(f, g) \in Effects
  /\ \A f \in Effects : Then(f, NoEffect) = f /\ Then(NoEffect, f) = f
  /\ \A f, g, h \in Effects : Then(Then(f, g), h) = Then(f, Then(g, h))
<1>1. NoEffect \in Effects
  BY DEF NoEffect, Effects
<1>2. \A f, g \in Effects : Then(f, g) \in Effects
  BY DEF Then, Effects
<1>3. ASSUME NEW f \in Effects PROVE Then(f, NoEffect) = f /\ Then(NoEffect, f) = f
  BY DEF Then, NoEffect, Effects
<1>4. ASSUME NEW f \in Effects, NEW g \in Effects, NEW h \in Effects
      PROVE  Then(Then(f, g), h) = Then(f, Then(g, h))
  BY DEF Then, Effects
<1> QED
  BY <1>1, <1>2, <1>3, <1>4

LEMMA ChainedIs ==
  ASSUME NEW fs \in Seq(Effects)
  PROVE  \E upto : PrefixEffects(upto, fs) /\ Chained(fs) = upto[Len(fs)]
<1> DEFINE n == Len(fs)
           Whole(g) == [i \in 0..n |-> IF i = 0 THEN NoEffect ELSE Then(g[i - 1], fs[i])]
           step == [i \in 1..n |-> [f \in Effects |-> Then(f, fs[i])]]
<1>1. n \in Nat /\ \A i \in 1..n : fs[i] \in Effects
  OBVIOUS
<1> HIDE DEF n
<1>2. Steps(n, Effects, step) /\ \A i \in 1..n : \A f \in Effects : step[i][f] = Then(f, fs[i])
  BY <1>1, EffectsCompose DEF Steps
<1> HIDE DEF step
<1>3. PICK g : Recursive(g, n, Effects, NoEffect, step)
  BY <1>1, <1>2, EffectsCompose, RecursiveFunction
<1>4. g = Whole(g)
  <2>1. \A i \in 1..n : i - 1 \in 0..n /\ i # 0
    BY <1>1
  <2>2. \A i \in 1..n : g[i] = Then(g[i - 1], fs[i])
    BY <1>2, <1>3, <2>1 DEF Recursive
  <2>3. \A i \in 0..n : i = 0 \/ i \in 1..n
    BY <1>1
  <2> QED
    BY <1>3, <2>1, <2>2, <2>3 DEF Recursive
<1> DEFINE h == CHOOSE h : h = Whole(h)
<1>5. h = Whole(h)
  BY <1>4
<1>6. Chained(fs) = h[n]
  BY DEF Chained, n
<1> HIDE DEF h
<1>7. h[0] = NoEffect /\ \A i \in 1..n : h[i] = Then(h[i - 1], fs[i])
  <2>1. \A i \in 1..n : i \in 0..n /\ i # 0
    BY <1>1
  <2>2. 0 \in 0..n
    BY <1>1
  <2> QED
    BY <1>5, <2>1, <2>2
<1>8. \A i \in 0..n : h[i] \in Effects
  <2>1. ASSUME NEW i \in 1..n, h[i - 1] \in Effects PROVE h[i] \in Effects
    <3>1. h[i] = Then(h[i - 1], fs[i]) /\ fs[i] \in Effects
      BY <1>1, <1>7
    <3> QED
      BY <2>1, <3>1, EffectsCompose
  <2> QED
    BY <1>1, <1>7, <2>1, EffectsCompose, RecursionStays
<1>9. h \in [0..n -> Effects]
  <2>1. h = [i \in 0..n |-> h[i]]
    BY <1>5
  <2> QED
    BY <1>8, <2>1
<1> QED
  BY <1>6, <1>7, <1>9 DEF PrefixEffects, n

(* There is only one such function.                                          *)
LEMMA ChainedUnique ==
  ASSUME NEW fs \in Seq(Effects), NEW upto, PrefixEffects(upto, fs)
  PROVE  Chained(fs) = upto[Len(fs)]
<1> DEFINE n == Len(fs)
<1>1. n \in Nat /\ \A i \in 1..n : fs[i] \in Effects
  OBVIOUS
<1>2. PICK u : PrefixEffects(u, fs) /\ Chained(fs) = u[n]
  BY ChainedIs
<1> DEFINE S == {i \in 0..n : u[i] = upto[i]}
<1>3. 0 \in S
  BY <1>1, <1>2 DEF PrefixEffects
<1>4. ASSUME NEW i \in 0..n, i \in S, i < n PROVE i + 1 \in S
  <2>1. i + 1 \in 1..n /\ (i + 1) - 1 = i /\ i + 1 \in 0..n
    BY <1>1, <1>4
  <2> QED
    BY <1>2, <1>4, <2>1 DEF PrefixEffects
<1> HIDE DEF S
<1>5. \A i \in 0..n : i \in S
  BY <1>1, <1>3, <1>4, IntervalInduction
<1> QED
  BY <1>1, <1>2, <1>5 DEF S

LEMMA ChainedInEffects == ASSUME NEW fs \in Seq(Effects) PROVE Chained(fs) \in Effects
<1>1. PICK u : PrefixEffects(u, fs) /\ Chained(fs) = u[Len(fs)]
  BY ChainedIs
<1>2. Len(fs) \in 0..Len(fs)
  OBVIOUS
<1> QED
  BY <1>1, <1>2 DEF PrefixEffects

LEMMA ChainedEmpty == Chained(<<>>) = NoEffect
<1>1. <<>> \in Seq(Effects) /\ Len(<<>>) = 0
  OBVIOUS
<1>2. PICK u : PrefixEffects(u, <<>>) /\ Chained(<<>>) = u[Len(<<>>)]
  BY <1>1, ChainedIs
<1> QED
  BY <1>1, <1>2 DEF PrefixEffects

(* Nothing but effects that change nothing.                                  *)
LEMMA ChainedNone ==
  ASSUME NEW fs \in Seq(Effects), \A i \in 1..Len(fs) : fs[i] = NoEffect
  PROVE  Chained(fs) = NoEffect
<1> DEFINE n == Len(fs)
           u == [i \in 0..n |-> NoEffect]
<1>1. n \in Nat /\ n \in 0..n /\ 0 \in 0..n /\ \A i \in 1..n : i \in 0..n /\ i - 1 \in 0..n
  OBVIOUS
<1>2. \A i \in 0..n : u[i] = NoEffect
  OBVIOUS
<1>3. u \in [0..n -> Effects]
  BY EffectsCompose
<1> HIDE DEF u
<1>4. PrefixEffects(u, fs)
  BY <1>1, <1>2, <1>3, EffectsCompose DEF PrefixEffects
<1> QED
  BY <1>1, <1>2, <1>4, ChainedUnique

(* The chain of a concatenation is the chains of its parts.                  *)
LEMMA ChainedJoin ==
  ASSUME NEW fs \in Seq(Effects), NEW gs \in Seq(Effects)
  PROVE  Chained(fs \o gs) = Then(Chained(fs), Chained(gs))
<1> DEFINE m == Len(fs)
           p == Len(gs)
           both == fs \o gs
<1>1. m \in Nat /\ p \in Nat
  OBVIOUS
<1>2. /\ both \in Seq(Effects) /\ Len(both) = m + p
      /\ \A i \in 1..m : both[i] = fs[i]
      /\ \A i \in (m + 1)..(m + p) : both[i] = gs[i - m]
  OBVIOUS
<1>3. PICK u : PrefixEffects(u, fs) /\ Chained(fs) = u[m]
  BY ChainedIs
<1>4. PICK t : PrefixEffects(t, gs) /\ Chained(gs) = t[p]
  BY ChainedIs
<1>5. /\ u \in [0..m -> Effects] /\ u[0] = NoEffect
      /\ \A i \in 1..m : u[i] = Then(u[i - 1], fs[i])
  BY <1>3 DEF PrefixEffects
<1>6. /\ t \in [0..p -> Effects] /\ t[0] = NoEffect
      /\ \A i \in 1..p : t[i] = Then(t[i - 1], gs[i])
  BY <1>4 DEF PrefixEffects
<1>60. \A i \in 1..p : gs[i] \in Effects
  OBVIOUS
<1> HIDE DEF m, p, both
<1> DEFINE v == [i \in 0..(m + p) |-> IF i <= m THEN u[i] ELSE Then(u[m], t[i - m])]
<1>7. \A i \in 0..m : v[i] = u[i] /\ i \in 0..(m + p)
  BY <1>1
<1>8. \A i \in m..(m + p) : v[i] = Then(u[m], t[i - m])
  <2>1. Then(u[m], t[0]) = u[m]
    <3>1. u[m] \in Effects
      BY <1>1, <1>5
    <3> QED
      BY <1>6, <3>1, EffectsCompose
  <2>2. ASSUME NEW i \in m..(m + p) PROVE v[i] = Then(u[m], t[i - m])
    <3>1. CASE i = m
      BY <1>1, <1>7, <2>1, <3>1
    <3>2. CASE i # m
      BY <1>1, <3>2
    <3> QED
      BY <3>1, <3>2
  <2> QED
    BY <2>2
<1>9. \A i \in 0..(m + p) : i \in 0..m \/ i \in m..(m + p)
  BY <1>1
<1>10. \A i \in m..(m + p) : i - m \in 0..p
  BY <1>1
<1>11. v \in [0..(m + p) -> Effects]
  <2>1. ASSUME NEW i \in 0..(m + p) PROVE v[i] \in Effects
    <3>1. m \in 0..m
      BY <1>1
    <3>2. CASE i \in 0..m
      BY <1>5, <1>7, <3>2
    <3>3. CASE i \in m..(m + p)
      <4>1. v[i] = Then(u[m], t[i - m]) /\ u[m] \in Effects /\ t[i - m] \in Effects
        BY <1>5, <1>6, <1>8, <1>10, <3>1, <3>3
      <4> HIDE DEF v
      <4> QED
        BY <4>1, EffectsCompose
    <3> QED
      BY <1>9, <3>2, <3>3
  <2>2. v = [i \in 0..(m + p) |-> v[i]]
    OBVIOUS
  <2> HIDE DEF v
  <2> QED
    BY <2>1, <2>2
<1> HIDE DEF v
<1>12. ASSUME NEW i \in 1..(m + p) PROVE v[i] = Then(v[i - 1], both[i])
  <2>1. CASE i <= m
    <3>1. i \in 1..m /\ i \in 0..m /\ i - 1 \in 0..m
      BY <1>1, <2>1
    <3> QED
      BY <1>2, <1>5, <1>7, <3>1
  <2>2. CASE i > m
    <3> DEFINE j == i - m
    <3>1. /\ i \in (m + 1)..(m + p) /\ i \in m..(m + p) /\ i - 1 \in m..(m + p)
          /\ j \in 1..p /\ (i - 1) - m = j - 1 /\ j - 1 \in 0..p /\ m \in 0..m
      BY <1>1, <2>2
    <3>2. v[i] = Then(u[m], t[j]) /\ v[i - 1] = Then(u[m], t[j - 1]) /\ both[i] = gs[j]
      BY <1>2, <1>8, <3>1
    <3> HIDE DEF j
    <3>3. t[j] = Then(t[j - 1], gs[j])
      BY <1>6, <3>1
    <3>4. u[m] \in Effects /\ t[j - 1] \in Effects /\ gs[j] \in Effects
      BY <1>5, <1>6, <1>60, <3>1
    <3>5. Then(Then(u[m], t[j - 1]), gs[j]) = Then(u[m], Then(t[j - 1], gs[j]))
      BY <3>4, EffectsCompose
    <3> QED
      BY <3>2, <3>3, <3>5, Zenon
  <2> QED
    BY <1>1, <2>1, <2>2
<1>13. PrefixEffects(v, both)
  <2>1. v[0] = NoEffect
    BY <1>1, <1>5, <1>7
  <2> QED
    BY <1>2, <1>11, <1>12, <2>1 DEF PrefixEffects
<1>14. v[m + p] = Then(u[m], t[p])
  <2>1. m + p \in m..(m + p) /\ (m + p) - m = p
    BY <1>1
  <2> QED
    BY <1>8, <2>1
<1> QED
  BY <1>2, <1>3, <1>4, <1>13, <1>14, ChainedUnique DEF both

LEMMA ChainedOne == ASSUME NEW f \in Effects PROVE <<f>> \in Seq(Effects) /\ Chained(<<f>>) = f
<1> DEFINE u == [i \in 0..1 |-> IF i = 0 THEN NoEffect ELSE f]
<1>1. <<f>> \in Seq(Effects) /\ Len(<<f>>) = 1 /\ <<f>>[1] = f
  OBVIOUS
<1>2. u \in [0..1 -> Effects] /\ u[0] = NoEffect /\ u[1] = f
  BY EffectsCompose
<1> HIDE DEF u
<1>3. \A i \in 1..1 : u[i] = Then(u[i - 1], <<f>>[i])
  <2>1. \A i \in 1..1 : i = 1 /\ i - 1 = 0
    OBVIOUS
  <2> QED
    BY <1>1, <1>2, <2>1, EffectsCompose
<1>4. PrefixEffects(u, <<f>>)
  BY <1>1, <1>2, <1>3 DEF PrefixEffects
<1> QED
  BY <1>1, <1>2, <1>4, ChainedUnique

-----------------------------------------------------------------------------
LEMMA StrokesAre ==
  ASSUME NEW list \in Seq(Surface), NEW brush \in Brushes
  PROVE  /\ Strokes(list, brush) \in Seq(Effects) /\ Len(Strokes(list, brush)) = Len(list)
         /\ \A i \in 1..Len(list) : Strokes(list, brush)[i] = brush[list[i]]
         /\ Painted(list, brush) \in Effects
<1> DEFINE n == Len(list)
           fs == Strokes(list, brush)
<1>1. n \in Nat /\ \A i \in 1..n : list[i] \in Surface
  OBVIOUS
<1>2. fs = [i \in 1..n |-> brush[list[i]]]
  BY DEF Strokes
<1> HIDE DEF n, fs
<1>3. fs \in [1..n -> Effects]
  BY <1>1, <1>2 DEF Brushes
<1>4. fs \in Seq(Effects) /\ Len(fs) = n
  BY <1>1, <1>3
<1> QED
  BY <1>2, <1>4, ChainedInEffects DEF n, fs, Painted

LEMMA PaintedJoin ==
  ASSUME NEW p \in Seq(Surface), NEW q \in Seq(Surface), NEW brush \in Brushes
  PROVE  Painted(p \o q, brush) = Then(Painted(p, brush), Painted(q, brush))
<1> DEFINE fs == Strokes(p, brush)
           gs == Strokes(q, brush)
<1>1. /\ fs \in Seq(Effects) /\ Len(fs) = Len(p) /\ gs \in Seq(Effects) /\ Len(gs) = Len(q)
      /\ \A i \in 1..Len(p) : fs[i] = brush[p[i]]
      /\ \A i \in 1..Len(q) : gs[i] = brush[q[i]]
  BY StrokesAre
<1> HIDE DEF fs, gs
<1>2. Strokes(p \o q, brush) = fs \o gs
  <2>1. Strokes(p \o q, brush) = [i \in 1..(Len(p) + Len(q)) |-> brush[(p \o q)[i]]]
    BY DEF Strokes
  <2>2. fs \o gs = [i \in 1..(Len(p) + Len(q)) |-> (fs \o gs)[i]]
    <3> DEFINE both == fs \o gs
    <3>0. fs \in Seq(Effects) /\ gs \in Seq(Effects)
      BY <1>1
    <3>1. both \in Seq(Effects) /\ Len(both) = Len(p) + Len(q)
      <4>1. both \in Seq(Effects) /\ Len(both) = Len(fs) + Len(gs)
        BY <3>0
      <4> QED
        BY <1>1, <4>1
    <3> HIDE DEF both
    <3>2. both = [i \in 1..Len(both) |-> both[i]]
      BY <3>1
    <3> QED
      BY <3>1, <3>2 DEF both
  <2>3. ASSUME NEW i \in 1..(Len(p) + Len(q)) PROVE brush[(p \o q)[i]] = (fs \o gs)[i]
    <3>1. CASE i \in 1..Len(p)
      BY <1>1, <3>1
    <3>2. CASE i \notin 1..Len(p)
      <4>1. i - Len(p) \in 1..Len(q)
        BY <3>2
      <4>2. (p \o q)[i] = q[i - Len(p)] /\ (fs \o gs)[i] = gs[i - Len(p)]
        BY <1>1, <3>2
      <4> QED
        BY <1>1, <4>1, <4>2
    <3> QED
      BY <3>1, <3>2
  <2> QED
    BY <2>1, <2>2, <2>3
<1> QED
  BY <1>1, <1>2, ChainedJoin DEF Painted, fs, gs

LEMMA PaintedSmall ==
  ASSUME NEW brush \in Brushes
  PROVE  /\ Painted(<<>>, brush) = NoEffect
         /\ \A x \in Surface : Painted(<<x>>, brush) = brush[x]
<1>1. Strokes(<<>>, brush) = <<>>
  <2>1. <<>> \in Seq(Surface) /\ Len(<<>>) = 0
    OBVIOUS
  <2>2. Strokes(<<>>, brush) \in Seq(Effects) /\ Len(Strokes(<<>>, brush)) = 0
    BY <2>1, StrokesAre
  <2> QED
    BY <2>2
<1>2. ASSUME NEW x \in Surface PROVE Painted(<<x>>, brush) = brush[x]
  <2>1. Strokes(<<x>>, brush) = <<brush[x]>>
    <3>1. <<x>> \in Seq(Surface) /\ Len(<<x>>) = 1 /\ <<x>>[1] = x
      OBVIOUS
    <3>2. Strokes(<<x>>, brush) = [i \in 1..1 |-> brush[<<x>>[i]]]
      BY <3>1 DEF Strokes
    <3> QED
      BY <3>1, <3>2
  <2>2. brush[x] \in Effects
    BY DEF Brushes
  <2> QED
    BY <2>1, <2>2, ChainedOne DEF Painted
<1> QED
  BY <1>1, <1>2, ChainedEmpty DEF Painted

(* The concatenation of lists paints what the lists do, one after the other. *)
LEMMA PaintedFlat ==
  ASSUME NEW parts \in Seq(Seq(Surface)), NEW brush \in Brushes, NEW fs \in Seq(Effects),
         Len(fs) = Len(parts), \A i \in 1..Len(parts) : fs[i] = Painted(parts[i], brush)
  PROVE  Painted(FlattenSeq(parts), brush) = Chained(fs)
<1> DEFINE n == Len(parts)
<1>1. n \in Nat /\ \A i \in 1..n : parts[i] \in Seq(Surface)
  OBVIOUS
<1>2. CASE n = 0
  <2>1. FlattenSeq(parts) = <<>> /\ fs = <<>>
    BY <1>2 DEF FlattenSeq
  <2> QED
    BY <2>1, PaintedSmall, ChainedEmpty
<1>3. CASE n # 0
  <2>1. PICK joined \in [1..n -> Seq(Surface)] :
          Joins(joined, parts) /\ FlattenSeq(parts) = joined[n]
    BY <1>3, FlattenSeqJoins
  <2> DEFINE u == [i \in 0..n |-> IF i = 0 THEN NoEffect ELSE Painted(joined[i], brush)]
  <2>2. \A i \in 0..n : i = 0 \/ i \in 1..n
    BY <1>1
  <2>3. \A i \in 1..n : i \in 0..n /\ i # 0 /\ i - 1 \in 0..n /\ (i = 1 \/ (i \in 2..n /\ i - 1 \in 1..n))
    BY <1>1
  <2>4. u[0] = NoEffect /\ \A i \in 1..n : u[i] = Painted(joined[i], brush)
    BY <1>1, <2>3
  <2>5. u \in [0..n -> Effects]
    <3>1. \A i \in 1..n : Painted(joined[i], brush) \in Effects
      BY StrokesAre
    <3> QED
      BY <2>2, <3>1, EffectsCompose
  <2> HIDE DEF u
  <2>6. ASSUME NEW i \in 1..n PROVE u[i] = Then(u[i - 1], fs[i])
    <3>1. fs[i] = Painted(parts[i], brush) /\ fs[i] \in Effects
      OBVIOUS
    <3>2. CASE i = 1
      <4>1. joined[1] = parts[1]
        BY <2>1 DEF Joins
      <4>2. u[i - 1] = NoEffect /\ u[i] = fs[i]
        BY <2>4, <3>1, <3>2, <4>1
      <4> QED
        BY <3>1, <4>2, EffectsCompose
    <3>3. CASE i # 1
      <4>1. i \in 2..n /\ i - 1 \in 1..n
        BY <2>3, <3>3
      <4>2. joined[i] = joined[i - 1] \o parts[i]
        BY <2>1, <4>1 DEF Joins
      <4>3. Painted(joined[i], brush) = Then(Painted(joined[i - 1], brush), Painted(parts[i], brush))
        <5>1. joined[i - 1] \in Seq(Surface) /\ parts[i] \in Seq(Surface)
          BY <1>1, <2>1, <4>1
        <5> QED
          BY <4>2, <5>1, PaintedJoin
      <4> QED
        BY <2>4, <3>1, <4>1, <4>3
    <3> QED
      BY <3>2, <3>3
  <2>7. PrefixEffects(u, fs)
    BY <2>4, <2>5, <2>6 DEF PrefixEffects
  <2>8. n \in 1..n
    BY <1>1, <1>3
  <2> QED
    BY <2>1, <2>4, <2>7, <2>8, ChainedUnique
<1> QED
  BY <1>2, <1>3

(* What a node and its children paint is an effect.                          *)
LEMMA LayersAre ==
  ASSUME NEW kids \in Seq(Surface), NEW id, NEW own \in Effects, NEW below \in Brushes
  PROVE  /\ Layers(kids, id, own, below) \in Seq(Effects)
         /\ Len(Layers(kids, id, own, below)) = Len(kids)
         /\ \A i \in 1..Len(kids) :
              Layers(kids, id, own, below)[i] = IF kids[i] = id THEN own ELSE below[kids[i]]
         /\ Composed(kids, id, own, below) \in Effects
<1> DEFINE n == Len(kids)
           fs == Layers(kids, id, own, below)
<1>1. n \in Nat /\ \A i \in 1..n : kids[i] \in Surface
  OBVIOUS
<1>2. fs = [i \in 1..n |-> IF kids[i] = id THEN own ELSE below[kids[i]]]
  BY DEF Layers
<1> HIDE DEF n, fs
<1>3. fs \in [1..n -> Effects]
  BY <1>1, <1>2 DEF Brushes
<1>4. fs \in Seq(Effects) /\ Len(fs) = n
  BY <1>1, <1>3
<1>5. Chained(fs) \in Effects
  BY <1>4, ChainedInEffects
<1> QED
  BY <1>2, <1>4, <1>5 DEF n, fs, Composed

(* The list of a subtree paints what its children paint, each where it       *)
(* stands.                                                                   *)
LEMMA ArrangedPaints ==
  ASSUME NEW kids \in Seq(Surface), NEW id, NEW own \in Seq(Surface),
         NEW below \in [Surface -> Seq(Surface)], NEW brush \in Brushes, NEW paint \in Brushes,
         Depicts(paint, below, brush)
  PROVE  Painted(Arranged(kids, id, own, below), brush)
           = Composed(kids, id, Painted(own, brush), paint)
<1> DEFINE parts == Branches(kids, id, own, below)
           fs == Layers(kids, id, Painted(own, brush), paint)
<1>1. CASE kids = <<>>
  BY <1>1 DEF Arranged, Composed
<1>2. CASE kids # <<>>
  <2>1. parts \in Seq(Seq(Surface)) /\ Len(parts) = Len(kids)
    BY BranchesAre
  <2>2. Painted(own, brush) \in Effects
    BY StrokesAre
  <2>3. /\ fs \in Seq(Effects) /\ Len(fs) = Len(kids)
        /\ \A i \in 1..Len(kids) : fs[i] = IF kids[i] = id THEN Painted(own, brush) ELSE paint[kids[i]]
    BY <2>2, LayersAre
  <2>4. \A i \in 1..Len(kids) : parts[i] = IF kids[i] = id THEN own ELSE below[kids[i]]
    BY DEF Branches
  <2> HIDE DEF parts, fs
  <2>5. \A i \in 1..Len(kids) : kids[i] \in Surface
    OBVIOUS
  <2>6. ASSUME NEW i \in 1..Len(kids) PROVE fs[i] = Painted(parts[i], brush)
    <3>1. /\ fs[i] = IF kids[i] = id THEN Painted(own, brush) ELSE paint[kids[i]]
          /\ parts[i] = IF kids[i] = id THEN own ELSE below[kids[i]]
      BY <2>3, <2>4
    <3>2. paint[kids[i]] = Painted(below[kids[i]], brush)
      BY <2>5 DEF Depicts
    <3> QED
      BY <3>1, <3>2, Zenon
  <2>7. Painted(FlattenSeq(parts), brush) = Chained(fs)
    BY <2>1, <2>3, <2>6, PaintedFlat
  <2> QED
    BY <1>2, <2>7 DEF Arranged, Composed, parts, fs
<1> QED
  BY <1>1, <1>2

-----------------------------------------------------------------------------
(* A node has no effect outside its cells.                                   *)
LEMMA LaidIs ==
  ASSUME NEW node \in Drawn, NEW cell \in Int
  PROVE  /\ Laid(node, cell) \in Effects
         /\ cell \notin node.at..(node.at + Len(node.source) - 1) => Laid(node, cell) = NoEffect
<1> DEFINE i == cell - node.at + 1
           Layer == (Colour \cup {"clear"}) \X {"copy", "over", "forced"}
<1>1. node.source \in Seq(Colour) /\ node.at \in Int /\ Len(node.source) \in Nat
  BY DEF Drawn, Blocks
<1>2. ASSUME NEW below \in Stacks PROVE SourceOver(below, node, cell) \in Stacks
  <2>1. CASE i \notin DOMAIN node.source
    BY <2>1 DEF SourceOver
  <2>2. CASE i \in DOMAIN node.source
    <3> DEFINE colour == node.source[i]
    <3>1. colour \in Colour
      BY <1>1, <2>2
    <3> HIDE DEF colour
    <3>2. \A how \in {"copy", "over", "forced"} : <<colour, how>> \in Layer
      BY <3>1
    <3> HIDE DEF Layer
    <3>3. below \in Seq(Layer)
      BY DEF Stacks, Layer
    <3>4. /\ <<<<colour, "copy">>>> \in Seq(Layer) /\ <<<<colour, "forced">>>> \in Seq(Layer)
          /\ Append(below, <<colour, "over">>) \in Seq(Layer)
      BY <3>2, <3>3
    <3>5. SourceOver(below, node, cell) =
            IF colour \notin Translucent THEN << <<colour, "copy">> >>
            ELSE IF node.opaque THEN << <<colour, "forced">> >>
            ELSE Append(below, <<colour, "over">>)
      BY <2>2 DEF SourceOver, colour
    <3>6. SourceOver(below, node, cell) \in Seq(Layer)
      BY <3>4, <3>5
    <3> QED
      BY <3>6 DEF Stacks, Layer
  <2> QED
    BY <2>1, <2>2
<1>3. ASSUME cell \notin node.at..(node.at + Len(node.source) - 1)
      PROVE  \A below \in Stacks : SourceOver(below, node, cell) = below
  <2>1. i \notin DOMAIN node.source
    BY <1>1, <1>3
  <2> QED
    BY <2>1 DEF SourceOver
<1> QED
  BY <1>2, <1>3 DEF Laid, Effects, NoEffect

LEMMA ClearIs == Clear \in Stacks
BY DEF Clear, Stacks

(* Compositing is painting the nodes on a clear cell.                        *)
LEMMA CompositeIs ==
  ASSUME NEW nodes \in Seq(Drawn), NEW cell \in Int, NEW fs \in Seq(Effects),
         Len(fs) = Len(nodes), \A i \in 1..Len(nodes) : fs[i] = Laid(nodes[i], cell)
  PROVE  Composite(nodes, cell) = Chained(fs)[Clear]
<1> DEFINE n == Len(nodes)
           Whole(f) == [i \in 0..n |-> IF i = 0 THEN Clear ELSE SourceOver(f[i - 1], nodes[i], cell)]
<1>1. n \in Nat
  OBVIOUS
<1>2. PICK u : PrefixEffects(u, fs) /\ Chained(fs) = u[n]
  BY ChainedIs
<1>3. /\ u \in [0..n -> Effects] /\ u[0] = NoEffect
      /\ \A i \in 1..n : u[i] = Then(u[i - 1], fs[i])
  BY <1>2 DEF PrefixEffects
<1> DEFINE f == [i \in 0..n |-> u[i][Clear]]
<1>4. \A i \in 0..n : f[i] = u[i][Clear] /\ f[i] \in Stacks
  BY <1>3, ClearIs DEF Effects
<1>5. f[0] = Clear
  BY <1>1, <1>3, <1>4, ClearIs DEF NoEffect
<1>6. \A i \in 1..n : i \in 0..n /\ i - 1 \in 0..n /\ i # 0
  BY <1>1
<1> HIDE DEF f
<1>7. ASSUME NEW i \in 1..n PROVE f[i] = SourceOver(f[i - 1], nodes[i], cell)
  <2>1. u[i] = Then(u[i - 1], fs[i]) /\ fs[i] = Laid(nodes[i], cell)
    BY <1>3
  <2>2. f[i] = u[i][Clear] /\ f[i - 1] = u[i - 1][Clear] /\ f[i - 1] \in Stacks
    BY <1>4, <1>6
  <2>3. u[i][Clear] = fs[i][u[i - 1][Clear]]
    BY <2>1, ClearIs DEF Then
  <2>4. fs[i][f[i - 1]] = SourceOver(f[i - 1], nodes[i], cell)
    BY <2>1, <2>2 DEF Laid
  <2> QED
    BY <2>2, <2>3, <2>4
<1> HIDE DEF n
<1>8. f = Whole(f)
  <2>1. \A i \in 0..n : i = 0 \/ (i \in 1..n /\ i # 0)
    BY <1>1
  <2>2. f = [i \in 0..n |-> f[i]]
    BY DEF f
  <2> QED
    BY <1>5, <1>7, <2>1, <2>2
<1> DEFINE g == CHOOSE g : g = Whole(g)
<1>9. g = Whole(g)
  BY <1>8
<1>10. Composite(nodes, cell) = g[n]
  BY DEF Composite, n
<1> HIDE DEF g
<1>11. g[0] = Clear /\ \A i \in 1..n : g[i] = SourceOver(g[i - 1], nodes[i], cell)
  <2>1. 0 \in 0..n
    BY <1>1
  <2> QED
    BY <1>6, <1>9, <2>1
<1> DEFINE S == {i \in 0..n : g[i] = f[i]}
<1>12. 0 \in S
  BY <1>1, <1>5, <1>11
<1>13. ASSUME NEW i \in 0..n, i \in S, i < n PROVE i + 1 \in S
  <2>1. i + 1 \in 1..n /\ (i + 1) - 1 = i /\ i + 1 \in 0..n
    BY <1>1, <1>13
  <2>2. g[i + 1] = SourceOver(g[i], nodes[i + 1], cell)
    BY <1>11, <2>1
  <2>3. f[i + 1] = SourceOver(f[i], nodes[i + 1], cell)
    BY <1>7, <2>1
  <2> QED
    BY <1>13, <2>1, <2>2, <2>3
<1> HIDE DEF S
<1>14. n \in S
  <2>1. \A i \in 0..n : i \in S
    BY <1>1, <1>12, <1>13, IntervalInduction
  <2> QED
    BY <1>1, <2>1
<1>15. n \in 0..n
  BY <1>1
<1> QED
  BY <1>2, <1>4, <1>10, <1>14, <1>15 DEF S

LEMMA DrawnIs ==
  ASSUME NEW sc \in Scenes, NEW x \in DOMAIN Placed(sc)
  PROVE  SnapshotNode(sc.nodes[x], Placed(sc)[x]) \in Drawn
<1>1. x \in Live(sc) /\ Placed(sc)[x] \in Int /\ sc.nodes[x].source # NoPixels
  BY PlacedIs DEF IsVisible
<1>2. sc.nodes[x].source \in Blocks /\ sc.nodes[x].opaque \in BOOLEAN
  BY <1>1, SceneIs DEF Nodes
<1> QED
  BY <1>1, <1>2 DEF SnapshotNode, Drawn

(* A surface that does not cover the cell paints nothing there.              *)
LEMMA BrushIs ==
  ASSUME NEW sc \in Scenes, NEW cell \in Int
  PROVE  /\ Brush(sc, cell) \in Brushes
         /\ Fitted(sc) => \A x \in Surface : ~Covers(sc, x, cell) => Brush(sc, cell)[x] = NoEffect
<1> DEFINE node(x) == SnapshotNode(sc.nodes[x], Placed(sc)[x])
<1>1. ASSUME NEW x \in DOMAIN Placed(sc) PROVE Laid(node(x), cell) \in Effects
  BY DrawnIs, LaidIs
<1>2. Brush(sc, cell) \in Brushes
  BY <1>1, EffectsCompose DEF Brush, Brushes
<1>3. ASSUME Fitted(sc), NEW x \in DOMAIN Placed(sc), ~Covers(sc, x, cell)
      PROVE  Laid(node(x), cell) = NoEffect
  <2>1. x \in Live(sc) /\ sc.nodes[x].source # NoPixels
    BY PlacedIs DEF IsVisible
  <2>2. sc.nodes[x].size = Len(sc.nodes[x].source)
    BY <1>3, <2>1 DEF Fitted
  <2>3. node(x).at = Placed(sc)[x] /\ node(x).source = sc.nodes[x].source
    BY DEF SnapshotNode
  <2>4. cell \notin node(x).at..(node(x).at + Len(node(x).source) - 1)
    BY <1>3, <2>2, <2>3 DEF Covers
  <2>5. node(x) \in Drawn
    BY DrawnIs
  <2> HIDE DEF node
  <2> QED
    BY <2>4, <2>5, LaidIs
<1> QED
  BY <1>2, <1>3 DEF Brush

LEMMA CellsOfAre ==
  ASSUME NEW sc, NEW ids, NEW cell
  PROVE  cell \in CellsOf(sc, ids) <=> \E x \in ids : Covers(sc, x, cell)
BY DEF CellsOf, Covers

-----------------------------------------------------------------------------
(* What the trees of a scene paint.                                          *)

(* The roots, each with the layer its tree paints.                           *)
LEMMA RootLayersAre ==
  ASSUME NEW S \in SUBSET Surface, NEW top \in Brushes, NEW n \in Nat
  PROVE  /\ RootLayers(S, top, n) \in Seq(Effects) /\ Len(RootLayers(S, top, n)) = n
         /\ \A i \in 1..n : RootLayers(S, top, n)[i] = IF i - 1 \in S THEN top[i - 1] ELSE NoEffect
<1> DEFINE fs == RootLayers(S, top, n)
<1>1. fs = [i \in 1..n |-> IF i - 1 \in S THEN top[i - 1] ELSE NoEffect]
  BY DEF RootLayers
<1>2. \A i \in 1..n : (IF i - 1 \in S THEN top[i - 1] ELSE NoEffect) \in Effects
  BY EffectsCompose DEF Brushes
<1> HIDE DEF fs
<1>3. fs \in [1..n -> Effects]
  BY <1>1, <1>2
<1>4. fs \in Seq(Effects) /\ Len(fs) = n
  BY <1>3
<1> QED
  BY <1>1, <1>4 DEF fs

(* The roots in ascending order paint as RootLayers does.                    *)
LEMMA AscendingPaints ==
  ASSUME NEW S \in SUBSET Surface, NEW top \in Brushes, NEW n \in Nat, \A x \in S : x < n
  PROVE  Painted(Ascending(S), top) = Chained(RootLayers(S, top, n))
<1> DEFINE fs == RootLayers(S, top, n)
<1>1. PICK m \in Nat : \E g : /\ \A x \in S : x < m
                              /\ \A b \in Nat : (\A x \in S : x < b) => m <= b
                              /\ AscendsBy(g, m, S) /\ Ascending(S) = g[m]
  BY AscendingBuilt
<1>2. PICK g : /\ \A x \in S : x < m
               /\ \A b \in Nat : (\A x \in S : x < b) => m <= b
               /\ AscendsBy(g, m, S) /\ Ascending(S) = g[m]
  BY <1>1
<1>3. /\ g[0] = <<>>
      /\ \A i \in 1..m : g[i] = IF i - 1 \in S THEN Append(g[i - 1], i - 1) ELSE g[i - 1]
  BY <1>2 DEF AscendsBy
<1>4. m <= n /\ m \in 0..n
  BY <1>2
<1>5. \A i \in 0..m : g[i] \in Seq(Surface)
  <2> DEFINE V == Seq(Surface)
  <2>1. g[0] \in V
    BY <1>3
  <2>2. ASSUME NEW i \in 1..m, g[i - 1] \in V PROVE g[i] \in V
    <3>1. CASE i - 1 \in S
      <4>1. i - 1 \in Surface /\ g[i] = Append(g[i - 1], i - 1)
        BY <1>3, <3>1
      <4> DEFINE x == i - 1
                 p == g[x]
      <4> HIDE DEF x, p
      <4>2. p \in Seq(Surface) /\ x \in Surface
        BY <2>2, <4>1 DEF p, x
      <4>3. Append(p, x) \in Seq(Surface)
        BY <4>2
      <4> QED
        BY <4>1, <4>3 DEF p, x
    <3>2. CASE i - 1 \notin S
      BY <1>3, <2>2, <3>2
    <3> QED
      BY <3>1, <3>2
  <2> HIDE DEF V
  <2>3. \A i \in 0..m : g[i] \in V
    BY <2>1, <2>2, RecursionStays
  <2> QED
    BY <2>3 DEF V
<1>6. /\ fs \in Seq(Effects) /\ Len(fs) = n
      /\ \A i \in 1..n : fs[i] = IF i - 1 \in S THEN top[i - 1] ELSE NoEffect
  BY RootLayersAre
<1> HIDE DEF fs
<1> DEFINE u == [i \in 0..n |-> Painted(g[IF i <= m THEN i ELSE m], top)]
<1>7. u \in [0..n -> Effects]
  <2>1. \A i \in 0..m : Painted(g[i], top) \in Effects
    BY <1>5, StrokesAre
  <2> QED
    BY <1>4, <2>1
<1>8. /\ \A i \in 0..m : u[i] = Painted(g[i], top)
      /\ \A i \in 0..n : i >= m => u[i] = Painted(g[m], top)
  <2>1. \A i \in 0..m : i \in 0..n /\ i <= m
    BY <1>4
  <2>2. \A i \in 0..n : i >= m => (IF i <= m THEN i ELSE m) = m
    BY <1>4
  <2> QED
    BY <2>1, <2>2
<1> HIDE DEF u
<1>9. u[0] = NoEffect
  BY <1>3, <1>8, PaintedSmall
<1>10. ASSUME NEW i \in 1..n PROVE u[i] = Then(u[i - 1], fs[i])
  <2>0. i - 1 \in 0..n /\ i \in 0..n
    OBVIOUS
  <2>1. CASE i <= m
    <3>1. i \in 1..m /\ i \in 0..m /\ i - 1 \in 0..m
      BY <2>1
    <3>2. u[i] = Painted(g[i], top) /\ u[i - 1] = Painted(g[i - 1], top) /\ u[i - 1] \in Effects
      BY <1>7, <1>8, <2>0, <3>1
    <3>3. CASE i - 1 \in S
      <4> DEFINE x == i - 1
                 p == g[x]
      <4>1. x \in Surface /\ p \in Seq(Surface) /\ <<x>> \in Seq(Surface)
        BY <1>5, <3>1, <3>3
      <4>2. g[i] = Append(p, x)
        BY <1>3, <3>1, <3>3
      <4>3. fs[i] = top[x]
        BY <1>6, <3>3
      <4> HIDE DEF x, p
      <4>4. Append(p, x) = p \o <<x>>
        BY <4>1
      <4>5. Painted(p \o <<x>>, top) = Then(Painted(p, top), Painted(<<x>>, top))
        BY <4>1, PaintedJoin
      <4>6. Painted(<<x>>, top) = top[x]
        BY <4>1, PaintedSmall
      <4> QED
        BY <3>2, <4>2, <4>3, <4>4, <4>5, <4>6 DEF p, x
    <3>4. CASE i - 1 \notin S
      <4>1. fs[i] = NoEffect /\ g[i] = g[i - 1]
        BY <1>3, <1>6, <3>1, <3>4
      <4> QED
        BY <3>2, <4>1, EffectsCompose
    <3> QED
      BY <3>3, <3>4
  <2>2. CASE i > m
    <3>1. i - 1 \notin S
      BY <1>2, <2>2
    <3>2. u[i] = u[i - 1]
      BY <1>8, <2>0, <2>2
    <3>3. u[i - 1] \in Effects /\ fs[i] = NoEffect
      BY <1>6, <1>7, <2>0, <3>1
    <3> QED
      BY <3>2, <3>3, EffectsCompose
  <2> QED
    BY <2>1, <2>2
<1>11. PrefixEffects(u, fs)
  BY <1>6, <1>7, <1>9, <1>10 DEF PrefixEffects
<1>12. u[n] = Painted(Ascending(S), top)
  BY <1>2, <1>4, <1>8
<1> QED
  BY <1>6, <1>11, <1>12, ChainedUnique DEF fs

(* The flattened trees paint what Paints says, level by level.               *)
LEMMA TreesPaint ==
  ASSUME NEW sc \in Scenes, NEW mapped \in SUBSET Surface, NEW flat, Flattens(flat, sc, mapped),
         NEW brush \in Brushes, \A x \in Surface \ mapped : brush[x] = NoEffect, NEW paint,
         paint = PaintedLevels(flat, brush)
  PROVE  Paints(paint, sc, brush)
<1> DEFINE n == MAX_SUBSURFACE_DEPTH + 1
<1>1. n \in Nat /\ 0 \in 0..n /\ \A d \in 1..n : d \in 0..n /\ d - 1 \in 0..n
  BY SurfaceAssumption
<1>2. \A list \in Seq(mapped) : list \in Seq(Surface)
  OBVIOUS
<1>3. /\ \A d \in 0..n : flat[d] \in [Surface -> Seq(Surface)]
      /\ \A id \in Surface : flat[0][id] = <<>>
      /\ \A d \in 1..n : \A id \in Surface :
           flat[d][id] = IF id \notin Live(sc) THEN <<>>
                         ELSE Arranged(sc.nodes[id].children, id, OwnPlace(id, mapped), flat[d - 1])
  BY <1>2 DEF Flattens
<1>4. /\ paint = [d \in 0..n |-> paint[d]]
      /\ \A d \in 0..n : paint[d] = [x \in Surface |-> Painted(flat[d][x], brush)]
  BY DEF PaintedLevels
<1> HIDE DEF n
<1>5. ASSUME NEW d \in 0..n PROVE paint[d] \in Brushes
  <2>1. \A x \in Surface : Painted(flat[d][x], brush) \in Effects
    BY <1>3, StrokesAre
  <2>2. [x \in Surface |-> Painted(flat[d][x], brush)] \in [Surface -> Effects]
    BY <2>1
  <2> QED
    BY <1>4, <2>2 DEF Brushes
<1>6. paint \in [0..n -> Brushes]
  BY <1>4, <1>5
<1>7. ASSUME NEW d \in 0..n, NEW x \in Surface PROVE paint[d][x] = Painted(flat[d][x], brush)
  <2>1. paint[d] = [y \in Surface |-> Painted(flat[d][y], brush)]
    BY <1>4
  <2> QED
    BY <2>1
<1>8. \A x \in Surface : paint[0][x] = NoEffect
  BY <1>1, <1>3, <1>7, PaintedSmall
<1>9. ASSUME NEW x \in Surface PROVE Painted(OwnPlace(x, mapped), brush) = brush[x]
  BY PaintedSmall DEF OwnPlace
<1>10. ASSUME NEW d \in 1..n, NEW x \in Live(sc)
       PROVE  paint[d][x] = Composed(sc.nodes[x].children, x, brush[x], paint[d - 1])
  <2> DEFINE kids == sc.nodes[x].children
             own == OwnPlace(x, mapped)
             below == flat[d - 1]
             levels == paint[d - 1]
  <2>1. x \in Surface /\ kids \in Seq(Surface)
    BY SceneIs DEF Nodes
  <2>2. own \in Seq(Surface)
    BY <2>1 DEF OwnPlace
  <2>3. below \in [Surface -> Seq(Surface)] /\ levels \in Brushes
    BY <1>1, <1>3, <1>5
  <2>4. Depicts(levels, below, brush)
    BY <1>1, <1>7 DEF Depicts
  <2>5. paint[d][x] = Painted(Arranged(kids, x, own, below), brush)
    <3>1. flat[d][x] = Arranged(kids, x, own, below)
      BY <1>3, <2>1
    <3> QED
      BY <1>1, <1>7, <2>1, <3>1
  <2>6. Painted(own, brush) = brush[x]
    BY <1>9, <2>1
  <2> HIDE DEF kids, own, below, levels
  <2>7. Painted(Arranged(kids, x, own, below), brush) = Composed(kids, x, Painted(own, brush), levels)
    BY <2>1, <2>2, <2>3, <2>4, ArrangedPaints
  <2> QED
    BY <2>5, <2>6, <2>7 DEF kids, levels
<1>11. ASSUME NEW d \in 1..n, NEW x \in Surface \ Live(sc) PROVE paint[d][x] = NoEffect
  BY <1>1, <1>3, <1>7, PaintedSmall
<1> QED
  BY <1>6, <1>8, <1>10, <1>11 DEF Paints, n

(* What compositing a snapshot shows in a cell: the roots in ascending       *)
(* order, each painted with its tree.                                        *)
LEMMA PaintingIs ==
  ASSUME NEW sc \in Scenes, NEW cell \in Int, NEW n \in Nat, Above(n)
  PROVE  \E paint :
           /\ Paints(paint, sc, Brush(sc, cell))
           /\ Composite(SnapshotNodes(sc), cell)
                = Chained(RootLayers(Roots(sc), paint[MAX_SUBSURFACE_DEPTH + 1], n))[Clear]
<1> DEFINE top == MAX_SUBSURFACE_DEPTH + 1
           mapped == DOMAIN Placed(sc)
           brush == Brush(sc, cell)
           R == Roots(sc)
           roots == Ascending(R)
           m == Len(roots)
           parts == [i \in DOMAIN roots |-> FlattenSubtree(sc, roots[i], mapped)]
           ids == CompositionOrder(sc)
           nodes == SnapshotNodes(sc)
<1>1. mapped \in SUBSET Surface /\ R \in SUBSET Surface /\ \A x \in R : x < n
  BY SceneIs, PlacedIs DEF Roots, Above
<1>2. PICK flat : Flattens(flat, sc, mapped) /\ \A root : FlattenSubtree(sc, root, mapped) = flat[top][root]
  BY <1>1, FlattenBuilt
<1> DEFINE paint == PaintedLevels(flat, brush)
<1>3. brush \in Brushes /\ \A x \in Surface \ mapped : brush[x] = NoEffect
  BY BrushIs DEF Brush
<1>4. Paints(paint, sc, brush)
  BY <1>1, <1>2, <1>3, TreesPaint
<1>5. top \in 0..top
  BY SurfaceAssumption
<1>6. paint[top] \in Brushes /\ \A x \in Surface : paint[top][x] = Painted(flat[top][x], brush)
  <2>1. paint[top] \in Brushes
    BY <1>4, <1>5 DEF Paints
  <2>2. paint[top] = [x \in Surface |-> Painted(flat[top][x], brush)]
    BY <1>5 DEF PaintedLevels
  <2> HIDE DEF paint
  <2> QED
    BY <2>1, <2>2
<1>7. flat[top] \in [Surface -> Seq(mapped)]
  BY <1>2, <1>5 DEF Flattens
<1>8. ids = FlattenSeq(parts)
  BY DEF CompositionOrder, Roots
<1>9. /\ m \in Nat /\ DOMAIN roots = 1..m /\ roots \in Seq(Surface) /\ \A i \in 1..m : roots[i] \in Surface
  <2>1. roots \in Seq(R)
    BY <1>1, AscendingLists DEF Lists
  <2> HIDE DEF roots, R
  <2> QED
    BY <1>1, <2>1
<1>10. nodes = [i \in DOMAIN ids |-> SnapshotNode(sc.nodes[ids[i]], Placed(sc)[ids[i]])]
  BY DEF SnapshotNodes
<1> HIDE DEF roots, R, m, top, paint, brush, ids, nodes
<1>11. \A i \in 1..m : parts[i] = flat[top][roots[i]]
  BY <1>2, <1>9
<1>12. parts \in [1..m -> Seq(mapped)]
  <2>1. parts = [i \in 1..m |-> parts[i]]
    BY <1>9
  <2> HIDE DEF parts, mapped
  <2> QED
    BY <1>7, <1>9, <1>11, <2>1
<1> HIDE DEF parts, mapped
<1>13. parts \in Seq(Seq(mapped)) /\ parts \in Seq(Seq(Surface)) /\ Len(parts) = m
  <2>1. \A list \in Seq(mapped) : list \in Seq(Surface)
    BY <1>1
  <2>2. parts \in [1..m -> Seq(Surface)]
    BY <1>12, <2>1
  <2> QED
    BY <1>9, <1>12, <2>2
<1>14. ids \in Seq(mapped) /\ ids \in Seq(Surface)
  BY <1>8, <1>13, FlattenSeqIs
<1>15. Painted(ids, brush) = Painted(roots, paint[top])
  <2> DEFINE fs == Strokes(roots, paint[top])
  <2>1. /\ fs \in Seq(Effects) /\ Len(fs) = m /\ \A i \in 1..m : fs[i] = paint[top][roots[i]]
    BY <1>6, <1>9, StrokesAre DEF m
  <2> HIDE DEF fs
  <2>2. \A i \in 1..m : fs[i] = Painted(parts[i], brush)
    BY <1>6, <1>9, <1>11, <2>1
  <2>3. Painted(FlattenSeq(parts), brush) = Chained(fs)
    BY <1>3, <1>13, <2>1, <2>2, PaintedFlat
  <2> QED
    BY <1>8, <2>3 DEF fs, Painted
<1>16. Painted(roots, paint[top]) = Chained(RootLayers(R, paint[top], n))
  BY <1>1, <1>6, AscendingPaints DEF roots
<1>17. Composite(nodes, cell) = Painted(ids, brush)[Clear]
  <2> DEFINE fs == Strokes(ids, brush)
  <2>1. /\ fs \in Seq(Effects) /\ Len(fs) = Len(ids) /\ \A i \in 1..Len(ids) : fs[i] = brush[ids[i]]
    BY <1>3, <1>14, StrokesAre
  <2>2. \A i \in 1..Len(ids) : ids[i] \in mapped /\ ids[i] \in Surface
    BY <1>14
  <2>3. ASSUME NEW i \in 1..Len(ids)
        PROVE  nodes[i] \in Drawn /\ fs[i] = Laid(nodes[i], cell)
    <3> DEFINE x == ids[i]
    <3>1. x \in mapped /\ x \in Surface /\ i \in DOMAIN ids
      BY <1>14, <2>2
    <3>2. nodes[i] = SnapshotNode(sc.nodes[x], Placed(sc)[x])
      BY <1>10, <3>1
    <3> HIDE DEF x
    <3>3. nodes[i] \in Drawn
      BY <3>1, <3>2, DrawnIs DEF mapped
    <3>4. brush[x] = Laid(nodes[i], cell)
      BY <3>1, <3>2 DEF brush, Brush, mapped
    <3> QED
      BY <2>1, <3>3, <3>4 DEF x
  <2>4. nodes \in [1..Len(ids) -> Drawn] /\ Len(ids) \in Nat
    <3>1. DOMAIN ids = 1..Len(ids) /\ Len(ids) \in Nat
      BY <1>14
    <3>2. nodes = [i \in 1..Len(ids) |-> nodes[i]]
      BY <1>10, <3>1
    <3> QED
      BY <2>3, <3>1, <3>2
  <2>5. nodes \in Seq(Drawn) /\ Len(nodes) = Len(ids)
    BY <2>4
  <2> HIDE DEF fs
  <2>6. Composite(nodes, cell) = Chained(fs)[Clear]
    BY <2>1, <2>3, <2>5, CompositeIs
  <2> QED
    BY <2>6 DEF fs, Painted
<1>18. Composite(nodes, cell) = Chained(RootLayers(R, paint[top], n))[Clear]
  BY <1>15, <1>16, <1>17
<1> QED
  BY <1>4, <1>18 DEF top, brush, R, nodes

-----------------------------------------------------------------------------
(* The types.                                                                *)

LEMMA FramesAreStacks ==
  ASSUME NEW sc \in Scenes, NEW frame \in [Output -> Stacks]
  PROVE  CompositeInto(frame, sc) \in [Output -> Stacks]
<1>1. ASSUME NEW cell \in Output PROVE Composite(SnapshotNodes(sc), cell) \in Stacks
  <2>1. PICK n \in Nat : Above(n)
    <3>1. PICK b \in Nat : \A s \in Surface : s <= b
      BY SurfaceBound
    <3>2. Above(b + 1)
      BY <3>1, SurfaceAssumption DEF Above
    <3> QED
      BY <3>2
  <2> DEFINE top == MAX_SUBSURFACE_DEPTH + 1
  <2>2. PICK paint : /\ Paints(paint, sc, Brush(sc, cell))
                     /\ Composite(SnapshotNodes(sc), cell)
                          = Chained(RootLayers(Roots(sc), paint[top], n))[Clear]
    BY <2>1, PaintingIs, SurfaceAssumption
  <2>3. paint[top] \in Brushes
    BY <2>2, SurfaceAssumption DEF Paints
  <2>4. Roots(sc) \subseteq Surface
    BY SceneIs DEF Roots
  <2>5. Chained(RootLayers(Roots(sc), paint[top], n)) \in Effects
    BY <2>3, <2>4, RootLayersAre, ChainedInEffects
  <2> QED
    BY <2>2, <2>5, ClearIs DEF Effects
<1> QED
  BY <1>1 DEF CompositeInto

(* The routing table and the frame of layers keep their types.               *)
LEMMA SidesKeep == IInv /\ SidesOK /\ [Next]_vars => SidesOK'
<1> SUFFICES ASSUME IInv, SidesOK, [Next]_vars PROVE SidesOK'
  OBVIOUS
<1>1. ASSUME focusMap' = focusMap, alive \subseteq alive', screen' = screen PROVE SidesOK'
  BY <1>1 DEF SidesOK
<1>2. ASSUME UNCHANGED <<wl, focusMap, screen>> PROVE SidesOK'
  BY <1>1, <1>2 DEF alive
<1>3. ASSUME NEW k \in Client, NewSurface(k) PROVE SidesOK'
  <2>1. alive' = alive \cup {nextSurface}
    BY <1>3 DEF NewSurface, Inserted, alive
  <2> QED
    BY <1>1, <1>3, <2>1 DEF NewSurface, Publish
<1>4. ASSUME NEW s \in alive, NewToplevel(s) PROVE SidesOK'
  <2>1. alive' = alive
    BY <1>4 DEF NewToplevel, alive
  <2> QED
    BY <1>1, <1>4, <2>1 DEF NewToplevel, Publish
<1>5. ASSUME NEW s \in alive, ToplevelDestroyed(s) PROVE SidesOK'
  <2>1. DOMAIN focusMap' \subseteq DOMAIN focusMap
    BY <1>5 DEF ToplevelDestroyed, Forget, SetRouting, Focus!Unmap
  <2> QED
    BY <1>5, <2>1 DEF ToplevelDestroyed, Publish, SidesOK, alive
<1>6. ASSUME NEW s \in alive, SurfaceDestroyed(s) PROVE SidesOK'
  <2>1. Forget(s) /\ wl' = Orphaned(wl, s) /\ screen' = screen
    BY <1>6, Zenon DEF SurfaceDestroyed, Orphaned, Publish
  <2>2. DOMAIN focusMap' = DOMAIN focusMap \ {s}
    BY <2>1 DEF Forget, SetRouting, Focus!Unmap
  <2>3. DOMAIN Orphaned(wl, s) = DOMAIN wl \ {s}
    BY DestroyedTree DEF IInv, alive
  <2> QED
    BY <2>1, <2>2, <2>3 DEF SidesOK, alive
<1>7. ASSUME NEW s \in alive, NEW p \in alive, NEW sync, NewSubsurface(s, p, sync) PROVE SidesOK'
  <2>1. alive' = alive
    BY <1>7 DEF NewSubsurface, alive
  <2> QED
    BY <1>1, <1>7, <2>1 DEF NewSubsurface, Publish, protoVars
<1>8. ASSUME NEW s \in alive, SubsurfaceDestroyed(s) PROVE SidesOK'
  <2>1. alive' = alive
    BY <1>8 DEF SubsurfaceDestroyed, Unlinked, alive
  <2> QED
    BY <1>1, <1>8, <2>1 DEF SubsurfaceDestroyed, protoVars
<1>9. ASSUME NEW s \in alive, NEW a, CachedCommit(s, a) PROVE SidesOK'
  <2>1. alive' = alive
    BY <1>9 DEF CachedCommit, alive
  <2> QED
    BY <1>1, <1>9, <2>1 DEF CachedCommit, protoVars
<1>10. ASSUME NEW s \in alive, NEW a \in Assignments(s),
              CachedCommit(s, a) \/ UnconfiguredCommit(s, a) \/ Commit(s, a)
       PROVE  SidesOK'
  <2>1. CASE UnconfiguredCommit(s, a)
    BY <1>2, <2>1 DEF UnconfiguredCommit, Publish, protoVars
  <2> QED
    BY <1>9, <1>10, <2>1, CommitKeeps
<1>11. ASSUME NEW s \in alive, NEW child \in alive, NEW to \in Locations, CommitMove(s, child, to)
       PROVE  SidesOK'
  BY <1>11, CommitMoveKeeps
<1>12. ASSUME NEW s \in alive, NEW i, NEW j, CommitRestack(s, i, j)
       PROVE  SidesOK'
  BY <1>12, CommitRestackKeeps
<1>13. ASSUME NEW s \in alive, NEW origin \in Origins(s), CommitGeometry(s, origin)
       PROVE  SidesOK'
  BY <1>13, CommitGeometryKeeps
<1>14. ASSUME NEW s \in alive, AckConfigure(s) PROVE SidesOK'
  BY <1>2, <1>14 DEF AckConfigure
<1>15. ASSUME NEW k, Disconnect(k) PROVE SidesOK'
  BY <1>2, <1>15 DEF Disconnect, Publish, protoVars
<1>16. CASE Tick
  <2>1. /\ screen' = CompositeInto(screen, scene) /\ focusMap' = focusMap /\ alive' = alive
        /\ scene \in Scenes
    BY <1>16 DEF Tick, protoVars, alive, IInv, SceneOK
  <2> QED
    BY <2>1, FramesAreStacks DEF SidesOK
<1>17. CASE RepaintAll
  BY <1>2, <1>17 DEF RepaintAll, Publish, protoVars
<1>18. CASE UNCHANGED vars
  BY <1>2, <1>18 DEF vars, protoVars
<1> QED
  BY <1>3, <1>4, <1>5, <1>6, <1>7, <1>8, <1>10, <1>11, <1>12, <1>13, <1>14, <1>15, <1>16, <1>17,
     <1>18 DEF Next

LEMMA InitSides == Init => SidesOK
<1> SUFFICES ASSUME Init PROVE SidesOK
  OBVIOUS
<1>1. DOMAIN focusMap = {}
  BY DEF Init, Focus!EmptyTable
<1>2. screen \in [Output -> Stacks]
  BY ClearIs DEF Init
<1> QED
  BY <1>1, <1>2 DEF SidesOK

LEMMA InvariantTypes == IInv /\ SidesOK => TypeOK
<1> SUFFICES ASSUME IInv, SidesOK PROVE TypeOK
  OBVIOUS
<1>1. /\ TreeOK(wl) /\ IdsOK /\ gone \in SUBSET Client /\ ToplevelsOK(wl, pixels, toplevels)
      /\ TableOK(focusMap, MappedToplevels(toplevels))
      /\ keyboardFocus = Focus!Topmost(focusMap)
      /\ scene \in Scenes /\ ScreenOK
  BY DEF IInv, SceneOK
<1>2. /\ alive \subseteq Surface /\ wl \in [alive -> WlSurfaces]
      /\ \A s \in alive : wl[s].parent \in alive \cup {NoSurface}
  BY <1>1 DEF TreeOK, alive
<1>3. /\ DOMAIN pixels \subseteq alive /\ pixels \in [DOMAIN pixels -> Blocks]
      /\ DOMAIN toplevels \subseteq alive /\ toplevels \in [DOMAIN toplevels -> Toplevels]
  BY <1>1 DEF ToplevelsOK, alive
<1>4. focusMap \in [DOMAIN focusMap -> Entries]
  BY <1>1 DEF TableOK
<1>5. keyboardFocus \in alive \cup {NoSurface}
  <2> DEFINE S == MappedToplevels(toplevels)
  <2>1. S \subseteq alive /\ TableOK(focusMap, S)
    BY <1>1, <1>3 DEF MappedToplevels
  <2> HIDE DEF S
  <2> QED
    BY <1>1, <2>1, TopmostIs
<1>6. /\ Live(scene) \subseteq Surface /\ scene.nodes \in [Live(scene) -> Nodes]
      /\ scene.damage \subseteq Int /\ scene.full \in BOOLEAN
  BY <1>1, SceneIs DEF Scenes, Live
<1> QED
  BY <1>1, <1>2, <1>3, <1>4, <1>5, <1>6 DEF TypeOK, IdsOK, ScreenOK, SidesOK

(* Every variable of the dispatch thread, of the scene and of the render     *)
(* side keeps its type, whatever the clients ask for, down to the nodes of   *)
(* the scene and the layers of the frame; and surface_pixels, the toplevels, *)
(* the routing table and the keyboard focus name live surfaces only.         *)
THEOREM TypeCorrect == Spec => []TypeOK
<1>1. Init => SidesOK
  BY InitSides
<1>2. IInv /\ SidesOK /\ [Next]_vars => SidesOK'
  BY SidesKeep
<1>3. IInv /\ SidesOK => TypeOK
  BY InvariantTypes
<1> QED
  BY <1>1, <1>2, <1>3, Invariance, PTL DEF Spec

-----------------------------------------------------------------------------
(* When two scenes paint a cell the same way.                                *)

(* Trees that differ only in where silent nodes stand paint the same.        *)
LEMMA SamePaint ==
  ASSUME NEW sc \in Scenes, NEW after \in Scenes, NEW Q \in SUBSET Surface, SameTrees(sc, after, Q),
         NEW brush \in Brushes, NEW paint, NEW now, Paints(paint, sc, brush), Paints(now, after, brush),
         Silent(paint, Q), Silent(now, Q)
  PROVE  \A d \in 0..(MAX_SUBSURFACE_DEPTH + 1) : paint[d] = now[d]
<1> DEFINE n == MAX_SUBSURFACE_DEPTH + 1
           S == {d \in 0..n : paint[d] = now[d]}
<1>1. n \in Nat
  BY SurfaceAssumption
<1>2. \A d \in 0..n : paint[d] \in Brushes /\ now[d] \in Brushes
  BY DEF Paints
<1>3. ASSUME NEW d \in 0..n, \A x \in Surface : paint[d][x] = now[d][x] PROVE d \in S
  BY <1>2, <1>3 DEF Brushes
<1>4. 0 \in S
  <2>1. \A x \in Surface : paint[0][x] = now[0][x]
    BY DEF Paints
  <2>2. 0 \in 0..n
    BY <1>1
  <2> QED
    BY <1>3, <2>1, <2>2
<1>5. ASSUME NEW e \in 0..n, e \in S, e < n PROVE e + 1 \in S
  <2> DEFINE d == e + 1
  <2>1. d \in 1..n /\ d \in 0..n /\ d - 1 = e
    BY <1>1, <1>5
  <2>2. paint[e] = now[e]
    BY <1>5
  <2> HIDE DEF d
  <2>3. ASSUME NEW x \in Surface PROVE paint[d][x] = now[d][x]
    <3>1. CASE x \in Q
      BY <2>1, <3>1 DEF Silent, n
    <3>2. CASE x \notin Q /\ x \notin Live(sc)
      <4>1. x \notin Live(after)
        BY <3>2 DEF SameTrees
      <4> QED
        BY <2>1, <3>2, <4>1 DEF Paints, n
    <3>3. CASE x \in Live(sc) \ Q
      <4> DEFINE kids == sc.nodes[x].children
                 list == after.nodes[x].children
                 own == brush[x]
                 below == paint[e]
      <4>1. x \in Live(after) /\ Relisted(kids, list, x, Q)
        BY <3>3 DEF SameTrees
      <4>2. own \in Effects /\ below \in Brushes /\ \A y \in Q : below[y] = NoEffect
        BY <1>2 DEF Brushes, Silent, n
      <4>3. paint[d][x] = Composed(kids, x, own, below) /\ now[d][x] = Composed(list, x, own, below)
        BY <2>1, <2>2, <3>3, <4>1 DEF Paints, n
      <4> HIDE DEF kids, list, own, below
      <4>4. Composed(list, x, own, below) = Composed(kids, x, own, below)
        BY <4>1, <4>2 DEF Relisted
      <4> QED
        BY <4>3, <4>4
    <3> QED
      BY <3>1, <3>2, <3>3
  <2>4. d \in S
    BY <1>3, <2>1, <2>3
  <2> QED
    BY <2>4 DEF d
<1> HIDE DEF S
<1>6. \A d \in 0..n : d \in S
  BY <1>1, <1>4, <1>5, IntervalInduction
<1> QED
  BY <1>6 DEF S

(* ... and so the two scenes composite to the same in a cell where each      *)
(* surface paints the same.                                                  *)
LEMMA SameComposite ==
  ASSUME NEW sc \in Scenes, NEW after \in Scenes, NEW Q \in SUBSET Surface, SameTrees(sc, after, Q),
         NEW cell \in Int, Brush(after, cell) = Brush(sc, cell),
         \A paint : Paints(paint, sc, Brush(sc, cell)) => Silent(paint, Q),
         \A paint : Paints(paint, after, Brush(sc, cell)) => Silent(paint, Q)
  PROVE  Composite(SnapshotNodes(after), cell) = Composite(SnapshotNodes(sc), cell)
<1> DEFINE top == MAX_SUBSURFACE_DEPTH + 1
           brush == Brush(sc, cell)
<1>1. PICK n \in Nat : Above(n)
  <2>1. PICK b \in Nat : \A s \in Surface : s <= b
    BY SurfaceBound
  <2>2. Above(b + 1)
    BY <2>1, SurfaceAssumption DEF Above
  <2> QED
    BY <2>2
<1>2. PICK paint : /\ Paints(paint, sc, brush)
                   /\ Composite(SnapshotNodes(sc), cell)
                        = Chained(RootLayers(Roots(sc), paint[top], n))[Clear]
  BY <1>1, PaintingIs
<1>3. PICK now : /\ Paints(now, after, brush)
                 /\ Composite(SnapshotNodes(after), cell)
                      = Chained(RootLayers(Roots(after), now[top], n))[Clear]
  BY <1>1, PaintingIs
<1>4. brush \in Brushes
  BY BrushIs
<1>5. top \in 0..top
  BY SurfaceAssumption
<1> HIDE DEF brush
<1>6. Silent(paint, Q) /\ Silent(now, Q)
  BY <1>2, <1>3 DEF brush
<1>7. \A d \in 0..top : paint[d] = now[d]
  BY <1>2, <1>3, <1>4, <1>6, SamePaint
<1>8. paint[top] = now[top] /\ \A x \in Q : paint[top][x] = NoEffect
  BY <1>5, <1>6, <1>7 DEF Silent
<1>9. \A x : x \notin Q => (x \in Roots(sc) <=> x \in Roots(after))
  BY DEF SameTrees, Roots
<1>10. RootLayers(Roots(sc), paint[top], n) = RootLayers(Roots(after), paint[top], n)
  <2>1. \A x : (IF x \in Roots(sc) THEN paint[top][x] ELSE NoEffect)
                 = (IF x \in Roots(after) THEN paint[top][x] ELSE NoEffect)
    BY <1>8, <1>9
  <2> QED
    BY <2>1 DEF RootLayers
<1> QED
  BY <1>2, <1>3, <1>8, <1>10

(* A tree is silent where nothing below its root covers the cell.            *)
LEMMA SpreadsSilent ==
  ASSUME NEW sc \in Scenes, NEW brush \in Brushes, NEW reach, Spreads(reach, sc),
         NEW Q \in SUBSET Surface, Q \subseteq reach[0],
         \A e \in 0..MAX_SUBSURFACE_DEPTH : \A x \in reach[e] \cap Live(sc) : brush[x] = NoEffect
  PROVE  \A paint : Paints(paint, sc, brush) => Silent(paint, Q)
<1> SUFFICES ASSUME NEW paint, Paints(paint, sc, brush) PROVE Silent(paint, Q)
  OBVIOUS
<1> DEFINE m == MAX_SUBSURFACE_DEPTH
           n == m + 1
           Still(d, e) == \A x \in reach[e] \cap Surface : paint[d][x] = NoEffect
           S == {d \in 0..n : \A e \in 0..m : d + e <= n => Still(d, e)}
<1>1. m \in Nat /\ n \in Nat /\ 0 \in 0..n /\ 0 \in 0..m
  BY SurfaceAssumption
<1>2. /\ \A d \in 0..n : paint[d] \in Brushes
      /\ \A x \in Surface : paint[0][x] = NoEffect
      /\ \A d \in 1..n : \A x \in Surface :
           paint[d][x] = IF x \notin Live(sc) THEN NoEffect
                         ELSE Composed(sc.nodes[x].children, x, brush[x], paint[d - 1])
  BY DEF Paints
<1> HIDE DEF m, n
<1>3. 0 \in S
  BY <1>1, <1>2
<1>4. ASSUME NEW c \in 0..n, c \in S, c < n PROVE c + 1 \in S
  <2> DEFINE d == c + 1
  <2>1. d \in 1..n /\ d \in 0..n /\ d - 1 = c
    BY <1>1, <1>4
  <2>2. ASSUME NEW e \in 0..m, d + e <= n, NEW x \in reach[e] \cap Surface, x \in Live(sc)
        PROVE  paint[d][x] = NoEffect
    <3> DEFINE kids == sc.nodes[x].children
               own == brush[x]
               below == paint[c]
               fs == Layers(kids, x, own, below)
    <3>1. paint[d][x] = Composed(kids, x, own, below)
      BY <1>2, <2>1, <2>2
    <3>2. kids \in Seq(Surface) /\ below \in Brushes
      BY <1>2, <2>2, SceneIs DEF Nodes
    <3>3. own = NoEffect /\ own \in Effects
      BY <2>2, EffectsCompose DEF m
    <3>4. ASSUME NEW i \in 1..Len(kids), kids[i] # x PROVE below[kids[i]] = NoEffect
      <4> DEFINE y == kids[i]
      <4>1. y \in Surface /\ y \in ToSet(kids)
        BY <3>2 DEF ToSet
      <4>2. CASE c = 0
        BY <1>2, <4>1, <4>2
      <4>3. CASE c # 0 /\ y \notin Live(sc)
        <5>1. c \in 1..n
          BY <1>1, <4>3
        <5> QED
          BY <1>2, <4>1, <4>3, <5>1
      <4>4. CASE c # 0 /\ y \in Live(sc)
        <5>1. e + 1 \in 1..m /\ e + 1 \in 0..m /\ c + (e + 1) <= n /\ (e + 1) - 1 = e
          BY <1>1, <2>2, <4>4 DEF n
        <5>2. y \in reach[e + 1]
          <6> HIDE DEF y, kids
          <6>1. \A p \in reach[e] \cap Live(sc) :
                  ToSet(sc.nodes[p].children) \cap Live(sc) \subseteq reach[e + 1]
            BY <5>1 DEF Spreads, m
          <6>2. ToSet(kids) \cap Live(sc) \subseteq reach[e + 1]
            BY <2>2, <6>1 DEF kids
          <6> QED
            BY <4>1, <4>4, <6>2
        <5>3. Still(c, e + 1)
          BY <1>4, <5>1
        <5>4. paint[c][y] = NoEffect
          <6> HIDE DEF y
          <6> QED
            BY <4>1, <5>2, <5>3
        <5> QED
          BY <5>4
      <4> QED
        BY <4>2, <4>3, <4>4
    <3> HIDE DEF kids, own, below, fs
    <3>5. /\ fs \in Seq(Effects) /\ Len(fs) = Len(kids)
          /\ \A i \in 1..Len(kids) : fs[i] = IF kids[i] = x THEN own ELSE below[kids[i]]
      BY <3>2, <3>3, LayersAre DEF fs
    <3>6. Chained(fs) = NoEffect
      BY <3>3, <3>4, <3>5, ChainedNone
    <3> QED
      BY <3>1, <3>3, <3>6 DEF Composed, fs
  <2>3. ASSUME NEW e \in 0..m, d + e <= n, NEW x \in reach[e] \cap Surface, x \notin Live(sc)
        PROVE  paint[d][x] = NoEffect
    BY <1>2, <2>1, <2>3
  <2> HIDE DEF d
  <2>4. d \in S
    BY <2>1, <2>2, <2>3
  <2> QED
    BY <2>4 DEF d
<1> HIDE DEF S
<1>5. \A d \in 0..n : d \in S
  BY <1>1, <1>3, <1>4, IntervalInduction
<1>6. \A d \in 0..n : Still(d, 0)
  <2>1. \A d \in 0..n : d + 0 <= n
    BY <1>1
  <2> QED
    BY <1>1, <1>5, <2>1 DEF S
<1> QED
  BY <1>6 DEF Silent, n, m

(* A list of children paints as a list of strokes.                           *)
LEMMA ComposedIs ==
  ASSUME NEW kids \in Seq(Surface), NEW x, NEW own \in Effects, NEW below \in Brushes
  PROVE  /\ ListBrush(x, own, below) \in Brushes
         /\ kids # <<>> => Composed(kids, x, own, below) = Painted(kids, ListBrush(x, own, below))
<1> DEFINE brush == ListBrush(x, own, below)
<1>1. brush \in Brushes
  BY DEF ListBrush, Brushes
<1>2. \A i \in 1..Len(kids) : brush[kids[i]] = IF kids[i] = x THEN own ELSE below[kids[i]]
  BY DEF ListBrush
<1> HIDE DEF brush
<1>3. Layers(kids, x, own, below) = Strokes(kids, brush)
  BY <1>2 DEF Layers, Strokes
<1> QED
  BY <1>1, <1>3 DEF Composed, Painted, brush

LEMMA PaintedMore ==
  ASSUME NEW list \in Seq(Surface), NEW y \in Surface, NEW brush \in Brushes
  PROVE  Painted(Append(list, y), brush) = Then(Painted(list, brush), brush[y])
<1>1. Append(list, y) = list \o <<y>> /\ <<y>> \in Seq(Surface)
  OBVIOUS
<1>2. Painted(list \o <<y>>, brush) = Then(Painted(list, brush), Painted(<<y>>, brush))
  BY <1>1, PaintedJoin
<1>3. Painted(<<y>>, brush) = brush[y]
  BY PaintedSmall
<1> QED
  BY <1>1, <1>2, <1>3

(* Leaving out what paints nothing.                                          *)
LEMMA PaintedWithout ==
  ASSUME NEW list \in Seq(Surface), NEW L, NEW brush \in Brushes,
         \A y \in L \cap Surface : brush[y] = NoEffect
  PROVE  Painted(Without(list, L), brush) = Painted(list, brush)
<1> DEFINE n == Len(list)
           fs == Strokes(list, brush)
           V == Seq(Surface)
<1>1. n \in Nat /\ n \in 0..n /\ \A i \in 1..n : list[i] \in Surface /\ i - 1 \in 0..n /\ i \in 0..n
  OBVIOUS
<1>2. PICK g : KeepsBy(g, list, L) /\ Without(list, L) = g[n]
  BY WithoutBuilt
<1>3. /\ g[0] = <<>>
      /\ \A i \in 1..n : g[i] = IF list[i] \in L THEN g[i - 1] ELSE Append(g[i - 1], list[i])
  BY <1>2 DEF KeepsBy
<1>4. fs \in Seq(Effects) /\ Len(fs) = n /\ \A i \in 1..n : fs[i] = brush[list[i]]
  BY StrokesAre
<1> HIDE DEF n, fs
<1>5. \A i \in 0..n : g[i] \in V
  <2>1. g[0] \in V
    BY <1>3
  <2>2. ASSUME NEW i \in 1..n, g[i - 1] \in V PROVE g[i] \in V
    <3> DEFINE p == g[i - 1]
               y == list[i]
    <3>1. g[i] = p \/ g[i] = Append(p, y)
      BY <1>3
    <3>2. p \in Seq(Surface) /\ y \in Surface
      BY <1>1, <2>2
    <3> HIDE DEF p, y
    <3>3. Append(p, y) \in Seq(Surface)
      BY <3>2
    <3> QED
      BY <3>1, <3>2, <3>3
  <2> HIDE DEF V
  <2> QED
    BY <1>1, <2>1, <2>2, RecursionStays
<1> DEFINE u == [i \in 0..n |-> Painted(g[i], brush)]
<1>6. \A i \in 0..n : u[i] = Painted(g[i], brush) /\ u[i] \in Effects
  BY <1>5, StrokesAre
<1>7. u \in [0..n -> Effects]
  BY <1>6
<1> HIDE DEF u
<1>8. u[0] = NoEffect
  BY <1>1, <1>3, <1>6, PaintedSmall
<1>9. ASSUME NEW i \in 1..n PROVE u[i] = Then(u[i - 1], fs[i])
  <2> DEFINE p == g[i - 1]
             y == list[i]
  <2>1. p \in Seq(Surface) /\ y \in Surface /\ u[i] = Painted(g[i], brush)
    BY <1>1, <1>5, <1>6
  <2>2. u[i - 1] = Painted(p, brush) /\ u[i - 1] \in Effects /\ fs[i] = brush[y]
    BY <1>1, <1>4, <1>6
  <2>3. g[i] = IF y \in L THEN p ELSE Append(p, y)
    BY <1>3
  <2> HIDE DEF p, y
  <2>4. CASE y \in L
    BY <2>1, <2>2, <2>3, <2>4, EffectsCompose
  <2>5. CASE y \notin L
    BY <2>1, <2>2, <2>3, <2>5, PaintedMore
  <2> QED
    BY <2>4, <2>5
<1>10. PrefixEffects(u, fs)
  BY <1>4, <1>7, <1>8, <1>9 DEF PrefixEffects
<1> QED
  BY <1>1, <1>2, <1>4, <1>6, <1>10, ChainedUnique DEF Painted, fs

(* A list loses only silent entries.                                         *)
LEMMA RelistedWithout ==
  ASSUME NEW kids \in Seq(Surface), NEW x, NEW S, Around(kids, x, S), NEW L, x \notin L, NEW Q, L \subseteq Q
  PROVE  Relisted(kids, Without(kids, L), x, Q)
<1> DEFINE list == Without(kids, L)
<1> SUFFICES ASSUME NEW own \in Effects, NEW below \in Brushes, \A y \in Q : below[y] = NoEffect
             PROVE  Composed(list, x, own, below) = Composed(kids, x, own, below)
  BY DEF Relisted
<1> DEFINE brush == ListBrush(x, own, below)
<1>1. Remains(list, kids, L, Surface)
  BY WithoutIs
<1>2. list \in Seq(Surface)
  BY <1>1 DEF Remains
<1>3. brush \in Brushes /\ (kids # <<>> => Composed(kids, x, own, below) = Painted(kids, brush))
  BY ComposedIs
<1> HIDE DEF list
<1>4. list # <<>> => Composed(list, x, own, below) = Painted(list, brush)
  BY <1>2, ComposedIs
<1>5. \A y \in L \cap Surface : brush[y] = NoEffect
  BY DEF ListBrush
<1> HIDE DEF brush
<1>6. Painted(list, brush) = Painted(kids, brush)
  BY <1>3, <1>5, PaintedWithout DEF list
<1>7. CASE kids = <<>>
  <2>1. list = <<>>
    <3>1. \A i \in 1..Len(list) : \E j \in 1..Len(kids) : kids[j] = list[i]
      BY <1>1 DEF Remains
    <3>2. Len(kids) = 0
      BY <1>7
    <3>3. Len(list) = 0
      BY <1>2, <3>1, <3>2
    <3> QED
      BY <1>2, <3>3
  <2> QED
    BY <1>7, <2>1 DEF Composed
<1>8. CASE kids # <<>>
  <2>1. \E i \in 1..Len(list) : list[i] = x
    <3>1. PICK j \in 1..Len(kids) : kids[j] = x
      BY <1>8 DEF Around
    <3> QED
      BY <1>1, <3>1 DEF Remains
  <2>2. list # <<>>
    BY <2>1
  <2> QED
    BY <1>3, <1>4, <1>6, <1>8, <2>2
<1> QED
  BY <1>7, <1>8

(* A list gains a silent entry.                                              *)
LEMMA RelistedMore ==
  ASSUME NEW kids \in Seq(Surface), NEW x \in Surface, NEW child \in Surface \ {x}, NEW Q, child \in Q,
         NEW start, start = IF kids = <<>> THEN <<x>> ELSE kids, NEW now, now \in {start, Append(start, child)}
  PROVE  Relisted(kids, now, x, Q)
<1> SUFFICES ASSUME NEW own \in Effects, NEW below \in Brushes, \A y \in Q : below[y] = NoEffect
             PROVE  Composed(now, x, own, below) = Composed(kids, x, own, below)
  BY DEF Relisted
<1> DEFINE brush == ListBrush(x, own, below)
<1>1. brush \in Brushes /\ brush[x] = own /\ brush[child] = NoEffect
  BY ComposedIs DEF ListBrush
<1> HIDE DEF brush
<1>2. start \in Seq(Surface) /\ start # <<>>
  OBVIOUS
<1>3. Append(start, child) \in Seq(Surface) /\ Append(start, child) # <<>>
  BY <1>2
<1>4. /\ Composed(start, x, own, below) = Painted(start, brush)
      /\ Composed(Append(start, child), x, own, below) = Painted(Append(start, child), brush)
  <2>1. Composed(start, x, own, below) = Painted(start, brush)
    BY <1>2, ComposedIs DEF brush
  <2>2. Composed(Append(start, child), x, own, below) = Painted(Append(start, child), brush)
    <3> DEFINE more == Append(start, child)
    <3>1. more \in Seq(Surface) /\ more # <<>>
      BY <1>3
    <3> HIDE DEF more
    <3>2. Composed(more, x, own, below) = Painted(more, brush)
      BY <3>1, ComposedIs DEF brush
    <3> QED
      BY <3>2 DEF more
  <2> QED
    BY <2>1, <2>2
<1>5. Painted(start, brush) = Composed(kids, x, own, below)
  <2>1. CASE kids = <<>>
    <3>1. start = <<x>> /\ Composed(kids, x, own, below) = own
      BY <2>1 DEF Composed
    <3> QED
      BY <1>1, <3>1, PaintedSmall
  <2>2. CASE kids # <<>>
    BY <1>4, <2>2
  <2> QED
    BY <2>1, <2>2
<1>6. Painted(Append(start, child), brush) = Painted(start, brush)
  <2>1. Painted(Append(start, child), brush) = Then(Painted(start, brush), brush[child])
    BY <1>1, <1>2, PaintedMore
  <2>2. Painted(start, brush) \in Effects
    BY <1>1, <1>2, StrokesAre
  <2> QED
    BY <1>1, <2>1, <2>2, EffectsCompose
<1> QED
  BY <1>4, <1>5, <1>6

-----------------------------------------------------------------------------
(* Where the damage of a change reaches.                                     *)

(* A family that grows from each set to the next grows from the first to     *)
(* every other, and from every one to the last.                              *)
LEMMA GrowsThroughout ==
  ASSUME NEW m \in Nat, NEW g, \A d \in 1..m : g[d - 1] \subseteq g[d]
  PROVE  \A e \in 0..m : g[0] \subseteq g[e] /\ g[e] \subseteq g[m]
<1> DEFINE S == {k \in 0..m : \A e \in 0..m : e <= k => g[e] \subseteq g[k]}
<1>1. 0 \in S
  OBVIOUS
<1>2. ASSUME NEW k \in 0..m, k \in S, k < m PROVE k + 1 \in S
  <2> DEFINE d == k + 1
  <2>1. d \in 1..m /\ d \in 0..m /\ d - 1 = k
    BY <1>2
  <2>2. g[k] \subseteq g[d]
    BY <2>1
  <2> HIDE DEF d
  <2>3. ASSUME NEW e \in 0..m, e <= d PROVE g[e] \subseteq g[d]
    <3>1. CASE e = d
      BY <3>1
    <3>2. CASE e <= k
      BY <1>2, <2>2, <3>2
    <3> QED
      BY <2>1, <2>3, <3>1, <3>2
  <2>4. d \in S
    BY <2>1, <2>3
  <2> QED
    BY <2>4 DEF d
<1>3. \A k \in 0..m : k \in S
  <2> HIDE DEF S
  <2> QED
    BY <1>1, <1>2, IntervalInduction
<1>4. m \in 0..m /\ 0 \in 0..m /\ \A e \in 0..m : 0 <= e /\ e <= m
  OBVIOUS
<1>5. \A k \in 0..m : \A e \in 0..m : e <= k => g[e] \subseteq g[k]
  BY <1>3
<1> HIDE DEF S
<1> QED
  BY <1>4, <1>5

(* Subtree of state.rs: the node, and what children's lists reach below it.  *)
LEMMA SubtreeReaches ==
  ASSUME NEW sc \in Scenes, NEW id \in Surface
  PROVE  \E reach : /\ Reaches(reach, sc)
                    /\ reach[0] = {id} /\ reach[MAX_SUBSURFACE_DEPTH] = Subtree(sc, id)
<1> DEFINE n == MAX_SUBSURFACE_DEPTH
           V == SUBSET Surface
           kids(S) == UNION {ToSet(sc.nodes[p].children) : p \in S \cap Live(sc)}
           Step(above) == above \cup kids(above)
           step == [i \in 1..n |-> [above \in V |-> Step(above)]]
           Whole(f) == [d \in 0..n |-> IF d = 0 THEN {id}
                                       ELSE LET above == f[d - 1] IN above \cup kids(above)]
<1>1. n \in Nat
  BY SurfaceAssumption
<1>2. {id} \in V
  OBVIOUS
<1>3. ASSUME NEW above \in V PROVE Step(above) \in V
  <2>1. ASSUME NEW p \in above \cap Live(sc) PROVE ToSet(sc.nodes[p].children) \subseteq Surface
    <3>1. sc.nodes[p].children \in Seq(Surface)
      BY SceneIs DEF Nodes
    <3> QED
      BY <3>1 DEF ToSet
  <2> QED
    BY <2>1
<1>30. \A above : /\ above \subseteq Step(above)
                  /\ \A p \in above \cap Live(sc) : ToSet(sc.nodes[p].children) \subseteq Step(above)
  OBVIOUS
<1> HIDE DEF n, V
<1>4. Steps(n, V, step) /\ \A i \in 1..n : \A s \in V : step[i][s] = Step(s)
  BY <1>3 DEF Steps
<1> HIDE DEF step
<1>5. PICK f : Recursive(f, n, V, {id}, step)
  BY <1>1, <1>2, <1>4, RecursiveFunction
<1>6. f = Whole(f)
  <2>1. \A d \in 1..n : d - 1 \in 0..n
    BY <1>1
  <2>2. \A d \in 1..n : f[d] = Step(f[d - 1])
    BY <1>4, <1>5, <2>1, ZenonT(60) DEF Recursive
  <2>3. \A d \in 0..n : d = 0 \/ (d \in 1..n /\ d # 0)
    BY <1>1
  <2> QED
    BY <1>5, <2>2, <2>3 DEF Recursive
<1> DEFINE g == CHOOSE g : g = Whole(g)
<1>7. g = Whole(g)
  BY <1>6, ZenonT(60)
<1>8. Subtree(sc, id) = g[n]
  BY DEF Subtree, n
<1> HIDE DEF g, kids
<1>9. g[0] = {id} /\ \A d \in 1..n : g[d] = Step(g[d - 1])
  <2>1. \A d \in 1..n : d \in 0..n /\ d # 0
    BY <1>1
  <2>2. 0 \in 0..n
    BY <1>1
  <2> QED
    BY <1>7, <2>1, <2>2
<1> HIDE DEF Step
<1>10. \A d \in 1..n : g[d - 1] \subseteq g[d]
  BY <1>9, <1>30
<1>11. \A e \in 0..n : g[0] \subseteq g[e] /\ g[e] \subseteq g[n]
  BY <1>1, <1>10, GrowsThroughout
<1>12. \A d \in 1..n : \A p \in g[d - 1] \cap Live(sc) : ToSet(sc.nodes[p].children) \subseteq g[d]
  BY <1>9, <1>30
<1> QED
  BY <1>8, <1>9, <1>10, <1>11, <1>12 DEF Reaches, Spreads, n

LEMMA ClosedReaches ==
  ASSUME NEW sc, NEW S, \A p \in S \cap Live(sc) : ToSet(sc.nodes[p].children) \cap Live(sc) \subseteq S
  PROVE  /\ Reaches(Always(S), sc)
         /\ Always(S)[0] = S /\ Always(S)[MAX_SUBSURFACE_DEPTH] = S
<1>1. MAX_SUBSURFACE_DEPTH \in Nat
  BY SurfaceAssumption
<1>2. /\ \A e \in 0..MAX_SUBSURFACE_DEPTH : Always(S)[e] = S
      /\ \A e \in 1..MAX_SUBSURFACE_DEPTH : Always(S)[e] = S /\ Always(S)[e - 1] = S
  BY <1>1 DEF Always
<1>3. 0 \in 0..MAX_SUBSURFACE_DEPTH /\ MAX_SUBSURFACE_DEPTH \in 0..MAX_SUBSURFACE_DEPTH
  BY <1>1
<1> QED
  BY <1>2, <1>3 DEF Reaches, Spreads

-----------------------------------------------------------------------------
(* A node that loses its place is below one that hangs otherwise.            *)
LEMMA PlacedStays ==
  ASSUME NEW sc \in Scenes, NEW after \in Scenes, Listed(sc), NEW reach, Reaches(reach, sc),
         \A x \in Live(sc) \ reach[0] : Hung(sc, after, x)
  PROVE  \A x \in DOMAIN Placed(sc) :
           \/ x \in reach[MAX_SUBSURFACE_DEPTH]
           \/ x \in DOMAIN Placed(after) /\ Placed(after)[x] = Placed(sc)[x]
<1> DEFINE m == MAX_SUBSURFACE_DEPTH
<1>1. m \in Nat
  BY SurfaceAssumption
<1>2. PICK at : Places(at, sc) /\ Placed(sc) = at[m]
  BY PlacedBuilt
<1>3. PICK now : Places(now, after) /\ Placed(after) = now[m]
  BY PlacedBuilt
<1> DEFINE Stays(d, x) == x \in reach[d] \/ (x \in DOMAIN now[d] /\ now[d][x] = at[d][x])
           S == {d \in 0..m : \A x \in DOMAIN at[d] : Stays(d, x)}
<1>4. 0 \in S
  <2>1. DOMAIN at[0] = {}
    BY <1>2 DEF Places
  <2> QED
    BY <1>1, <2>1
<1>5. ASSUME NEW e \in 0..m, e \in S, e < m PROVE e + 1 \in S
  <2> DEFINE d == e + 1
  <2>1. d \in 1..m /\ d \in 0..m /\ d - 1 = e
    BY <1>1, <1>5
  <2> HIDE DEF d
  <2>2. /\ at[d] = [id \in PlacedBelow(sc, at[e]) |-> Origin(sc.nodes[id], at[e]) + sc.nodes[id].offset]
        /\ now[d] = [id \in PlacedBelow(after, now[e]) |->
                       Origin(after.nodes[id], now[e]) + after.nodes[id].offset]
    BY <1>2, <1>3, <2>1 DEF Places
  <2>3. DOMAIN at[e] \subseteq Live(sc)
    BY <1>2 DEF Places
  <2>4. \A x \in DOMAIN at[e] : Stays(e, x)
    BY <1>5
  <2>5. ASSUME NEW x \in DOMAIN at[d], x \notin reach[d] PROVE Stays(d, x)
    <3>1. x \in Live(sc) /\ IsVisible(sc.nodes[x]) /\ Hangs(sc.nodes[x], at[e])
      BY <2>2, <2>5 DEF PlacedBelow
    <3>2. x \notin reach[0]
      BY <2>1, <2>5 DEF Reaches
    <3>3. /\ x \in Live(after) /\ IsVisible(after.nodes[x])
          /\ after.nodes[x].parent = sc.nodes[x].parent /\ after.nodes[x].offset = sc.nodes[x].offset
      BY <3>1, <3>2 DEF Hung
    <3> DEFINE p == sc.nodes[x].parent
    <3>4. Hangs(after.nodes[x], now[e]) /\ Origin(after.nodes[x], now[e]) = Origin(sc.nodes[x], at[e])
      <4>1. CASE p = NoSurface
        BY <3>3, <4>1 DEF Hangs, Origin
      <4>2. CASE p # NoSurface
        <5>1. p \in DOMAIN at[e] /\ p \in Live(sc)
          BY <2>3, <3>1, <4>2 DEF Hangs
        <5>2. p \notin reach[e]
          <6>1. x \in ToSet(sc.nodes[p].children)
            BY <3>1, <5>1 DEF Listed
          <6>2. p \in reach[e] => x \in reach[d]
            BY <2>1, <3>1, <5>1, <6>1 DEF Reaches, Spreads
          <6> QED
            BY <2>5, <6>2
        <5>3. p \in DOMAIN now[e] /\ now[e][p] = at[e][p]
          BY <2>4, <5>1, <5>2
        <5> QED
          BY <3>3, <4>2, <5>3 DEF Hangs, Origin
      <4> QED
        BY <4>1, <4>2
    <3>5. x \in PlacedBelow(after, now[e]) /\ x \in PlacedBelow(sc, at[e])
      BY <3>1, <3>3, <3>4 DEF PlacedBelow
    <3> QED
      BY <2>2, <3>3, <3>4, <3>5
  <2>6. \A x \in DOMAIN at[d] : Stays(d, x)
    BY <2>5
  <2>7. d \in S
    BY <2>1, <2>6
  <2> QED
    BY <2>7 DEF d
<1> HIDE DEF S
<1>6. \A d \in 0..m : d \in S
  BY <1>1, <1>4, <1>5, IntervalInduction
<1>7. m \in S
  BY <1>1, <1>6
<1> QED
  BY <1>2, <1>3, <1>7 DEF S

-----------------------------------------------------------------------------
(* A change that damages what it touches leaves every other cell as it is.   *)

(* What covers a cell out of the reach of the change stays in the frame as   *)
(* it is.                                                                    *)
LEMMA SparedIsSeen ==
  ASSUME NEW sc, Neat(sc), NEW after \in Scenes, NEW Q, NEW reach, Spares(sc, after, Q, reach),
         NEW cell, \A x \in reach[MAX_SUBSURFACE_DEPTH] : ~Covers(sc, x, cell)
  PROVE  Seen(sc, after, cell)
<1> DEFINE m == MAX_SUBSURFACE_DEPTH
<1>1. sc \in Scenes /\ Listed(sc)
  BY DEF Neat
<1>2. Reaches(reach, sc)
  BY DEF Spares
<1>3. \A x \in Live(sc) \ reach[0] : Hung(sc, after, x)
  BY DEF Spares, Kept, Hung
<1>4. \A x \in DOMAIN Placed(sc) : \/ x \in reach[m]
                                   \/ x \in DOMAIN Placed(after) /\ Placed(after)[x] = Placed(sc)[x]
  BY <1>1, <1>2, <1>3, PlacedStays
<1>5. reach[0] \subseteq reach[m]
  BY <1>2, SurfaceAssumption DEF Reaches
<1>6. \A x \in DOMAIN Placed(sc) : x \in Live(sc) /\ IsVisible(sc.nodes[x])
  BY <1>1, PlacedIs
<1> SUFFICES ASSUME NEW x \in DOMAIN Placed(sc), Covers(sc, x, cell)
             PROVE  /\ x \in DOMAIN Placed(after) /\ Placed(after)[x] = Placed(sc)[x]
                    /\ after.nodes[x].size = sc.nodes[x].size
                    /\ after.nodes[x].source = sc.nodes[x].source
                    /\ after.nodes[x].opaque = sc.nodes[x].opaque
  BY DEF Seen
<1>7. x \notin reach[m]
  OBVIOUS
<1>8. Kept(sc, after, x)
  BY <1>5, <1>6, <1>7 DEF Spares
<1> QED
  BY <1>4, <1>6, <1>7, <1>8 DEF Kept

(* Two scenes that show the same surfaces in a cell paint it with the same   *)
(* brush.                                                                    *)
LEMMA SameBrush ==
  ASSUME NEW sc, Neat(sc), NEW after, Neat(after), NEW cell \in Int,
         Seen(sc, after, cell), Seen(after, sc, cell)
  PROVE  /\ Brush(after, cell) = Brush(sc, cell)
         /\ \A x : Covers(sc, x, cell) <=> Covers(after, x, cell)
<1>1. sc \in Scenes /\ Fitted(sc) /\ after \in Scenes /\ Fitted(after)
  BY DEF Neat
<1>2. \A x : Covers(sc, x, cell) => Covers(after, x, cell)
  BY DEF Seen, Covers
<1>3. \A x : Covers(after, x, cell) => Covers(sc, x, cell)
  BY DEF Seen, Covers
<1>4. ASSUME NEW x \in Surface PROVE Brush(after, cell)[x] = Brush(sc, cell)[x]
  <2>1. CASE ~Covers(sc, x, cell)
    BY <1>1, <1>3, <2>1, BrushIs
  <2>2. CASE Covers(sc, x, cell)
    <3>1. /\ x \in DOMAIN Placed(sc) /\ x \in DOMAIN Placed(after) /\ Placed(after)[x] = Placed(sc)[x]
          /\ after.nodes[x].source = sc.nodes[x].source /\ after.nodes[x].opaque = sc.nodes[x].opaque
      BY <2>2 DEF Seen, Covers
    <3>2. SnapshotNode(after.nodes[x], Placed(after)[x]) = SnapshotNode(sc.nodes[x], Placed(sc)[x])
      BY <3>1 DEF SnapshotNode
    <3> QED
      BY <3>1, <3>2 DEF Brush
  <2> QED
    BY <2>1, <2>2
<1>5. Brush(after, cell) \in Brushes /\ Brush(sc, cell) \in Brushes
  BY <1>1, BrushIs
<1> QED
  BY <1>2, <1>3, <1>4, <1>5 DEF Brushes

(* A cell out of reach of the change, before and after, is composited as     *)
(* before.                                                                   *)
LEMMA SparedAlike ==
  ASSUME NEW sc, Neat(sc), NEW after, Neat(after), NEW cell \in Int,
         NEW Q \in SUBSET Surface, SameTrees(sc, after, Q),
         NEW reach, Spares(sc, after, Q, reach), NEW now, Spares(after, sc, Q, now),
         \A x \in reach[MAX_SUBSURFACE_DEPTH] : ~Covers(sc, x, cell),
         \A x \in now[MAX_SUBSURFACE_DEPTH] : ~Covers(after, x, cell)
  PROVE  Alike(sc, after, cell)
<1> DEFINE m == MAX_SUBSURFACE_DEPTH
           brush == Brush(sc, cell)
<1>1. sc \in Scenes /\ Fitted(sc) /\ after \in Scenes /\ Fitted(after)
  BY DEF Neat
<1>2. Seen(sc, after, cell) /\ Seen(after, sc, cell)
  BY <1>1, SparedIsSeen
<1>3. Brush(after, cell) = brush /\ \A x : Covers(sc, x, cell) <=> Covers(after, x, cell)
  BY <1>2, SameBrush
<1>4. brush \in Brushes /\ \A x \in Surface : ~Covers(sc, x, cell) => brush[x] = NoEffect
  BY <1>1, BrushIs
<1>5. Live(sc) \subseteq Surface /\ Live(after) \subseteq Surface
  BY <1>1, SceneIs
<1> HIDE DEF brush
<1>6. \A paint : Paints(paint, sc, brush) => Silent(paint, Q)
  <2>1. Spreads(reach, sc) /\ Q \subseteq reach[0]
    BY DEF Spares, Reaches
  <2>2. \A e \in 0..m : \A x \in reach[e] \cap Live(sc) : brush[x] = NoEffect
    BY <1>4, <1>5 DEF Spares, Reaches
  <2> QED
    BY <1>1, <1>4, <2>1, <2>2, SpreadsSilent
<1>7. \A paint : Paints(paint, after, brush) => Silent(paint, Q)
  <2>1. Spreads(now, after) /\ Q \subseteq now[0]
    BY DEF Spares, Reaches
  <2>2. \A e \in 0..m : \A x \in now[e] \cap Live(after) : brush[x] = NoEffect
    BY <1>3, <1>4, <1>5 DEF Spares, Reaches
  <2> QED
    BY <1>1, <1>4, <2>1, <2>2, SpreadsSilent
<1>8. Composite(SnapshotNodes(after), cell) = Composite(SnapshotNodes(sc), cell)
  BY <1>1, <1>3, <1>6, <1>7, SameComposite DEF brush
<1> QED
  BY <1>3, <1>8 DEF Alike

(* A change that damages all it reaches, before and after, is conservative.  *)
LEMMA SparedConserves ==
  ASSUME NEW sc, Neat(sc), NEW after, Neat(after),
         NEW Q \in SUBSET Surface, SameTrees(sc, after, Q),
         NEW reach, Spares(sc, after, Q, reach), NEW now, Spares(after, sc, Q, now),
         sc.full => after.full, sc.damage \subseteq after.damage,
         CellsOf(sc, reach[MAX_SUBSURFACE_DEPTH]) \subseteq after.damage,
         CellsOf(after, now[MAX_SUBSURFACE_DEPTH]) \subseteq after.damage
  PROVE  Conservative(sc, after, {}, {})
<1> SUFFICES ASSUME NEW cell \in Output \ after.damage PROVE Alike(sc, after, cell)
  BY DEF Conservative
<1>1. cell \in Int
  BY SurfaceAssumption
<1>2. /\ \A x \in reach[MAX_SUBSURFACE_DEPTH] : ~Covers(sc, x, cell)
      /\ \A x \in now[MAX_SUBSURFACE_DEPTH] : ~Covers(after, x, cell)
  BY CellsOfAre
<1> QED
  BY <1>1, <1>2, SparedAlike

(* A conservative change leaves a fresh frame fresh but for what it gained.  *)
LEMMA ConservativeIsFresh ==
  ASSUME NEW sc, NEW after, NEW lost, NEW gained, Conservative(sc, after, lost, gained),
         NEW frame, NEW ids, Fresh(sc, frame, ids)
  PROVE  Fresh(after, frame, (ids \ lost) \cup gained)
<1> SUFFICES ASSUME ~after.full, NEW cell \in Output \ after.damage,
                    cell \notin CellsOf(after, (ids \ lost) \cup gained)
             PROVE  frame[cell] = Composite(SnapshotNodes(after), cell)
  BY DEF Fresh
<1>1. \A x \in (ids \ lost) \cup gained : ~Covers(after, x, cell)
  BY CellsOfAre
<1>2. cell \notin CellsOf(after, gained)
  BY <1>1, CellsOfAre
<1>3. Alike(sc, after, cell) /\ \A x \in lost : ~Covers(sc, x, cell)
  BY <1>2 DEF Conservative
<1>4. cell \notin CellsOf(sc, ids)
  <2>1. \A x \in ids : ~Covers(sc, x, cell)
    BY <1>1, <1>3 DEF Alike
  <2> QED
    BY <2>1, CellsOfAre
<1>5. ~sc.full /\ cell \notin sc.damage
  BY DEF Conservative
<1> QED
  BY <1>3, <1>4, <1>5 DEF Fresh, Alike

-----------------------------------------------------------------------------
(* Damage moves nothing: places, trees and pixels are the nodes' alone.      *)
LEMMA NodesDecide ==
  ASSUME NEW sc, NEW after, after.nodes = sc.nodes
  PROVE  /\ Live(after) = Live(sc)
         /\ Placed(after) = Placed(sc)
         /\ \A ids : CellsOf(after, ids) = CellsOf(sc, ids)
         /\ \A id : Subtree(after, id) = Subtree(sc, id)
         /\ SnapshotNodes(after) = SnapshotNodes(sc)
<1>1. Live(after) = Live(sc)
  BY DEF Live
<1>2. Placed(after) = Placed(sc)
  BY <1>1 DEF Placed
<1>3. ASSUME NEW id PROVE Subtree(after, id) = Subtree(sc, id)
  BY <1>1 DEF Subtree
<1>4. ASSUME NEW ids PROVE CellsOf(after, ids) = CellsOf(sc, ids)
  BY <1>2 DEF CellsOf
<1>5. ASSUME NEW root, NEW mapped PROVE FlattenSubtree(after, root, mapped) = FlattenSubtree(sc, root, mapped)
  BY <1>1 DEF FlattenSubtree
<1>6. CompositionOrder(after) = CompositionOrder(sc)
  BY <1>1, <1>2, <1>5 DEF CompositionOrder
<1>7. SnapshotNodes(after) = SnapshotNodes(sc)
  BY <1>2, <1>6 DEF SnapshotNodes
<1> QED
  BY <1>1, <1>2, <1>3, <1>4, <1>7

(* A change of damage alone.                                                 *)
LEMMA SameNodesConserve ==
  ASSUME NEW sc, Neat(sc), NEW after \in Scenes, after.nodes = sc.nodes,
         sc.full => after.full, sc.damage \subseteq after.damage
  PROVE  Neat(after) /\ Conservative(sc, after, {}, {})
<1>1. /\ Live(after) = Live(sc) /\ Placed(after) = Placed(sc)
      /\ SnapshotNodes(after) = SnapshotNodes(sc)
  BY NodesDecide
<1>2. Neat(after)
  BY <1>1 DEF Neat, Fitted, Listed
<1>3. \A cell : Alike(sc, after, cell)
  BY <1>1 DEF Alike, Covers
<1> QED
  BY <1>2, <1>3 DEF Conservative

(* The damage of a change adds up.                                           *)
LEMMA SubtreeDamageAdds ==
  ASSUME NEW sc \in Scenes, NEW mid \in Scenes, mid.damage = sc.damage, mid.full = sc.full, NEW id,
         NEW after, after = DamagingSubtree(sc, mid, id)
  PROVE  /\ after.full = sc.full /\ sc.damage \subseteq after.damage
         /\ CellsOf(sc, Subtree(sc, id)) \subseteq after.damage
         /\ CellsOf(after, Subtree(after, id)) \subseteq after.damage
<1>1. /\ after.nodes = mid.nodes /\ after.full = mid.full
      /\ after.damage = mid.damage \cup SubtreeCells(sc, id) \cup SubtreeCells(mid, id)
  BY DEF DamagingSubtree, AddDamage, Scenes
<1>2. CellsOf(after, Subtree(after, id)) = SubtreeCells(mid, id)
  BY <1>1, NodesDecide DEF SubtreeCells
<1> QED
  BY <1>1, <1>2 DEF SubtreeCells

(* The same for DamagingNode.                                                *)
LEMMA NodeDamageAdds ==
  ASSUME NEW sc \in Scenes, NEW mid \in Scenes, mid.damage = sc.damage, mid.full = sc.full, NEW id,
         NEW after, after = DamagingNode(sc, mid, id)
  PROVE  /\ after.full = sc.full /\ sc.damage \subseteq after.damage
         /\ CellsOf(sc, {id}) \subseteq after.damage
         /\ CellsOf(after, {id}) \subseteq after.damage
<1>1. /\ after.nodes = mid.nodes /\ after.full = mid.full
      /\ after.damage = mid.damage \cup NodeCells(sc, id) \cup NodeCells(mid, id)
  BY DEF DamagingNode, AddDamage, Scenes
<1>2. CellsOf(after, {id}) = NodeCells(mid, id)
  BY <1>1, NodesDecide DEF NodeCells
<1> QED
  BY <1>1, <1>2 DEF NodeCells

LEMMA RelistedSame == \A kids, x, Q : Relisted(kids, kids, x, Q)
BY DEF Relisted

(* A change of one node, with its subtree's damage before and after.         *)
LEMMA SubtreeConserves ==
  ASSUME NEW sc, Neat(sc), NEW after, Neat(after), NEW id \in Surface,
         NEW Q \in SUBSET {id}, SameTrees(sc, after, Q), SameBut(sc, after, id),
         sc.full => after.full, sc.damage \subseteq after.damage,
         CellsOf(sc, Subtree(sc, id)) \subseteq after.damage,
         CellsOf(after, Subtree(after, id)) \subseteq after.damage
  PROVE  Conservative(sc, after, {}, {})
<1>1. sc \in Scenes /\ after \in Scenes
  BY DEF Neat
<1>2. PICK reach : /\ Reaches(reach, sc) /\ reach[0] = {id}
                   /\ reach[MAX_SUBSURFACE_DEPTH] = Subtree(sc, id)
  BY <1>1, SubtreeReaches
<1>3. PICK now : /\ Reaches(now, after) /\ now[0] = {id}
                 /\ now[MAX_SUBSURFACE_DEPTH] = Subtree(after, id)
  BY <1>1, SubtreeReaches
<1>4. Spares(sc, after, Q, reach) /\ Spares(after, sc, Q, now)
  BY <1>2, <1>3 DEF Spares, SameBut
<1>5. Q \in SUBSET Surface
  OBVIOUS
<1> QED
  BY <1>2, <1>3, <1>4, <1>5, SparedConserves

(* One node replaced by another with the same links.                         *)
LEMMA SameLinksNeat ==
  ASSUME NEW sc, Neat(sc), NEW after \in Scenes, NEW id \in Live(sc), NEW node \in Nodes,
         after.nodes = Swapped(sc, id, node),
         node.parent = sc.nodes[id].parent, node.children = sc.nodes[id].children,
         node.source # NoPixels => node.size = Len(node.source)
  PROVE  /\ Neat(after) /\ SameTrees(sc, after, {}) /\ SameBut(sc, after, id)
         /\ after.nodes[id] = node
<1>1. sc \in Scenes /\ Live(sc) \in SUBSET Surface /\ sc.nodes \in [Live(sc) -> Nodes]
  BY SceneIs DEF Neat
<1>2. /\ Live(after) = Live(sc) /\ after.nodes[id] = node
      /\ \A x \in Live(sc) \ {id} : after.nodes[x] = sc.nodes[x]
  BY <1>1 DEF Live, Swapped
<1>3. \A x \in Live(sc) : /\ after.nodes[x].parent = sc.nodes[x].parent
                          /\ after.nodes[x].children = sc.nodes[x].children
  BY <1>2
<1>4. Listed(after)
  BY <1>2, <1>3 DEF Neat, Listed
<1>5. Fitted(after)
  BY <1>2 DEF Neat, Fitted
<1>6. SameTrees(sc, after, {})
  BY <1>2, <1>3, RelistedSame DEF SameTrees
<1>7. SameBut(sc, after, id)
  BY <1>2 DEF SameBut, Kept
<1> QED
  BY <1>2, <1>4, <1>5, <1>6, <1>7 DEF Neat

(* SetSubsurfacePosition damages the subtree it moves, before and after.     *)
LEMMA PositionConserves ==
  ASSUME NEW sc, Neat(sc), NEW id \in Surface, NEW offset \in Int, NEW after,
         after = SetSubsurfacePosition(sc, id, offset)
  PROVE  Neat(after) /\ Conservative(sc, after, {}, {})
<1>1. sc \in Scenes
  BY DEF Neat
<1>2. CASE id \notin Live(sc) \/ sc.nodes[id].offset = offset
  <2>1. after = sc
    BY <1>2 DEF SetSubsurfacePosition
  <2> QED
    BY <1>1, <2>1, SameNodesConserve
<1>3. CASE id \in Live(sc) /\ sc.nodes[id].offset # offset
  <2> DEFINE node == [sc.nodes[id] EXCEPT !.offset = offset]
             mid == [sc EXCEPT !.nodes[id].offset = offset]
  <2>1. after \in Scenes /\ after.nodes = Swapped(sc, id, node)
    BY <1>1, <1>3, SetSubsurfacePositionIs DEF Swapped
  <2>2. sc.nodes[id] \in Nodes
    BY <1>1, <1>3, SceneIs
  <2>3. /\ node \in Nodes /\ node.parent = sc.nodes[id].parent /\ node.children = sc.nodes[id].children
        /\ node.source = sc.nodes[id].source /\ node.size = sc.nodes[id].size
    BY <2>2 DEF Nodes
  <2>4. node.source # NoPixels => node.size = Len(node.source)
    BY <1>3, <2>3 DEF Neat, Fitted
  <2> HIDE DEF node
  <2>5. Neat(after) /\ SameTrees(sc, after, {}) /\ SameBut(sc, after, id)
    BY <1>3, <2>1, <2>3, <2>4, SameLinksNeat
  <2>6. mid \in Scenes
    <3>1. Swapped(sc, id, node) \in Forests
      BY <1>1, <1>3, <2>3, Planted DEF Swapped
    <3>2. mid = [sc EXCEPT !.nodes = Swapped(sc, id, node)]
      BY <1>1 DEF node, Scenes, Swapped
    <3> QED
      BY <1>1, <3>1, <3>2, Replanted
  <2>7. after = DamagingSubtree(sc, mid, id)
    BY <1>3 DEF SetSubsurfacePosition
  <2>8. mid.damage = sc.damage /\ mid.full = sc.full
    OBVIOUS
  <2> HIDE DEF mid
  <2>9. /\ after.full = sc.full /\ sc.damage \subseteq after.damage
        /\ CellsOf(sc, Subtree(sc, id)) \subseteq after.damage
        /\ CellsOf(after, Subtree(after, id)) \subseteq after.damage
    BY <1>1, <2>6, <2>7, <2>8, SubtreeDamageAdds
  <2>10. {} \in SUBSET {id}
    OBVIOUS
  <2> QED
    BY <2>5, <2>9, <2>10, SubtreeConserves
<1> QED
  BY <1>2, <1>3

LEMMA OneReplaced ==
  ASSUME NEW sc \in Scenes, NEW id \in Live(sc), NEW node \in Nodes, NEW mid,
         Replaces(mid, sc, id, node)
  PROVE  /\ mid \in Scenes /\ mid.damage = sc.damage /\ mid.full = sc.full
         /\ mid.nodes = Swapped(sc, id, node)
<1>1. Swapped(sc, id, node) \in Forests
  BY Planted DEF Swapped
<1> QED
  BY <1>1, Replanted DEF Scenes, Replaces

(* SetChildOrder damages the subtree it restacks.                            *)
LEMMA OrderConserves ==
  ASSUME NEW sc, Neat(sc), NEW par \in Surface, NEW order \in Seq(Surface),
         par \in Live(sc) =>
           \A x \in Live(sc) : sc.nodes[x].parent = par => x \in ToSet(order),
         NEW after, after = SetChildOrder(sc, par, order)
  PROVE  Neat(after) /\ Conservative(sc, after, {}, {})
<1>1. sc \in Scenes
  BY DEF Neat
<1>2. CASE par \notin Live(sc) \/ sc.nodes[par].children = order
  <2>1. after = sc
    BY <1>2 DEF SetChildOrder
  <2> QED
    BY <1>1, <2>1, SameNodesConserve
<1>3. CASE par \in Live(sc) /\ sc.nodes[par].children # order
  <2> DEFINE node == [sc.nodes[par] EXCEPT !.children = order]
             mid == [sc EXCEPT !.nodes[par].children = order]
  <2>1. after \in Scenes /\ after.nodes = Swapped(sc, par, node)
    BY <1>1, <1>3, SetChildOrderIs DEF Swapped
  <2>2. sc.nodes[par] \in Nodes /\ sc.nodes \in [Live(sc) -> Nodes]
    BY <1>1, <1>3, SceneIs
  <2>3. /\ node \in Nodes /\ node.children = order
        /\ node.parent = sc.nodes[par].parent /\ node.role = sc.nodes[par].role
        /\ node.source = sc.nodes[par].source /\ node.size = sc.nodes[par].size
    BY <2>2 DEF Nodes
  <2>4. Replaces(mid, sc, par, node)
    BY <1>1 DEF Scenes, Replaces, Swapped
  <2>5. after = DamagingSubtree(sc, mid, par)
    BY <1>3 DEF SetChildOrder
  <2> HIDE DEF node, mid
  <2>6. mid \in Scenes /\ mid.damage = sc.damage /\ mid.full = sc.full
    BY <1>1, <1>3, <2>3, <2>4, OneReplaced
  <2>7. /\ Live(after) = Live(sc) /\ after.nodes[par] = node
        /\ \A x \in Live(sc) \ {par} : after.nodes[x] = sc.nodes[x]
    BY <1>3, <2>1, <2>2 DEF Live, Swapped
  <2>8. Neat(after)
    <3>1. Fitted(after)
      BY <2>3, <2>7 DEF Neat, Fitted
    <3>2. \A x \in Live(sc) : after.nodes[x].parent = sc.nodes[x].parent
      BY <2>3, <2>7
    <3>3. Listed(after)
      BY <2>3, <2>7, <3>2 DEF Neat, Listed
    <3> QED
      BY <2>1, <3>1, <3>3 DEF Neat
  <2>9. SameTrees(sc, after, {par})
    BY <2>7, RelistedSame DEF SameTrees
  <2>10. SameBut(sc, after, par)
    BY <2>7 DEF SameBut, Kept
  <2>11. /\ after.full = sc.full /\ sc.damage \subseteq after.damage
         /\ CellsOf(sc, Subtree(sc, par)) \subseteq after.damage
         /\ CellsOf(after, Subtree(after, par)) \subseteq after.damage
    BY <1>1, <2>5, <2>6, SubtreeDamageAdds
  <2>12. {par} \in SUBSET {par}
    OBVIOUS
  <2> QED
    BY <2>8, <2>9, <2>10, <2>11, <2>12, SubtreeConserves
<1> QED
  BY <1>2, <1>3

(* ClearSource damages the subtree that disappears with the node.            *)
LEMMA ClearConserves ==
  ASSUME NEW sc, Neat(sc), NEW id \in Surface, NEW after, after = ClearSource(sc, id)
  PROVE  Neat(after) /\ Conservative(sc, after, {}, {})
<1>1. sc \in Scenes
  BY DEF Neat
<1>2. CASE id \notin Live(sc)
  <2>1. after = sc
    BY <1>2 DEF ClearSource
  <2> QED
    BY <1>1, <2>1, SameNodesConserve
<1>3. CASE id \in Live(sc)
  <2> DEFINE node == [sc.nodes[id] EXCEPT !.source = NoPixels, !.opaque = FALSE]
  <2>1. after \in Scenes /\ after.nodes = Swapped(sc, id, node)
    BY <1>1, <1>3, ClearSourceIs, Zenon DEF Swapped
  <2>2. sc.nodes[id] \in Nodes
    BY <1>1, <1>3, SceneIs
  <2>3. /\ node \in Nodes /\ node.parent = sc.nodes[id].parent
        /\ node.children = sc.nodes[id].children /\ node.source = NoPixels
        /\ node.source # NoPixels => node.size = Len(node.source)
    BY <2>2 DEF Nodes
  <2>4. /\ after.full = sc.full
        /\ after.damage = sc.damage \cup CellsOf(sc, Subtree(sc, id))
    BY <1>1, <1>3 DEF ClearSource, AddDamage, SubtreeCells, Scenes
  <2> HIDE DEF node
  <2>5. /\ Neat(after) /\ SameTrees(sc, after, {}) /\ SameBut(sc, after, id)
        /\ after.nodes[id] = node
    BY <1>3, <2>1, <2>3, SameLinksNeat
  <2>6. PICK reach : /\ Reaches(reach, sc) /\ reach[0] = {id}
                     /\ reach[MAX_SUBSURFACE_DEPTH] = Subtree(sc, id)
    BY <1>1, SubtreeReaches
  <2>7. Spares(sc, after, {}, reach)
    BY <2>5, <2>6 DEF Spares, SameBut
  <2> DEFINE none == Always({})
  <2>8. Reaches(none, after) /\ none[0] = {} /\ none[MAX_SUBSURFACE_DEPTH] = {}
    BY ClosedReaches
  <2> HIDE DEF none
  <2>9. ~IsVisible(after.nodes[id])
    BY <2>3, <2>5 DEF IsVisible
  <2>10. Spares(after, sc, {}, none)
    <3>1. \A x \in Live(after) : Kept(after, sc, x)
      BY <2>5, <2>9 DEF SameBut, Kept
    <3> QED
      BY <2>8, <3>1 DEF Spares
  <2>11. CellsOf(after, {}) = {}
    BY DEF CellsOf
  <2> QED
    BY <2>4, <2>5, <2>6, <2>7, <2>8, <2>10, <2>11, SparedConserves
<1> QED
  BY <1>2, <1>3

(* Nothing shows of a node without pixels, whatever changes of it.           *)
LEMMA HiddenConserves ==
  ASSUME NEW sc, Neat(sc), NEW after \in Scenes, NEW id \in Live(sc), NEW node \in Nodes,
         after.nodes = Swapped(sc, id, node),
         node.parent = sc.nodes[id].parent, node.children = sc.nodes[id].children,
         node.source = NoPixels, sc.nodes[id].source = NoPixels,
         sc.full => after.full, sc.damage \subseteq after.damage
  PROVE  Neat(after) /\ Conservative(sc, after, {}, {})
<1>1. /\ Neat(after) /\ SameTrees(sc, after, {}) /\ SameBut(sc, after, id)
      /\ after.nodes[id] = node
  BY SameLinksNeat
<1> DEFINE none == Always({})
<1>2. /\ Reaches(none, sc) /\ Reaches(none, after)
      /\ none[0] = {} /\ none[MAX_SUBSURFACE_DEPTH] = {}
  BY ClosedReaches
<1> HIDE DEF none
<1>3. ~IsVisible(after.nodes[id]) /\ ~IsVisible(sc.nodes[id])
  BY <1>1 DEF IsVisible
<1>4. \A x \in Live(sc) : Kept(after, sc, x) /\ Kept(sc, after, x)
  BY <1>1, <1>3 DEF SameBut, Kept
<1>5. Spares(after, sc, {}, none) /\ Spares(sc, after, {}, none)
  BY <1>1, <1>2, <1>4 DEF Spares, SameBut
<1>6. CellsOf(after, {}) = {} /\ CellsOf(sc, {}) = {}
  BY DEF CellsOf
<1> QED
  BY <1>1, <1>2, <1>5, <1>6, SparedConserves

(* set_geometry damages the node only: it is sent while the surface has no   *)
(* content, when nothing of its subtree is placed.                           *)
LEMMA GeometryConserves ==
  ASSUME NEW sc, Neat(sc), NEW id \in Surface, NEW offset \in Int, NEW size \in Nat,
         id \in Live(sc) => sc.nodes[id].source = NoPixels,
         NEW after, after = SetGeometry(sc, id, offset, size)
  PROVE  Neat(after) /\ Conservative(sc, after, {}, {})
<1>1. sc \in Scenes
  BY DEF Neat
<1>2. CASE id \notin Live(sc)
  <2>1. after = sc
    BY <1>2 DEF SetGeometry
  <2> QED
    BY <1>1, <2>1, SameNodesConserve
<1>3. CASE id \in Live(sc)
  <2> DEFINE node == Sized(sc.nodes[id], offset, size)
             mid == [sc EXCEPT !.nodes[id].offset = offset, !.nodes[id].size = size]
  <2>1. after \in Scenes /\ after.nodes = Swapped(sc, id, node)
    BY <1>1, <1>3, SetGeometryIs DEF Swapped
  <2>2. sc.nodes[id] \in Nodes
    BY <1>1, <1>3, SceneIs
  <2>3. /\ node \in Nodes /\ node.parent = sc.nodes[id].parent
        /\ node.children = sc.nodes[id].children /\ node.source = NoPixels
    BY <1>3, <2>2 DEF Nodes, Sized
  <2>4. Replaces(mid, sc, id, node)
    BY <1>1 DEF Scenes, Replaces, Swapped, Sized
  <2>5. after = DamagingNode(sc, mid, id)
    BY <1>3 DEF SetGeometry
  <2> HIDE DEF node, mid
  <2>6. mid \in Scenes /\ mid.damage = sc.damage /\ mid.full = sc.full
    BY <1>1, <1>3, <2>3, <2>4, OneReplaced
  <2>7. /\ after.full = sc.full /\ sc.damage \subseteq after.damage
        /\ CellsOf(sc, {id}) \subseteq after.damage
        /\ CellsOf(after, {id}) \subseteq after.damage
    BY <1>1, <2>5, <2>6, NodeDamageAdds
  <2>8. sc.nodes[id].source = NoPixels
    BY <1>3
  <2> QED
    BY <1>3, <2>1, <2>3, <2>7, <2>8, HiddenConserves
<1> QED
  BY <1>2, <1>3

(* set_role likewise.                                                        *)
LEMMA RoleConserves ==
  ASSUME NEW sc, Neat(sc), NEW id \in Surface, NEW newRole \in Roles,
         id \in Live(sc) => sc.nodes[id].source = NoPixels,
         NEW after, after = SetRole(sc, id, newRole)
  PROVE  Neat(after) /\ Conservative(sc, after, {}, {})
<1>1. sc \in Scenes
  BY DEF Neat
<1>2. CASE id \notin Live(sc)
  <2>1. after = sc
    BY <1>2 DEF SetRole
  <2> QED
    BY <1>1, <2>1, SameNodesConserve
<1>3. CASE id \in Live(sc)
  <2> DEFINE node == [sc.nodes[id] EXCEPT !.role = newRole]
             mid == [sc EXCEPT !.nodes[id].role = newRole]
  <2>1. after \in Scenes /\ after.nodes = Swapped(sc, id, node)
    BY <1>1, <1>3, SetRoleIs DEF Swapped
  <2>2. sc.nodes[id] \in Nodes
    BY <1>1, <1>3, SceneIs
  <2>3. /\ node \in Nodes /\ node.parent = sc.nodes[id].parent
        /\ node.children = sc.nodes[id].children /\ node.source = NoPixels
    BY <1>3, <2>2 DEF Nodes
  <2>4. Replaces(mid, sc, id, node)
    BY <1>1 DEF Scenes, Replaces, Swapped
  <2>5. after = DamagingNode(sc, mid, id)
    BY <1>3 DEF SetRole
  <2> HIDE DEF node, mid
  <2>6. mid \in Scenes /\ mid.damage = sc.damage /\ mid.full = sc.full
    BY <1>1, <1>3, <2>3, <2>4, OneReplaced
  <2>7. /\ after.full = sc.full /\ sc.damage \subseteq after.damage
        /\ CellsOf(sc, {id}) \subseteq after.damage
        /\ CellsOf(after, {id}) \subseteq after.damage
    BY <1>1, <2>5, <2>6, NodeDamageAdds
  <2>8. sc.nodes[id].source = NoPixels
    BY <1>3
  <2> QED
    BY <1>3, <2>1, <2>3, <2>7, <2>8, HiddenConserves
<1> QED
  BY <1>2, <1>3

(* A new surface shows nothing; no node of the scene hangs from it yet.      *)
LEMMA CreatedConserves ==
  ASSUME NEW sc, Neat(sc), NEW id \in Surface \ Live(sc), NEW client \in Client,
         \A x \in Live(sc) : sc.nodes[x].parent # id,
         NEW after, after = Created(sc, id, client)
  PROVE  Neat(after) /\ Conservative(sc, after, {}, {})
<1>1. sc \in Scenes
  BY DEF Neat
<1>2. /\ after \in Scenes /\ Live(after) = Live(sc) \cup {id}
      /\ after.nodes[id] = FreshNode(client)
      /\ \A x \in Live(sc) : after.nodes[x] = sc.nodes[x]
  BY <1>1, CreatedIs
<1>3. after.damage = sc.damage /\ after.full = sc.full
  BY <1>1 DEF Created, Scenes
<1>4. ~IsVisible(after.nodes[id])
  BY <1>2 DEF FreshNode, IsVisible
<1>5. /\ after.nodes[id].parent = NoSurface /\ after.nodes[id].source = NoPixels
      /\ ToSet(after.nodes[id].children) = {}
  BY <1>2, SmallSets DEF FreshNode
<1>6. Fitted(after)
  BY <1>2, <1>5 DEF Neat, Fitted
<1>7. Listed(after)
  <2>1. NoSurface \notin Live(after)
    BY <1>1, <1>2, SceneIs, SurfaceAssumption
  <2> QED
    BY <1>2, <1>5, <2>1 DEF Neat, Listed
<1>8. Neat(after)
  BY <1>2, <1>6, <1>7 DEF Neat
<1> DEFINE Q == {id}
           one == Always(Q)
<1>9. /\ Reaches(one, sc) /\ Reaches(one, after)
      /\ one[0] = Q /\ one[MAX_SUBSURFACE_DEPTH] = Q
  <2>1. \A p \in Q \cap Live(sc) : ToSet(sc.nodes[p].children) \cap Live(sc) \subseteq Q
    OBVIOUS
  <2>2. \A p \in Q \cap Live(after) : ToSet(after.nodes[p].children) \cap Live(after) \subseteq Q
    BY <1>5
  <2> HIDE DEF Q
  <2> QED
    BY <2>1, <2>2, ClosedReaches
<1>10. SameTrees(sc, after, Q)
  BY <1>2, RelistedSame DEF SameTrees
<1>11. Q \in SUBSET Surface
  OBVIOUS
<1>12. \A x \in Live(sc) : Kept(sc, after, x) /\ Kept(after, sc, x)
  BY <1>2 DEF Kept
<1>13. Live(after) \ Q \subseteq Live(sc)
  BY <1>2
<1>14. CellsOf(sc, Q) = {} /\ CellsOf(after, Q) = {}
  <2>1. id \notin DOMAIN Placed(sc) /\ id \notin DOMAIN Placed(after)
    BY <1>1, <1>2, <1>4, PlacedIs
  <2> QED
    BY <2>1 DEF CellsOf
<1> HIDE DEF Q, one
<1>15. Spares(sc, after, Q, one) /\ Spares(after, sc, Q, one)
  BY <1>9, <1>12, <1>13 DEF Spares
<1> QED
  BY <1>3, <1>8, <1>9, <1>10, <1>11, <1>14, <1>15, SparedConserves

(* Nodes leave the scene, with all that hung below them damaged.             *)
LEMMA LeavingConserves ==
  ASSUME NEW sc, Neat(sc), NEW after, Neat(after), NEW Q \in SUBSET Surface,
         Leaves(sc, after, Q), SameTrees(sc, after, Q),
         NEW reach, Reaches(reach, sc), reach[0] = Q,
         sc.full => after.full, sc.damage \subseteq after.damage,
         CellsOf(sc, reach[MAX_SUBSURFACE_DEPTH]) \subseteq after.damage
  PROVE  Conservative(sc, after, {}, {})
<1> DEFINE rest == Always(Q)
<1>1. Reaches(rest, after) /\ rest[0] = Q /\ rest[MAX_SUBSURFACE_DEPTH] = Q
  <2>1. \A p \in Q \cap Live(after) : ToSet(after.nodes[p].children) \cap Live(after) \subseteq Q
    BY DEF Leaves
  <2> QED
    BY <2>1, ClosedReaches
<1> HIDE DEF rest
<1>2. Spares(sc, after, Q, reach) /\ Spares(after, sc, Q, rest)
  BY <1>1 DEF Spares, Leaves
<1>3. CellsOf(after, Q) = {}
  <2>1. after \in Scenes
    BY DEF Neat
  <2>2. Q \cap DOMAIN Placed(after) = {}
    BY <2>1, PlacedIs DEF Leaves
  <2> QED
    BY <2>2 DEF CellsOf
<1> QED
  BY <1>1, <1>2, <1>3, SparedConserves

(* SurfaceDestroyed damages the subtree of the node it removes.              *)
LEMMA DestroyedConserves ==
  ASSUME NEW sc, Neat(sc), NEW id \in Surface, NEW after, after = Destroyed(sc, id)
  PROVE  Neat(after) /\ Conservative(sc, after, {}, {})
<1>1. sc \in Scenes
  BY DEF Neat
<1>2. /\ after \in Scenes /\ Live(after) = Live(sc) \ {id}
      /\ \A x \in Live(sc) \ {id} : after.nodes[x] = sc.nodes[x]
  BY <1>1, DestroyedIs
<1>3. after.full = sc.full /\ after.damage = sc.damage \cup CellsOf(sc, Subtree(sc, id))
  BY <1>1 DEF Destroyed, AddDamage, SubtreeCells, Scenes
<1>4. Neat(after)
  <2>1. Fitted(after)
    BY <1>2 DEF Neat, Fitted
  <2>2. Listed(after)
    BY <1>2 DEF Neat, Listed
  <2> QED
    BY <1>2, <2>1, <2>2 DEF Neat
<1>5. PICK reach : /\ Reaches(reach, sc) /\ reach[0] = {id}
                   /\ reach[MAX_SUBSURFACE_DEPTH] = Subtree(sc, id)
  BY <1>1, SubtreeReaches
<1> DEFINE Q == {id}
<1>6. Q \in SUBSET Surface /\ reach[0] = Q /\ Live(after) = Live(sc) \ Q
  BY <1>2, <1>5
<1>7. \A x \in Live(sc) \ Q : after.nodes[x] = sc.nodes[x]
  BY <1>2
<1> HIDE DEF Q
<1>8. Leaves(sc, after, Q)
  BY <1>6, <1>7 DEF Leaves, Kept
<1>9. SameTrees(sc, after, Q)
  BY <1>6, <1>7, RelistedSame DEF SameTrees
<1> QED
  BY <1>3, <1>4, <1>5, <1>6, <1>8, <1>9, LeavingConserves

(* ClientGone damages what the client's surfaces cover; no other client's    *)
(* surface hangs from them.                                                  *)
LEMMA ClientGoneConserves ==
  ASSUME NEW sc, Neat(sc), Kin(sc), SelfListed(sc), NEW client, NEW after, after = ClientGone(sc, client)
  PROVE  Neat(after) /\ Conservative(sc, after, {}, {})
<1> DEFINE lost == {id \in Live(sc) : sc.nodes[id].client = client}
<1>1. sc \in Scenes
  BY DEF Neat
<1>2. lost \in SUBSET Surface /\ lost \in SUBSET Live(sc)
  BY <1>1, SceneIs
<1>3. /\ after \in Scenes /\ Live(after) = Live(sc) \ lost
      /\ \A x \in Live(sc) \ lost :
           after.nodes[x] = [sc.nodes[x] EXCEPT !.children = Without(@, lost)]
  <2> DEFINE rest == ClientGone(sc, client)
  <2>1. /\ rest \in Scenes /\ Live(rest) = Live(sc) \ lost
        /\ \A x \in Live(sc) \ lost :
             rest.nodes[x] = [sc.nodes[x] EXCEPT !.children = Without(@, lost)]
    BY <1>1, ClientGoneIs, ZenonT(90)
  <2>2. rest = after
    OBVIOUS
  <2> HIDE DEF rest, lost
  <2> QED
    BY <2>1, <2>2
<1>4. after.full = sc.full /\ after.damage = sc.damage \cup CellsOf(sc, lost)
  BY <1>1 DEF ClientGone, AddDamage, Scenes
<1>5. \A p \in lost \cap Live(sc) : ToSet(sc.nodes[p].children) \cap Live(sc) \subseteq lost
  BY DEF Kin
<1> HIDE DEF lost
<1>6. ASSUME NEW x \in Live(sc) \ lost
      PROVE  LET node == sc.nodes[x]
                 now  == after.nodes[x]
             IN  /\ node.children \in Seq(Surface) /\ now.children = Without(node.children, lost)
                 /\ now.parent = node.parent /\ now.offset = node.offset /\ now.size = node.size
                 /\ now.source = node.source /\ now.opaque = node.opaque /\ now.role = node.role
  <2>1. sc.nodes[x] \in Nodes
    BY <1>1, SceneIs
  <2> QED
    BY <1>3, <2>1 DEF Nodes
<1>7. Neat(after)
  <2>1. Fitted(after)
    BY <1>3, <1>6 DEF Neat, Fitted
  <2>2. ASSUME NEW x \in Live(after), after.nodes[x].parent \in Live(after)
        PROVE  x \in ToSet(after.nodes[after.nodes[x].parent].children)
    <3> DEFINE p == sc.nodes[x].parent
               list == sc.nodes[p].children
    <3>1. after.nodes[x].parent = p /\ p \in Live(sc) \ lost /\ x \in Live(sc) \ lost
      BY <1>3, <1>6, <2>2
    <3>2. x \in ToSet(list)
      BY <3>1 DEF Neat, Listed
    <3>3. list \in Seq(Surface) /\ after.nodes[p].children = Without(list, lost)
      BY <1>6, <3>1
    <3> HIDE DEF list, p
    <3>4. Remains(Without(list, lost), list, lost, Surface)
      BY <3>3, WithoutIs
    <3>5. x \in ToSet(Without(list, lost))
      <4>1. PICK j \in 1..Len(list) : list[j] = x
        BY <3>2, <3>3 DEF ToSet
      <4>2. PICK i \in 1..Len(Without(list, lost)) : Without(list, lost)[i] = x
        BY <3>1, <3>4, <4>1 DEF Remains
      <4>3. Without(list, lost) \in Seq(Surface)
        BY <3>4 DEF Remains
      <4> QED
        BY <4>2, <4>3 DEF ToSet
    <3> QED
      BY <3>1, <3>3, <3>5
  <2>3. Listed(after)
    BY <2>2 DEF Listed
  <2> QED
    BY <1>3, <2>1, <2>3 DEF Neat
<1> DEFINE reach == Always(lost)
<1>8. Reaches(reach, sc) /\ reach[0] = lost /\ reach[MAX_SUBSURFACE_DEPTH] = lost
  BY <1>5, ClosedReaches
<1> HIDE DEF reach
<1>9. Leaves(sc, after, lost)
  BY <1>3, <1>6 DEF Leaves, Kept, IsVisible
<1>10. SameTrees(sc, after, lost)
  <2>1. ASSUME NEW x \in Live(sc) \ lost
        PROVE  Relisted(sc.nodes[x].children, after.nodes[x].children, x, lost)
    <3> DEFINE list == sc.nodes[x].children
    <3>1. list \in Seq(Surface) /\ after.nodes[x].children = Without(list, lost)
      BY <1>6
    <3>2. Around(list, x, Surface)
      BY DEF SelfListed
    <3> HIDE DEF list
    <3>3. Relisted(list, Without(list, lost), x, lost)
      BY <3>1, <3>2, RelistedWithout
    <3> QED
      BY <3>1, <3>3 DEF list
  <2>2. \A x \in Live(sc) \ lost : after.nodes[x].parent = sc.nodes[x].parent
    BY <1>6
  <2>3. Live(sc) \ lost = Live(after) \ lost
    BY <1>3
  <2> QED
    BY <2>1, <2>2, <2>3 DEF SameTrees
<1> QED
  BY <1>2, <1>4, <1>7, <1>8, <1>9, <1>10, LeavingConserves

(* attach_subsurface adds the child to the list, after the parent itself.    *)
LEMMA MoreKidsAre ==
  ASSUME NEW old \in Seq(Surface), NEW par \in Surface, NEW child \in Surface
  PROVE  /\ MoreKids(old, par, child) \in Seq(Surface)
         /\ child \in ToSet(MoreKids(old, par, child))
         /\ ToSet(old) \subseteq ToSet(MoreKids(old, par, child))
         /\ LET start == IF old = <<>> THEN <<par>> ELSE old
            IN  MoreKids(old, par, child) \in {start, Append(start, child)}
<1> DEFINE start == IF old = <<>> THEN <<par>> ELSE old
           kids == MoreKids(old, par, child)
<1>1. start \in Seq(Surface) /\ (old = <<>> \/ start = old)
  OBVIOUS
<1>2. ToSet(old) \subseteq ToSet(start)
  <2>1. CASE old = <<>>
    BY <2>1, SmallSets
  <2>2. CASE old # <<>>
    BY <2>2
  <2> QED
    BY <2>1, <2>2
<1>3. kids = IF Contains(start, child) THEN start ELSE Append(start, child)
  BY DEF MoreKids
<1> HIDE DEF start, kids
<1>4. CASE Contains(start, child)
  <2>1. kids = start /\ \E i \in 1..Len(start) : start[i] = child
    BY <1>3, <1>4 DEF Contains
  <2>2. child \in ToSet(start)
    BY <1>1, <2>1 DEF ToSet
  <2> QED
    BY <1>1, <1>2, <2>1, <2>2 DEF kids, start
<1>5. CASE ~Contains(start, child)
  <2>1. kids = Append(start, child)
    BY <1>3, <1>5
  <2>2. kids \in Seq(Surface) /\ Len(kids) = Len(start) + 1 /\ kids[Len(start) + 1] = child
    BY <1>1, <2>1
  <2>3. \A i \in 1..Len(start) : kids[i] = start[i]
    BY <1>1, <2>1
  <2>4. child \in ToSet(kids)
    BY <1>1, <2>2 DEF ToSet
  <2>5. ToSet(start) \subseteq ToSet(kids)
    BY <1>1, <2>2, <2>3 DEF ToSet
  <2> QED
    BY <1>2, <2>1, <2>2, <2>4, <2>5 DEF kids, start
<1> QED
  BY <1>4, <1>5

(* AttachSubsurface damages the subtree it hangs elsewhere.                  *)
LEMMA AttachSubsurfaceConserves ==
  ASSUME NEW sc, Neat(sc), NEW child \in Live(sc), NEW par \in Live(sc), child # par,
         Around(sc.nodes[par].children, par, Surface),
         NEW after, after = AttachSubsurface(sc, child, par)
  PROVE  Neat(after) /\ Conservative(sc, after, {}, {})
<1> DEFINE old == sc.nodes[par].children
           kids == MoreKids(old, par, child)
           mid == [sc EXCEPT !.nodes[child].parent = par, !.nodes[child].role = "subsurface",
                             !.nodes[par].children = kids]
<1>1. /\ sc \in Scenes /\ child \in Surface /\ par \in Surface
      /\ sc.nodes[child] \in Nodes /\ sc.nodes[par] \in Nodes
      /\ sc.nodes \in [Live(sc) -> Nodes]
  BY SceneIs DEF Neat
<1>2. old \in Seq(Surface)
  BY <1>1 DEF Nodes
<1>3. /\ kids \in Seq(Surface) /\ child \in ToSet(kids) /\ ToSet(old) \subseteq ToSet(kids)
      /\ LET start == IF old = <<>> THEN <<par>> ELSE old
         IN  kids \in {start, Append(start, child)}
  BY <1>1, <1>2, MoreKidsAre
<1>4. after = DamagingSubtree(sc, mid, child)
  BY DEF AttachSubsurface, MoreKids
<1> HIDE DEF kids
<1>5. /\ mid.damage = sc.damage /\ mid.full = sc.full
      /\ mid.nodes = [[sc.nodes EXCEPT ![child] = HungBelow(sc.nodes[child], par)]
                        EXCEPT ![par] = [sc.nodes[par] EXCEPT !.children = kids]]
  BY <1>1 DEF Scenes, HungBelow
<1>6. /\ DOMAIN mid.nodes = Live(sc)
      /\ mid.nodes[child] = HungBelow(sc.nodes[child], par)
      /\ mid.nodes[par] = [sc.nodes[par] EXCEPT !.children = kids]
      /\ \A x \in Live(sc) \ {child, par} : mid.nodes[x] = sc.nodes[x]
  BY <1>1, <1>5
<1>7. /\ HungBelow(sc.nodes[child], par) \in Nodes
      /\ [sc.nodes[par] EXCEPT !.children = kids] \in Nodes
      /\ LET hung == HungBelow(sc.nodes[child], par)
         IN  /\ hung.parent = par /\ hung.children = sc.nodes[child].children
             /\ hung.size = sc.nodes[child].size /\ hung.source = sc.nodes[child].source
  BY <1>1, <1>3 DEF Nodes, HungBelow, Roles
<1>8. mid \in Scenes
  <2>1. mid.nodes \in [Live(sc) -> Nodes]
    BY <1>1, <1>5, <1>7
  <2>2. mid.nodes \in Forests
    BY <1>1, <2>1, SceneIs, ForestsAre
  <2>3. mid = [sc EXCEPT !.nodes = mid.nodes]
    BY <1>1 DEF Scenes
  <2> HIDE DEF mid
  <2> QED
    BY <1>1, <2>2, <2>3, Replanted
<1> HIDE DEF mid
<1>9. after.nodes = mid.nodes /\ after \in Scenes
  BY <1>1, <1>4, <1>8, DamagedBy
<1>10. /\ Live(after) = Live(sc)
       /\ after.nodes[child].parent = par /\ after.nodes[child].children = sc.nodes[child].children
       /\ after.nodes[child].size = sc.nodes[child].size /\ after.nodes[child].source = sc.nodes[child].source
  BY <1>1, <1>6, <1>7, <1>9 DEF Live
<1>11. /\ after.nodes[par].children = kids
       /\ \A x \in Live(sc) \ {child, par} : after.nodes[x] = sc.nodes[x]
  BY <1>1, <1>6, <1>9 DEF Nodes
<1>12. ASSUME NEW x \in Live(sc) \ {child}
       PROVE  LET node == sc.nodes[x]
                  now  == after.nodes[x]
              IN  /\ now.parent = node.parent /\ now.offset = node.offset /\ now.size = node.size
                  /\ now.source = node.source /\ now.opaque = node.opaque /\ now.role = node.role
  BY <1>1, <1>6, <1>9 DEF Nodes
<1>13. Neat(after)
  <2>1. Fitted(after)
    BY <1>10, <1>12 DEF Neat, Fitted
  <2>2. ASSUME NEW x \in Live(sc), after.nodes[x].parent \in Live(sc)
        PROVE  x \in ToSet(after.nodes[after.nodes[x].parent].children)
    <3>1. CASE x = child
      BY <1>3, <1>10, <1>11, <3>1
    <3>2. CASE x # child
      <4> DEFINE q == sc.nodes[x].parent
      <4>1. after.nodes[x].parent = q /\ q \in Live(sc)
        BY <1>12, <2>2, <3>2
      <4>2. x \in ToSet(sc.nodes[q].children)
        BY <4>1 DEF Neat, Listed
      <4>3. ToSet(sc.nodes[q].children) \subseteq ToSet(after.nodes[q].children)
        BY <1>3, <1>10, <1>11, <4>1
      <4> QED
        BY <4>1, <4>2, <4>3
    <3> QED
      BY <3>1, <3>2
  <2>3. Listed(after)
    BY <1>10, <2>2 DEF Listed
  <2> QED
    BY <1>9, <2>1, <2>3 DEF Neat
<1>14. SameTrees(sc, after, {child})
  <2>1. ASSUME NEW x \in Live(sc) \ {child}
        PROVE  Relisted(sc.nodes[x].children, after.nodes[x].children, x, {child})
    <3>1. CASE x = par
      <4> DEFINE Q == {child}
                 start == IF old = <<>> THEN <<par>> ELSE old
      <4>1. /\ child \in Surface \ {par} /\ child \in Q
            /\ kids \in {start, Append(start, child)}
        BY <1>1, <1>3
      <4>2. start = IF old = <<>> THEN <<par>> ELSE old
        OBVIOUS
      <4> HIDE DEF Q, old, start
      <4>3. Relisted(old, kids, par, Q)
        BY <1>1, <1>2, <4>1, <4>2, RelistedMore
      <4> QED
        BY <1>11, <3>1, <4>3 DEF Q, old
    <3>2. CASE x # par
      BY <1>11, <3>2, RelistedSame
    <3> QED
      BY <3>1, <3>2
  <2> QED
    BY <1>10, <1>12, <2>1 DEF SameTrees
<1>15. SameBut(sc, after, child)
  BY <1>10, <1>12 DEF SameBut, Kept, IsVisible
<1>16. /\ after.full = sc.full /\ sc.damage \subseteq after.damage
       /\ CellsOf(sc, Subtree(sc, child)) \subseteq after.damage
       /\ CellsOf(after, Subtree(after, child)) \subseteq after.damage
  BY <1>1, <1>4, <1>5, <1>8, SubtreeDamageAdds
<1> QED
  BY <1>1, <1>13, <1>14, <1>15, <1>16, SubtreeConserves

(* What a node covers.                                                       *)
LEMMA NodeCellsAre ==
  ASSUME NEW sc \in Scenes, NEW id
  PROVE  /\ \A cell : cell \in NodeCells(sc, id) <=> Covers(sc, id, cell)
         /\ id \in DOMAIN Placed(sc) =>
              /\ Placed(sc)[id] \in Int /\ sc.nodes[id].size \in Nat /\ sc.nodes[id].size > 0
              /\ NodeCells(sc, id) = Placed(sc)[id]..(Placed(sc)[id] + sc.nodes[id].size - 1)
<1>1. \A cell : cell \in NodeCells(sc, id) <=> Covers(sc, id, cell)
  BY CellsOfAre DEF NodeCells
<1>2. ASSUME id \in DOMAIN Placed(sc)
      PROVE  /\ Placed(sc)[id] \in Int /\ sc.nodes[id].size \in Nat /\ sc.nodes[id].size > 0
             /\ NodeCells(sc, id) = Placed(sc)[id]..(Placed(sc)[id] + sc.nodes[id].size - 1)
  <2>1. id \in Live(sc) /\ Placed(sc)[id] \in Int /\ sc.nodes[id].size > 0
    BY <1>2, PlacedIs DEF IsVisible
  <2>2. sc.nodes[id].size \in Nat
    BY <2>1, SceneIs DEF Nodes
  <2> QED
    BY <1>1, <1>2, <2>1, <2>2 DEF Covers
<1> QED
  BY <1>1, <1>2

(* AttachContent damages the node's old and new extents, or, if they are the *)
(* same, the rectangles in it.                                               *)
LEMMA ContentDamages ==
  ASSUME NEW sc \in Scenes, NEW id \in Live(sc), NEW block \in Blocks, NEW opaque \in BOOLEAN,
         NEW rects, NEW after, after = AttachContent(sc, id, block, opaque, rects)
  PROVE  /\ after \in Scenes /\ after.nodes = Swapped(sc, id, Filled(sc.nodes[id], block, opaque))
         /\ after.full = sc.full /\ sc.damage \subseteq after.damage
         /\ LET old == NodeCells(sc, id)
                new == NodeCells(after, id)
            IN  \/ old \cup new \subseteq after.damage
                \/ /\ old = new /\ new # {}
                   /\ \A x \in rects : Min(new) + x \in new => Min(new) + x \in after.damage
<1> DEFINE mid == [sc EXCEPT !.nodes[id].size = Len(block), !.nodes[id].source = block,
                             !.nodes[id].opaque = opaque]
           old == NodeCells(sc, id)
           new == NodeCells(mid, id)
<1>1. after \in Scenes /\ after.nodes = Swapped(sc, id, Filled(sc.nodes[id], block, opaque))
  BY AttachContentIs DEF Swapped
<1>2. mid.nodes = Swapped(sc, id, Filled(sc.nodes[id], block, opaque))
  BY DEF Scenes, Swapped, Filled
<1>3. mid.damage = sc.damage /\ mid.full = sc.full
  OBVIOUS
<1>4. after = IF old # new \/ new = {} THEN AddDamage(mid, old \cup new)
              ELSE AddDamage(mid, {Min(new) + x : x \in rects} \cap new)
  BY DEF AttachContent
<1> HIDE DEF mid
<1>5. NodeCells(after, id) = new
  BY <1>1, <1>2, NodesDecide DEF NodeCells
<1>6. mid \in Scenes
  <2>1. Replaces(mid, sc, id, Filled(sc.nodes[id], block, opaque))
    BY DEF mid, Replaces, Swapped, Filled, Scenes
  <2>2. Filled(sc.nodes[id], block, opaque) \in Nodes
    <3>1. Len(block) \in Nat
      BY DEF Blocks
    <3> QED
      BY <3>1, SceneIs, ZenonT(60) DEF Nodes, Filled
  <2> QED
    BY <2>1, <2>2, OneReplaced
<1>7. \A cells : /\ AddDamage(mid, cells).damage = mid.damage \cup cells
                 /\ AddDamage(mid, cells).full = mid.full
  BY <1>6 DEF AddDamage, Scenes
<1> HIDE DEF old, new
<1>8. CASE old # new \/ new = {}
  <2>1. after = AddDamage(mid, old \cup new)
    BY <1>4, <1>8
  <2> QED
    BY <1>1, <1>3, <1>5, <1>7, <2>1 DEF old
<1>9. CASE old = new /\ new # {}
  <2>1. after = AddDamage(mid, {Min(new) + x : x \in rects} \cap new)
    BY <1>4, <1>9
  <2>2. \A x \in rects : Min(new) + x \in {Min(new) + y : y \in rects}
    OBVIOUS
  <2> QED
    BY <1>1, <1>3, <1>5, <1>7, <1>9, <2>1, <2>2 DEF old
<1> QED
  BY <1>8, <1>9

(* Two nodes lay the same in a cell if they show the same pixel there.       *)
LEMMA SameLaid ==
  ASSUME NEW node \in Drawn, NEW now \in Drawn, NEW cell \in Int,
         now.at = node.at, now.opaque = node.opaque, Len(now.source) = Len(node.source),
         \A i \in 1..Len(node.source) : cell = node.at + i - 1 => now.source[i] = node.source[i]
  PROVE  Laid(now, cell) = Laid(node, cell)
<1> DEFINE i == cell - node.at + 1
<1>1. node.source \in Seq(Colour) /\ now.source \in Seq(Colour) /\ node.at \in Int
  BY DEF Drawn, Blocks
<1>2. DOMAIN now.source = DOMAIN node.source /\ DOMAIN node.source = 1..Len(node.source)
  BY <1>1
<1>3. i \in DOMAIN node.source => now.source[i] = node.source[i]
  <2>1. cell = node.at + i - 1
    BY <1>1
  <2> QED
    BY <1>2, <2>1
<1>4. i = cell - now.at + 1
  OBVIOUS
<1> HIDE DEF i
<1>5. ASSUME NEW below PROVE SourceOver(below, now, cell) = SourceOver(below, node, cell)
  <2>1. CASE i \notin DOMAIN node.source
    BY <1>2, <1>4, <2>1 DEF SourceOver, i
  <2>2. CASE i \in DOMAIN node.source
    BY <1>2, <1>3, <1>4, <2>2 DEF SourceOver, i
  <2> QED
    BY <2>1, <2>2
<1> QED
  BY <1>5 DEF Laid

(* No place is lost by new content.                                          *)
LEMMA ContentPlaces ==
  ASSUME NEW sc, Neat(sc), NEW after, Neat(after), NEW id \in Live(sc), NEW block \in Blocks,
         NEW opaque \in BOOLEAN, after.nodes = Swapped(sc, id, Filled(sc.nodes[id], block, opaque)),
         SameBut(sc, after, id)
  PROVE  \A x \in DOMAIN Placed(sc) : x \in DOMAIN Placed(after) /\ Placed(after)[x] = Placed(sc)[x]
<1> DEFINE node == sc.nodes[id]
           now == after.nodes[id]
           none == Always({})
<1>1. sc \in Scenes /\ after \in Scenes /\ Listed(sc)
  BY DEF Neat
<1>2. Len(block) \in Nat /\ Len(block) > 0 /\ block # NoPixels
  BY SurfaceAssumption DEF Blocks
<1>3. now = Filled(node, block, opaque) /\ node \in Nodes
  BY <1>1, SceneIs DEF Swapped
<1>4. /\ now.parent = node.parent /\ now.offset = node.offset /\ now.role = node.role
      /\ now.size = Len(block) /\ now.source = block
  BY <1>3 DEF Nodes, Filled
<1> HIDE DEF node, now
<1>5. Hung(sc, after, id)
  BY <1>2, <1>4 DEF Hung, IsVisible, SameBut, node, now
<1>6. \A x \in Live(sc) : Hung(sc, after, x)
  BY <1>5 DEF SameBut, Kept, Hung
<1>7. Reaches(none, sc) /\ none[MAX_SUBSURFACE_DEPTH] = {}
  BY ClosedReaches
<1> HIDE DEF none
<1> QED
  BY <1>1, <1>6, <1>7, PlacedStays

(* Another surface looks in a cell as it did, if it was not revealed there.  *)
LEMMA ContentSpares ==
  ASSUME NEW sc, Neat(sc), NEW after, Neat(after), NEW id, NEW x \in Surface \ {id},
         SameBut(sc, after, id),
         \A y \in DOMAIN Placed(sc) : y \in DOMAIN Placed(after) /\ Placed(after)[y] = Placed(sc)[y],
         NEW cell \in Int, x \in DOMAIN Placed(after) \ DOMAIN Placed(sc) => ~Covers(after, x, cell)
  PROVE  /\ Covers(sc, x, cell) <=> Covers(after, x, cell)
         /\ Brush(after, cell)[x] = Brush(sc, cell)[x]
<1>1. sc \in Scenes /\ after \in Scenes /\ Fitted(sc) /\ Fitted(after)
  BY DEF Neat
<1>2. CASE x \in DOMAIN Placed(sc)
  <2>1. x \in Live(sc) /\ IsVisible(sc.nodes[x])
    BY <1>1, <1>2, PlacedIs
  <2>2. /\ x \in DOMAIN Placed(after) /\ Placed(after)[x] = Placed(sc)[x]
        /\ after.nodes[x].size = sc.nodes[x].size /\ after.nodes[x].source = sc.nodes[x].source
        /\ after.nodes[x].opaque = sc.nodes[x].opaque
    BY <1>2, <2>1 DEF SameBut, Kept
  <2>3. SnapshotNode(after.nodes[x], Placed(after)[x]) = SnapshotNode(sc.nodes[x], Placed(sc)[x])
    BY <2>2 DEF SnapshotNode
  <2> QED
    BY <1>2, <2>2, <2>3 DEF Covers, Brush
<1>3. CASE x \notin DOMAIN Placed(sc)
  <2>1. ~Covers(sc, x, cell) /\ ~Covers(after, x, cell)
    BY <1>3 DEF Covers
  <2> QED
    BY <1>1, <2>1, BrushIs
<1> QED
  BY <1>2, <1>3

(* The surface itself looks in an undamaged cell as it did.                  *)
LEMMA ContentShows ==
  ASSUME NEW sc, Neat(sc), NEW after, Neat(after), NEW id \in Live(sc), NEW block \in Blocks,
         NEW opaque \in BOOLEAN, NEW rects, NEW whole \in BOOLEAN, Patches(sc, id, block, rects, whole),
         after = AttachContent(sc, id, block, opaque, rects),
         NEW cell \in Int, cell \notin after.damage,
         id \in Gained(sc, after, id, whole) => ~Covers(after, id, cell)
  PROVE  /\ Covers(sc, id, cell) => Covers(after, id, cell) /\ ~whole
         /\ Brush(after, cell)[id] = Brush(sc, cell)[id]
<1> DEFINE node == sc.nodes[id]
           now == after.nodes[id]
           old == NodeCells(sc, id)
           new == NodeCells(after, id)
           at == Placed(sc)[id]
<1>1. sc \in Scenes /\ after \in Scenes /\ Fitted(sc) /\ Fitted(after) /\ id \in Surface
  BY SceneIs DEF Neat
<1>2. /\ after.nodes = Swapped(sc, id, Filled(node, block, opaque))
      /\ \/ old \cup new \subseteq after.damage
         \/ /\ old = new /\ new # {}
            /\ \A x \in rects : Min(new) + x \in new => Min(new) + x \in after.damage
  BY <1>1, ContentDamages
<1>3. /\ now.size = Len(block) /\ now.source = block /\ now.opaque = opaque
      /\ Len(block) \in Nat /\ Len(block) > 0 /\ block # NoPixels
  BY <1>1, <1>2, SceneIs, SurfaceAssumption DEF Swapped, Filled, Nodes, Blocks
<1>4. /\ cell \in old <=> Covers(sc, id, cell)
      /\ cell \in new <=> Covers(after, id, cell)
  BY <1>1, NodeCellsAre
<1>5. CASE cell \notin old /\ cell \notin new
  BY <1>1, <1>4, <1>5, BrushIs
<1>6. CASE old = new /\ cell \in new /\ \A x \in rects : Min(new) + x \in new => Min(new) + x \in after.damage
  <2> DEFINE there == Placed(after)[id]
  <2>1. id \in DOMAIN Placed(sc) /\ id \in DOMAIN Placed(after)
    BY <1>4, <1>6 DEF Covers
  <2>2. /\ at \in Int /\ node.size \in Nat /\ node.size > 0 /\ old = at..(at + node.size - 1)
        /\ there \in Int /\ now.size > 0 /\ new = there..(there + now.size - 1)
    BY <1>1, <2>1, NodeCellsAre
  <2>3. there = at /\ node.size = now.size /\ Min(new) = at
    <3> HIDE DEF at, there, old, new, node, now
    <3> DEFINE b == at + node.size - 1
               d == there + now.size - 1
    <3>1. now.size \in Nat
      BY <1>3
    <3>2. at <= b /\ there <= d /\ b \in Int /\ d \in Int /\ old = at..b /\ new = there..d
      BY <2>2, <3>1
    <3> HIDE DEF b, d
    <3>3. there = at /\ d = b /\ Min(new) = at
      BY <1>6, <2>2, <3>2, Intervals
    <3> QED
      BY <2>2, <3>1, <3>3 DEF b, d
  <2>4. IsVisible(node)
    BY <1>1, <2>1, PlacedIs
  <2>5. node.source # NoPixels /\ Len(node.source) = Len(block)
    BY <1>1, <1>3, <2>3, <2>4 DEF IsVisible, Fitted
  <2> DEFINE i == cell - at + 1
  <2>6. i \in 1..Len(block) /\ cell = Min(new) + (i - 1)
    BY <1>3, <1>6, <2>2, <2>3
  <2>7. i - 1 \notin rects
    BY <1>6, <2>6
  <2>8. ~whole /\ block[i] = node.source[i]
    BY <2>5, <2>6, <2>7 DEF Patches
  <2>9. node.opaque = now.opaque
    <3>1. id \notin Gained(sc, after, id, whole)
      BY <1>4, <1>6
    <3> QED
      BY <2>8, <3>1 DEF Gained
  <2> DEFINE drawn == SnapshotNode(node, at)
             redrawn == SnapshotNode(now, there)
  <2>10. drawn \in Drawn /\ redrawn \in Drawn
    BY <1>1, <2>1, DrawnIs
  <2>11. /\ drawn.at = at /\ drawn.source = node.source /\ drawn.opaque = node.opaque
         /\ redrawn.at = there /\ redrawn.source = now.source /\ redrawn.opaque = now.opaque
    BY DEF SnapshotNode
  <2>12. \A k \in 1..Len(drawn.source) : cell = drawn.at + k - 1 => redrawn.source[k] = drawn.source[k]
    <3> HIDE DEF node, now, at, there, drawn, redrawn, old, new
    <3> SUFFICES ASSUME NEW k \in 1..Len(drawn.source), cell = drawn.at + k - 1
                 PROVE  redrawn.source[k] = drawn.source[k]
      OBVIOUS
    <3>1. k = i
      BY <1>3, <2>2, <2>5, <2>11
    <3> QED
      BY <1>3, <2>8, <2>11, <3>1
  <2>13. /\ redrawn.at = drawn.at /\ redrawn.opaque = drawn.opaque
         /\ Len(redrawn.source) = Len(drawn.source)
    BY <1>3, <2>3, <2>5, <2>9, <2>11
  <2>14. Brush(after, cell)[id] = Laid(redrawn, cell) /\ Brush(sc, cell)[id] = Laid(drawn, cell)
    BY <1>1, <2>1 DEF Brush
  <2> HIDE DEF drawn, redrawn
  <2>15. Laid(redrawn, cell) = Laid(drawn, cell)
    BY <2>10, <2>12, <2>13, SameLaid
  <2> QED
    BY <1>4, <1>6, <2>8, <2>14, <2>15
<1> QED
  BY <1>2, <1>5, <1>6

(* AttachContent damages what it changes, but for what it reveals and for a  *)
(* change of opacity under partial damage.                                   *)
LEMMA ContentConserves ==
  ASSUME NEW sc, Neat(sc), NEW id \in Surface, NEW block \in Blocks, NEW opaque \in BOOLEAN,
         NEW rects, NEW whole \in BOOLEAN, id \in Live(sc) => Patches(sc, id, block, rects, whole),
         NEW after, after = AttachContent(sc, id, block, opaque, rects)
  PROVE  /\ Neat(after)
         /\ Conservative(sc, after, IF whole THEN {id} ELSE {}, Gained(sc, after, id, whole))
<1> DEFINE lost == IF whole THEN {id} ELSE {}
           gained == Gained(sc, after, id, whole)
<1>1. sc \in Scenes
  BY DEF Neat
<1>2. CASE id \notin Live(sc)
  <2>1. after = sc
    BY <1>2 DEF AttachContent
  <2>2. Conservative(sc, after, {}, {}) /\ Neat(after)
    BY <1>1, <2>1, SameNodesConserve
  <2>3. id \notin DOMAIN Placed(sc)
    BY <1>1, <1>2, PlacedIs
  <2>4. \A cell : ~Covers(sc, id, cell)
    BY <2>3 DEF Covers
  <2>5. \A cell : cell \notin CellsOf(after, {})
    BY CellsOfAre
  <2> QED
    BY <2>2, <2>4, <2>5 DEF Conservative
<1>3. CASE id \in Live(sc)
  <2> DEFINE node == Filled(sc.nodes[id], block, opaque)
  <2>1. /\ after \in Scenes /\ after.nodes = Swapped(sc, id, node)
        /\ after.full = sc.full /\ sc.damage \subseteq after.damage
    BY <1>1, <1>3, ContentDamages
  <2>2. /\ node \in Nodes /\ node.parent = sc.nodes[id].parent
        /\ node.children = sc.nodes[id].children
        /\ node.source # NoPixels => node.size = Len(node.source)
    <3>1. Len(block) \in Nat
      BY DEF Blocks
    <3>2. sc.nodes[id] \in Nodes
      BY <1>1, <1>3, SceneIs
    <3> QED
      BY <3>1, <3>2 DEF Nodes, Filled
  <2> HIDE DEF node
  <2>3. /\ Neat(after) /\ SameTrees(sc, after, {}) /\ SameBut(sc, after, id)
    BY <1>3, <2>1, <2>2, SameLinksNeat
  <2>4. \A x \in DOMAIN Placed(sc) : x \in DOMAIN Placed(after) /\ Placed(after)[x] = Placed(sc)[x]
    BY <1>3, <2>1, <2>3, ContentPlaces DEF node
  <2>5. ASSUME NEW cell \in Output \ after.damage, cell \notin CellsOf(after, gained)
        PROVE  Alike(sc, after, cell) /\ \A x \in lost : ~Covers(sc, x, cell)
    <3>1. cell \in Int /\ cell \notin after.damage
      BY <2>5, SurfaceAssumption
    <3>2. \A x \in gained : ~Covers(after, x, cell)
      BY <2>5, CellsOfAre
    <3>3. Patches(sc, id, block, rects, whole)
      BY <1>3
    <3> HIDE DEF gained
    <3>4. id \in gained => ~Covers(after, id, cell)
      BY <3>2
    <3>5. /\ Covers(sc, id, cell) => Covers(after, id, cell) /\ ~whole
          /\ Brush(after, cell)[id] = Brush(sc, cell)[id]
      BY <1>3, <2>3, <3>1, <3>3, <3>4, ContentShows DEF gained
    <3>6. ASSUME NEW x \in Surface \ {id}
          PROVE  /\ Covers(sc, x, cell) <=> Covers(after, x, cell)
                 /\ Brush(after, cell)[x] = Brush(sc, cell)[x]
      <4>1. x \in DOMAIN Placed(after) \ DOMAIN Placed(sc) => ~Covers(after, x, cell)
        BY <3>2 DEF gained, Gained
      <4> QED
        BY <2>3, <2>4, <3>1, <4>1, ContentSpares
    <3>7. after \in Scenes /\ Brush(after, cell) \in Brushes /\ Brush(sc, cell) \in Brushes
      BY <1>1, <2>1, <3>1, BrushIs
    <3>8. Brush(after, cell) = Brush(sc, cell)
      BY <3>5, <3>6, <3>7 DEF Brushes
    <3>9. \A x : Covers(sc, x, cell) => x \in Surface
      BY <1>1, PlacedIs, SceneIs DEF Covers
    <3>10. {} \in SUBSET Surface /\ \A paint : Silent(paint, {})
      BY DEF Silent
    <3>11. Composite(SnapshotNodes(after), cell) = Composite(SnapshotNodes(sc), cell)
      BY <1>1, <2>3, <3>1, <3>7, <3>8, <3>10, SameComposite
    <3> QED
      BY <3>5, <3>6, <3>9, <3>11 DEF Alike
  <2> HIDE DEF gained, lost
  <2> QED
    BY <2>1, <2>3, <2>5 DEF Conservative, gained, lost
<1> QED
  BY <1>2, <1>3

-----------------------------------------------------------------------------
(* The updates of a commit.                                                  *)

(* A built block shows, outside the cells it declares damaged, what the      *)
(* surface showed before; and it declares as many cells as it has only by    *)
(* declaring all of them.                                                    *)
LEMMA BuiltPatches ==
  ASSUME NEW prev \in Blocks \cup {NoPixels}, NEW block \in Blocks, NEW opaque, NEW damage,
         NEW built, built = BuildPixelBlock(prev, [block |-> block, opaque |-> opaque], damage)
  PROVE  /\ prev # NoPixels /\ Len(prev) = Len(built.block) =>
              \A i \in 1..Len(built.block) : i - 1 \in built.rects \/ built.block[i] = prev[i]
         /\ Cardinality(built.rects) >= Len(built.block) =>
              \A i \in 1..Len(built.block) : i - 1 \in built.rects
<1> DEFINE n == Len(block)
           cells == 0..(n - 1)
           clipped == damage \cap cells
           partial == /\ prev # NoPixels /\ Len(prev) = n
                      /\ clipped # {} /\ clipped # cells
           shown == [i \in DOMAIN block |->
                       IF partial /\ (i - 1) \notin clipped THEN prev[i] ELSE block[i]]
<1>1. n \in Nat /\ n # 0 /\ DOMAIN block = 1..n /\ \A i \in 1..n : block[i] \in Colour
  BY DEF Blocks
<1>2. built.block = shown /\ built.rects = IF partial THEN clipped ELSE cells
  BY DEF BuildPixelBlock
<1>3. built.block \in Blocks
  BY BuildPixelBlockIs
<1>4. \A i \in 1..n : i - 1 \in cells
  BY <1>1
<1>5. IsFiniteSet(cells) /\ Cardinality(cells) = n
  BY <1>1, FS_Interval
<1>6. clipped \subseteq cells
  OBVIOUS
<1>7. partial => clipped # cells
  OBVIOUS
<1> HIDE DEF partial, clipped, cells, n
<1>8. DOMAIN shown = 1..n /\ \A i \in 1..n : shown[i] = IF partial /\ (i - 1) \notin clipped
                                                       THEN prev[i] ELSE block[i]
  BY <1>1
<1> HIDE DEF shown
<1>9. Len(built.block) = n
  BY <1>1, <1>2, <1>3, <1>8 DEF Blocks
<1>10. CASE partial
  <2>1. IsFiniteSet(clipped) /\ Cardinality(clipped) <= n /\ Cardinality(clipped) \in Nat
    BY <1>5, <1>6, FS_Subset, FS_CardinalityType
  <2>2. Cardinality(clipped) # n
    BY <1>5, <1>6, <1>7, <1>10, FS_Subset
  <2>3. ~(Cardinality(built.rects) >= n)
    BY <1>1, <1>2, <1>10, <2>1, <2>2
  <2> QED
    BY <1>2, <1>8, <1>9, <1>10, <2>3
<1>11. CASE ~partial
  BY <1>2, <1>4, <1>9, <1>11
<1> QED
  BY <1>10, <1>11

(* Every content update of a commit is build_pixel_block of what the surface *)
(* showed and what its client assigned.                                      *)
LEMMA ContentsAreBuilt ==
  ASSUME NEW w, TreeOK(w), NEW s \in DOMAIN w, NEW assigned, AssignedOK(w, assigned),
         \A x \in DOMAIN toplevels : toplevels[x] \in Toplevels,
         \A x \in DOMAIN pixels : pixels[x] \in Blocks
  PROVE  ContentBuilt(CollectTree(w, s, assigned), assigned)
<1> DEFINE updates == CollectTree(w, s, assigned)
<1>1. Gathered(updates, w, assigned, {s})
  BY CollectTreeIs
<1> HIDE DEF updates
<1>2. ASSUME NEW u \in ToSet(updates), u.kind = "content"
      PROVE  LET a     == assigned[u.surface]
                 built == BuildPixelBlock(BlockOf(u.surface), a.buffer, a.damage)
             IN  /\ a \in [kind : {"attach"}, buffer : [block : Blocks, opaque : BOOLEAN],
                           damage : SUBSET Int]
                 /\ u.block = built.block /\ u.rects = built.rects
  <2> DEFINE x == u.surface
             a == assigned[x]
             built == BuildPixelBlock(BlockOf(x), a.buffer, a.damage)
             set == ToSet(CollectSurface(w, x, a))
  <2>1. x \in DOMAIN w /\ u \in set
    BY <1>1, <1>2 DEF Gathered
  <2>2. a \in Acts
    BY <2>1 DEF AssignedOK
  <2>3. OwnUpdates(set, x, a, toplevels)
    <3> DEFINE b == a
    <3>1. b \in Acts
      BY <2>2
    <3> HIDE DEF b
    <3>2. OwnUpdates(ToSet(CollectSurface(w, x, b)), x, b, toplevels)
      BY <2>1, <3>1, CollectSurfaceIs
    <3> QED
      BY <3>2 DEF b
  <2>4. u.block = built.block /\ u.rects = built.rects /\ a # Nothing /\ a.kind # "detach"
    BY <1>2, <2>1, <2>3 DEF OwnUpdates
  <2>5. a \in [kind : {"attach"}, buffer : [block : Blocks, opaque : BOOLEAN], damage : SUBSET Int]
    BY <2>2, <2>4 DEF Acts, Detach
  <2> QED
    BY <2>4, <2>5
<1> QED
  BY <1>2 DEF ContentBuilt, updates

(* So two updates with content of one surface show the same, the later ones  *)
(* leave it as it is, and each patches what the surface shows.               *)
LEMMA ContentOf ==
  ASSUME NEW updates, NEW assigned, ContentBuilt(updates, assigned),
         \A x \in DOMAIN pixels : pixels[x] \in Blocks,
         NEW u \in ToSet(updates), u.kind = "content"
  PROVE  /\ \A v \in ToSet(updates) : v.kind = "content" /\ v.surface = u.surface => v.block = u.block
         /\ LET shown == BlockOf(u.surface)
            IN  shown # NoPixels /\ Len(shown) = Len(u.block) =>
                  \A i \in 1..Len(u.block) : i - 1 \in u.rects \/ u.block[i] = shown[i]
         /\ RepaintsAll(u) => \A i \in 1..Len(u.block) : i - 1 \in u.rects
<1> DEFINE x == u.surface
           a == assigned[x]
           prev == BlockOf(x)
           built == BuildPixelBlock(prev, a.buffer, a.damage)
<1>1. /\ a \in [kind : {"attach"}, buffer : [block : Blocks, opaque : BOOLEAN], damage : SUBSET Int]
      /\ u.block = built.block /\ u.rects = built.rects
  BY DEF ContentBuilt
<1>2. \A v \in ToSet(updates) : v.kind = "content" /\ v.surface = x => v.block = built.block
  BY DEF ContentBuilt
<1>3. prev \in Blocks \cup {NoPixels}
  BY DEF BlockOf
<1>4. PICK block \in Blocks, opaque \in BOOLEAN : a.buffer = [block |-> block, opaque |-> opaque]
  BY <1>1
<1> DEFINE damage == a.damage
           b == built
<1>5. b = BuildPixelBlock(prev, [block |-> block, opaque |-> opaque], damage)
  BY <1>4
<1>6. u.block = b.block /\ u.rects = b.rects
      /\ \A v \in ToSet(updates) : v.kind = "content" /\ v.surface = x => v.block = b.block
  BY <1>1, <1>2
<1> HIDE DEF b, built, damage, prev, a
<1>7. /\ prev # NoPixels /\ Len(prev) = Len(b.block) =>
           \A i \in 1..Len(b.block) : i - 1 \in b.rects \/ b.block[i] = prev[i]
      /\ Cardinality(b.rects) >= Len(b.block) => \A i \in 1..Len(b.block) : i - 1 \in b.rects
  BY <1>3, <1>5, BuiltPatches
<1> QED
  BY <1>6, <1>7 DEF RepaintsAll, prev

(* A toplevel's place comes before everything else that its commit carries.  *)
LEMMA PlaceComesFirst ==
  ASSUME IInv, NEW s, NEW w, NEW assigned, CommitOf(s, w, assigned),
         NEW updates, updates = CollectTree(w, s, assigned),
         NEW i \in 1..Len(updates), updates[i].kind = "geometry"
  PROVE  /\ i = 1
         /\ updates[i].surface \in DOMAIN toplevels /\ ~toplevels[updates[i].surface].mapped
<1> DEFINE a == assigned[s]
           own == CollectSurface(w, s, a)
           y == updates[i].surface
<1>1. /\ TreeOK(w) /\ DOMAIN w = DOMAIN wl /\ s \in DOMAIN w
      /\ \A x \in DOMAIN w : w[x].client = wl[x].client /\ w[x].role = wl[x].role
      /\ AssignedOK(w, assigned)
      /\ \A x \in DOMAIN toplevels : assigned[x] # Nothing => x = s /\ toplevels[x].configure = "acked"
  BY DEF CommitOf
<1>2. /\ ToplevelsOK(wl, pixels, toplevels)
      /\ \A x \in DOMAIN toplevels : toplevels[x] \in Toplevels
      /\ \A x \in DOMAIN pixels : pixels[x] \in Blocks
  BY DEF IInv, ToplevelsOK
<1>3. PICK rest : Gathered(rest, w, assigned, {}) /\ updates = own \o rest
  <2>1. \E rest : /\ Gathered(rest, w, assigned, {})
                 /\ CollectTree(w, s, assigned) = CollectSurface(w, s, assigned[s]) \o rest
    <3>1. TreeOK(w) /\ s \in DOMAIN w /\ AssignedOK(w, assigned)
      BY <1>1
    <3> QED
      BY <1>2, <3>1, CollectTreeIs, ZenonT(60)
  <2> QED
    BY <2>1
<1>4. /\ own \in Seq(Updates) /\ OwnUpdates(ToSet(own), s, a, toplevels)
  <2> DEFINE b == a
  <2>1. b \in Acts
    BY <1>1 DEF AssignedOK
  <2> HIDE DEF b
  <2>2. /\ CollectSurface(w, s, b) \in Seq(Updates)
        /\ OwnUpdates(ToSet(CollectSurface(w, s, b)), s, b, toplevels)
    BY <1>1, <1>2, <2>1, CollectSurfaceIs
  <2> QED
    BY <2>2 DEF b
<1>5. CommitUpdates(updates, w, assigned)
  BY <1>1, <1>2, CommitUpdatesAre
<1>6. y \in Updated(updates, "geometry")
  <2>1. updates \in Seq(Updates)
    BY <1>5 DEF CommitUpdates
  <2>2. updates[i] \in ToSet(updates)
    BY <2>1 DEF ToSet
  <2> QED
    BY <2>2 DEF Updated
<1>7. y \in DOMAIN toplevels /\ ~toplevels[y].mapped /\ y = s
  BY <1>1, <1>5, <1>6 DEF CommitUpdates
<1>8. w[y].role = "toplevel"
  BY <1>1, <1>2, <1>7 DEF ToplevelsOK
<1>9. rest \in Seq(Updates)
  BY <1>3 DEF Gathered
<1>10. i \in 1..Len(own)
  <2> SUFFICES ASSUME i \notin 1..Len(own) PROVE FALSE
    OBVIOUS
  <2> HIDE DEF own
  <2>1. i - Len(own) \in 1..Len(rest) /\ updates[i] = rest[i - Len(own)]
    BY <1>3, <1>4, <1>9
  <2>2. updates[i] \in ToSet(rest)
    BY <1>9, <2>1 DEF ToSet
  <2> QED
    BY <1>3, <1>8, <2>2 DEF Gathered
<1>11. updates[i] = own[i]
  BY <1>3, <1>4, <1>9, <1>10
<1> DEFINE built == BuildPixelBlock(BlockOf(s), a.buffer, a.damage)
           mapping == s \in DOMAIN toplevels /\ ~toplevels[s].mapped
           geo == [kind |-> "geometry", surface |-> s, size |-> Len(built.block),
                   offset |-> toplevels[s].placement - w[s].origin]
           con == [kind |-> "content", surface |-> s, block |-> built.block,
                   opaque |-> a.buffer.opaque, rects |-> built.rects]
           un == [kind |-> "unmap", surface |-> s]
           place == IF mapping THEN <<geo>> ELSE <<>>
           content == IF a = Nothing THEN <<>> ELSE IF a.kind = "detach" THEN <<un>>
                      ELSE place \o <<con>>
<1>12. own = <<>> \o content
  BY <1>7, <1>8 DEF CollectSurface
<1>13. con.kind = "content" /\ un.kind = "unmap" /\ mapping
  BY <1>7
<1> HIDE DEF con, un, geo, own
<1>14. own = content
  BY <1>12
<1>15. Len(own) <= 1 \/ (Len(own) = 2 /\ own[2] = con)
  <2>1. CASE a = Nothing
    BY <1>14, <2>1
  <2>2. CASE a # Nothing /\ a.kind = "detach"
    BY <1>14, <2>2
  <2>3. CASE a # Nothing /\ a.kind # "detach"
    <3>1. content = <<geo>> \o <<con>>
      BY <1>13, <2>3
    <3>2. own = <<geo>> \o <<con>>
      BY <1>14, <3>1
    <3> HIDE DEF content, mapping
    <3> DEFINE p == <<geo>>
               q == <<con>>
               T == {geo, con}
    <3>3. /\ p \in Seq(T) /\ q \in Seq(T)
          /\ Len(p) = 1 /\ Len(q) = 1 /\ q[1] = con
      OBVIOUS
    <3>4. own = p \o q
      BY <3>2
    <3> HIDE DEF p, q, T
    <3>5. /\ Len(p \o q) = Len(p) + Len(q)
          /\ \A k \in (Len(p) + 1)..(Len(p) + Len(q)) : (p \o q)[k] = q[k - Len(p)]
      BY <3>3, JoinedItems
    <3>6. Len(own) = 2 /\ own[2] = q[2 - 1]
      BY <3>3, <3>4, <3>5
    <3> QED
      BY <3>3, <3>6
  <2> QED
    BY <2>1, <2>2, <2>3
<1>16. i = 1
  BY <1>10, <1>11, <1>13, <1>15
<1> QED
  BY <1>7, <1>16

-----------------------------------------------------------------------------
(* What is exposed while a commit is applied.                                *)

LEMMA ExposedAfterIs ==
  ASSUME exposed \in SUBSET Surface, NEW updates \in Seq(Updates), NEW run,
         \A i \in 0..Len(updates) : run[i] \in Scenes
  PROVE  \E upto : /\ upto[0] = exposed /\ upto[Len(updates)] = ExposedAfter(run, updates)
                   /\ \A i \in 1..Len(updates) :
                        upto[i] = NextExposed(upto[i - 1], run[i - 1], run[i], updates[i])
<1> DEFINE n == Len(updates)
           V == SUBSET Surface
           Next1(ids, i) == NextExposed(ids, run[i - 1], run[i], updates[i])
           step == [i \in 1..n |-> [ids \in V |-> Next1(ids, i)]]
           Whole(f) == [i \in 0..n |-> IF i = 0 THEN exposed ELSE Next1(f[i - 1], i)]
<1>1. n \in Nat /\ \A i \in 1..n : updates[i] \in Updates
  OBVIOUS
<1>2. ASSUME NEW i \in 1..n, NEW ids \in V PROVE Next1(ids, i) \in V
  <2>1. i - 1 \in 0..n /\ i \in 0..n
    BY <1>1
  <2>2. run[i - 1] \in Scenes /\ run[i] \in Scenes
    BY <2>1
  <2>3. DOMAIN Placed(run[i]) \subseteq Surface /\ Live(run[i - 1]) \subseteq Surface
    BY <2>2, SceneIs, PlacedIs
  <2> QED
    BY <2>3 DEF NextExposed, Revealed, Reblended
<1> HIDE DEF n
<1>3. Steps(n, V, step) /\ \A i \in 1..n : \A ids \in V : step[i][ids] = Next1(ids, i)
  BY <1>2 DEF Steps
<1>4. exposed \in V
  OBVIOUS
<1> HIDE DEF step, V
<1>5. PICK f : Recursive(f, n, V, exposed, step)
  BY <1>1, <1>3, <1>4, RecursiveFunction
<1>6. f = Whole(f)
  <2>1. \A i \in 1..n : i - 1 \in 0..n /\ i # 0
    BY <1>1
  <2>2. \A i \in 1..n : f[i] = Next1(f[i - 1], i)
    BY <1>3, <1>5, <2>1 DEF Recursive
  <2>3. \A i \in 0..n : i = 0 \/ i \in 1..n
    BY <1>1
  <2> HIDE DEF Next1
  <2> QED
    BY <1>5, <2>1, <2>2, <2>3 DEF Recursive
<1> DEFINE g == CHOOSE g : g = Whole(g)
<1>7. g = Whole(g)
  BY <1>6
<1>8. ExposedAfter(run, updates) = g[n]
  BY DEF ExposedAfter, NextExposed, n
<1> HIDE DEF g, Next1
<1>9. g[0] = exposed /\ \A i \in 1..n : g[i] = Next1(g[i - 1], i)
  <2>1. \A i \in 1..n : i \in 0..n /\ i # 0
    BY <1>1
  <2>2. 0 \in 0..n
    BY <1>1
  <2> QED
    BY <1>7, <2>1, <2>2
<1> QED
  BY <1>8, <1>9 DEF n, Next1

(* An update leaves a fresh frame fresh, but for what it exposes.            *)
LEMMA UpdateIsFresh ==
  ASSUME NEW sc, Neat(sc), NEW u \in Updates, Sound(sc, u),
         NEW after, after = ApplyUpdate(sc, u),
         NEW frame, NEW ids, Fresh(sc, frame, ids)
  PROVE  Neat(after) /\ Fresh(after, frame, NextExposed(ids, sc, after, u))
<1> DEFINE x == u.surface
<1>1. ASSUME Neat(after), Conservative(sc, after, {}, {}), u.kind # "content"
      PROVE  Neat(after) /\ Fresh(after, frame, NextExposed(ids, sc, after, u))
  <2>1. Fresh(after, frame, (ids \ {}) \cup {})
    BY <1>1, ConservativeIsFresh
  <2>2. (ids \ {}) \cup {} = ids /\ NextExposed(ids, sc, after, u) = ids
    BY <1>1 DEF NextExposed
  <2> QED
    BY <1>1, <2>1, <2>2
<1>2. CASE u \in [kind : {"position"}, surface : Surface, offset : Int]
  <2>1. u.kind = "position" /\ u.offset \in Int /\ x \in Surface
    BY <1>2
  <2>2. after = SetSubsurfacePosition(sc, x, u.offset)
    BY <2>1 DEF ApplyUpdate
  <2> DEFINE o == u.offset
  <2>3. o \in Int /\ after = SetSubsurfacePosition(sc, x, o)
    BY <2>1, <2>2
  <2> HIDE DEF o, x
  <2>4. Neat(after) /\ Conservative(sc, after, {}, {})
    BY <2>1, <2>3, PositionConserves
  <2> QED
    BY <1>1, <2>1, <2>4
<1>3. CASE u \in [kind : {"geometry"}, surface : Surface, size : Nat \ {0}, offset : Int]
  <2> DEFINE o == u.offset
             z == u.size
  <2>1. u.kind = "geometry" /\ o \in Int /\ z \in Nat /\ x \in Surface
    BY <1>3
  <2>2. after = SetGeometry(sc, x, o, z)
    BY <2>1 DEF ApplyUpdate
  <2>3. x \in Live(sc) => sc.nodes[x].source = NoPixels
    BY <2>1 DEF Sound
  <2> HIDE DEF o, z, x
  <2>4. Neat(after) /\ Conservative(sc, after, {}, {})
    BY <2>1, <2>2, <2>3, GeometryConserves
  <2> QED
    BY <1>1, <2>1, <2>4
<1>4. CASE u \in [kind : {"order"}, surface : Surface, order : Seq(Surface)]
  <2> DEFINE o == u.order
  <2>1. u.kind = "order" /\ o \in Seq(Surface) /\ x \in Surface
    BY <1>4
  <2>2. after = SetChildOrder(sc, x, o)
    BY <2>1 DEF ApplyUpdate
  <2>3. x \in Live(sc) => \A y \in Live(sc) : sc.nodes[y].parent = x => y \in ToSet(o)
    BY <2>1 DEF Sound
  <2> HIDE DEF o, x
  <2>4. Neat(after) /\ Conservative(sc, after, {}, {})
    BY <2>1, <2>2, <2>3, OrderConserves
  <2> QED
    BY <1>1, <2>1, <2>4
<1>5. CASE u \in [kind : {"unmap"}, surface : Surface]
  <2>1. u.kind = "unmap" /\ x \in Surface
    BY <1>5
  <2>2. after = ClearSource(sc, x)
    BY <2>1 DEF ApplyUpdate
  <2> HIDE DEF x
  <2>4. Neat(after) /\ Conservative(sc, after, {}, {})
    BY <2>1, <2>2, ClearConserves
  <2> QED
    BY <1>1, <2>1, <2>4
<1>6. CASE u \in [kind : {"content"}, surface : Surface, block : Blocks, opaque : BOOLEAN,
                  rects : SUBSET Int]
  <2> DEFINE b == u.block
             p == u.opaque
             r == u.rects
  <2>1. u.kind = "content" /\ b \in Blocks /\ p \in BOOLEAN /\ x \in Surface
    BY <1>6
  <2>2. after = AttachContent(sc, x, b, p, r)
    BY <2>1 DEF ApplyUpdate
  <2>3. ASSUME NEW whole \in BOOLEAN, whole <=> RepaintsAll(u)
        PROVE  Neat(after) /\ Fresh(after, frame, NextExposed(ids, sc, after, u))
    <3> DEFINE lost == IF whole THEN {x} ELSE {}
               gained == Gained(sc, after, x, whole)
    <3>1. x \in Live(sc) => Patches(sc, x, b, r, whole)
      BY <2>1, <2>3 DEF Sound, Patches
    <3>2. NextExposed(ids, sc, after, u) = (ids \ lost) \cup gained
      BY <2>1, <2>3 DEF NextExposed, Revealed, Reblended, Gained
    <3> HIDE DEF x, b, p, r
    <3>3. Neat(after) /\ Conservative(sc, after, lost, gained)
      BY <2>1, <2>2, <3>1, ContentConserves
    <3> HIDE DEF lost, gained
    <3>4. Fresh(after, frame, (ids \ lost) \cup gained)
      BY <3>3, ConservativeIsFresh
    <3> QED
      BY <3>2, <3>3, <3>4
  <2>4. CASE RepaintsAll(u)
    BY <2>3, <2>4
  <2>5. CASE ~RepaintsAll(u)
    BY <2>3, <2>5
  <2> QED
    BY <2>4, <2>5
<1> QED
  BY <1>2, <1>3, <1>4, <1>5, <1>6 DEF Updates

-----------------------------------------------------------------------------
(* What ties the scene to the tree.                                          *)

(* ordered_children has every child, and surfaces of one client only.        *)
LEMMA OrderedLinked ==
  ASSUME NEW w, TreeOK(w), LinkOK(w), NEW p \in DOMAIN w
  PROVE  /\ OrderedChildren(w, p) \in Seq(Surface)
         /\ \A x \in DOMAIN w : w[x].parent = p => x \in ToSet(OrderedChildren(w, p))
         /\ \A y \in ToSet(OrderedChildren(w, p)) : y \in DOMAIN w /\ w[y].client = w[p].client
<1> DEFINE kids == OrderedChildren(w, p)
<1>1. /\ kids \in Seq(Surface) /\ Around(kids, p, Children(w, p))
      /\ \A i \in 1..Len(kids) : kids[i] \in DOMAIN w
  BY OrderedChildrenAre
<1>2. p \in Surface /\ p # NoSurface /\ w[p].order \in Seq(Surface)
  BY TreeIs
<1>3. ASSUME NEW x \in DOMAIN w, w[x].parent = p PROVE x \in ToSet(kids)
  <2>1. x \in ToSet(w[p].order)
    BY <1>2, <1>3 DEF LinkOK
  <2>2. w[p].order # <<>>
    BY <2>1, SmallSets
  <2> QED
    BY <2>1, <2>2 DEF OrderedChildren
<1> HIDE DEF kids
<1>4. ASSUME NEW y \in ToSet(kids) PROVE y \in DOMAIN w /\ w[y].client = w[p].client
  <2>1. PICK i \in 1..Len(kids) : y = kids[i]
    BY <1>1 DEF ToSet
  <2>2. y \in DOMAIN w /\ (y = p \/ w[y].parent = p)
    BY <1>1, <2>1 DEF Around, Children
  <2> QED
    BY <1>2, <2>2 DEF LinkOK
<1> QED
  BY <1>1, <1>3, <1>4 DEF kids

(* Everything a commit may carry is sound where it is applied.               *)
LEMMA CommitIsSound ==
  ASSUME IInv, DInv, NEW s, NEW w, NEW assigned, CommitOf(s, w, assigned), LinkOK(w),
         \A x \in DOMAIN w : w[x].parent = wl[x].parent,
         NEW updates, updates = CollectTree(w, s, assigned),
         NEW run, LeadsThrough(run, scene, updates), NEW i \in 1..Len(updates)
  PROVE  Sound(run[i - 1], updates[i])
<1> DEFINE u == updates[i]
           x == u.surface
           sc == run[i - 1]
<1>1. /\ TreeOK(w) /\ DOMAIN w = DOMAIN wl /\ s \in DOMAIN w /\ AssignedOK(w, assigned)
      /\ \A y \in DOMAIN w : w[y].client = wl[y].client /\ w[y].role = wl[y].role
  BY DEF CommitOf
<1>2. /\ ToplevelsOK(wl, pixels, toplevels) /\ SceneOK(scene, wl, gone, nextSurface, pixels, toplevels)
      /\ \A y \in DOMAIN toplevels : toplevels[y] \in Toplevels
      /\ \A y \in DOMAIN pixels : pixels[y] \in Blocks
  BY DEF IInv, ToplevelsOK
<1>3. CommitUpdates(updates, w, assigned)
  BY <1>1, <1>2, CommitUpdatesAre
<1>4. ContentBuilt(updates, assigned)
  BY <1>1, <1>2, ContentsAreBuilt
<1>5. updates \in Seq(Updates) /\ Len(updates) \in Nat
      /\ \A j \in 1..Len(updates) : updates[j] \in ToSet(updates)
  BY <1>3 DEF CommitUpdates, ToSet
<1>6. i - 1 \in 0..Len(updates)
  BY <1>5
<1>7. /\ sc \in Scenes /\ Live(sc) = Live(scene)
      /\ \A y \in Live(scene) : NodeSince(sc.nodes[y], scene.nodes[y], updates, i - 1, y)
  BY <1>6 DEF LeadsThrough
<1>8. Live(scene) \subseteq DOMAIN w
  BY <1>1, <1>2 DEF SceneOK
<1> SUFFICES ASSUME x \in Live(sc)
             PROVE  /\ u.kind = "order" =>
                         \A y \in Live(sc) : sc.nodes[y].parent = x => y \in ToSet(u.order)
                    /\ u.kind = "geometry" => sc.nodes[x].source = NoPixels
                    /\ u.kind = "content" =>
                         /\ LET shown == sc.nodes[x].source
                            IN  shown # NoPixels /\ Len(shown) = Len(u.block) =>
                                  \A k \in 1..Len(u.block) : k - 1 \in u.rects \/ u.block[k] = shown[k]
                         /\ RepaintsAll(u) => \A k \in 1..Len(u.block) : k - 1 \in u.rects
  BY DEF Sound
<1>9. ASSUME u.kind = "order", NEW y \in Live(sc), sc.nodes[y].parent = x
      PROVE  y \in ToSet(u.order)
  <2>1. x \in DOMAIN w /\ y \in DOMAIN w /\ u.order = OrderedChildren(w, x)
    BY <1>3, <1>7, <1>8, <1>9 DEF CommitUpdates
  <2>2. scene.nodes[y].parent = x
    BY <1>7, <1>9 DEF NodeSince
  <2>3. wl[y].parent = x
    BY <1>7, <1>9, <2>2 DEF DInv, Follows
  <2>4. w[y].parent = x
    BY <2>1, <2>3
  <2> HIDE DEF x, u
  <2> QED
    BY <1>1, <2>1, <2>4, OrderedLinked
<1>10. ASSUME u.kind = "geometry" PROVE sc.nodes[x].source = NoPixels
  <2>1. i = 1 /\ x \in DOMAIN toplevels /\ ~toplevels[x].mapped
    BY <1>10, PlaceComesFirst
  <2>2. sc = scene
    BY <2>1 DEF LeadsThrough
  <2>3. x \notin DOMAIN pixels
    BY <1>2, <2>1 DEF ToplevelsOK
  <2> QED
    BY <1>2, <1>7, <2>2, <2>3 DEF SceneOK, NodeOK
<1>11. ASSUME u.kind = "content"
       PROVE  /\ LET shown == sc.nodes[x].source
                 IN  shown # NoPixels /\ Len(shown) = Len(u.block) =>
                       \A k \in 1..Len(u.block) : k - 1 \in u.rects \/ u.block[k] = shown[k]
              /\ RepaintsAll(u) => \A k \in 1..Len(u.block) : k - 1 \in u.rects
  <2> DEFINE shown == sc.nodes[x].source
             before == scene.nodes[x].source
             prev == BlockOf(x)
  <2>1. u \in ToSet(updates)
    BY <1>5
  <2>2. /\ \A v \in ToSet(updates) : v.kind = "content" /\ v.surface = x => v.block = u.block
        /\ prev # NoPixels /\ Len(prev) = Len(u.block) =>
             \A k \in 1..Len(u.block) : k - 1 \in u.rects \/ u.block[k] = prev[k]
        /\ RepaintsAll(u) => \A k \in 1..Len(u.block) : k - 1 \in u.rects
    <3> HIDE DEF u
    <3> QED
      BY <1>2, <1>4, <1>11, <2>1, ContentOf
  <2>3. NodeSince(sc.nodes[x], scene.nodes[x], updates, i - 1, x)
    BY <1>7
  <2>4. \A j \in 1..(i - 1) : j \in 1..Len(updates)
    BY <1>5
  <2>5. CASE Among(updates, i - 1, "content", x)
    <3>1. PICK j \in 1..(i - 1) : /\ updates[j].kind = "content" /\ updates[j].surface = x
                                  /\ shown = updates[j].block
      BY <2>3, <2>5, Zenon DEF NodeSince
    <3>2. updates[j] \in ToSet(updates)
      BY <1>5, <2>4
    <3>3. shown = u.block
      BY <2>2, <3>1, <3>2
    <3> HIDE DEF shown, u, x
    <3>4. \A k \in 1..Len(u.block) : u.block[k] = shown[k]
      BY <3>3
    <3>5. RepaintsAll(u) => \A k \in 1..Len(u.block) : k - 1 \in u.rects
      BY <2>2
    <3> QED
      BY <3>4, <3>5, Zenon DEF shown
  <2>6. CASE ~Among(updates, i - 1, "content", x)
    <3>1. Among(updates, Len(updates), "content", x)
      BY <1>5, <1>11 DEF Among
    <3>2. x \in Updated(updates, "content")
      BY <1>5, <3>1, UpdatedAmong
    <3>3. x \notin Updated(updates, "unmap")
      BY <1>3, <3>2 DEF CommitUpdates
    <3>4. ~Among(updates, Len(updates), "unmap", x)
      BY <1>5, <3>3, UpdatedAmong
    <3>5. ~Among(updates, i - 1, "unmap", x)
      BY <2>4, <3>4, Zenon DEF Among
    <3>6. shown = before
      BY <2>3, <2>6, <3>5, Zenon DEF NodeSince
    <3>7. x \in Live(scene)
      BY <1>7
    <3>8. before # NoPixels => before = prev
      <4>1. before # NoPixels => x \in DOMAIN pixels
        BY <1>2, <3>7 DEF SceneOK, NodeOK
      <4>2. x \in DOMAIN pixels => before = pixels[x]
        BY <3>7 DEF DInv, Follows
      <4> QED
        BY <4>1, <4>2 DEF BlockOf
    <3> HIDE DEF shown, before, prev, u, x
    <3>9. shown # NoPixels => prev = shown
      BY <3>6, <3>8
    <3> QED
      BY <2>2, <3>9 DEF shown, x
  <2> QED
    BY <2>5, <2>6
<1> QED
  BY <1>9, <1>10, <1>11

(* Each scene on the way is neat, and the frame is fresh in it but for what  *)
(* the updates so far exposed.                                               *)
LEMMA CommitStaysFresh ==
  ASSUME IInv, DInv, NEW s, NEW w, NEW assigned, CommitOf(s, w, assigned), LinkOK(w),
         \A x \in DOMAIN w : w[x].parent = wl[x].parent,
         NEW updates, updates = CollectTree(w, s, assigned),
         NEW run, LeadsThrough(run, scene, updates)
  PROVE  Neat(run[Len(updates)]) /\ Fresh(run[Len(updates)], screen, ExposedAfter(run, updates))
<1> DEFINE n == Len(updates)
<1>1. updates \in Seq(Updates) /\ n \in Nat
  <2>1. TreeOK(w) /\ s \in DOMAIN w /\ AssignedOK(w, assigned)
    BY DEF CommitOf
  <2>2. /\ \A y \in DOMAIN toplevels : toplevels[y] \in Toplevels
        /\ \A y \in DOMAIN pixels : pixels[y] \in Blocks
    BY DEF IInv, ToplevelsOK
  <2> QED
    BY <2>1, <2>2, CommitUpdatesAre DEF CommitUpdates
<1>2. exposed \in SUBSET Surface
  BY DEF IInv, ScreenOK
<1>3. \A i \in 0..n : run[i] \in Scenes
  BY DEF LeadsThrough
<1>4. PICK upto : /\ upto[0] = exposed /\ upto[n] = ExposedAfter(run, updates)
                  /\ \A i \in 1..n :
                       upto[i] = NextExposed(upto[i - 1], run[i - 1], run[i], updates[i])
  BY <1>1, <1>2, <1>3, ExposedAfterIs
<1> DEFINE S == {i \in 0..n : Neat(run[i]) /\ Fresh(run[i], screen, upto[i])}
<1>5. 0 \in S
  BY <1>1, <1>4 DEF LeadsThrough, DInv
<1>6. ASSUME NEW i \in 0..n, i \in S, i < n PROVE i + 1 \in S
  <2> DEFINE j == i + 1
  <2>1. j \in 1..n /\ j \in 0..n /\ j - 1 = i /\ updates[j] \in Updates
    BY <1>1, <1>6
  <2>2. Sound(run[j - 1], updates[j])
    BY <2>1, CommitIsSound
  <2> DEFINE sc == run[i]
             after == run[j]
             u == updates[j]
             ids == upto[i]
  <2>3. /\ Neat(sc) /\ Fresh(sc, screen, ids) /\ Sound(sc, u)
        /\ after = ApplyUpdate(sc, u) /\ u \in Updates
        /\ upto[j] = NextExposed(ids, sc, after, u)
    BY <1>4, <1>6, <2>1, <2>2 DEF LeadsThrough
  <2> HIDE DEF sc, after, u, ids
  <2>4. Neat(after) /\ Fresh(after, screen, NextExposed(ids, sc, after, u))
    BY <2>3, UpdateIsFresh
  <2> QED
    BY <2>1, <2>3, <2>4 DEF after
<1> HIDE DEF S, n
<1>7. \A i \in 0..n : i \in S
  BY <1>1, <1>5, <1>6, IntervalInduction
<1>8. n \in S
  BY <1>1, <1>7
<1> QED
  BY <1>4, <1>8 DEF S, n

(* What a commit leaves follows the tree it was made in.                     *)
LEMMA CommitFollows ==
  ASSUME IInv, DInv, NEW s, NEW w, NEW assigned, CommitOf(s, w, assigned), LinkOK(w),
         \A x \in DOMAIN w : w[x].parent = wl[x].parent,
         NEW updates, updates = CollectTree(w, s, assigned),
         NEW run, LeadsThrough(run, scene, updates)
  PROVE  /\ Follows(run[Len(updates)], w, nextSurface, PixelsAfter(updates))
         /\ Kin(run[Len(updates)])
<1> DEFINE n == Len(updates)
           after == run[n]
           content == Updated(updates, "content")
           unmap == Updated(updates, "unmap")
           pix == PixelsAfter(updates)
<1>1. /\ TreeOK(w) /\ DOMAIN w = DOMAIN wl /\ s \in DOMAIN w /\ AssignedOK(w, assigned)
      /\ \A y \in DOMAIN w : w[y].client = wl[y].client /\ w[y].role = wl[y].role
  BY DEF CommitOf
<1>2. /\ ToplevelsOK(wl, pixels, toplevels) /\ SceneOK(scene, wl, gone, nextSurface, pixels, toplevels)
      /\ \A y \in DOMAIN toplevels : toplevels[y] \in Toplevels
      /\ \A y \in DOMAIN pixels : pixels[y] \in Blocks
  BY DEF IInv, ToplevelsOK
<1>3. CommitUpdates(updates, w, assigned)
  BY <1>1, <1>2, CommitUpdatesAre
<1>4. ContentBuilt(updates, assigned)
  BY <1>1, <1>2, ContentsAreBuilt
<1>5. updates \in Seq(Updates) /\ n \in Nat /\ \A j \in 1..n : updates[j] \in ToSet(updates)
  BY <1>3 DEF CommitUpdates, ToSet
<1>6. /\ after \in Scenes /\ Live(after) = Live(scene)
      /\ \A y \in Live(scene) : NodeSince(after.nodes[y], scene.nodes[y], updates, n, y)
  <2>1. n \in 0..n
    BY <1>5
  <2> QED
    BY <2>1 DEF LeadsThrough
<1>7. Live(scene) \subseteq DOMAIN w
  BY <1>1, <1>2 DEF SceneOK
<1> HIDE DEF after, n
<1>8. ASSUME NEW x \in Live(scene)
      PROVE  /\ after.nodes[x].client = scene.nodes[x].client
             /\ after.nodes[x].parent = scene.nodes[x].parent
  BY <1>6 DEF NodeSince
<1>9. ASSUME NEW x \in Live(scene), x \in DOMAIN pix PROVE after.nodes[x].source = pix[x]
  <2> DEFINE set == ToSet(updates)
             shown == {u \in set : u.kind = "content"}
             pick == CHOOSE u \in shown : u.surface = x
             now == after.nodes[x].source
  <2>1. /\ x \in content <=> Among(updates, n, "content", x)
        /\ x \in unmap <=> Among(updates, n, "unmap", x)
    BY <1>5, UpdatedAmong DEF n
  <2>2. /\ DOMAIN pix = content \cup (DOMAIN pixels \ unmap)
        /\ pix[x] = IF x \in content THEN pick.block ELSE pixels[x]
    BY <1>9 DEF PixelsAfter
  <2>3. NodeSince(after.nodes[x], scene.nodes[x], updates, n, x)
    BY <1>6, <1>9
  <2>4. CASE x \in content
    <3>1. PICK j \in 1..n : /\ updates[j].kind = "content" /\ updates[j].surface = x
                            /\ now = updates[j].block
      BY <2>1, <2>3, <2>4 DEF NodeSince
    <3>2. updates[j] \in shown
      BY <1>5, <3>1
    <3>3. pick \in shown /\ pick.surface = x
      BY <3>1, <3>2
    <3> DEFINE u == updates[j]
    <3>4. u \in set /\ u.kind = "content" /\ u.surface = x
      BY <3>1, <3>2
    <3> HIDE DEF u, pick
    <3>5. \A v \in set : v.kind = "content" /\ v.surface = u.surface => v.block = u.block
      BY <1>2, <1>4, <3>4, ContentOf
    <3>6. pick.block = u.block
      BY <3>3, <3>4, <3>5
    <3> QED
      BY <2>2, <2>4, <3>1, <3>6 DEF u
  <2>5. CASE x \notin content
    <3>1. x \in DOMAIN pixels /\ x \notin unmap
      BY <1>9, <2>2, <2>5
    <3>2. now = scene.nodes[x].source
      BY <2>1, <2>3, <2>5, <3>1 DEF NodeSince
    <3> QED
      BY <1>9, <2>2, <2>5, <3>1, <3>2 DEF DInv, Follows
  <2> QED
    BY <2>4, <2>5
<1> HIDE DEF pix
<1>10. Follows(after, w, nextSurface, pix)
  <2>1. ASSUME NEW x \in Live(scene)
        PROVE  /\ after.nodes[x].parent # NoSurface => after.nodes[x].parent < nextSurface
               /\ after.nodes[x].parent \in Live(after) => w[x].parent = after.nodes[x].parent
    <3>1. x \in DOMAIN w
      BY <1>7
    <3> QED
      BY <1>6, <1>8, <3>1 DEF DInv, Follows
  <2> QED
    BY <1>6, <1>9, <2>1 DEF Follows
<1>11. Kin(after)
  <2>1. ASSUME NEW p \in Live(scene), NEW y \in ToSet(after.nodes[p].children) \cap Live(scene)
        PROVE  scene.nodes[y].client = scene.nodes[p].client
    <3>1. NodeSince(after.nodes[p], scene.nodes[p], updates, n, p)
      BY <1>6
    <3>2. CASE after.nodes[p].children = scene.nodes[p].children
      BY <2>1, <3>2 DEF DInv, Kin
    <3>3. ASSUME NEW j \in 1..n, updates[j].kind = "order", updates[j].surface = p,
                 after.nodes[p].children = updates[j].order
          PROVE  scene.nodes[y].client = scene.nodes[p].client
      <4>1. after.nodes[p].children = OrderedChildren(w, p) /\ p \in DOMAIN w
        BY <1>3, <3>3 DEF CommitUpdates, n
      <4>2. y \in DOMAIN w /\ w[y].client = w[p].client
        BY <1>1, <2>1, <4>1, OrderedLinked
      <4>3. scene.nodes[y].client = wl[y].client /\ scene.nodes[p].client = wl[p].client
        BY <1>2, <2>1 DEF SceneOK, NodeOK
      <4> QED
        BY <1>1, <4>1, <4>2, <4>3
    <3> QED
      BY <3>1, <3>2, <3>3 DEF NodeSince
  <2> QED
    BY <1>6, <1>8, <2>1 DEF Kin
<1> QED
  BY <1>10, <1>11 DEF after, n, pix

(* What is no longer drawn is no longer exposed, and had no cells.           *)
LEMMA StillExposedIs ==
  ASSUME NEW after, NEW ids
  PROVE  CellsOf(after, StillExposed(after, ids)) = CellsOf(after, ids)
BY DEF CellsOf, StillExposed

(* Forgetting what is no longer drawn loses nothing: it covers no cell.      *)
LEMMA StillFresh ==
  ASSUME NEW after, NEW frame, NEW ids, Fresh(after, frame, ids)
  PROVE  Fresh(after, frame, StillExposed(after, ids))
BY StillExposedIs DEF Fresh

(* An effective commit conserves DInv: its updates are sound where they are  *)
(* applied, each is conservative, and the pixels kept here are those the     *)
(* scene shows.                                                              *)
LEMMA EffectiveCommitConserves ==
  ASSUME IInv, DInv, NEW s, NEW w, NEW assigned, CommitOf(s, w, assigned), LinkOK(w),
         \A x \in DOMAIN w : w[x].parent = wl[x].parent,
         EffectiveCommit(s, w, assigned)
  PROVE  DInv'
<1> DEFINE updates == CollectTree(w, s, assigned)
           run == Applied(scene, updates)
           n == Len(updates)
           after == run[n]
           pix == PixelsAfter(updates)
           v == [x \in DOMAIN w |-> IF x \in Effective(w, s) THEN [w[x] EXCEPT !.cached = Nothing]
                                    ELSE w[x]]
<1>1. /\ wl' = v /\ pixels' = pix /\ scene' = after
      /\ exposed' = StillExposed(after, ExposedAfter(run, updates))
      /\ nextSurface' = nextSurface /\ screen' = screen
  BY DEF EffectiveCommit, Published, Effect
<1>2. /\ TreeOK(w) /\ DOMAIN w = DOMAIN wl /\ s \in DOMAIN w /\ AssignedOK(w, assigned)
  BY DEF CommitOf
<1>3. /\ SceneOK(scene, wl, gone, nextSurface, pixels, toplevels)
      /\ \A y \in DOMAIN toplevels : toplevels[y] \in Toplevels
      /\ \A y \in DOMAIN pixels : pixels[y] \in Blocks
  BY DEF IInv, ToplevelsOK
<1>4. LeadsThrough(run, scene, updates)
  <2>1. CommitUpdates(updates, w, assigned)
    BY <1>2, <1>3, CommitUpdatesAre
  <2> HIDE DEF updates
  <2>2. /\ updates \in Seq(Updates)
        /\ Updated(updates, "content") \cap Updated(updates, "unmap") = {}
    BY <2>1 DEF CommitUpdates
  <2>3. Decided(updates)
    BY <2>2, UpdatedAmong DEF Decided
  <2>4. /\ scene \in Scenes
        /\ \A x \in Live(scene) : scene.nodes[x].source # NoPixels => scene.nodes[x].size > 0
    BY <1>3 DEF SceneOK, NodeOK
  <2> QED
    BY <2>2, <2>3, <2>4, AppliedIs
<1>5. /\ Neat(after) /\ Fresh(after, screen, ExposedAfter(run, updates))
      /\ Follows(after, w, nextSurface, pix) /\ Kin(after)
  <2> HIDE DEF run
  <2>1. Neat(after) /\ Fresh(after, screen, ExposedAfter(run, updates))
    BY <1>4, CommitStaysFresh
  <2>2. Follows(after, w, nextSurface, pix) /\ Kin(after)
    BY <1>4, CommitFollows
  <2> QED
    BY <2>1, <2>2
<1>6. DOMAIN v = DOMAIN w /\ \A x \in DOMAIN w : /\ v[x].client = w[x].client
                                                 /\ v[x].parent = w[x].parent
                                                 /\ v[x].order = w[x].order
  <2>1. ASSUME NEW x \in DOMAIN w
        PROVE  /\ v[x].client = w[x].client /\ v[x].parent = w[x].parent /\ v[x].order = w[x].order
    <3>1. w[x] \in WlSurfaces
      BY <1>2 DEF TreeOK
    <3>2. v[x] = [w[x] EXCEPT !.cached = Nothing] \/ v[x] = w[x]
      OBVIOUS
    <3> HIDE DEF v
    <3> QED
      BY <3>1, <3>2 DEF WlSurfaces
  <2> QED
    BY <2>1
<1>7. \A x \in Live(after) : x \in DOMAIN w
  <2>1. n \in 0..n
    <3>1. CommitUpdates(updates, w, assigned)
      BY <1>2, <1>3, CommitUpdatesAre
    <3> HIDE DEF updates
    <3> QED
      BY <3>1 DEF CommitUpdates
  <2>2. Live(after) = Live(scene)
    BY <1>4, <2>1 DEF LeadsThrough
  <2> QED
    BY <1>2, <1>3, <2>2 DEF SceneOK
<1> HIDE DEF v, updates, run, after, pix
<1>8. LinkOK(v)
  <2>1. \A x \in DOMAIN w : w[x].parent # NoSurface => w[x].parent \in DOMAIN w
    BY <1>2 DEF TreeOK
  <2> QED
    BY <1>6, <2>1 DEF LinkOK
<1>9. Follows(after, v, nextSurface, pix)
  BY <1>5, <1>6, <1>7 DEF Follows
<1>10. Fresh(after, screen, StillExposed(after, ExposedAfter(run, updates)))
  BY <1>5, StillFresh
<1> QED
  BY <1>1, <1>5, <1>8, <1>9, <1>10 DEF DInv

-----------------------------------------------------------------------------
(* Every other step.                                                         *)

(* Such a scene still follows the tree.                                      *)
LEMMA NodesFollow ==
  ASSUME NEW sc, NEW w, NEW next, NEW pix, Follows(sc, w, next, pix), Kin(sc),
         NEW after, NEW v, NEW now, Dwindles(sc, after, w, v, pix, now)
  PROVE  Follows(after, v, next, now) /\ Kin(after)
<1>1. Follows(after, v, next, now)
  <2>1. ASSUME NEW x \in Live(after)
        PROVE  /\ after.nodes[x].parent # NoSurface => after.nodes[x].parent < next
               /\ after.nodes[x].parent \in Live(after) => v[x].parent = after.nodes[x].parent
               /\ x \in DOMAIN now => after.nodes[x].source = now[x]
    BY DEF Follows, Dwindles
  <2> QED
    BY <2>1 DEF Follows
<1>2. Kin(after)
  <2>1. ASSUME NEW p \in Live(after), NEW y \in ToSet(after.nodes[p].children) \cap Live(after)
        PROVE  after.nodes[y].client = after.nodes[p].client
    <3>1. p \in Live(sc) /\ y \in ToSet(sc.nodes[p].children) \cap Live(sc)
      BY <2>1 DEF Dwindles
    <3>2. sc.nodes[y].client = sc.nodes[p].client
      BY <3>1 DEF Kin
    <3> QED
      BY <2>1, <3>2 DEF Dwindles
  <2> QED
    BY <2>1 DEF Kin
<1> QED
  BY <1>1, <1>2

(* The links are the links of the client, parent and order fields.           *)
LEMMA SameTreeLinked ==
  ASSUME NEW w, TreeOK(w), LinkOK(w), NEW v, DOMAIN v = DOMAIN w,
         \A x \in DOMAIN w : /\ v[x].client = w[x].client /\ v[x].parent = w[x].parent
                             /\ v[x].order = w[x].order
  PROVE  LinkOK(v)
<1>1. \A x \in DOMAIN w : w[x].parent # NoSurface => w[x].parent \in DOMAIN w
  BY DEF TreeOK
<1> QED
  BY <1>1 DEF LinkOK

(* The conservative changes that expose nothing.                             *)
LEMMA StaysFresh ==
  ASSUME NEW sc, NEW after, Conservative(sc, after, {}, {}),
         NEW frame, NEW ids, Fresh(sc, frame, ids)
  PROVE  Fresh(after, frame, ids)
<1>1. Fresh(after, frame, (ids \ {}) \cup {})
  BY ConservativeIsFresh
<1>2. (ids \ {}) \cup {} = ids
  OBVIOUS
<1> QED
  BY <1>1, <1>2

(* The scene processes a message that leaves the frame fresh.                *)
LEMMA PublishedFresh ==
  ASSUME NEW after, Publish(after), Neat(after), Fresh(after, screen, exposed)
  PROVE  Neat(scene') /\ Fresh(scene', screen', exposed')
<1>1. scene' = after /\ screen' = screen /\ exposed' = StillExposed(after, exposed)
  BY DEF Publish
<1> QED
  BY <1>1, StillFresh

(* What IInv says of the scene's nodes.                                      *)
LEMMA SceneFacts ==
  ASSUME IInv
  PROVE  /\ scene \in Scenes /\ SelfListed(scene)
         /\ \A x \in Live(scene) :
              /\ x \in DOMAIN wl /\ x \in Surface /\ x < nextSurface
              /\ scene.nodes[x].client = wl[x].client
              /\ scene.nodes[x].source # NoPixels => x \in DOMAIN pixels
              /\ \A y \in ToSet(scene.nodes[x].children) : y = x \/ y < nextSurface
<1>1. /\ SceneOK(scene, wl, gone, nextSurface, pixels, toplevels) /\ IdsOK /\ TreeOK(wl)
  BY DEF IInv
<1>2. ASSUME NEW x \in Live(scene)
      PROVE  /\ x \in DOMAIN wl /\ x \in Surface /\ x < nextSurface
             /\ scene.nodes[x].client = wl[x].client
             /\ scene.nodes[x].source # NoPixels => x \in DOMAIN pixels
             /\ Around(scene.nodes[x].children, x, Surface)
             /\ \A y \in ToSet(scene.nodes[x].children) : y = x \/ y < nextSurface
  <2> DEFINE K == {y \in Surface : y < nextSurface /\ (y \in DOMAIN wl => wl[y].role = "subsurface")}
  <2>1. x \in DOMAIN wl /\ NodeOK(scene.nodes[x], x, wl, nextSurface, pixels, toplevels)
    BY <1>1 DEF SceneOK
  <2>2. Around(scene.nodes[x].children, x, K) /\ K \subseteq Surface
    BY <2>1 DEF NodeOK
  <2>3. x \in Surface /\ x < nextSurface
    BY <1>1, <2>1 DEF IdsOK, TreeOK
  <2>4. scene.nodes[x].children \in Seq(Surface)
    BY <1>1, SceneIs DEF SceneOK, Nodes
  <2>5. \A y \in K : y < nextSurface
    OBVIOUS
  <2> HIDE DEF K
  <2>6. Around(scene.nodes[x].children, x, Surface)
    BY <2>2, AroundGrows
  <2>7. ASSUME NEW y \in ToSet(scene.nodes[x].children) PROVE y = x \/ y < nextSurface
    <3>1. PICK i \in 1..Len(scene.nodes[x].children) : y = scene.nodes[x].children[i]
      BY <2>4 DEF ToSet
    <3> QED
      BY <2>2, <2>5, <3>1 DEF Around
  <2> QED
    BY <2>1, <2>3, <2>6, <2>7 DEF NodeOK
<1> QED
  BY <1>1, <1>2 DEF SceneOK, SelfListed

(* new_surface: a node without content or links.                             *)
LEMMA NewSurfaceConserves ==
  ASSUME IInv, DInv, NEW k \in Client, NewSurface(k)
  PROVE  DInv'
<1> DEFINE id == nextSurface
           v == Inserted(wl, id, NewWl(k))
           after == Created(scene, id, k)
<1>1. /\ id \in Surface /\ nextSurface' = id + 1 /\ wl' = v /\ Publish(after) /\ pixels' = pixels
  BY DEF NewSurface
<1>2. TreeOK(wl) /\ IdsOK /\ ToplevelsOK(wl, pixels, toplevels)
  BY DEF IInv
<1>3. id \notin DOMAIN wl /\ id \in Nat /\ id # NoSurface /\ id \notin Live(scene)
  <2>1. id \notin DOMAIN wl /\ id \in Nat
    BY <1>2 DEF IdsOK
  <2> QED
    BY <1>1, <2>1, SceneFacts, SurfaceAssumption
<1>4. /\ TreeOK(v) /\ DOMAIN v = DOMAIN wl \cup {id} /\ v[id] = NewWl(k)
      /\ \A x \in DOMAIN wl : v[x] = wl[x]
  BY <1>1, <1>2, <1>3, NewWlTree
<1>5. /\ LinkOK(wl) /\ Follows(scene, wl, nextSurface, pixels) /\ Neat(scene) /\ Kin(scene)
      /\ Fresh(scene, screen, exposed)
  BY DEF DInv
<1>6. ASSUME NEW x \in Live(scene)
      PROVE  /\ scene.nodes[x].parent # id
             /\ scene.nodes[x].parent # NoSurface => scene.nodes[x].parent < id + 1
             /\ id \notin ToSet(scene.nodes[x].children)
             /\ x # id /\ x \in DOMAIN wl
  <2>1. scene.nodes[x].parent # NoSurface => scene.nodes[x].parent < id
    BY <1>5 DEF Follows
  <2>2. scene.nodes[x].parent \in Surface \cup {NoSurface}
    BY SceneFacts, SceneIs DEF Nodes
  <2>3. scene.nodes[x].parent # NoSurface => scene.nodes[x].parent \in Nat
    BY <2>2, SurfaceAssumption
  <2>4. x \in DOMAIN wl /\ \A y \in ToSet(scene.nodes[x].children) : y = x \/ y < id
    BY SceneFacts
  <2> HIDE DEF id
  <2> QED
    BY <1>3, <2>1, <2>3, <2>4
<1> HIDE DEF v
<1>7. /\ Live(after) = Live(scene) \cup {id} /\ after.nodes[id] = FreshNode(k)
      /\ \A x \in Live(scene) : after.nodes[x] = scene.nodes[x]
  BY <1>1, <1>6, SceneFacts, CreatedIs
<1>8. Neat(after) /\ Fresh(after, screen, exposed)
  <2> HIDE DEF id, after
  <2>1. id \in Surface \ Live(scene) /\ after = Created(scene, id, k)
    BY <1>1, <1>3 DEF after, id
  <2>2. Neat(after) /\ Conservative(scene, after, {}, {})
    BY <1>5, <1>6, <2>1, CreatedConserves
  <2> QED
    BY <1>5, <2>2, StaysFresh
<1> HIDE DEF after
<1>9. LinkOK(v)
  <2>1. \A x \in DOMAIN wl : wl[x].parent # NoSurface => wl[x].parent \in DOMAIN wl
    BY <1>2 DEF TreeOK
  <2>2. v[id].parent = NoSurface
    BY <1>4 DEF NewWl
  <2> QED
    BY <1>4, <1>5, <2>1, <2>2 DEF LinkOK
<1>10. FreshNode(k).parent = NoSurface /\ FreshNode(k).children = <<>>
  BY DEF FreshNode
<1>11. id \notin DOMAIN pixels
  BY <1>2, <1>3 DEF ToplevelsOK
<1>12. Follows(after, v, id + 1, pixels)
  <2>1. ASSUME NEW x \in Live(scene)
        PROVE  /\ after.nodes[x].parent # NoSurface => after.nodes[x].parent < id + 1
               /\ after.nodes[x].parent \in Live(after) => v[x].parent = after.nodes[x].parent
               /\ x \in DOMAIN pixels => after.nodes[x].source = pixels[x]
    BY <1>4, <1>5, <1>6, <1>7 DEF Follows
  <2>2. NoSurface \notin Live(after)
    BY <1>3, <1>7, SceneFacts, SurfaceAssumption
  <2> QED
    BY <1>7, <1>10, <1>11, <2>1, <2>2 DEF Follows
<1>13. Kin(after)
  <2>1. ASSUME NEW p \in Live(after), NEW y \in ToSet(after.nodes[p].children) \cap Live(after)
        PROVE  after.nodes[y].client = after.nodes[p].client
    <3>1. p # id
      BY <1>7, <1>10, <2>1, SmallSets
    <3>2. p \in Live(scene) /\ after.nodes[p] = scene.nodes[p]
      BY <1>7, <3>1
    <3>3. y # id
      BY <1>6, <2>1, <3>2
    <3>4. y \in Live(scene) /\ after.nodes[y] = scene.nodes[y]
      BY <1>7, <2>1, <3>3
    <3> QED
      BY <1>5, <2>1, <3>2, <3>4 DEF Kin
  <2> QED
    BY <2>1 DEF Kin
<1>14. Neat(scene') /\ Fresh(scene', screen', exposed')
  BY <1>1, <1>8, PublishedFresh
<1>15. scene' = after
  BY <1>1 DEF Publish
<1> QED
  BY <1>1, <1>9, <1>12, <1>13, <1>14, <1>15 DEF DInv

(* A step that changes Smithay's tree at most, and none of its links.        *)
LEMMA TreeOnlyConserves ==
  ASSUME IInv, DInv, NEW v, wl' = v, DOMAIN v = DOMAIN wl,
         \A x \in DOMAIN wl : /\ v[x].client = wl[x].client /\ v[x].parent = wl[x].parent
                              /\ v[x].order = wl[x].order,
         UNCHANGED <<nextSurface, pixels, scene, screen, exposed>>
  PROVE  DInv'
<1>1. TreeOK(wl) /\ \A x \in Live(scene) : x \in DOMAIN wl
  BY SceneFacts DEF IInv
<1>2. /\ LinkOK(wl) /\ Follows(scene, wl, nextSurface, pixels) /\ Neat(scene) /\ Kin(scene)
      /\ Fresh(scene, screen, exposed)
  BY DEF DInv
<1>3. LinkOK(v)
  BY <1>1, <1>2, SameTreeLinked
<1>4. Follows(scene, v, nextSurface, pixels)
  BY <1>1, <1>2 DEF Follows
<1> QED
  BY <1>2, <1>3, <1>4 DEF DInv

(* ack_configure does not reach the scene.                                   *)
LEMMA AckConfigureConserves ==
  ASSUME IInv, DInv, NEW s \in alive, AckConfigure(s)
  PROVE  DInv'
<1> DEFINE v == wl
<1>1. wl' = v /\ UNCHANGED <<nextSurface, pixels, scene, screen, exposed>>
  BY DEF AckConfigure
<1>2. /\ DOMAIN v = DOMAIN wl
      /\ \A x \in DOMAIN wl : /\ v[x].client = wl[x].client /\ v[x].parent = wl[x].parent
                              /\ v[x].order = wl[x].order
  OBVIOUS
<1> HIDE DEF v
<1> QED
  BY <1>1, <1>2, TreeOnlyConserves

(* Neither does a cached commit.                                             *)
LEMMA CachedCommitConserves ==
  ASSUME IInv, DInv, NEW s \in alive, NEW a, CachedCommit(s, a)
  PROVE  DInv'
<1> DEFINE c == Merge(wl[s].cached, a)
           v == [wl EXCEPT ![s].cached = c]
<1>1. wl' = v /\ UNCHANGED <<nextSurface, pixels, scene, screen, exposed>>
  BY DEF CachedCommit, protoVars
<1> HIDE DEF c
<1>2. TreeOK(wl)
  BY DEF IInv
<1>3. /\ DOMAIN v = DOMAIN wl
      /\ \A x \in DOMAIN wl : /\ v[x].client = wl[x].client /\ v[x].parent = wl[x].parent
                              /\ v[x].order = wl[x].order
  BY <1>2 DEF TreeOK, WlSurfaces
<1> HIDE DEF v
<1> QED
  BY <1>1, <1>3, TreeOnlyConserves

(* A step that sends the scene one message, which adds no node and no link.  *)
LEMMA MessageConserves ==
  ASSUME IInv, DInv, NEW after, Publish(after), Neat(after), Fresh(after, screen, exposed),
         NEW v, wl' = v, LinkOK(v), NEW now, pixels' = now, nextSurface' = nextSurface,
         Dwindles(scene, after, wl, v, pixels, now)
  PROVE  DInv'
<1>1. Follows(scene, wl, nextSurface, pixels) /\ Kin(scene)
  BY DEF DInv
<1>2. Follows(after, v, nextSurface, now) /\ Kin(after)
  BY <1>1, NodesFollow
<1>3. Neat(scene') /\ Fresh(scene', screen', exposed')
  BY PublishedFresh
<1>4. scene' = after
  BY DEF Publish
<1> QED
  BY <1>2, <1>3, <1>4 DEF DInv

(* new_toplevel: the role of a surface without content.                      *)
LEMMA NewToplevelConserves ==
  ASSUME IInv, DInv, NEW s \in alive, NewToplevel(s)
  PROVE  DInv'
<1> DEFINE v == [wl EXCEPT ![s].role = "toplevel"]
           after == SetRole(scene, s, "toplevel")
           node == [scene.nodes[s] EXCEPT !.role = "toplevel"]
<1>1. /\ s \in Served /\ s \notin DOMAIN pixels
      /\ wl' = v /\ Publish(after) /\ pixels' = pixels /\ nextSurface' = nextSurface
  BY DEF NewToplevel
<1>2. s \in Live(scene) /\ s \in Surface /\ TreeOK(wl)
  BY <1>1, ServedAreLive DEF IInv
<1>3. Neat(scene) /\ Fresh(scene, screen, exposed) /\ LinkOK(wl)
  BY DEF DInv
<1>4. scene.nodes[s].source = NoPixels /\ "toplevel" \in Roles /\ scene \in Scenes
  BY <1>1, <1>2, SceneFacts DEF Roles
<1>5. after.nodes = [scene.nodes EXCEPT ![s] = node]
  BY <1>2, <1>4, SetRoleIs
<1>6. scene.nodes[s] \in Nodes /\ scene.nodes \in [Live(scene) -> Nodes]
  BY <1>2, <1>4, SceneIs
<1>7. /\ node.parent = scene.nodes[s].parent /\ node.client = scene.nodes[s].client
      /\ node.children = scene.nodes[s].children /\ node.source = scene.nodes[s].source
  BY <1>6 DEF Nodes
<1> HIDE DEF node
<1>8. /\ DOMAIN v = DOMAIN wl
      /\ \A x \in DOMAIN wl : /\ v[x].client = wl[x].client /\ v[x].parent = wl[x].parent
                              /\ v[x].order = wl[x].order
  BY <1>2 DEF TreeOK, WlSurfaces
<1> HIDE DEF v, after
<1>9. LinkOK(v)
  BY <1>2, <1>3, <1>8, SameTreeLinked
<1>10. Neat(after) /\ Fresh(after, screen, exposed)
  <2>1. after = SetRole(scene, s, "toplevel")
    BY DEF after
  <2>2. Neat(after) /\ Conservative(scene, after, {}, {})
    BY <1>2, <1>3, <1>4, <2>1, RoleConserves
  <2> QED
    BY <1>3, <2>2, StaysFresh
<1>11. Live(after) = Live(scene) /\ after.nodes[s] = node
       /\ \A x \in Live(scene) \ {s} : after.nodes[x] = scene.nodes[x]
  BY <1>2, <1>5, <1>6 DEF Live
<1>12. ASSUME NEW x \in Live(after)
       PROVE  /\ after.nodes[x].parent = scene.nodes[x].parent
              /\ after.nodes[x].client = scene.nodes[x].client
              /\ after.nodes[x].children = scene.nodes[x].children
              /\ after.nodes[x].source = scene.nodes[x].source
              /\ v[x].parent = wl[x].parent
  <2>1. x \in DOMAIN wl
    BY <1>11, <1>12, SceneFacts
  <2> QED
    BY <1>7, <1>8, <1>11, <1>12, <2>1
<1> DEFINE now == pixels
<1>13. Dwindles(scene, after, wl, v, pixels, now)
  BY <1>11, <1>12 DEF Dwindles
<1>14. pixels' = now
  BY <1>1
<1> HIDE DEF now
<1> QED
  BY <1>1, <1>9, <1>10, <1>13, <1>14, MessageConserves

(* toplevel_destroyed: clear_source, then the role, of a surface that then   *)
(* has no content.                                                           *)
LEMMA ToplevelDestroyedConserves ==
  ASSUME IInv, DInv, NEW s \in alive, ToplevelDestroyed(s)
  PROVE  DInv'
<1> DEFINE mid == ClearSource(scene, s)
           after == SetRole(mid, s, "none")
           v == wl
           now == Drop(pixels, s)
<1>1. Publish(after) /\ wl' = v /\ pixels' = now /\ nextSurface' = nextSurface
  BY DEF ToplevelDestroyed, Forget
<1>2. s \in Surface /\ scene \in Scenes /\ "none" \in Roles
  BY SceneFacts DEF alive, IInv, TreeOK, Roles
<1>3. Neat(scene) /\ Fresh(scene, screen, exposed) /\ LinkOK(v)
  BY DEF DInv
<1>4. DOMAIN now = DOMAIN pixels \ {s} /\ \A x \in DOMAIN pixels \ {s} : now[x] = pixels[x]
  BY DropIs
<1> HIDE DEF now
<1>5. /\ Live(after) = Live(scene)
      /\ \A x \in Live(scene) :
           /\ after.nodes[x].parent = scene.nodes[x].parent
           /\ after.nodes[x].client = scene.nodes[x].client
           /\ after.nodes[x].children = scene.nodes[x].children
           /\ x # s => after.nodes[x].source = scene.nodes[x].source
      /\ s \in Live(mid) => mid.nodes[s].source = NoPixels
  <2>1. CASE s \notin Live(scene)
    <3>1. mid = scene
      BY <2>1 DEF ClearSource
    <3>2. after = scene
      BY <2>1, <3>1 DEF SetRole
    <3> QED
      BY <2>1, <3>1, <3>2
  <2>2. CASE s \in Live(scene)
    <3> DEFINE old == scene.nodes[s]
               empty == [old EXCEPT !.source = NoPixels, !.opaque = FALSE]
               node == [empty EXCEPT !.role = "none"]
    <3>1. mid \in Scenes /\ mid.nodes = [scene.nodes EXCEPT ![s] = empty]
      BY <1>2, <2>2, ClearSourceIs, Zenon
    <3>2. scene.nodes \in [Live(scene) -> Nodes] /\ old \in Nodes
      BY <1>2, <2>2, SceneIs
    <3>3. /\ node.client = old.client /\ node.parent = old.parent /\ node.children = old.children
          /\ empty.source = NoPixels
      BY <3>2 DEF Nodes
    <3> HIDE DEF mid, old
    <3>4. Live(mid) = Live(scene) /\ mid.nodes[s] = empty
      BY <2>2, <3>1, <3>2 DEF Live
    <3>5. after.nodes = [mid.nodes EXCEPT ![s] = [mid.nodes[s] EXCEPT !.role = "none"]]
      BY <1>2, <2>2, <3>1, <3>4, SetRoleIs
    <3> HIDE DEF after, empty
    <3>6. after.nodes = [[scene.nodes EXCEPT ![s] = empty] EXCEPT ![s] = node]
      BY <3>1, <3>4, <3>5
    <3> HIDE DEF node
    <3>7. /\ Live(after) = Live(scene) /\ after.nodes[s] = node
          /\ \A x \in Live(scene) \ {s} : after.nodes[x] = scene.nodes[x]
      BY <2>2, <3>2, <3>6 DEF Live
    <3> QED
      BY <3>3, <3>4, <3>7 DEF old
  <2> QED
    BY <2>1, <2>2
<1> HIDE DEF mid
<1>6. Neat(mid) /\ Fresh(mid, screen, exposed)
  <2>1. mid = ClearSource(scene, s)
    BY DEF mid
  <2>2. Neat(mid) /\ Conservative(scene, mid, {}, {})
    BY <1>2, <1>3, <2>1, ClearConserves
  <2> QED
    BY <1>3, <2>2, StaysFresh
<1> HIDE DEF after
<1>7. Neat(after) /\ Fresh(after, screen, exposed)
  <2>1. after = SetRole(mid, s, "none")
    BY DEF after
  <2>2. Neat(after) /\ Conservative(mid, after, {}, {})
    BY <1>2, <1>5, <1>6, <2>1, RoleConserves
  <2> QED
    BY <1>6, <2>2, StaysFresh
<1>8. Dwindles(scene, after, wl, v, pixels, now)
  BY <1>4, <1>5 DEF Dwindles
<1> HIDE DEF v
<1> QED
  BY <1>1, <1>3, <1>7, <1>8, MessageConserves

(* destroyed: the node goes; its subsurfaces, orphaned here, keep their      *)
(* links in the scene and are no longer placed.                              *)
LEMMA SurfaceDestroyedConserves ==
  ASSUME IInv, DInv, NEW s \in alive, SurfaceDestroyed(s)
  PROVE  DInv'
<1> DEFINE v == Orphaned(wl, s)
           after == Destroyed(scene, s)
           now == Drop(pixels, s)
<1>1. wl' = v /\ Publish(after) /\ pixels' = now /\ nextSurface' = nextSurface
  BY Zenon DEF SurfaceDestroyed, Orphaned, Forget
<1>2. TreeOK(wl) /\ s \in DOMAIN wl /\ s \in Surface /\ scene \in Scenes
  BY SceneFacts DEF IInv, alive, TreeOK
<1>3. /\ Neat(scene) /\ Fresh(scene, screen, exposed) /\ LinkOK(wl)
      /\ Follows(scene, wl, nextSurface, pixels)
  BY DEF DInv
<1>4. /\ TreeOK(v) /\ DOMAIN v = DOMAIN wl \ {s}
      /\ \A x \in DOMAIN wl \ {s} : v[x].client = wl[x].client /\ v[x].role = wl[x].role
      /\ \A x \in DOMAIN wl \ {s} : v[x].parent = IF wl[x].parent = s THEN NoSurface ELSE wl[x].parent
      /\ KeepsKids(wl, v, s)
  BY <1>2, DestroyedTree, ZenonT(90)
<1> HIDE DEF v
<1>5. LinkOK(v)
  <2> SUFFICES ASSUME NEW x \in DOMAIN v, v[x].parent # NoSurface
               PROVE  /\ v[v[x].parent].client = v[x].client
                      /\ x \in ToSet(v[v[x].parent].order)
    BY DEF LinkOK
  <2> DEFINE q == wl[x].parent
  <2>1. x \in DOMAIN wl \ {s} /\ v[x].parent = q /\ q # s /\ q # NoSurface
    BY <1>4
  <2>2. q \in DOMAIN wl \ {s, x}
    BY <1>2, <2>1 DEF TreeOK
  <2>3. wl[q].client = wl[x].client /\ x \in ToSet(wl[q].order)
    BY <1>3, <2>1 DEF LinkOK
  <2> HIDE DEF q
  <2>4. x \in ToSet(v[q].order)
    BY <1>4, <2>1, <2>2, <2>3 DEF KeepsKids
  <2> QED
    BY <1>4, <2>1, <2>2, <2>3, <2>4
<1>6. DOMAIN now = DOMAIN pixels \ {s} /\ \A x \in DOMAIN pixels \ {s} : now[x] = pixels[x]
  BY DropIs
<1>7. /\ Live(after) = Live(scene) \ {s}
      /\ \A x \in Live(scene) \ {s} : after.nodes[x] = scene.nodes[x]
  BY <1>2, DestroyedIs
<1> HIDE DEF after, now
<1>8. Neat(after) /\ Fresh(after, screen, exposed)
  <2>1. after = Destroyed(scene, s)
    BY DEF after
  <2>2. Neat(after) /\ Conservative(scene, after, {}, {})
    BY <1>2, <1>3, <2>1, DestroyedConserves
  <2> QED
    BY <1>3, <2>2, StaysFresh
<1>9. Dwindles(scene, after, wl, v, pixels, now)
  <2>1. ASSUME NEW x \in Live(after), scene.nodes[x].parent \in Live(after)
        PROVE  v[x].parent = wl[x].parent
    <3>1. x \in DOMAIN wl \ {s} /\ scene.nodes[x].parent # s
      BY <1>7, <2>1, SceneFacts
    <3>2. wl[x].parent = scene.nodes[x].parent
      BY <1>3, <1>7, <2>1 DEF Follows
    <3> QED
      BY <1>4, <3>1, <3>2
  <2> QED
    BY <1>6, <1>7, <2>1 DEF Dwindles
<1> QED
  BY <1>1, <1>5, <1>8, <1>9, MessageConserves

(* A client's connection ends.                                               *)
LEMMA ClientGoneDwindles ==
  ASSUME IInv, DInv, NEW k, Publish(ClientGone(scene, k)), UNCHANGED <<wl, protoVars>>
  PROVE  DInv'
<1> DEFINE lost == {id \in Live(scene) : scene.nodes[id].client = k}
           after == ClientGone(scene, k)
           v == wl
           now == pixels
<1>1. /\ wl' = v /\ pixels' = now /\ nextSurface' = nextSurface /\ Publish(after)
  BY DEF protoVars
<1>2. scene \in Scenes /\ SelfListed(scene)
  BY SceneFacts
<1>3. Neat(scene) /\ Fresh(scene, screen, exposed) /\ LinkOK(v) /\ Kin(scene)
  BY DEF DInv
<1>4. /\ after \in Scenes /\ Live(after) = Live(scene) \ lost
      /\ \A x \in Live(scene) \ lost :
           after.nodes[x] = [scene.nodes[x] EXCEPT !.children = Without(@, lost)]
  BY <1>2, ClientGoneIs, ZenonT(90)
<1> HIDE DEF after, lost
<1>5. Neat(after) /\ Fresh(after, screen, exposed)
  <2>1. after = ClientGone(scene, k)
    BY DEF after
  <2>2. Neat(after) /\ Conservative(scene, after, {}, {})
    BY <1>2, <1>3, <2>1, ClientGoneConserves
  <2> QED
    BY <1>3, <2>2, StaysFresh
<1>6. ASSUME NEW x \in Live(after)
      PROVE  /\ after.nodes[x].parent = scene.nodes[x].parent
             /\ after.nodes[x].client = scene.nodes[x].client
             /\ after.nodes[x].source = scene.nodes[x].source
             /\ ToSet(after.nodes[x].children) \subseteq ToSet(scene.nodes[x].children)
  <2> DEFINE old == scene.nodes[x]
             kids == old.children
             left == Without(kids, lost)
  <2>1. x \in Live(scene) \ lost
    BY <1>4
  <2>2. old \in Nodes /\ kids \in Seq(Surface)
    BY <1>2, <2>1, SceneIs DEF Nodes
  <2>3. after.nodes[x] = [old EXCEPT !.children = left]
    BY <1>4, <2>1
  <2> HIDE DEF old
  <2>4. Remains(left, kids, lost, Surface)
    <3> HIDE DEF kids
    <3> QED
      BY <2>2, WithoutIs
  <2> HIDE DEF left, kids
  <2>5. ToSet(left) \subseteq ToSet(kids)
    BY <2>4 DEF Remains, ToSet
  <2>6. /\ after.nodes[x].parent = old.parent /\ after.nodes[x].client = old.client
        /\ after.nodes[x].source = old.source /\ after.nodes[x].children = left
    BY <2>2, <2>3 DEF Nodes
  <2> QED
    BY <2>5, <2>6 DEF old, kids
<1>7. Dwindles(scene, after, wl, v, pixels, now)
  BY <1>4, <1>6 DEF Dwindles
<1> HIDE DEF v, now
<1> QED
  BY <1>1, <1>3, <1>5, <1>7, MessageConserves

(* The render side.                                                          *)
LEMMA RepaintAllConserves ==
  ASSUME IInv, DInv, RepaintAll
  PROVE  DInv'
<1> DEFINE after == DamageFull(scene)
           v == wl
           now == pixels
<1>1. /\ wl' = v /\ pixels' = now /\ nextSurface' = nextSurface /\ Publish(after)
  BY DEF RepaintAll, protoVars
<1>2. Neat(scene) /\ Fresh(scene, screen, exposed) /\ LinkOK(v)
  BY DEF DInv
<1>3. scene \in Scenes
  BY SceneFacts
<1>4. after \in Scenes /\ after.nodes = scene.nodes /\ after.full /\ after.damage = scene.damage
  BY <1>3 DEF DamageFull, Scenes
<1> HIDE DEF after
<1>5. Neat(after) /\ Fresh(after, screen, exposed)
  <2>1. Neat(after) /\ Conservative(scene, after, {}, {})
    BY <1>2, <1>4, SameNodesConserve
  <2> QED
    BY <1>2, <2>1, StaysFresh
<1>6. Dwindles(scene, after, wl, v, pixels, now)
  BY <1>4 DEF Dwindles, Live
<1> HIDE DEF v, now
<1> QED
  BY <1>1, <1>2, <1>5, <1>6, MessageConserves

(* A frame recomputes what is damaged, so all that is not fresh after it was *)
(* stale, undamaged, before.                                                 *)
LEMMA TickConserves ==
  ASSUME IInv, DInv, Tick
  PROVE  DInv'
<1> DEFINE after == Drained(scene)
           frame == CompositeInto(screen, scene)
           ids == IF scene.full THEN {} ELSE exposed
<1>1. /\ wl' = wl /\ pixels' = pixels /\ nextSurface' = nextSurface
      /\ scene' = after /\ screen' = frame /\ exposed' = ids
  BY DEF Tick, protoVars
<1>2. /\ Neat(scene) /\ Fresh(scene, screen, exposed) /\ LinkOK(wl) /\ Kin(scene)
      /\ Follows(scene, wl, nextSurface, pixels)
  BY DEF DInv
<1>3. scene \in Scenes
  BY SceneFacts
<1>4. after \in Scenes /\ after.nodes = scene.nodes /\ ~after.full /\ after.damage = {}
  BY <1>3 DEF Drained, Scenes
<1>5. \A cell \in Output : frame[cell] = IF scene.full \/ cell \in scene.damage
                                         THEN Composite(SnapshotNodes(scene), cell) ELSE screen[cell]
  BY DEF CompositeInto
<1>6. ids = IF scene.full THEN {} ELSE exposed
  OBVIOUS
<1> HIDE DEF after, frame, ids
<1>7. Neat(after) /\ Kin(after) /\ Follows(after, wl, nextSurface, pixels)
  BY <1>2, <1>4 DEF Neat, Fitted, Listed, Kin, Follows, Live
<1>8. Fresh(after, frame, ids)
  <2>1. /\ CellsOf(after, ids) = CellsOf(scene, ids)
        /\ SnapshotNodes(after) = SnapshotNodes(scene)
    BY <1>4, NodesDecide
  <2>2. ASSUME NEW cell \in Output, cell \notin CellsOf(scene, ids)
        PROVE  frame[cell] = Composite(SnapshotNodes(scene), cell)
    <3>1. CASE scene.full \/ cell \in scene.damage
      BY <1>5, <3>1
    <3>2. CASE ~(scene.full \/ cell \in scene.damage)
      <4>1. ids = exposed /\ frame[cell] = screen[cell]
        BY <1>5, <1>6, <3>2
      <4> QED
        BY <1>2, <2>2, <3>2, <4>1 DEF Fresh
    <3> QED
      BY <3>1, <3>2
  <2> QED
    BY <2>1, <2>2 DEF Fresh
<1> QED
  BY <1>1, <1>2, <1>7, <1>8 DEF DInv

(* new_subsurface: both replicas of the tree gain the same link.             *)
LEMMA NewSubsurfaceConserves ==
  ASSUME IInv, DInv, NEW s \in alive, NEW p \in alive, NEW sync \in BOOLEAN, NewSubsurface(s, p, sync)
  PROVE  DInv'
<1> DEFINE kids == OrderedChildren(wl, p)
           more == kids \o <<s>>
           v == [wl EXCEPT ![s].role = "subsurface", ![s].parent = p, ![s].sync = sync,
                           ![p].order = more]
           after == AttachSubsurface(scene, s, p)
<1>1. /\ s \in Served /\ p \in Served /\ wl[s].parent = NoSurface /\ wl[s].client = wl[p].client
      /\ p \notin WithDescendants(wl, {s})
      /\ wl' = v /\ Publish(after) /\ nextSurface' = nextSurface /\ pixels' = pixels
  BY DEF NewSubsurface, protoVars
<1>2. /\ TreeOK(wl) /\ LinkOK(wl) /\ Follows(scene, wl, nextSurface, pixels) /\ Neat(scene)
      /\ Kin(scene) /\ Fresh(scene, screen, exposed)
  BY DEF DInv, IInv
<1>3. /\ s \in Live(scene) /\ s \in DOMAIN wl /\ s \in Surface
      /\ p \in Live(scene) /\ p \in DOMAIN wl /\ p \in Surface
  BY <1>1, ServedAreLive DEF alive
<1>4. s # p
  <2> DEFINE S == {s}
  <2>1. DOMAIN wl \in SUBSET Surface /\ S \in SUBSET (DOMAIN wl) /\ s \in S
    BY <1>2, <1>3 DEF TreeOK
  <2>2. p \notin WithDescendants(wl, S)
    BY <1>1, SMTT(30)
  <2> HIDE DEF S
  <2> QED
    BY <2>1, <2>2, DescendantsAre
<1>5. /\ kids \in Seq(Surface)
      /\ \A x \in DOMAIN wl : wl[x].parent = p => x \in ToSet(kids)
  BY <1>2, <1>3, OrderedLinked
<1> HIDE DEF kids
<1>6. s \in ToSet(more) /\ \A x \in ToSet(kids) : x \in ToSet(more)
  <2>1. <<s>> \in Seq(Surface) /\ s \in ToSet(<<s>>)
    BY <1>3, SmallSets
  <2> DEFINE last == <<s>>
  <2>2. last \in Seq(Surface) /\ s \in ToSet(last)
    BY <2>1
  <2> HIDE DEF last
  <2>3. ToSet(kids \o last) = ToSet(kids) \cup ToSet(last)
    BY <1>5, <2>2, JoinedSet
  <2> QED
    BY <2>2, <2>3 DEF last
<1> HIDE DEF more
<1>7. /\ DOMAIN v = DOMAIN wl
      /\ \A x \in DOMAIN wl : v[x].client = wl[x].client
      /\ v[s].parent = p /\ \A x \in DOMAIN wl \ {s} : v[x].parent = wl[x].parent
      /\ v[p].order = more /\ \A x \in DOMAIN wl \ {p} : v[x].order = wl[x].order
  <2> DEFINE S == [wl[s] EXCEPT !.role = "subsurface", !.parent = p, !.sync = sync]
             P == [wl[p] EXCEPT !.order = more]
  <2>1. v = [[wl EXCEPT ![s] = S] EXCEPT ![p] = P]
    BY <1>4
  <2>2. wl[s] \in WlSurfaces /\ wl[p] \in WlSurfaces
    BY <1>2, <1>3 DEF TreeOK
  <2> HIDE DEF v
  <2>3. /\ S.parent = p /\ S.client = wl[s].client /\ S.order = wl[s].order
        /\ P.client = wl[p].client /\ P.parent = wl[p].parent /\ P.order = more
    BY <2>2 DEF WlSurfaces
  <2> HIDE DEF S, P
  <2>4. DOMAIN v = DOMAIN wl /\ v[s] = S /\ v[p] = P /\ \A x \in DOMAIN wl \ {s, p} : v[x] = wl[x]
    BY <1>3, <1>4, <2>1
  <2> QED
    BY <1>4, <2>3, <2>4
<1> HIDE DEF v
<1>8. LinkOK(v)
  <2> SUFFICES ASSUME NEW x \in DOMAIN v, v[x].parent # NoSurface
               PROVE  /\ v[v[x].parent].client = v[x].client
                      /\ x \in ToSet(v[v[x].parent].order)
    BY DEF LinkOK
  <2>1. CASE x = s
    BY <1>1, <1>3, <1>6, <1>7, <2>1
  <2>2. CASE x # s
    <3> DEFINE q == wl[x].parent
    <3>1. x \in DOMAIN wl /\ v[x].parent = q /\ q # NoSurface
      BY <1>7, <2>2
    <3>2. q \in DOMAIN wl /\ wl[q].client = wl[x].client /\ x \in ToSet(wl[q].order)
      BY <1>2, <3>1 DEF LinkOK, TreeOK
    <3>3. q = p => x \in ToSet(more)
      BY <1>5, <1>6, <3>1
    <3> HIDE DEF q
    <3> QED
      BY <1>7, <3>1, <3>2, <3>3
  <2> QED
    BY <2>1, <2>2
<1> DEFINE child == scene.nodes[s]
           par == scene.nodes[p]
<1>9. scene \in Scenes /\ child \in Nodes /\ par \in Nodes /\ Around(par.children, p, Surface)
  BY <1>3, SceneFacts, SceneIs DEF SelfListed
<1>10. /\ Live(after) = Live(scene)
       /\ \A x \in Live(scene) \ {s, p} : after.nodes[x] = scene.nodes[x]
       /\ after.nodes[s] = HungBelow(child, p)
       /\ GainedChild(after.nodes[p], par, p, s)
  <2>1. \/ scene.nodes[p].children = <<>>
        \/ \E i \in 1..Len(scene.nodes[p].children) : scene.nodes[p].children[i] = p
    BY <1>9 DEF Around
  <2>2. /\ after \in Scenes
        /\ Live(after) = Live(scene)
        /\ \A x \in Live(scene) \ {s, p} : after.nodes[x] = scene.nodes[x]
        /\ after.nodes[s] = HungBelow(child, p)
        /\ GainedChild(after.nodes[p], par, p, s)
    BY <1>3, <1>4, <1>9, <2>1, AttachSubsurfaceIs
  <2> QED
    BY <2>2
<1>11. PICK list \in Seq(Surface) :
            /\ after.nodes[p] = [par EXCEPT !.children = list]
            /\ \A i \in 1..Len(list) :
                 \/ list[i] \in {s, p}
                 \/ \E j \in 1..Len(par.children) : par.children[j] = list[i]
  BY <1>10 DEF GainedChild
<1> HIDE DEF after
<1>12. Neat(after) /\ Fresh(after, screen, exposed)
  <2>1. after = AttachSubsurface(scene, s, p)
    BY DEF after
  <2>2. Neat(after) /\ Conservative(scene, after, {}, {})
    BY <1>2, <1>3, <1>4, <1>9, <2>1, AttachSubsurfaceConserves
  <2> QED
    BY <1>2, <2>2, StaysFresh
<1>13. /\ after.nodes[s].parent = p /\ after.nodes[s].client = child.client
       /\ after.nodes[s].source = child.source /\ after.nodes[s].children = child.children
       /\ after.nodes[p].parent = par.parent /\ after.nodes[p].client = par.client
       /\ after.nodes[p].source = par.source /\ after.nodes[p].children = list
  BY <1>9, <1>10, <1>11 DEF Nodes, HungBelow
<1>14. Follows(after, v, nextSurface, pixels)
  <2> SUFFICES ASSUME NEW x \in Live(after)
               PROVE  /\ after.nodes[x].parent # NoSurface => after.nodes[x].parent < nextSurface
                      /\ after.nodes[x].parent \in Live(after) => v[x].parent = after.nodes[x].parent
                      /\ x \in DOMAIN pixels => after.nodes[x].source = pixels[x]
    BY DEF Follows
  <2>1. /\ scene.nodes[x].parent # NoSurface => scene.nodes[x].parent < nextSurface
        /\ scene.nodes[x].parent \in Live(scene) => wl[x].parent = scene.nodes[x].parent
        /\ x \in DOMAIN pixels => scene.nodes[x].source = pixels[x]
        /\ x \in DOMAIN wl /\ p < nextSurface
    BY <1>2, <1>3, <1>10, SceneFacts DEF Follows
  <2>2. CASE x = s
    BY <1>7, <1>13, <2>1, <2>2
  <2>3. CASE x # s
    <3>1. after.nodes[x].parent = scene.nodes[x].parent /\ after.nodes[x].source = scene.nodes[x].source
      BY <1>10, <1>13, <2>3
    <3> QED
      BY <1>7, <1>10, <2>1, <2>3, <3>1
  <2> QED
    BY <2>2, <2>3
<1>15. Kin(after)
  <2> SUFFICES ASSUME NEW q \in Live(after), NEW y \in ToSet(after.nodes[q].children) \cap Live(after)
               PROVE  after.nodes[y].client = after.nodes[q].client
    BY DEF Kin
  <2>1. \A x \in Live(after) : after.nodes[x].client = scene.nodes[x].client
    BY <1>10, <1>13
  <2>2. child.client = par.client
    BY <1>1, <1>3, SceneFacts
  <2>3. y \in ToSet(scene.nodes[q].children) \/ (q = p /\ y \in {s, p})
    <3>1. CASE q = p
      <4>1. PICK i \in 1..Len(list) : y = list[i]
        BY <1>13, <3>1 DEF ToSet
      <4>2. CASE list[i] \in {s, p}
        BY <3>1, <4>1, <4>2
      <4>3. CASE list[i] \notin {s, p}
        <5>1. PICK j \in 1..Len(par.children) : par.children[j] = list[i]
          BY <1>11, <4>3
        <5> QED
          BY <3>1, <4>1, <5>1 DEF ToSet
      <4> QED
        BY <4>2, <4>3
    <3>2. CASE q # p
      BY <1>10, <1>13, <3>2
    <3> QED
      BY <3>1, <3>2
  <2>4. y \in Live(scene) /\ q \in Live(scene)
    BY <1>10
  <2>5. scene.nodes[y].client = scene.nodes[q].client
    BY <1>2, <2>2, <2>3, <2>4 DEF Kin
  <2> QED
    BY <2>1, <2>5
<1>16. Neat(scene') /\ Fresh(scene', screen', exposed')
  BY <1>1, <1>12, PublishedFresh
<1>17. scene' = after
  BY <1>1 DEF Publish
<1> QED
  BY <1>1, <1>8, <1>14, <1>15, <1>16, <1>17 DEF DInv

(* Commits that change double-buffered state of the tree.                    *)
LEMMA TreeCommitConserves ==
  ASSUME IInv, DInv, NEW s \in alive, Commits(s), NEW w, TreeOK(w), LinkOK(w), DOMAIN w = DOMAIN wl,
         \A x \in DOMAIN w : /\ w[x].client = wl[x].client /\ w[x].role = wl[x].role
                             /\ w[x].parent = wl[x].parent,
         EffectiveCommit(s, w, Assigned(s, Nothing))
  PROVE  DInv'
<1> DEFINE a == Nothing
<1>1. a \in Acts /\ (a # Nothing /\ s \in DOMAIN toplevels => toplevels[s].configure = "acked")
  BY DEF Acts
<1> HIDE DEF a
<1>2. CommitOf(s, w, Assigned(s, a))
  BY <1>1, AssignedAre
<1>3. EffectiveCommit(s, w, Assigned(s, a)) /\ \A x \in DOMAIN w : w[x].parent = wl[x].parent
  BY DEF a
<1> QED
  BY <1>2, <1>3, EffectiveCommitConserves

(* A commit that changes no tree state.                                      *)
LEMMA CommitConserves ==
  ASSUME IInv, DInv, NEW s \in alive, NEW a \in Assignments(s), Commit(s, a)
  PROVE  DInv'
<1>1. s \in Surface /\ TreeOK(wl) /\ LinkOK(wl)
  BY DEF IInv, DInv, TreeOK, alive
<1>2. a \in Acts
  BY <1>1, AssignmentsAre
<1> DEFINE w == wl
<1>3. /\ Commits(s) /\ EffectiveCommit(s, w, Assigned(s, a))
      /\ a # Nothing /\ s \in DOMAIN toplevels => toplevels[s].configure = "acked"
  BY DEF Commit
<1>4. /\ TreeOK(w) /\ LinkOK(w) /\ DOMAIN w = DOMAIN wl
      /\ \A x \in DOMAIN w : w[x].client = wl[x].client /\ w[x].role = wl[x].role
      /\ \A x \in DOMAIN w : w[x].parent = wl[x].parent
  BY <1>1
<1> HIDE DEF w
<1>5. CommitOf(s, w, Assigned(s, a))
  BY <1>2, <1>3, <1>4, AssignedAre
<1> QED
  BY <1>3, <1>4, <1>5, EffectiveCommitConserves

(* A commit that changes nothing of the tree but what no link depends on.    *)
LEMMA SameLinksConserve ==
  ASSUME IInv, DInv, NEW s \in alive, Commits(s), NEW w \in [DOMAIN wl -> WlSurfaces],
         \A x \in DOMAIN wl : /\ w[x].client = wl[x].client /\ w[x].role = wl[x].role
                              /\ w[x].parent = wl[x].parent /\ w[x].order = wl[x].order
                              /\ w[x].cached = wl[x].cached /\ w[x].sync = wl[x].sync,
         EffectiveCommit(s, w, Assigned(s, Nothing))
  PROVE  DInv'
<1>1. TreeOK(wl) /\ LinkOK(wl)
  BY DEF IInv, DInv
<1>2. TreeOK(w)
  <2>1. \A x \in DOMAIN wl : w[x].role # "subsurface" =>
                               wl[x].role # "subsurface" /\ w[x].cached = Nothing /\ ~w[x].sync
    BY <1>1 DEF TreeOK
  <2> QED
    BY <1>1, <2>1, SameLinks
<1>3. DOMAIN w = DOMAIN wl
  OBVIOUS
<1>4. LinkOK(w)
  BY <1>1, <1>3, SameTreeLinked
<1> QED
  BY <1>2, <1>3, <1>4, TreeCommitConserves

(* A commit with a new position, with a new origin, with a new stacking      *)
(* order.                                                                    *)
LEMMA CommitMoveConserves ==
  ASSUME IInv, DInv, NEW s \in alive, NEW child \in alive, NEW to \in Locations,
         CommitMove(s, child, to)
  PROVE  DInv'
<1> DEFINE w == [wl EXCEPT ![child].location = to]
<1>1. TreeOK(wl) /\ child \in DOMAIN wl /\ to \in Int
  BY ProtocolAssumption DEF IInv, alive
<1>2. /\ w \in [DOMAIN wl -> WlSurfaces]
      /\ \A x \in DOMAIN wl : /\ w[x].client = wl[x].client /\ w[x].role = wl[x].role
                              /\ w[x].parent = wl[x].parent /\ w[x].order = wl[x].order
                              /\ w[x].cached = wl[x].cached /\ w[x].sync = wl[x].sync
  BY <1>1, ZenonT(60) DEF TreeOK, WlSurfaces
<1>3. Commits(s) /\ EffectiveCommit(s, w, Assigned(s, Nothing))
  BY DEF CommitMove
<1> HIDE DEF w
<1> QED
  BY <1>2, <1>3, SameLinksConserve

LEMMA CommitGeometryConserves ==
  ASSUME IInv, DInv, NEW s \in alive, NEW origin \in Origins(s), CommitGeometry(s, origin)
  PROVE  DInv'
<1> DEFINE w == [wl EXCEPT ![s].origin = origin]
<1>1. TreeOK(wl) /\ s \in DOMAIN wl /\ s \in Surface
  BY DEF IInv, alive, TreeOK
<1>2. origin \in Int
  BY <1>1, ProtocolAssumption
<1>3. /\ w \in [DOMAIN wl -> WlSurfaces]
      /\ \A x \in DOMAIN wl : /\ w[x].client = wl[x].client /\ w[x].role = wl[x].role
                              /\ w[x].parent = wl[x].parent /\ w[x].order = wl[x].order
                              /\ w[x].cached = wl[x].cached /\ w[x].sync = wl[x].sync
  BY <1>1, <1>2, ZenonT(60) DEF TreeOK, WlSurfaces
<1>4. Commits(s) /\ EffectiveCommit(s, w, Assigned(s, Nothing))
  BY DEF CommitGeometry
<1> HIDE DEF w
<1> QED
  BY <1>3, <1>4, SameLinksConserve

LEMMA CommitRestackConserves ==
  ASSUME IInv, DInv, NEW s \in alive, NEW i, NEW j, CommitRestack(s, i, j)
  PROVE  DInv'
<1> DEFINE old == wl[s].order
           new == [old EXCEPT ![i] = old[j], ![j] = old[i]]
           w == [wl EXCEPT ![s].order = new]
<1>1. TreeOK(wl) /\ LinkOK(wl) /\ s \in DOMAIN wl
  BY DEF IInv, DInv, alive
<1>2. i \in DOMAIN old /\ j \in DOMAIN old /\ Commits(s) /\ EffectiveCommit(s, w, Assigned(s, Nothing))
  BY DEF CommitRestack
<1>3. old \in Seq(Surface) /\ Around(old, s, Children(wl, s)) /\ wl[s] \in WlSurfaces
  BY <1>1, TreeIs
<1>4. new \in Seq(Surface) /\ ToSet(new) = ToSet(old)
  <2> HIDE DEF old
  <2>1. /\ new \in Seq(Surface) /\ Len(new) = Len(old) /\ DOMAIN old = 1..Len(old)
        /\ \A k \in 1..Len(old) : new[k] = IF k = j THEN old[i] ELSE IF k = i THEN old[j] ELSE old[k]
    BY <1>2, <1>3
  <2> HIDE DEF new
  <2>2. \A k \in 1..Len(new) : \E l \in 1..Len(old) : new[k] = old[l]
    BY <1>2, <2>1
  <2>3. \A l \in 1..Len(old) : \E k \in 1..Len(new) : new[k] = old[l]
    <3> SUFFICES ASSUME NEW l \in 1..Len(old) PROVE \E k \in 1..Len(new) : new[k] = old[l]
      OBVIOUS
    <3>1. new[l] = old[l] \/ new[i] = old[l] \/ new[j] = old[l]
      BY <1>2, <2>1
    <3> QED
      BY <1>2, <2>1, <3>1
  <2>4. DOMAIN new = 1..Len(new) /\ DOMAIN old = 1..Len(old)
    BY <1>3, <2>1
  <2>5. \A e : e \in ToSet(new) <=> e \in ToSet(old)
    BY <2>2, <2>3, <2>4 DEF ToSet
  <2> QED
    BY <2>1, <2>5
<1>5. Around(new, s, Children(wl, s))
  <2> HIDE DEF old, new
  <2>1. \A k \in 1..Len(new) : new[k] \in ToSet(old)
    <3>1. DOMAIN new = 1..Len(new)
      BY <1>4
    <3>2. \A k \in 1..Len(new) : new[k] \in ToSet(new)
      BY <3>1 DEF ToSet
    <3> QED
      BY <1>4, <3>2
  <2>2. new # <<>> => old # <<>>
    <3>1. new # <<>> => 1 \in 1..Len(new)
      BY <1>4
    <3> QED
      BY <1>4, <2>1, <3>1, SmallSets
  <2>3. s \in ToSet(old) => \E k \in 1..Len(new) : new[k] = s
    BY <1>4 DEF ToSet
  <2>4. old # <<>> => s \in ToSet(old)
    BY <1>3 DEF Around, ToSet
  <2>5. \A x \in ToSet(old) : x = s \/ x \in Children(wl, s)
    BY <1>3 DEF Around, ToSet
  <2> QED
    BY <2>1, <2>2, <2>3, <2>4, <2>5 DEF Around
<1> HIDE DEF new, old
<1>6. /\ w \in [DOMAIN wl -> WlSurfaces] /\ DOMAIN w = DOMAIN wl
      /\ w[s].order = new
      /\ \A x \in DOMAIN wl : /\ w[x].client = wl[x].client /\ w[x].role = wl[x].role
                              /\ w[x].parent = wl[x].parent
                              /\ w[x].cached = wl[x].cached /\ w[x].sync = wl[x].sync
                              /\ x # s => w[x].order = wl[x].order
  BY <1>1, <1>4, ZenonT(60) DEF TreeOK, WlSurfaces
<1> HIDE DEF w
<1>7. TreeOK(w)
  <2>1. \A x \in DOMAIN wl : Children(w, x) = Children(wl, x)
    BY <1>6 DEF Children
  <2>2. \A x \in DOMAIN wl : Around(w[x].order, x, Children(w, x))
    BY <1>1, <1>5, <1>6, <2>1 DEF TreeOK
  <2> QED
    BY <1>1, <1>6, <2>2 DEF TreeOK
<1>8. LinkOK(w)
  <2>1. \A x \in DOMAIN wl : ToSet(w[x].order) = ToSet(wl[x].order)
    BY <1>4, <1>6 DEF old
  <2>2. \A x \in DOMAIN wl : wl[x].parent # NoSurface => wl[x].parent \in DOMAIN wl
    BY <1>1 DEF TreeOK
  <2> QED
    BY <1>1, <1>6, <2>1, <2>2 DEF LinkOK
<1> QED
  BY <1>2, <1>6, <1>7, <1>8, TreeCommitConserves

-----------------------------------------------------------------------------
(* The frame is fresh but for what is exposed.                               *)

(* Nothing is drawn, and everything is to be repainted.                      *)
LEMMA InitConserves == Init => DInv
<1> SUFFICES ASSUME Init PROVE DInv
  OBVIOUS
<1>1. wl = <<>> /\ scene = EmptyScene
  BY DEF Init
<1>2. DOMAIN wl = {} /\ Live(scene) = {} /\ scene.full
  BY <1>1 DEF EmptyScene, Live
<1>3. scene \in Scenes
  BY InitHolds, SceneFacts
<1> QED
  BY <1>2, <1>3 DEF DInv, LinkOK, Follows, Neat, Fitted, Listed, Kin, Fresh

(* Only wl_subsurface.destroy, which no handler hears of, breaks DInv: the   *)
(* tree loses a link that the scene keeps.                                   *)
LEMMA DamageInductive ==
  ASSUME "unsubsurface" \notin Requests
  PROVE  IInv /\ DInv /\ [Next]_vars => DInv'
<1> SUFFICES ASSUME IInv, DInv, [Next]_vars PROVE DInv'
  OBVIOUS
<1>1. ASSUME NEW k \in Client, NewSurface(k) \/ Disconnect(k) PROVE DInv'
  <2>1. CASE NewSurface(k)
    BY <2>1, NewSurfaceConserves
  <2>2. CASE Disconnect(k)
    BY <2>2, ClientGoneDwindles DEF Disconnect
  <2> QED
    BY <1>1, <2>1, <2>2
<1>2. ASSUME NEW s \in alive,
             \/ NewToplevel(s) \/ AckConfigure(s) \/ ToplevelDestroyed(s)
             \/ SubsurfaceDestroyed(s) \/ SurfaceDestroyed(s)
      PROVE  DInv'
  <2>1. ~SubsurfaceDestroyed(s)
    BY DEF SubsurfaceDestroyed
  <2> QED
    BY <1>2, <2>1, NewToplevelConserves, AckConfigureConserves, ToplevelDestroyedConserves,
       SurfaceDestroyedConserves
<1>3. ASSUME NEW s \in alive, NEW p \in alive, NEW sync \in BOOLEAN, NewSubsurface(s, p, sync)
      PROVE  DInv'
  BY <1>3, NewSubsurfaceConserves
<1>4. ASSUME NEW s \in alive, NEW a \in Assignments(s),
             CachedCommit(s, a) \/ UnconfiguredCommit(s, a) \/ Commit(s, a)
      PROVE  DInv'
  <2>1. CASE UnconfiguredCommit(s, a)
    <3> DEFINE k == wl[s].client
    <3>1. Publish(ClientGone(scene, k)) /\ UNCHANGED <<wl, protoVars>>
      BY <2>1 DEF UnconfiguredCommit
    <3> HIDE DEF k
    <3> QED
      BY <3>1, ClientGoneDwindles
  <2> QED
    BY <1>4, <2>1, CachedCommitConserves, CommitConserves
<1>5. ASSUME NEW s \in alive, NEW child \in alive, NEW to \in Locations, CommitMove(s, child, to)
      PROVE  DInv'
  BY <1>5, CommitMoveConserves
<1>6. ASSUME NEW s \in alive, NEW i, NEW j, CommitRestack(s, i, j)
      PROVE  DInv'
  BY <1>6, CommitRestackConserves
<1>7. ASSUME NEW s \in alive, NEW origin \in Origins(s), CommitGeometry(s, origin)
      PROVE  DInv'
  BY <1>7, CommitGeometryConserves
<1>8. CASE Tick
  BY <1>8, TickConserves
<1>9. CASE RepaintAll
  BY <1>9, RepaintAllConserves
<1>10. CASE UNCHANGED vars
  BY <1>10 DEF DInv, vars, protoVars
<1> QED
  BY <1>1, <1>2, <1>3, <1>4, <1>5, <1>6, <1>7, <1>8, <1>9, <1>10 DEF Next

(* A frame that is fresh but for what is exposed is stale only there.        *)
LEMMA FreshIsEnough == DInv => StaleOnlyWhereExposed
<1> SUFFICES ASSUME DInv, NEW c \in StaleCells PROVE c \in CellsOf(scene, exposed)
  BY DEF StaleOnlyWhereExposed
<1>1. ~scene.full /\ c \in Output \ scene.damage /\ screen[c] # FromScratch(scene)[c]
  BY DEF StaleCells
<1>2. screen[c] # Composite(SnapshotNodes(scene), c)
  BY <1>1 DEF FromScratch
<1> QED
  BY <1>1, <1>2 DEF DInv, Fresh

(* Damage is conservative: a cell that the next frame will not recompute and *)
(* that shows something else than compositing the scene from nothing would   *)
(* lies under a subsurface that came back with its parent, or a surface      *)
(* whose opacity changed under partial damage.  This is about the damage of  *)
(* every operation of scene/state.rs, the rectangles of build_pixel_block    *)
(* and the compositor's retained frame, for any clients, surfaces and        *)
(* commits that never use wl_subsurface.destroy (with it the scene keeps a   *)
(* link that Smithay has dropped, and the property is false).                *)
THEOREM DamageIsConservative ==
  ASSUME "unsubsurface" \notin Requests
  PROVE  Spec => []StaleOnlyWhereExposed
<1>1. Init => DInv
  BY InitConserves
<1>2. IInv /\ DInv /\ [Next]_vars => DInv'
  BY DamageInductive
<1>3. DInv => StaleOnlyWhereExposed
  BY FreshIsEnough
<1> QED
  BY <1>1, <1>2, <1>3, Invariance, PTL DEF Spec

(* The scene hangs a surface where Smithay's tree does, as long as the        *)
(* parent is in the scene: the replica that attach_subsurface builds and      *)
(* surface_destroyed prunes is never another tree than the one it copies.     *)
THEOREM SceneHangsAsTheTree ==
  ASSUME "unsubsurface" \notin Requests
  PROVE  Spec => [](\A x \in Live(scene) : scene.nodes[x].parent \in Live(scene) =>
                                            wl[x].parent = scene.nodes[x].parent)
<1>1. Init => DInv
  BY InitConserves
<1>2. IInv /\ DInv /\ [Next]_vars => DInv'
  BY DamageInductive
<1>3. DInv => \A x \in Live(scene) : scene.nodes[x].parent \in Live(scene) =>
                                      wl[x].parent = scene.nodes[x].parent
  BY DEF DInv, Follows
<1> QED
  BY <1>1, <1>2, <1>3, Invariance, PTL DEF Spec

(* scene_graph_v1.md 9.1, "Incremental must equal from-scratch", for every    *)
(* sequence of commits that leaves no surface in `exposed`.                   *)
THEOREM IncrementalUnlessExposed ==
  ASSUME "unsubsurface" \notin Requests
  PROVE  Spec => [](exposed = {} => IncrementalEqualsFromScratch)
<1>1. StaleOnlyWhereExposed => (exposed = {} => IncrementalEqualsFromScratch)
  BY DEF StaleOnlyWhereExposed, IncrementalEqualsFromScratch, CellsOf
<1> QED
  BY <1>1, DamageIsConservative, PTL
=============================================================================
