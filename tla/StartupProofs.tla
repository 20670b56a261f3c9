---------------------------- MODULE StartupProofs ----------------------------
(***************************************************************************)
(* Proofs about Startup, for every machine and every number of clients:    *)
(* the types, with at most one report from T-commit to main; that the      *)
(* screen is given back before run returns; that the first usable          *)
(* connector is driven at its best mode; and that what wl_output           *)
(* advertises is that mode, its rate rounded to the nearest millihertz.    *)
(* The first lemmas are about Discovery's functions: the arithmetic of     *)
(* RefreshMhz, what Scan keeps, and what SelectMode and SelectOutput pick. *)
(***************************************************************************)
EXTENDS Startup, Recursion, TLAPS

(* Where the two threads can be at each point of the main thread, and what   *)
(* T-commit holds and has reported at each point of its own.                 *)
Lifetimes ==
  /\ main \in {"binding", "spawning"} => commit = "unborn"
  /\ main \in {"binding", "spawning", "awaiting", "telling", "rendering", "aborting"} =>
       renderer = "unborn"
  /\ renderer = "unspawnable" \/ renderer = "running" => main \notin {"binding", "spawning"}
  /\ commit \in {"unborn", "ended"} => opened = {} /\ driven = Undriven
  /\ commit \in {"session", "probing", "failing"} => opened = {}
  /\ commit \in {"chosen", "preparing", "looping"} => opened = {candidate}
  /\ commit \in {"unborn", "session", "probing", "chosen"} => ready = <<>>
  /\ commit = "failing" => ready[1] = Failure
  /\ main \in {"telling", "rendering"} => ready # <<>> /\ ready[1] # Failure

threads == <<main, commit, renderer>>
held    == <<machine, candidate, opened, driven, ready>>

(* Each step of main moves main, and starts a thread at most.                *)
LEMMA MainMoves ==
  ASSUME MainStep
  PROVE  /\ UNCHANGED <<held, shutdown, listening>>
         /\ \/ main = "binding" /\ main' = "spawning" /\ UNCHANGED <<commit, renderer>>
               /\ bound' \in {TRUE, bound}
            \/ /\ main = "spawning" /\ UNCHANGED <<renderer, bound>>
               /\ \/ main' = "awaiting" /\ commit' = "session"
                  \/ main' = "dropping" /\ UNCHANGED commit
            \/ /\ main = "awaiting" /\ main' \in {"aborting", "telling"}
               /\ main' = "telling" => ready # <<>> /\ ready[1] # Failure
               /\ UNCHANGED <<commit, renderer, bound>>
            \/ main = "telling" /\ main' = "rendering" /\ UNCHANGED <<commit, renderer, bound>>
            \/ /\ main = "rendering" /\ UNCHANGED <<commit, bound>>
               /\ \/ main' = "joining" /\ renderer' = "running"
                  \/ main' = "dropping" /\ renderer' = "unspawnable"
            \/ /\ main' = "dropping" /\ UNCHANGED <<commit, renderer, bound>>
               /\ commit = "ended"
               /\ main = "aborting" \/ (main = "joining" /\ renderer = "ended")
            \/ main = "dropping" /\ main' = "leaving" /\ UNCHANGED <<commit, renderer, bound>>
<1>1. CASE BindSocket
  BY <1>1 DEF BindSocket, held, setup
<1>2. CASE SpawnCommit
  BY <1>2 DEF SpawnCommit, held, setup, dispatch
<1>3. CASE AwaitMode
  BY <1>3 DEF AwaitMode, held, setup, dispatch
<1>4. CASE TellMode \/ DropHost
  BY <1>4 DEF TellMode, DropHost, held, setup, dispatch
<1>5. CASE SpawnRender
  BY <1>5 DEF SpawnRender, held, setup, dispatch
<1>6. CASE Join
  BY <1>6 DEF Join, held, setup, dispatch
<1> QED
  BY <1>1, <1>2, <1>3, <1>4, <1>5, <1>6 DEF MainStep

(* Each step of T-commit, whatever the machine, and whatever fails.          *)
LEMMA CommitMoves ==
  ASSUME CommitStep \/ LoopFails
  PROVE  /\ UNCHANGED <<machine, shutdown, main, renderer, bound, listening>>
         /\ \/ /\ commit = "session" /\ commit' = "probing"
               /\ UNCHANGED <<candidate, opened, ready>>
            \/ /\ commit \in {"session", "probing", "chosen"} /\ commit' = "failing"
               /\ opened' = {} /\ UNCHANGED candidate /\ ready' = Append(ready, Failure)
            \/ /\ commit = "probing" /\ commit' = "chosen" /\ candidate \in DOMAIN machine
               /\ opened' = opened \cup {candidate} /\ UNCHANGED <<candidate, ready>>
            \/ /\ commit = "probing" /\ commit' = "probing"
               /\ candidate' = candidate + 1 /\ UNCHANGED <<opened, ready>>
            \/ /\ commit = "chosen" /\ commit' = "preparing" /\ UNCHANGED <<candidate, opened>>
               /\ \E r : ready' = Append(ready, r)
            \/ /\ commit = "preparing" /\ commit' = "looping"
               /\ UNCHANGED <<candidate, opened, ready>>
            \/ /\ commit \in {"chosen", "failing", "preparing", "looping"} /\ commit' = "ended"
               /\ opened' = {} /\ driven' = Undriven /\ UNCHANGED <<candidate, ready>>
<1>1. CASE OpenSession
  BY <1>1 DEF OpenSession, FailSetup, Report, dispatch
<1>2. CASE LookAtCandidate
  BY <1>2, Zenon DEF LookAtCandidate, dispatch
<1>3. CASE NoCandidateLeft
  BY <1>3 DEF NoCandidateLeft, FailSetup, Report, dispatch
<1>4. CASE SetUp
  <2>1. /\ commit = "chosen"
        /\ UNCHANGED <<machine, shutdown, main, renderer, candidate, bound, listening>>
    BY <1>4 DEF SetUp, dispatch
  <2>2. \/ EndCommit /\ UNCHANGED ready
        \/ FailSetup
        \/ commit' = "preparing" /\ UNCHANGED opened /\ \E r : ready' = Append(ready, r)
    BY <1>4, Zenon DEF SetUp, Report
  <2> QED
    BY <2>1, <2>2 DEF EndCommit, FailSetup, Report
<1>5. CASE CommitReturns \/ LoopEnds \/ LoopFails
  BY <1>5 DEF CommitReturns, LoopEnds, LoopFails, EndCommit, dispatch
<1>6. CASE PrepareLoop
  BY <1>6 DEF PrepareLoop, EndCommit, dispatch
<1> QED
  BY <1>1, <1>2, <1>3, <1>4, <1>5, <1>6 DEF CommitStep

(* The dispatch thread, its clients, the flag and T-render's end.            *)
LEMMA OthersMove ==
  ASSUME RenderEnds \/ HandleControl \/ (\E c \in Client : BindOutput(c)) \/ RaiseShutdown
           \/ UNCHANGED vars,
         TypeOK
  PROVE  /\ UNCHANGED <<held, main, commit>>
         /\ shutdown' \in BOOLEAN /\ bound' \in BOOLEAN /\ listening' \in BOOLEAN
         /\ renderer' = renderer \/ (renderer = "running" /\ renderer' = "ended")
<1>1. CASE RenderEnds
  BY <1>1 DEF RenderEnds, held, setup, dispatch, TypeOK
<1>2. CASE HandleControl
  <2>1. UNCHANGED <<held, main, commit, renderer, shutdown>>
    BY <1>2 DEF HandleControl, held, setup
  <2>2. bound' \in BOOLEAN /\ listening' \in BOOLEAN
    BY <1>2 DEF HandleControl, TypeOK
  <2> QED
    BY <2>1, <2>2 DEF TypeOK
<1>3. CASE \E c \in Client : BindOutput(c)
  BY <1>3 DEF BindOutput, held, setup, TypeOK
<1>4. CASE RaiseShutdown \/ UNCHANGED vars
  BY <1>4 DEF RaiseShutdown, vars, held, setup, dispatch, TypeOK
<1> QED
  BY <1>1, <1>2, <1>3, <1>4

-----------------------------------------------------------------------------
LEMMA NextTypeAndLifetimes ==
  TypeOK /\ Lifetimes /\ [Next]_vars => TypeOK' /\ Lifetimes'
<1> SUFFICES ASSUME TypeOK, Lifetimes, [Next]_vars PROVE TypeOK' /\ Lifetimes'
  OBVIOUS
<1>1. CASE MainStep
  <2>1. /\ UNCHANGED <<machine, candidate, opened, driven, ready, shutdown, listening>>
    BY <1>1, MainMoves DEF held
  <2>2. Lifetimes'
    BY <1>1, <2>1, MainMoves DEF Lifetimes, TypeOK
  <2>3. TypeOK'
    BY <1>1, <2>1, MainMoves DEF TypeOK
  <2> QED
    BY <2>2, <2>3
<1>2. CASE CommitStep \/ LoopFails
  <2>1. UNCHANGED <<machine, shutdown, main, renderer, bound, listening>>
    BY <1>2, CommitMoves
  <2>2. Lifetimes'
    BY <1>2, <2>1, CommitMoves DEF Lifetimes
  <2>3. Len(ready') <= 1
    BY <1>2, CommitMoves DEF Lifetimes, TypeOK
  <2>4. /\ candidate' \in Nat \ {0} /\ opened' \subseteq DOMAIN machine
        /\ commit' \in {"unborn", "session", "probing", "chosen", "failing", "preparing",
                       "looping", "ended"}
    BY <1>2, CommitMoves DEF TypeOK
  <2> QED
    BY <2>1, <2>2, <2>3, <2>4 DEF TypeOK
<1>3. CASE RenderEnds \/ HandleControl \/ (\E c \in Client : BindOutput(c)) \/ RaiseShutdown
             \/ UNCHANGED vars
  <2>1. /\ UNCHANGED <<machine, candidate, opened, driven, ready, main, commit>>
        /\ shutdown' \in BOOLEAN /\ bound' \in BOOLEAN /\ listening' \in BOOLEAN
        /\ renderer' = renderer \/ (renderer = "running" /\ renderer' = "ended")
    BY <1>3, OthersMove DEF held
  <2>2. Lifetimes'
    BY <2>1 DEF Lifetimes
  <2>3. TypeOK'
    BY <2>1 DEF TypeOK
  <2> QED
    BY <2>2, <2>3
<1> QED
  BY <1>1, <1>2, <1>3 DEF Next

(* T-commit is joined before main goes on to drop the host, and once it has  *)
(* ended nothing starts it again.                                            *)
LEMMA NextGivenBack ==
  TypeOK /\ Lifetimes /\ ScreenIsGivenBack /\ [Next]_vars => ScreenIsGivenBack'
<1> SUFFICES ASSUME TypeOK, Lifetimes, ScreenIsGivenBack, [Next]_vars PROVE ScreenIsGivenBack'
  OBVIOUS
<1>1. CASE MainStep
  <2>1. UNCHANGED <<opened, driven>>
    BY <1>1, MainMoves DEF held
  <2> QED
    BY <1>1, <2>1, MainMoves DEF ScreenIsGivenBack, Lifetimes, TypeOK, held
<1>2. CASE CommitStep \/ LoopFails
  <2>1. UNCHANGED <<main, renderer>> /\ commit \notin {"unborn", "ended"}
    BY <1>2, CommitMoves
  <2>2. commit \in {"preparing", "looping"} =>
          \/ commit' = "looping" /\ UNCHANGED <<candidate, opened>>
          \/ commit' = "ended" /\ opened' = {} /\ driven' = Undriven
    BY <1>2, CommitMoves
  <2> QED
    BY <2>1, <2>2 DEF ScreenIsGivenBack
<1>3. CASE RenderEnds \/ HandleControl \/ (\E c \in Client : BindOutput(c)) \/ RaiseShutdown
             \/ UNCHANGED vars
  <2>1. /\ UNCHANGED <<main, commit, candidate, opened, driven>>
        /\ renderer' = renderer \/ (renderer = "running" /\ renderer' = "ended")
    BY <1>3, OthersMove DEF held
  <2> QED
    BY <2>1 DEF ScreenIsGivenBack
<1> QED
  BY <1>1, <1>2, <1>3 DEF Next

-----------------------------------------------------------------------------
(* The arithmetic of refresh_mhz.                                            *)
LEMMA Product == \A a, b \in Nat : a * b \in Nat
OBVIOUS

LEMMA AtMost ==
  ASSUME NEW a \in Nat, NEW b \in Nat
  PROVE  Min({a, b}) = IF a <= b THEN a ELSE b
BY DEF Min

LEMMA NumeratorType == \A t \in Timings : Numerator(t) \in Nat
BY DiscoveryAssumption, Product DEF Numerator, Timings

LEMMA DenominatorType == \A t \in Timings : Denominator(t) \in Nat
<1> SUFFICES ASSUME NEW t \in Timings PROVE Denominator(t) \in Nat
  OBVIOUS
<1> DEFINE doubled == IF t.doublescan THEN 2 ELSE 1
           scans == IF t.vscan > 1 THEN t.vscan ELSE 1
<1>1. t.htotal \in Nat /\ t.vtotal \in Nat /\ doubled \in Nat /\ scans \in Nat
  BY DEF Timings
<1> HIDE DEF doubled, scans
<1>2. t.htotal * t.vtotal \in Nat
  BY <1>1, Product
<1>3. t.htotal * t.vtotal * doubled \in Nat
  BY <1>1, <1>2, Product
<1>4. t.htotal * t.vtotal * doubled * scans \in Nat
  BY <1>1, <1>3, Product
<1> QED
  BY <1>4 DEF Denominator, doubled, scans

LEMMA Division ==
  ASSUME NEW a \in Nat, NEW d \in Nat \ {0}
  PROVE  /\ a \div d \in Nat /\ (a \div d) * d <= a /\ a < (a \div d) * d + d
         /\ 2 * (a \div 2) <= a /\ a <= 2 * (a \div 2) + 1 /\ a \div 2 \in Nat
OBVIOUS

LEMMA RefreshType == \A t \in Timings : RefreshMhz(t) \in Nat
<1> SUFFICES ASSUME NEW t \in Timings, Numerator(t) # 0, Denominator(t) # 0
             PROVE  RefreshMhz(t) \in Nat
  BY DEF RefreshMhz
<1>1. Numerator(t) \in Nat /\ Denominator(t) \in Nat \ {0}
  BY NumeratorType, DenominatorType
<1>2. Denominator(t) \div 2 \in Nat
  BY <1>1, Division
<1>3. Numerator(t) + Denominator(t) \div 2 \in Nat
  BY <1>1, <1>2
<1>4. (Numerator(t) + Denominator(t) \div 2) \div Denominator(t) \in Nat
  BY <1>1, <1>3, Division
<1> QED
  BY <1>4, AtMost, DiscoveryAssumption DEF RefreshMhz

(* The rounding is to the nearest, and the zero is for what rounds to zero.  *)
LEMMA RefreshIsNearest ==
  ASSUME NEW t \in Timings, NEW num, num = Numerator(t), NEW den, den = Denominator(t)
  PROVE  /\ den = 0 \/ 2 * num < den => RefreshMhz(t) = 0
         /\ ~(den = 0 \/ 2 * num < den) =>
              LET apart == 2 * (RefreshMhz(t) * den - num)
              IN  /\ RefreshMhz(t) > 0 /\ apart <= den
                  /\ -den <= apart \/ RefreshMhz(t) = MaxRate
<1>1. num \in Nat /\ den \in Nat
  BY NumeratorType, DenominatorType
<1>2. CASE den = 0 \/ num = 0
  BY <1>1, <1>2 DEF RefreshMhz
<1>3. CASE den # 0 /\ num # 0
  <2> DEFINE half == den \div 2
             exact == (num + half) \div den
  <2>1. half \in Nat /\ 2 * half <= den /\ den <= 2 * half + 1
    BY <1>1, Division, <1>3
  <2>2. exact \in Nat /\ exact * den <= num + half /\ num + half < exact * den + den
    <3> HIDE DEF half
    <3>1. num + half \in Nat
      BY <1>1, <2>1
    <3> QED
      BY <1>1, <1>3, <3>1, Division
  <2>3. RefreshMhz(t) = IF exact <= MaxRate THEN exact ELSE MaxRate
    <3>1. RefreshMhz(t) = Min({exact, MaxRate})
      BY <1>3 DEF RefreshMhz
    <3> HIDE DEF exact
    <3> QED
      BY <2>2, <3>1, AtMost, DiscoveryAssumption
  <2> HIDE DEF half, exact
  <2>4. exact * den \in Nat /\ (exact = 0 => exact * den = 0) /\ (exact # 0 => den <= exact * den)
    BY <1>1, <2>2
  <2>5. ASSUME 2 * num < den PROVE exact = 0
    BY <1>1, <2>1, <2>2, <2>4, <2>5
  <2>6. ASSUME ~(2 * num < den) PROVE exact # 0
    BY <1>1, <2>1, <2>2, <2>4, <2>6
  <2>7. -den <= 2 * (exact * den - num) /\ 2 * (exact * den - num) <= den
    <3>1. PICK p \in Nat : p = exact * den
      BY <2>4
    <3>2. p <= num + half /\ num + half < p + den
      BY <2>2, <3>1
    <3>3. -den <= 2 * (p - num) /\ 2 * (p - num) <= den
      BY <1>1, <2>1, <3>2
    <3> QED
      BY <3>1, <3>3
  <2>8. exact > MaxRate => MaxRate * den <= exact * den /\ MaxRate * den \in Nat
    BY <1>1, <2>2, DiscoveryAssumption
  <2> QED
    BY <1>1, <1>3, <2>2, <2>3, <2>4, <2>5, <2>6, <2>7, <2>8, DiscoveryAssumption
<1> QED
  BY <1>2, <1>3

-----------------------------------------------------------------------------
(* Outranks orders a connector's modes, and so one of them is the best.      *)
LEMMA ModeKeys ==
  ASSUME NEW modes \in Seq(Modes), NEW i \in DOMAIN modes
  PROVE  Area(modes[i]) \in Nat /\ RefreshMhz(modes[i].timing) \in Nat
<1>1. modes[i] \in Modes
  OBVIOUS
<1>2. /\ modes[i].width \in Nat /\ modes[i].height \in Nat /\ modes[i].timing \in Timings
  BY <1>1 DEF Modes
<1> QED
  BY <1>2, Product, RefreshType DEF Area

LEMMA OutranksOrders ==
  ASSUME NEW modes \in Seq(Modes),
         NEW i \in DOMAIN modes, NEW j \in DOMAIN modes, NEW k \in DOMAIN modes
  PROVE  /\ ~(Outranks(modes, i, j) /\ Outranks(modes, j, i))
         /\ i # j => Outranks(modes, i, j) \/ Outranks(modes, j, i)
         /\ Outranks(modes, i, j) /\ Outranks(modes, j, k) => Outranks(modes, i, k)
<1> DEFINE a(x) == Area(modes[x])
           r(x) == RefreshMhz(modes[x].timing)
<1>1. /\ a(i) \in Nat /\ a(j) \in Nat /\ a(k) \in Nat
      /\ r(i) \in Nat /\ r(j) \in Nat /\ r(k) \in Nat
      /\ i \in Nat /\ j \in Nat /\ k \in Nat
  BY ModeKeys
<1>2. \A x, y \in {i, j, k} :
        Outranks(modes, x, y) <=>
          (a(x) > a(y) \/ (a(x) = a(y) /\ (r(x) > r(y) \/ (r(x) = r(y) /\ x < y))))
  BY DEF Outranks
<1> HIDE DEF a, r
<1> QED
  BY <1>1, <1>2

LEMMA BestMode ==
  ASSUME NEW modes \in Seq(Modes), modes # <<>>
  PROVE  \E i \in DOMAIN modes : \A j \in DOMAIN modes \ {i} : Outranks(modes, i, j)
<1> DEFINE n == Len(modes)
           Best(i, k) == i \in 1..k /\ \A j \in 1..k : j # i => Outranks(modes, i, j)
           T == {k \in 0..n : k # 0 => \E i \in 1..k : Best(i, k)}
<1>1. n \in Nat /\ n # 0 /\ DOMAIN modes = 1..n
  OBVIOUS
<1> HIDE DEF n
<1>2. 0 \in T
  BY <1>1
<1>3. ASSUME NEW k \in 0..n, k \in T, k < n PROVE k + 1 \in T
  <2>1. CASE k = 0
    <3>1. Best(1, 1)
      OBVIOUS
    <3> HIDE DEF Best
    <3> QED
      BY <1>1, <1>3, <2>1, <3>1
  <2>2. CASE k # 0
    <3>1. PICK i \in 1..k : Best(i, k)
      BY <1>3, <2>2
    <3>2. i \in 1..n /\ k + 1 \in 1..n /\ i # k + 1
      BY <1>1, <1>3, <3>1
    <3>3. Outranks(modes, i, k + 1) \/ Outranks(modes, k + 1, i)
      BY <1>1, <3>2, OutranksOrders
    <3>4. ASSUME Outranks(modes, i, k + 1) PROVE Best(i, k + 1)
      BY <1>3, <3>1, <3>4
    <3>5. ASSUME Outranks(modes, k + 1, i) PROVE Best(k + 1, k + 1)
      <4>1. ASSUME NEW j \in 1..(k + 1), j # k + 1 PROVE Outranks(modes, k + 1, j)
        <5>1. j \in 1..k /\ j \in 1..n
          BY <1>1, <1>3, <4>1
        <5>2. CASE j = i
          BY <3>5, <5>2
        <5>3. CASE j # i
          <6>1. Outranks(modes, i, j)
            BY <3>1, <5>1, <5>3
          <6> QED
            BY <1>1, <3>2, <3>5, <5>1, <6>1, OutranksOrders
        <5> QED
          BY <5>2, <5>3
      <4> QED
        BY <1>3, <4>1
    <3> HIDE DEF Best
    <3>6. \E x \in 1..(k + 1) : Best(x, k + 1)
      BY <1>3, <3>1, <3>3, <3>4, <3>5
    <3> QED
      BY <1>1, <1>3, <3>6
  <2> QED
    BY <2>1, <2>2
<1> HIDE DEF T
<1>4. \A k \in 0..n : k \in T
  BY <1>1, <1>2, <1>3, IntervalInduction
<1>5. \E i \in 1..n : Best(i, n)
  <2> HIDE DEF Best
  <2> QED
    BY <1>1, <1>4 DEF T
<1> QED
  BY <1>1, <1>5

-----------------------------------------------------------------------------
(* What Scan's recursion computes.                                           *)
Entry(cs, n) == [index |-> n, info |-> cs[n]]
Entries(cs) == {Entry(cs, n) : n \in DOMAIN cs}

Keeps(kept, cs) ==
  /\ kept[0] = <<>>
  /\ \A n \in 0..(Len(cs) - 1) :
       kept[n + 1] = IF cs[n + 1].probes THEN Append(kept[n], Entry(cs, n + 1)) ELSE kept[n]

LEMMA ScanKeeps ==
  ASSUME NEW cs \in Seq(ConnectorInfos)
  PROVE  \E kept \in [0..Len(cs) -> Seq(Entries(cs))] :
           Keeps(kept, cs) /\ Scan(cs) = kept[Len(cs)]
<1> DEFINE n == Len(cs)
           V == Seq(Entries(cs))
           Step(i, s) == IF cs[i].probes THEN Append(s, Entry(cs, i)) ELSE s
           step == [i \in 1..n |-> [s \in V |-> Step(i, s)]]
           Own(f) == [i \in 0..n |-> IF i = 0 THEN <<>> ELSE Step(i, f[i - 1])]
<1>1. n \in Nat /\ <<>> \in V
  OBVIOUS
<1>2. \A i \in 1..n : \A s \in V : Step(i, s) \in V
  <2>1. \A i \in 1..n : Entry(cs, i) \in Entries(cs)
    BY DEF Entries
  <2> QED
    BY <2>1
<1> HIDE DEF n, V, Step
<1>3. Steps(n, V, step)
  BY <1>2 DEF Steps
<1>4. \A i \in 1..n : \A s \in V : step[i][s] = Step(i, s)
  OBVIOUS
<1> HIDE DEF step
<1>5. PICK f : Recursive(f, n, V, <<>>, step)
  BY <1>1, <1>3, RecursiveFunction
<1>6. \A i \in 1..n : f[i] = Step(i, f[i - 1])
  <2> SUFFICES ASSUME NEW i \in 1..n PROVE f[i] = Step(i, f[i - 1])
    OBVIOUS
  <2>1. f[i - 1] \in V
    BY <1>1, <1>5 DEF Recursive
  <2> QED
    BY <1>4, <1>5, <2>1 DEF Recursive
<1>7. f = Own(f)
  BY <1>1, <1>5, <1>6 DEF Recursive
<1> DEFINE own == CHOOSE g : g = Own(g)
<1>8. own = Own(own)
  BY <1>7
<1>9. Scan(cs) = own[n]
  BY DEF Scan, Entry, n, Step
<1> HIDE DEF own
<1>10. own[0] = <<>> /\ \A i \in 1..n : own[i] = Step(i, own[i - 1])
  BY <1>1, <1>8
<1>11. \A i \in 1..n : own[i - 1] \in V => own[i] \in V
  BY <1>2, <1>10
<1>12. \A i \in 0..n : own[i] \in V
  BY <1>1, <1>10, <1>11, RecursionStays
<1>13. own \in [0..n -> V]
  BY <1>8, <1>12
<1>14. Keeps(own, cs)
  <2>1. \A i \in 0..(n - 1) : i + 1 \in 1..n /\ (i + 1) - 1 = i
    BY <1>1
  <2>2. \A i \in 0..(n - 1) : own[i + 1] = Step(i + 1, own[i])
    BY <1>10, <2>1
  <2> QED
    BY <1>10, <2>2 DEF Keeps, n, Step
<1> QED
  BY <1>9, <1>13, <1>14 DEF n, V

(* Every connector that answers the probe is found, under its own index, and *)
(* if all answer, at the place of its index.                                 *)
LEMMA ScanFinds ==
  ASSUME NEW cs \in Seq(ConnectorInfos)
  PROVE  /\ Scan(cs) \in Seq(Entries(cs))
         /\ \A i \in DOMAIN cs :
              cs[i].probes => \E p \in DOMAIN Scan(cs) : Scan(cs)[p] = Entry(cs, i)
         /\ (\A i \in DOMAIN cs : cs[i].probes) =>
              Len(Scan(cs)) = Len(cs) /\ \A i \in DOMAIN cs : Scan(cs)[i] = Entry(cs, i)
<1>1. PICK kept \in [0..Len(cs) -> Seq(Entries(cs))] :
        Keeps(kept, cs) /\ Scan(cs) = kept[Len(cs)]
  BY ScanKeeps
<1> DEFINE n == Len(cs)
<1>2. n \in Nat /\ n \in 0..n /\ DOMAIN cs = 1..n
  OBVIOUS
<1>3. /\ kept[0] = <<>> /\ \A k \in 0..n : kept[k] \in Seq(Entries(cs))
      /\ \A k \in 0..(n - 1) : 
           kept[k + 1] = IF cs[k + 1].probes THEN Append(kept[k], Entry(cs, k + 1)) ELSE kept[k]
  BY <1>1 DEF Keeps
<1> HIDE DEF n
<1> DEFINE Found(k) == \A i \in 1..k : 
                         cs[i].probes => \E p \in 1..Len(kept[k]) : kept[k][p] = Entry(cs, i)
           Placed(k) == (\A i \in DOMAIN cs : cs[i].probes) =>
                          Len(kept[k]) = k /\ \A i \in 1..k : kept[k][i] = Entry(cs, i)
           T == {k \in 0..n : Found(k) /\ Placed(k)}
<1>4. 0 \in T
  BY <1>2, <1>3
<1>5. ASSUME NEW k \in 0..n, k \in T, k < n PROVE k + 1 \in T
  <2>1. k \in 0..(n - 1) /\ k + 1 \in 0..n /\ k + 1 \in 1..n
        /\ \A i \in 1..(k + 1) : i \in 1..k \/ i = k + 1
    BY <1>2, <1>5
  <2> DEFINE s == kept[k]
             t == kept[k + 1]
             x == Entry(cs, k + 1)
  <2>2. s \in Seq(Entries(cs)) /\ Found(k) /\ Placed(k)
    BY <1>3, <1>5
  <2>3. t = IF cs[k + 1].probes THEN Append(s, x) ELSE s
    BY <1>3, <2>1
  <2> HIDE DEF s, t, x
  <2>4. /\ Len(s) \in Nat /\ (cs[k + 1].probes => Len(t) = Len(s) + 1 /\ t[Len(s) + 1] = x)
        /\ \A p \in 1..Len(s) : p \in 1..Len(t) /\ t[p] = s[p]
    BY <2>2, <2>3
  <2>5. Found(k + 1)
    <3>1. \A i \in 1..k : cs[i].probes => \E p \in 1..Len(t) : t[p] = Entry(cs, i)
      BY <2>2, <2>4 DEF s
    <3>2. cs[k + 1].probes => \E p \in 1..Len(t) : t[p] = x
      BY <2>4
    <3> QED
      BY <2>1, <3>1, <3>2 DEF t, x
  <2>6. Placed(k + 1)
    <3> SUFFICES ASSUME \A i \in DOMAIN cs : cs[i].probes
                 PROVE  Len(t) = k + 1 /\ \A i \in 1..(k + 1) : t[i] = Entry(cs, i)
      BY DEF t
    <3>1. Len(s) = k /\ \A i \in 1..k : s[i] = Entry(cs, i)
      BY <2>2 DEF s
    <3>2. Len(t) = k + 1 /\ t[k + 1] = x
      BY <1>2, <2>1, <2>4, <3>1
    <3> QED
      BY <2>1, <2>4, <3>1, <3>2 DEF x
  <2> HIDE DEF Found, Placed
  <2> QED
    BY <2>1, <2>5, <2>6
<1> HIDE DEF T
<1>6. \A k \in 0..n : k \in T
  BY <1>2, <1>4, <1>5, IntervalInduction
<1>7. Found(n) /\ Placed(n)
  BY <1>2, <1>6 DEF T
<1>8. kept[n] \in Seq(Entries(cs)) /\ Scan(cs) = kept[n]
  BY <1>1, <1>2, <1>3 DEF n
<1> QED
  BY <1>2, <1>7, <1>8 DEF n

LEMMA LeastOf ==
  ASSUME NEW S \in SUBSET Nat, S # {}
  PROVE  Min(S) \in S /\ \A y \in S : Min(S) <= y
<1>1. \E x \in S : \A y \in S : x <= y
  BY LeastNumber
<1> QED
  BY <1>1 DEF Min

(* The mode chosen is a mode of the connector, and none is a better choice.  *)
LEMMA ChosenMode ==
  ASSUME NEW info \in ConnectorInfos, info.modes # <<>>
  PROVE  SelectMode(info.modes) \in DOMAIN info.modes /\ IsBestMode(info, SelectMode(info.modes))
<1> DEFINE modes == info.modes
           preferred == {i \in DOMAIN modes : modes[i].preferred}
           sel == SelectMode(modes)
<1>1. modes \in Seq(Modes) /\ modes # <<>> /\ preferred \in SUBSET Nat
  BY DEF ConnectorInfos
<1>2. CASE preferred # {}
  <2>1. sel = Min(preferred)
    BY <1>2 DEF SelectMode
  <2>2. sel \in preferred /\ \A y \in preferred : sel <= y
    BY <1>1, <1>2, <2>1, LeastOf
  <2>3. sel \in Nat /\ sel \in DOMAIN modes /\ modes[sel].preferred
    BY <1>1, <2>2
  <2>4. ASSUME NEW k \in DOMAIN modes, k < sel, modes[k].preferred PROVE FALSE
    <3>1. k \in preferred /\ k \in Nat
      BY <1>1, <2>4
    <3> QED
      BY <2>2, <2>3, <2>4, <3>1
  <2> HIDE DEF sel
  <2>5. IsBestMode(info, sel)
    BY <2>3, <2>4 DEF IsBestMode
  <2> QED
    BY <2>3, <2>5 DEF sel
<1>3. CASE preferred = {}
  <2>1. sel = CHOOSE i \in DOMAIN modes : \A j \in DOMAIN modes \ {i} : Outranks(modes, i, j)
    BY <1>3 DEF SelectMode
  <2>2. sel \in DOMAIN modes /\ \A j \in DOMAIN modes \ {sel} : Outranks(modes, sel, j)
    BY <1>1, <2>1, BestMode
  <2> HIDE DEF sel
  <2>3. \A k \in DOMAIN modes : ~modes[k].preferred
    BY <1>3
  <2>4. ASSUME NEW k \in DOMAIN modes \ {sel} PROVE ~Outranks(modes, k, sel)
    BY <1>1, <2>2, <2>4, OutranksOrders
  <2>5. IsBestMode(info, sel)
    BY <2>2, <2>3, <2>4 DEF IsBestMode
  <2> QED
    BY <2>2, <2>5 DEF sel
<1> QED
  BY <1>2, <1>3

(* A device with a usable connector has a selection; and if every connector  *)
(* answers the probe, its index leads back to it.                            *)
LEMMA SelectedOutput ==
  ASSUME NEW cs \in Seq(ConnectorInfos)
  PROVE  /\ (\E i \in DOMAIN cs : cs[i].probes /\ IsUsable(cs[i])) =>
              SelectOutput(Scan(cs)) # NoSelection
         /\ SelectOutput(Scan(cs)) # NoSelection /\ (\A i \in DOMAIN cs : cs[i].probes) =>
              LET i == SelectOutput(Scan(cs)).connector
              IN  /\ i \in DOMAIN cs /\ Scan(cs)[i] = Entry(cs, i) /\ IsUsable(cs[i])
                  /\ \A j \in 1..(i - 1) : ~IsUsable(cs[j])
                  /\ SelectOutput(Scan(cs)).mode = SelectMode(cs[i].modes)
<1> DEFINE found == Scan(cs)
           usable == {p \in DOMAIN found : IsUsable(found[p].info)}
           sel == SelectOutput(found)
<1>1. found \in Seq(Entries(cs)) /\ usable \in SUBSET Nat
  BY ScanFinds
<1>2. /\ usable = {} => sel = NoSelection
      /\ usable # {} => sel = Selection(found[Min(usable)].index,
                                        SelectMode(found[Min(usable)].info.modes))
  BY DEF SelectOutput
<1>3. ASSUME usable # {}
      PROVE  LET p == Min(usable)
             IN  /\ p \in DOMAIN found /\ (\A q \in usable : p <= q) /\ IsUsable(found[p].info)
                 /\ found[p].index \in DOMAIN cs /\ found[p] = Entry(cs, found[p].index)
                 /\ SelectMode(found[p].info.modes) \in Nat
  <2> DEFINE p == Min(usable)
  <2>1. p \in usable /\ \A q \in usable : p <= q
    BY <1>1, <1>3, LeastOf
  <2> HIDE DEF p
  <2>2. p \in DOMAIN found /\ IsUsable(found[p].info)
    BY <2>1
  <2>3. found[p] \in Entries(cs)
    BY <1>1, <2>2
  <2>4. found[p].index \in DOMAIN cs /\ found[p] = Entry(cs, found[p].index)
    BY <2>3 DEF Entries, Entry
  <2>5. found[p].info \in ConnectorInfos /\ found[p].info.modes # <<>>
    BY <2>2, <2>4 DEF Entry, IsUsable
  <2>6. SelectMode(found[p].info.modes) \in DOMAIN found[p].info.modes
    BY <2>5, ChosenMode
  <2>7. DOMAIN found[p].info.modes \in SUBSET Nat
    BY <2>5 DEF ConnectorInfos
  <2> QED
    BY <2>1, <2>2, <2>4, <2>6, <2>7 DEF p
<1>4. ASSUME usable # {} PROVE sel # NoSelection
  <2>1. PICK i \in Nat, k \in Nat : sel = Selection(i, k)
    BY <1>2, <1>3, <1>4
  <2>2. sel \in [connector : Nat, mode : Nat]
    BY <2>1 DEF Selection
  <2> QED
    BY <2>2, DiscoveryAssumption
<1>5. ASSUME NEW i \in DOMAIN cs, cs[i].probes, IsUsable(cs[i]) PROVE sel # NoSelection
  <2>1. PICK p \in DOMAIN found : found[p] = Entry(cs, i)
    BY <1>5, ScanFinds
  <2>2. p \in usable
    BY <1>5, <2>1 DEF Entry
  <2> QED
    BY <1>4, <2>2
<1>6. ASSUME sel # NoSelection, \A i \in DOMAIN cs : cs[i].probes
      PROVE  /\ sel.connector \in DOMAIN cs /\ found[sel.connector] = Entry(cs, sel.connector)
             /\ IsUsable(cs[sel.connector])
             /\ \A j \in 1..(sel.connector - 1) : ~IsUsable(cs[j])
             /\ sel.mode = SelectMode(cs[sel.connector].modes)
  <2>1. usable # {}
    BY <1>2, <1>6
  <2> DEFINE p == Min(usable)
  <2>2. /\ p \in DOMAIN found /\ \A q \in usable : p <= q
        /\ IsUsable(found[p].info)
    BY <1>3, <2>1
  <2>3. sel = Selection(found[p].index, SelectMode(found[p].info.modes))
    BY <1>2, <2>1
  <2> HIDE DEF p, found, sel
  <2>4. Len(found) = Len(cs) /\ \A i \in DOMAIN cs : found[i] = Entry(cs, i)
    BY <1>6, ScanFinds DEF found
  <2>5. p \in DOMAIN cs /\ found[p] = Entry(cs, p)
    BY <1>1, <2>2, <2>4 DEF found
  <2>6. sel.connector = p /\ sel.mode = SelectMode(cs[p].modes)
    BY <2>3, <2>5 DEF Selection, Entry
  <2>7. ASSUME NEW j \in 1..(p - 1) PROVE ~IsUsable(cs[j])
    <3>1. j \in DOMAIN cs /\ j < p /\ j \in Nat /\ p \in Nat
      BY <2>5
    <3>2. DOMAIN found = 1..Len(found) /\ DOMAIN cs = 1..Len(cs)
      BY <1>1 DEF found
    <3>3. j \in DOMAIN found /\ found[j].info = cs[j]
      BY <2>4, <3>1, <3>2 DEF Entry
    <3> QED
      BY <2>2, <3>1, <3>3 DEF found
  <2> QED
    BY <2>2, <2>5, <2>6, <2>7 DEF Entry
<1> QED
  BY <1>5, <1>6

-----------------------------------------------------------------------------
(* What T-commit has found out about the machine, and what it has set up.    *)
FoundOn(d) == Scan(Connectors(d))
SelectedOn(d) == SelectOutput(FoundOn(d))
SelectedInfo(d) == FoundOn(d)[SelectedOn(d).connector].info

Fits(d) ==
  d \in DOMAIN machine /\ machine[d].state = "readable" /\ SelectedOn(d) # NoSelection

(* setup's result: the device at hand, and what its selection led to.        *)
IsSetUp ==
  /\ commit \in {"preparing", "looping"} /\ Fits(candidate) /\ opened = {candidate}
  /\ SelectedOn(candidate).connector \in DOMAIN FoundOn(candidate)
  /\ SelectedOn(candidate).mode \in DOMAIN SelectedInfo(candidate).modes
  /\ driven = [device |-> candidate,
               connector |-> FoundOn(candidate)[SelectedOn(candidate).connector].index,
               mode |-> SelectedOn(candidate).mode]
  /\ ready = <<Advertised(SelectedInfo(candidate).modes[SelectedOn(candidate).mode])>>

(* The candidates passed over had nothing to drive; only the chosen one is   *)
(* open; and what is driven is what setup found.                             *)
Candidates ==
  /\ machine \in Machines
  /\ \A d \in 1..(candidate - 1) : ~HasUsable(d)
  /\ commit \in {"session", "probing"} => opened = {}
  /\ commit \in {"session", "probing", "chosen", "failing"} => driven = Undriven
  /\ commit = "chosen" => Fits(candidate) /\ opened = {candidate}
  /\ driven # Undriven => IsSetUp

(* What is on its way to wl_output, or there, is what setup reported.        *)
ControlMessages ==
  [kind : {"listen", "shutdown"}]
    \cup (IF ready = <<>> THEN {} ELSE [kind : {"mode"}, mode : {ready[1]}])

OnItsWay ==
  /\ control \in Seq(ControlMessages)
  /\ main = "telling" => ready # <<>>
  /\ output # Placeholder => ready # <<>> /\ output = ready[1]

LEMMA FitsIsUsable ==
  ASSUME machine \in Machines, NEW d \in DOMAIN machine, HasUsable(d)
  PROVE  Fits(d)
<1> DEFINE Devices == [state : {"missing", "unopenable", "unreadable", "readable"},
                       connectors : Seq(ConnectorInfos)]
<1>1. Connectors(d) \in Seq(ConnectorInfos)
  <2>1. machine \in Seq(Devices)
    BY StartupAssumption
  <2> HIDE DEF Devices
  <2>2. machine[d] \in Devices
    BY <2>1
  <2> QED
    BY <2>2 DEF Connectors, Devices
<1> QED
  BY <1>1, SelectedOutput DEF HasUsable, Fits, SelectedOn, FoundOn

LEMMA NextCandidates ==
  TypeOK /\ Lifetimes /\ Candidates /\ [Next]_vars => Candidates'
<1> SUFFICES ASSUME TypeOK, Lifetimes, Candidates, [Next]_vars PROVE Candidates'
  OBVIOUS
<1>1. ASSUME UNCHANGED <<machine, candidate, opened, driven, ready>>,
             commit' = commit \/ (commit = "unborn" /\ commit' = "session")
      PROVE  Candidates'
  BY <1>1 DEF Candidates, Lifetimes, IsSetUp, Fits, SelectedOn, SelectedInfo, FoundOn, Connectors,
              HasUsable
<1>2. ASSUME EndCommit, UNCHANGED <<machine, candidate>> PROVE Candidates'
  BY <1>2 DEF EndCommit, Candidates, HasUsable, Connectors
<1>3. ASSUME FailSetup, UNCHANGED <<machine, candidate>>,
             commit \in {"session", "probing", "chosen"}
      PROVE  Candidates'
  BY <1>3 DEF FailSetup, Candidates, HasUsable, Connectors
<1>4. CASE MainStep
  <2>1. UNCHANGED <<machine, candidate, opened, driven, ready>>
    BY <1>4, MainMoves DEF held
  <2>2. commit' = commit \/ (commit = "unborn" /\ commit' = "session")
    BY <1>4, MainMoves DEF Lifetimes
  <2> QED
    BY <1>1, <2>1, <2>2
<1>5. CASE OpenSession
  <2>1. CASE commit' = "probing" /\ UNCHANGED <<opened, driven, ready>>
    BY <1>5, <2>1 DEF OpenSession, Candidates, HasUsable, Connectors
  <2> QED
    BY <1>3, <1>5, <2>1 DEF OpenSession
<1>6. CASE LookAtCandidate
  <2>1. /\ commit = "probing" /\ candidate \in DOMAIN machine /\ UNCHANGED <<machine, driven, ready>>
        /\ IF Fits(candidate)
           THEN commit' = "chosen" /\ opened' = opened \cup {candidate} /\ UNCHANGED candidate
           ELSE candidate' = candidate + 1 /\ UNCHANGED <<commit, opened>>
    BY <1>6 DEF LookAtCandidate, Fits, SelectedOn, FoundOn, Connectors
  <2>2. opened = {} /\ driven = Undriven /\ candidate \in Nat \ {0}
    BY <2>1 DEF Candidates, TypeOK
  <2>3. \A d : HasUsable(d)' <=> HasUsable(d)
    BY <2>1 DEF HasUsable, Connectors
  <2>4. CASE Fits(candidate)
    <3>1. Fits(candidate)' /\ opened' = {candidate} /\ candidate' = candidate
          /\ commit' = "chosen" /\ driven' = Undriven
      BY <2>1, <2>2, <2>4 DEF Fits, SelectedOn, FoundOn, Connectors
    <3>2. Undriven' = Undriven
      BY DEF Undriven
    <3> QED
      BY <2>1, <2>3, <3>1, <3>2 DEF Candidates
  <2>5. CASE ~Fits(candidate)
    <3>1. ~HasUsable(candidate)
      BY <2>1, <2>5, FitsIsUsable DEF Candidates
    <3>2. \A d \in 1..(candidate' - 1) : d \in 1..(candidate - 1) \/ d = candidate
      BY <2>1, <2>2, <2>5
    <3> QED
      BY <2>1, <2>2, <2>3, <2>5, <3>1, <3>2 DEF Candidates
  <2> QED
    BY <2>4, <2>5
<1>7. CASE NoCandidateLeft
  BY <1>3, <1>7 DEF NoCandidateLeft
<1>8. CASE SetUp
  <2>1. commit = "chosen" /\ UNCHANGED <<machine, candidate>> /\ ready = <<>>
    BY <1>8 DEF SetUp, Lifetimes
  <2>2. CASE EndCommit
    BY <1>2, <2>1, <2>2
  <2>3. CASE FailSetup
    BY <1>3, <2>1, <2>3
  <2>4. CASE ~EndCommit /\ ~FailSetup
    <3>1. /\ commit' = "preparing" /\ UNCHANGED opened
          /\ SelectedOn(candidate).connector \in DOMAIN FoundOn(candidate)
          /\ SelectedOn(candidate).mode \in DOMAIN SelectedInfo(candidate).modes
          /\ driven' = [device |-> candidate,
                        connector |-> FoundOn(candidate)[SelectedOn(candidate).connector].index,
                        mode |-> SelectedOn(candidate).mode]
          /\ ready' = Append(ready, Advertised(SelectedInfo(candidate).modes[SelectedOn(candidate).mode]))
      BY <1>8, <2>4 DEF SetUp, Report, FoundOn, SelectedOn, SelectedInfo
    <3>2. Fits(candidate) /\ opened = {candidate}
      BY <2>1 DEF Candidates
    <3>3. IsSetUp'
      BY <2>1, <3>1, <3>2 DEF IsSetUp, Fits, FoundOn, SelectedOn, SelectedInfo, Connectors
    <3> QED
      BY <2>1, <3>1, <3>3 DEF Candidates, HasUsable, Connectors
  <2> QED
    BY <2>2, <2>3, <2>4
<1>9. CASE CommitReturns \/ LoopEnds \/ LoopFails
  BY <1>2, <1>9 DEF CommitReturns, LoopEnds, LoopFails
<1>10. CASE PrepareLoop
  <2>1. CASE EndCommit
    BY <1>2, <1>10, <2>1 DEF PrepareLoop
  <2>2. CASE commit' = "looping" /\ UNCHANGED <<opened, driven>>
    <3>1. /\ commit = "preparing" /\ UNCHANGED <<machine, candidate, ready, opened, driven>>
      BY <1>10, <2>2 DEF PrepareLoop
    <3> QED
      BY <2>2, <3>1 DEF Candidates, HasUsable, Connectors, IsSetUp, Fits, FoundOn, SelectedOn,
                        SelectedInfo
  <2> QED
    BY <1>10, <2>1, <2>2 DEF PrepareLoop
<1>11. CASE RenderEnds \/ HandleControl \/ (\E c \in Client : BindOutput(c)) \/ RaiseShutdown
              \/ UNCHANGED vars
  BY <1>1, <1>11, OthersMove DEF held
<1> QED
  BY <1>4, <1>5, <1>6, <1>7, <1>8, <1>9, <1>10, <1>11 DEF Next, CommitStep

LEMMA NextOnItsWay ==
  TypeOK /\ Lifetimes /\ OnItsWay /\ [Next]_vars => OnItsWay'
<1> SUFFICES ASSUME TypeOK, Lifetimes, OnItsWay, [Next]_vars PROVE OnItsWay'
  OBVIOUS
<1>1. control \in Seq(ControlMessages)
  BY DEF OnItsWay
<1>2. ASSUME UNCHANGED <<control, main, output, ready>> PROVE OnItsWay'
  BY <1>2 DEF OnItsWay, ControlMessages
<1>3. ASSUME UNCHANGED <<control, main, output>>, ready = <<>> PROVE OnItsWay'
  <2>1. ControlMessages = [kind : {"listen", "shutdown"}]
    BY <1>3 DEF ControlMessages
  <2>2. ControlMessages \subseteq ControlMessages'
    BY <2>1 DEF ControlMessages
  <2>3. control' \in Seq(ControlMessages')
    BY <1>1, <1>3, <2>2
  <2> QED
    BY <1>3, <2>3 DEF OnItsWay
<1>4. ASSUME NEW x \in ControlMessages, UNCHANGED <<output, ready>>, main' # "telling",
             control' = Append(control, x) \/ control' = control
      PROVE  OnItsWay'
  <2>1. ControlMessages' = ControlMessages /\ control' \in Seq(ControlMessages)
    BY <1>1, <1>4 DEF ControlMessages
  <2> QED
    BY <1>4, <2>1 DEF OnItsWay
<1>5. [kind |-> "listen"] \in ControlMessages /\ [kind |-> "shutdown"] \in ControlMessages
  BY DEF ControlMessages
<1>6. CASE BindSocket
  BY <1>4, <1>5, <1>6 DEF BindSocket
<1>7. CASE TellMode
  <2>1. [kind |-> "mode", mode |-> ready[1]] \in ControlMessages
    BY <1>7 DEF TellMode, OnItsWay, ControlMessages
  <2> QED
    BY <1>4, <1>7, <2>1 DEF TellMode, dispatch
<1>8. CASE DropHost
  BY <1>4, <1>5, <1>8 DEF DropHost, dispatch
<1>9. CASE SpawnCommit \/ SpawnRender \/ Join
  <2>1. UNCHANGED <<control, output, ready>> /\ main' # "telling"
    BY <1>9 DEF SpawnCommit, SpawnRender, Join, dispatch
  <2> QED
    BY <1>4, <1>5, <2>1
<1>10. CASE AwaitMode
  <2>1. UNCHANGED <<control, output, ready>> /\ (main' = "telling" => ready # <<>>)
    BY <1>10 DEF AwaitMode, dispatch
  <2>2. ControlMessages' = ControlMessages
    BY <2>1 DEF ControlMessages
  <2> QED
    BY <2>1, <2>2 DEF OnItsWay
<1>11. CASE CommitStep \/ LoopFails
  <2>1. UNCHANGED <<control, main, output>>
    BY <1>11 DEF CommitStep, OpenSession, LookAtCandidate, NoCandidateLeft, SetUp, CommitReturns,
                 PrepareLoop, LoopEnds, LoopFails, dispatch
  <2>2. ready = <<>> \/ ready' = ready
    BY <1>11, CommitMoves DEF Lifetimes
  <2> QED
    BY <1>2, <1>3, <2>1, <2>2
<1>12. CASE HandleControl
  <2>1. UNCHANGED <<main, ready>> /\ control # <<>> /\ control' = Tail(control)
        /\ (output' = output \/ (Head(control).kind = "mode" /\ output' = Head(control).mode))
    BY <1>12 DEF HandleControl
  <2>2. Head(control) \in ControlMessages /\ Tail(control) \in Seq(ControlMessages)
    BY <1>1, <2>1
  <2>3. Head(control).kind = "mode" => ready # <<>> /\ Head(control).mode = ready[1]
    BY <2>2 DEF ControlMessages
  <2>4. ControlMessages' = ControlMessages
    BY <2>1 DEF ControlMessages
  <2> QED
    BY <2>1, <2>2, <2>3, <2>4 DEF OnItsWay
<1>13. CASE RenderEnds \/ (\E c \in Client : BindOutput(c)) \/ RaiseShutdown \/ UNCHANGED vars
  BY <1>2, <1>13 DEF RenderEnds, BindOutput, RaiseShutdown, vars, dispatch
<1> QED
  BY <1>6, <1>7, <1>8, <1>9, <1>10, <1>11, <1>12, <1>13 DEF Next, MainStep

(* What the invariant says of what is driven and of what is advertised.      *)
LEMMA SetUpDrives ==
  ASSUME TypeOK, Candidates, driven # Undriven
  PROVE  /\ opened = {candidate} /\ driven.device = candidate
         /\ \A d \in 1..(candidate - 1) : ~HasUsable(d)
         /\ DrivenConnector \in ConnectorInfos /\ driven.mode \in DOMAIN DrivenConnector.modes
         /\ ready = <<Advertised(DrivenMode)>> /\ DrivenMode \in Modes
         /\ AllProbe(candidate) =>
              /\ IsUsable(DrivenConnector)
              /\ \A i \in 1..(driven.connector - 1) : ~IsUsable(Connectors(candidate)[i])
              /\ driven.mode = SelectMode(DrivenConnector.modes)
<1> DEFINE cs == Connectors(candidate)
           found == Scan(cs)
           sel == SelectOutput(found)
<1> DEFINE Devices == [state : {"missing", "unopenable", "unreadable", "readable"},
                       connectors : Seq(ConnectorInfos)]
<1>1. /\ Fits(candidate) /\ opened = {candidate}
      /\ sel.connector \in DOMAIN found
      /\ sel.mode \in DOMAIN found[sel.connector].info.modes
      /\ driven = [device |-> candidate, connector |-> found[sel.connector].index,
                   mode |-> sel.mode]
      /\ ready = <<Advertised(found[sel.connector].info.modes[sel.mode])>>
  BY DEF Candidates, IsSetUp, FoundOn, SelectedOn, SelectedInfo
<1>2. cs \in Seq(ConnectorInfos) /\ sel # NoSelection
  <2>1. machine \in Seq(Devices) /\ candidate \in DOMAIN machine
    BY <1>1, StartupAssumption DEF Candidates, Fits
  <2> HIDE DEF Devices
  <2>2. machine[candidate] \in Devices
    BY <2>1
  <2> QED
    BY <1>1, <2>2 DEF Connectors, Fits, SelectedOn, FoundOn, Devices
<1> HIDE DEF cs
<1>3. found \in Seq(Entries(cs))
  BY <1>2, ScanFinds
<1>4. SelectOutput(Scan(cs)) # NoSelection /\ (\A i \in DOMAIN cs : cs[i].probes) =>
        LET i == SelectOutput(Scan(cs)).connector
        IN  /\ i \in DOMAIN cs /\ Scan(cs)[i] = Entry(cs, i) /\ IsUsable(cs[i])
            /\ \A j \in 1..(i - 1) : ~IsUsable(cs[j])
            /\ SelectOutput(Scan(cs)).mode = SelectMode(cs[i].modes)
  BY <1>2, SelectedOutput
<1> HIDE DEF sel, found
<1>5. found[sel.connector] \in Entries(cs)
  BY <1>1, <1>3
<1>6. /\ found[sel.connector].index \in DOMAIN cs
      /\ found[sel.connector].info = cs[found[sel.connector].index]
  <2>1. PICK n \in DOMAIN cs : found[sel.connector] = Entry(cs, n)
    BY <1>5 DEF Entries
  <2> QED
    BY <2>1 DEF Entry
<1>7. /\ driven.device = candidate /\ driven.connector \in DOMAIN cs /\ driven.mode = sel.mode
      /\ driven.connector = found[sel.connector].index
      /\ DrivenConnector = cs[driven.connector]
  BY <1>1, <1>6 DEF DrivenConnector, cs
<1>8. DrivenConnector = found[sel.connector].info
  BY <1>6, <1>7
<1>9. DrivenConnector \in ConnectorInfos
  BY <1>2, <1>7
<1>10. driven.mode \in DOMAIN DrivenConnector.modes
  BY <1>1, <1>7, <1>8
<1>11. DrivenConnector.modes \in Seq(Modes)
  BY <1>9 DEF ConnectorInfos
<1>12. DrivenMode \in Modes
  BY <1>10, <1>11 DEF DrivenMode
<1>13. ready = <<Advertised(DrivenMode)>>
  BY <1>1, <1>7, <1>8 DEF DrivenMode
<1>14. ASSUME AllProbe(candidate)
       PROVE  /\ IsUsable(DrivenConnector)
              /\ \A i \in 1..(driven.connector - 1) : ~IsUsable(cs[i])
              /\ driven.mode = SelectMode(DrivenConnector.modes)
  <2>1. \A i \in DOMAIN cs : cs[i].probes
    BY <1>14 DEF AllProbe, cs
  <2>2. /\ found[sel.connector] = Entry(cs, sel.connector) /\ IsUsable(cs[sel.connector])
        /\ \A j \in 1..(sel.connector - 1) : ~IsUsable(cs[j])
        /\ sel.mode = SelectMode(cs[sel.connector].modes)
    BY <1>2, <1>4, <2>1 DEF found, sel
  <2>3. driven.connector = sel.connector
    BY <1>7, <2>2 DEF Entry
  <2> QED
    BY <1>7, <2>2, <2>3
<1> QED
  BY <1>1, <1>7, <1>9, <1>10, <1>12, <1>13, <1>14 DEF Candidates, cs

LEMMA FirstIsDriven == TypeOK /\ Candidates => FirstUsableIsDriven
<1> SUFFICES ASSUME TypeOK, Candidates, driven # Undriven, AllProbe(driven.device)
             PROVE  /\ opened = {driven.device}
                    /\ \A d \in 1..(driven.device - 1) : ~HasUsable(d)
                    /\ IsUsable(DrivenConnector)
                    /\ \A i \in 1..(driven.connector - 1) : ~IsUsable(Connectors(driven.device)[i])
                    /\ IsBestMode(DrivenConnector, driven.mode)
  BY DEF FirstUsableIsDriven
<1>1. DrivenConnector.modes # <<>>
  BY SetUpDrives DEF IsUsable
<1>2. IsBestMode(DrivenConnector, driven.mode)
  BY <1>1, SetUpDrives, ChosenMode
<1> QED
  BY <1>2, SetUpDrives

LEMMA DrivenIsAdvertised == TypeOK /\ Candidates /\ OnItsWay => AdvertisedIsDriven
<1> SUFFICES ASSUME TypeOK, Candidates, OnItsWay, driven # Undriven, output # Placeholder
             PROVE  LET num  == Numerator(DrivenMode.timing)
                        den  == Denominator(DrivenMode.timing)
                        apart == 2 * (output.refresh * den - num)
                    IN  /\ output.width = DrivenMode.width /\ output.height = DrivenMode.height
                        /\ IF den = 0 \/ 2 * num < den THEN output.refresh = OUTPUT_REFRESH_MHZ
                           ELSE /\ apart <= den
                                /\ -den <= apart \/ output.refresh = MaxRate
  BY DEF AdvertisedIsDriven
<1> DEFINE t == DrivenMode.timing
           num == Numerator(t)
           den == Denominator(t)
<1>1. output = Advertised(DrivenMode) /\ DrivenMode \in Modes
  BY SetUpDrives DEF OnItsWay
<1>2. t \in Timings
  BY <1>1 DEF Modes
<1>3. /\ output.width = DrivenMode.width /\ output.height = DrivenMode.height
      /\ output.refresh = IF RefreshMhz(t) > 0 THEN RefreshMhz(t) ELSE OUTPUT_REFRESH_MHZ
  BY <1>1 DEF Advertised
<1> HIDE DEF t
<1>4. /\ den = 0 \/ 2 * num < den => RefreshMhz(t) = 0
      /\ ~(den = 0 \/ 2 * num < den) =>
           LET apart == 2 * (RefreshMhz(t) * den - num)
           IN  /\ RefreshMhz(t) > 0 /\ apart <= den
               /\ -den <= apart \/ RefreshMhz(t) = MaxRate
  BY <1>2, RefreshIsNearest
<1> HIDE DEF num, den
<1>5. IF den = 0 \/ 2 * num < den THEN output.refresh = OUTPUT_REFRESH_MHZ
      ELSE /\ 2 * (output.refresh * den - num) <= den
           /\ -den <= 2 * (output.refresh * den - num) \/ output.refresh = MaxRate
  BY <1>3, <1>4
<1> QED
  BY <1>3, <1>5 DEF t, num, den

(* The inductive invariant.  TypeOK and Lifetimes carry ScreenIsGivenBack;   *)
(* Candidates and OnItsWay carry what is said of the choice and of the mode. *)
IInv == TypeOK /\ Lifetimes /\ ScreenIsGivenBack /\ Candidates /\ OnItsWay

LEMMA InitHolds == Init => IInv
<1> SUFFICES ASSUME Init PROVE IInv
  OBVIOUS
<1>1. /\ main = "binding" /\ commit = "unborn" /\ renderer = "unborn"
      /\ opened = {} /\ driven = Undriven /\ ready = <<>>
      /\ candidate = 1 /\ control = <<>> /\ output = Placeholder /\ machine \in Machines
  BY DEF Init
<1>2. Lifetimes /\ ScreenIsGivenBack
  BY <1>1 DEF Lifetimes, ScreenIsGivenBack
<1>3. Len(ready) <= 1
  BY <1>1
<1>4. /\ shutdown = FALSE /\ bound = FALSE /\ listening = FALSE
      /\ candidate \in Nat \ {0} /\ opened \subseteq DOMAIN machine
  BY DEF Init
<1>5. TypeOK
  BY <1>1, <1>3, <1>4 DEF TypeOK
<1>6. 1..(candidate - 1) = {}
  BY <1>1
<1>7. Candidates
  BY <1>1, <1>6 DEF Candidates
<1>8. <<>> \in Seq(ControlMessages)
  OBVIOUS
<1>9. OnItsWay
  BY <1>1, <1>8 DEF OnItsWay
<1> QED
  BY <1>2, <1>5, <1>7, <1>9 DEF IInv

LEMMA Invariant == Spec => []IInv
<1>1. IInv /\ [Next]_vars => IInv'
  BY NextTypeAndLifetimes, NextGivenBack, NextCandidates, NextOnItsWay DEF IInv
<1> QED
  BY <1>1, InitHolds, PTL DEF Spec

(* Every variable keeps its type on every machine, and T-commit reports to   *)
(* main at most once, as the rendezvous of one message supposes.             *)
THEOREM TypeCorrect == Spec => []TypeOK
<1>1. IInv => TypeOK
  BY DEF IInv
<1> QED
  BY <1>1, Invariant, PTL

(* Once main drops the host, whichever step of setup or of the loop failed,  *)
(* no thread runs and no device is open; but if the step that failed was     *)
(* spawning T-render, T-commit may run on, the device it chose the only one  *)
(* that is open.                                                             *)
THEOREM ScreenReturned == Spec => []ScreenIsGivenBack
<1>1. IInv => ScreenIsGivenBack
  BY DEF IInv
<1> QED
  BY <1>1, Invariant, PTL

(* On any machine, with any number of devices, connectors and modes: if the  *)
(* device that is driven probes without error, it is the first that has a    *)
(* usable connector, that connector is its first usable one, no other mode   *)
(* of it is a better choice, and no other device is open.                    *)
THEOREM FirstUsable == Spec => []FirstUsableIsDriven
<1>1. IInv => FirstUsableIsDriven
  BY FirstIsDriven DEF IInv
<1> QED
  BY <1>1, Invariant, PTL

(* For all timings the kernel can report, and however the threads and the    *)
(* control channel interleave, what wl_output advertises of a driven screen  *)
(* is the placeholder or the driven mode, its rate the nearest millihertz.   *)
THEOREM ModeIsTrue == Spec => []AdvertisedIsDriven
<1>1. IInv => AdvertisedIsDriven
  BY DrivenIsAdvertised DEF IInv
<1> QED
  BY <1>1, Invariant, PTL
=============================================================================
