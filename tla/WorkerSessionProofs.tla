-------------------------- MODULE WorkerSessionProofs --------------------------
(***************************************************************************)
(* Proofs about Handoffs and WorkerSession: the search finds exactly the   *)
(* cycles and the copies of the validation agree; what a session submits   *)
(* is taken, what it paid for is reported, and what it made is stored.     *)
(***************************************************************************)
EXTENDS WorkerSession, FiniteSetTheorems, WellFoundedInduction, TLAPS

(***************************************************************************)
(* The depth-first search for a cycle. A recursive function is what CHOOSE *)
(* picks, so a function that visits as the code does must exist first      *)
(* (VisitsExist); it does because every call enters one more node, and     *)
(* least counterexamples in Nat do for induction. Then a search is Sound   *)
(* and its path leads to the node it visits, so what it finds is a circle, *)
(* and if it finds none there is none.                                     *)
(***************************************************************************)
LEMMA Least ==
  ASSUME NEW T \in SUBSET Nat, T # {}
  PROVE  \E x \in T : \A y \in T : x <= y
  <1>. DEFINE R == {ss \in Nat \X Nat : ss[1] < ss[2]}
  <1>0. R = OpToRel(<, Nat)
    BY Zenon DEF OpToRel
  <1>1. IsWellFoundedOn(R, Nat)
    BY NatLessThanWellFounded, <1>0
  <1>2. PICK x \in T : \A y \in T : ~(<<y, x>> \in R)
    <2>. HIDE DEF R
    <2>. QED
    BY <1>1, WFMin
  <1>3. \A y \in T : x \in Nat /\ y \in Nat /\ ~(y < x)
    BY <1>2
  <1>. QED
    BY <1>3

LEMMA Greatest ==
  ASSUME NEW n \in Nat, NEW T \in SUBSET (1..n), T # {}
  PROVE  \E x \in T : \A y \in T : x >= y
  <1>. DEFINE D == {k \in Nat : n - k \in T}
  <1>1. PICK t \in T : TRUE
    OBVIOUS
  <1>2. n - t \in D
    OBVIOUS
  <1>3. PICK k \in D : \A l \in D : k <= l
    <2>1. D \in SUBSET Nat /\ D # {}
      BY <1>2
    <2>. HIDE DEF D
    <2>. QED
      BY <2>1, Least
  <1>4. \A u \in T : n - k >= u
    <2>. TAKE u \in T
    <2>1. n - u \in D /\ u \in Nat /\ k \in Nat
      OBVIOUS
    <2>. QED
      BY <1>3, <2>1
  <1>. QED
    BY <1>3, <1>4

\* after is the course of a search through the first n nodes of a list.
IsCourse(after, visit, nodes, search, list, n) ==
  after = [k \in 0..n |-> IF k = 0 THEN search ELSE VisitNext(visit, nodes, after[k - 1], list[k])]

LEMMA CoursesExist ==
  ASSUME NEW visit, NEW nodes, NEW search, NEW list, NEW n \in Nat
  PROVE  \E after : IsCourse(after, visit, nodes, search, list, n)
  <1>. DEFINE Then(s, k) == VisitNext(visit, nodes, s, list[k])
              T == {k \in Nat : ~\E after : IsCourse(after, visit, nodes, search, list, k)}
  <1>1. SUFFICES ASSUME T # {} PROVE FALSE
    OBVIOUS
  <1>2. PICK k \in T : \A j \in T : k <= j
    <2>1. T \in SUBSET Nat
      OBVIOUS
    <2>. HIDE DEF T
    <2>. QED
      BY <1>1, <2>1, Least
  <1>3. CASE k = 0
    <2>. DEFINE f == [i \in 0..0 |-> search]
    <2>1. f = [i \in 0..0 |-> IF i = 0 THEN search ELSE Then(f[i - 1], i)]
      OBVIOUS
    <2>2. IsCourse(f, visit, nodes, search, list, 0)
      BY <2>1 DEF IsCourse
    <2>. QED
      BY <1>2, <1>3, <2>2
  <1>4. CASE k # 0
    <2>1. k - 1 \in Nat /\ k - 1 \notin T
      BY <1>2, <1>4
    <2>2. PICK f : IsCourse(f, visit, nodes, search, list, k - 1)
      BY <2>1
    <2>. DEFINE g == [i \in 0..k |-> IF i = k THEN Then(f[k - 1], k) ELSE f[i]]
    <2>3. f = [i \in 0..(k - 1) |-> IF i = 0 THEN search ELSE Then(f[i - 1], i)]
      BY <2>2 DEF IsCourse
    <2>. HIDE DEF Then
    <2>4. \A i \in 0..k : g[i] = IF i = 0 THEN search ELSE Then(g[i - 1], i)
      <3>. TAKE i \in 0..k
      <3>1. CASE i = k
        BY <3>1, <1>4, <1>2
      <3>2. CASE i # k
        <4>1. i \in 0..(k - 1) /\ g[i] = f[i]
          BY <3>2, <1>2
        <4>2. i # 0 => g[i - 1] = f[i - 1]
          BY <3>2, <1>2
        <4>3. f[i] = IF i = 0 THEN search ELSE Then(f[i - 1], i)
          BY <2>3, <4>1
        <4>. QED
          BY <4>1, <4>2, <4>3
      <3>. QED
        BY <3>1, <3>2
    <2>5. g = [i \in 0..k |-> g[i]]
      OBVIOUS
    <2>. HIDE DEF g
    <2>6. g = [i \in 0..k |-> IF i = 0 THEN search ELSE Then(g[i - 1], i)]
      BY <2>4, <2>5
    <2>7. IsCourse(g, visit, nodes, search, list, k)
      BY <2>6 DEF IsCourse, Then
    <2>. QED
      BY <1>2, <2>7
  <1>. QED
    BY <1>3, <1>4

\* A search is through when its course is.
LEMMA CourseOf ==
  ASSUME NEW visit, NEW nodes, NEW search, NEW list, Len(list) \in Nat
  PROVE  \E after : /\ VisitAll(visit, nodes, search, list) = after[Len(list)]
                    /\ after[0] = search
                    /\ \A k \in 1..Len(list) : after[k] = VisitNext(visit, nodes, after[k - 1], list[k])
  <1>1. PICK after : /\ IsCourse(after, visit, nodes, search, list, Len(list))
                     /\ VisitAll(visit, nodes, search, list) = after[Len(list)]
    <2>. DEFINE f == CHOOSE after : IsCourse(after, visit, nodes, search, list, Len(list))
    <2>1. VisitAll(visit, nodes, search, list) = f[Len(list)]
      BY Zenon DEF VisitAll, IsCourse
    <2>2. \E after : IsCourse(after, visit, nodes, search, list, Len(list))
      BY CoursesExist
    <2>3. IsCourse(f, visit, nodes, search, list, Len(list))
      BY <2>2, Zenon
    <2>. QED
      BY <2>1, <2>3, Zenon
  <1>2. after = [k \in 0..Len(list) |-> IF k = 0 THEN search ELSE VisitNext(visit, nodes, after[k - 1], list[k])]
    BY <1>1, Zenon DEF IsCourse
  <1>3. after[0] = search
    BY <1>2
  <1>4. ASSUME NEW k \in 1..Len(list)
        PROVE  after[k] = VisitNext(visit, nodes, after[k - 1], list[k])
    <2>1. k \in 0..Len(list) /\ k # 0
      OBVIOUS
    <2>. QED
      BY <1>2, <2>1
  <1>. QED
    BY <1>1, <1>3, <1>4, Zenon

\* What holds of the start and is kept by every node of the list holds of the end.
\* held has pairs of a number of nodes visited and a search.
LEMMA ThroughList ==
  ASSUME NEW visit, NEW nodes, NEW search, NEW list, Len(list) \in Nat, NEW held,
         <<0, search>> \in held,
         \A k \in 1..Len(list) : \A s :
           <<k - 1, s>> \in held => <<k, VisitNext(visit, nodes, s, list[k])>> \in held
  PROVE  <<Len(list), VisitAll(visit, nodes, search, list)>> \in held
  <1>1. PICK after : /\ VisitAll(visit, nodes, search, list) = after[Len(list)]
                     /\ after[0] = search
                     /\ \A k \in 1..Len(list) : after[k] = VisitNext(visit, nodes, after[k - 1], list[k])
    BY CourseOf
  <1>. DEFINE T == {k \in 0..Len(list) : <<k, after[k]>> \notin held}
  <1>2. SUFFICES ASSUME T # {} PROVE FALSE
    BY <1>1
  <1>3. PICK k \in T : \A j \in T : k <= j
    <2>1. T \in SUBSET Nat
      OBVIOUS
    <2>. HIDE DEF T
    <2>. QED
      BY <1>2, <2>1, Least
  <1>4. k # 0
    BY <1>1, <1>3
  <1>5. k - 1 \in 0..Len(list) /\ k \in 1..Len(list) /\ k - 1 \notin T
    BY <1>3, <1>4
  <1>6. <<k - 1, after[k - 1]>> \in held
    BY <1>5
  <1>7. <<k, after[k]>> \in held
    BY <1>1, <1>5, <1>6
  <1>. QED
    BY <1>3, <1>7

\* Two functions that agree on all that a search meets take it the same way.
LEMMA SameWay ==
  ASSUME NEW f, NEW g, NEW nodes, NEW search, NEW list, Len(list) \in Nat, NEW met,
         search \in met,
         \A k \in 1..Len(list) : \A s \in met :
           /\ VisitNext(f, nodes, s, list[k]) = VisitNext(g, nodes, s, list[k])
           /\ VisitNext(f, nodes, s, list[k]) \in met
  PROVE  VisitAll(f, nodes, search, list) = VisitAll(g, nodes, search, list)
  <1>1. PICK a : /\ VisitAll(f, nodes, search, list) = a[Len(list)]
                 /\ a[0] = search
                 /\ \A k \in 1..Len(list) : a[k] = VisitNext(f, nodes, a[k - 1], list[k])
    BY CourseOf
  <1>2. PICK b : /\ VisitAll(g, nodes, search, list) = b[Len(list)]
                 /\ b[0] = search
                 /\ \A k \in 1..Len(list) : b[k] = VisitNext(g, nodes, b[k - 1], list[k])
    BY CourseOf
  <1>. DEFINE T == {k \in 0..Len(list) : ~(a[k] = b[k] /\ a[k] \in met)}
  <1>3. SUFFICES ASSUME T # {} PROVE FALSE
    BY <1>1, <1>2
  <1>4. PICK k \in T : \A j \in T : k <= j
    <2>1. T \in SUBSET Nat
      OBVIOUS
    <2>. HIDE DEF T
    <2>. QED
      BY <1>3, <2>1, Least
  <1>5. k # 0
    BY <1>1, <1>2, <1>4
  <1>6. k - 1 \in 0..Len(list) /\ k \in 1..Len(list) /\ k - 1 \notin T
    BY <1>4, <1>5
  <1>7. a[k - 1] = b[k - 1] /\ a[k - 1] \in met
    BY <1>6
  <1>8. a[k] = b[k] /\ a[k] \in met
    BY <1>1, <1>2, <1>6, <1>7
  <1>. QED
    BY <1>4, <1>8
-----------------------------------------------------------------------------
\* What a search has yet to enter, and how many of them.
Rest(graph, search) == DOMAIN graph \ (search.visiting \union search.visited)
Left(graph, search) == Cardinality(Rest(graph, search))

\* The searches that have come as far as this one.
Beyond(graph, search) == {s \in Searches(DOMAIN graph) : Rest(graph, s) \subseteq Rest(graph, search)}

IsGraph(graph) ==
  /\ IsFiniteSet(DOMAIN graph)
  /\ \A node \in DOMAIN graph :
       Len(graph[node]) \in Nat /\ DOMAIN graph[node] = 1..Len(graph[node])

LEMMA LeftShrinks ==
  ASSUME NEW graph, IsGraph(graph), NEW s \in Searches(DOMAIN graph)
  PROVE  /\ Left(graph, s) \in Nat
         /\ \A t \in Beyond(graph, s) : Left(graph, t) \in Nat /\ Left(graph, t) <= Left(graph, s)
         /\ \A t : Rest(graph, t) \subseteq Rest(graph, s) /\ Rest(graph, t) # Rest(graph, s) =>
              Left(graph, t) \in Nat /\ Left(graph, t) < Left(graph, s)
         /\ Left(graph, s) <= Cardinality(DOMAIN graph)
  <1>1. IsFiniteSet(DOMAIN graph) /\ Rest(graph, s) \in SUBSET DOMAIN graph
    BY DEF IsGraph, Rest
  <1>2. IsFiniteSet(Rest(graph, s)) /\ Left(graph, s) <= Cardinality(DOMAIN graph)
    BY <1>1, FS_Subset DEF Left
  <1>3. Left(graph, s) \in Nat
    BY <1>2, FS_CardinalityType DEF Left
  <1>4. ASSUME NEW t, Rest(graph, t) \subseteq Rest(graph, s)
        PROVE  /\ Left(graph, t) \in Nat /\ Left(graph, t) <= Left(graph, s)
               /\ Rest(graph, t) # Rest(graph, s) => Left(graph, t) # Left(graph, s)
    BY <1>2, <1>4, FS_Subset, FS_CardinalityType DEF Left
  <1>. QED
    BY <1>2, <1>3, <1>4 DEF Beyond

LEMMA EnterGoesOn ==
  ASSUME NEW graph, IsGraph(graph), NEW s \in Searches(DOMAIN graph), NEW n \in DOMAIN graph,
         n \notin s.visiting, n \notin s.visited
  PROVE  /\ Enter(s, n) \in Searches(DOMAIN graph)
         /\ Enter(s, n).visiting = s.visiting \union {n}
         /\ Enter(s, n).visited = s.visited /\ Enter(s, n).cyclic = s.cyclic
         /\ Left(graph, Enter(s, n)) \in Nat /\ Left(graph, Enter(s, n)) < Left(graph, s)
         /\ Beyond(graph, Enter(s, n)) \subseteq Beyond(graph, s)
  <1>1. /\ Enter(s, n) \in Searches(DOMAIN graph)
        /\ Enter(s, n).visiting = s.visiting \union {n}
        /\ Enter(s, n).visited = s.visited /\ Enter(s, n).cyclic = s.cyclic
    BY DEF Searches, Enter
  <1>2. Rest(graph, Enter(s, n)) = Rest(graph, s) \ {n} /\ n \in Rest(graph, s)
    BY <1>1 DEF Rest
  <1>. QED
    BY <1>1, <1>2, LeftShrinks DEF Beyond

LEMMA LeaveGoesOn ==
  ASSUME NEW graph, NEW s \in Searches(DOMAIN graph), NEW n \in DOMAIN graph
  PROVE  /\ Leave(s, n) \in Beyond(graph, s)
         /\ Leave(s, n).visiting = s.visiting \ {n}
         /\ Leave(s, n).visited = s.visited \union {n} /\ Leave(s, n).cyclic = s.cyclic
  <1>1. /\ Leave(s, n) \in Searches(DOMAIN graph)
        /\ Leave(s, n).visiting = s.visiting \ {n}
        /\ Leave(s, n).visited = s.visited \union {n} /\ Leave(s, n).cyclic = s.cyclic
    BY DEF Searches, Leave
  <1>. QED
    BY <1>1 DEF Beyond, Rest

\* f visits as the code does wherever less than k is left.
Visits(f, graph, k) ==
  \A s \in Searches(DOMAIN graph), n \in DOMAIN graph : Left(graph, s) < k =>
    f[<<s, n>>] = VisitNode(f, graph, s, n) /\ f[<<s, n>>] \in Beyond(graph, s)

LEMMA OneLevel ==
  ASSUME NEW graph, IsGraph(graph), NEW k \in Nat, NEW f, NEW g, Visits(f, graph, k),
         \A s \in Searches(DOMAIN graph), n \in DOMAIN graph : Left(graph, s) < k => g[<<s, n>>] = f[<<s, n>>],
         NEW s \in Searches(DOMAIN graph), NEW n \in DOMAIN graph, Left(graph, s) <= k
  PROVE  /\ VisitNode(f, graph, s, n) = VisitNode(g, graph, s, n)
         /\ VisitNode(f, graph, s, n) \in Beyond(graph, s)
  <1>1. CASE n \in s.visiting
    <2>1. [s EXCEPT !.cyclic = TRUE] \in Beyond(graph, s)
      BY DEF Searches, Beyond, Rest
    <2>. QED
      BY <1>1, <2>1 DEF VisitNode
  <1>2. CASE n \notin s.visiting /\ n \in s.visited
    BY <1>2 DEF VisitNode, Beyond
  <1>3. CASE n \notin s.visiting /\ n \notin s.visited
    <2>. DEFINE e == Enter(s, n)
                met == Beyond(graph, e)
                deps == graph[n]
                nodes == DOMAIN graph
    <2>1. /\ e \in Searches(nodes) /\ Left(graph, e) < k /\ Left(graph, e) \in Nat
          /\ met \subseteq Beyond(graph, s) /\ e \in met
      <3>1. e \in met
        BY <1>3, EnterGoesOn DEF Beyond
      <3>2. Left(graph, s) \in Nat
        BY LeftShrinks
      <3>. QED
        BY <1>3, <3>1, <3>2, EnterGoesOn
    <2>2. Len(deps) \in Nat
      BY DEF IsGraph
    <2>3. ASSUME NEW t \in met, NEW d
          PROVE  /\ VisitNext(f, nodes, t, d) = VisitNext(g, nodes, t, d)
                 /\ VisitNext(f, nodes, t, d) \in met
      <3>. HIDE DEF e
      <3>1. t \in Searches(nodes) /\ Left(graph, t) < k
        BY <2>1, LeftShrinks DEF Beyond
      <3>2. d \in nodes => f[<<t, d>>] = g[<<t, d>>] /\ f[<<t, d>>] \in Beyond(graph, t)
        BY <3>1 DEF Visits
      <3>. QED
        BY <3>2 DEF VisitNext, Beyond
    <2>. HIDE DEF e, met, deps, nodes
    <2>4. VisitAll(f, nodes, e, deps) = VisitAll(g, nodes, e, deps)
      BY <2>1, <2>2, <2>3, SameWay
    <2>5. VisitAll(f, nodes, e, deps) \in met
      <3>. DEFINE held == {p \in (0..Len(deps)) \X met : TRUE}
      <3>1. <<0, e>> \in held
        BY <2>1, <2>2
      <3>2. ASSUME NEW i \in 1..Len(deps), NEW t, <<i - 1, t>> \in held
            PROVE  <<i, VisitNext(f, nodes, t, deps[i])>> \in held
        BY <2>2, <2>3, <3>2
      <3>3. <<Len(deps), VisitAll(f, nodes, e, deps)>> \in held
        <4>. HIDE DEF held
        <4>. QED
          BY <2>2, <3>1, <3>2, ThroughList
      <3>. QED
        BY <3>3
    <2>6. Leave(VisitAll(f, nodes, e, deps), n) \in met
      <3>1. VisitAll(f, nodes, e, deps) \in Searches(DOMAIN graph)
        BY <2>5 DEF met, Beyond
      <3>2. Leave(VisitAll(f, nodes, e, deps), n) \in Beyond(graph, VisitAll(f, nodes, e, deps))
        BY <3>1, LeaveGoesOn
      <3>. QED
        BY <2>5, <3>2 DEF met, Beyond
    <2>. QED
      BY <1>3, <2>1, <2>4, <2>6 DEF VisitNode, e, deps, nodes
  <1>. QED
    BY <1>1, <1>2, <1>3

LEMMA VisitsExist ==
  ASSUME NEW graph, IsGraph(graph), NEW k \in Nat
  PROVE  \E f : Visits(f, graph, k)
  <1>. DEFINE T == {i \in Nat : ~\E f : Visits(f, graph, i)}
  <1>1. SUFFICES ASSUME T # {} PROVE FALSE
    OBVIOUS
  <1>2. PICK i \in T : \A j \in T : i <= j
    <2>1. T \in SUBSET Nat
      OBVIOUS
    <2>. HIDE DEF T
    <2>. QED
      BY <1>1, <2>1, Least
  <1>3. i # 0
    <2>1. \A s \in Searches(DOMAIN graph) : ~(Left(graph, s) < 0)
      BY LeftShrinks
    <2>2. Visits(<<>>, graph, 0)
      BY <2>1 DEF Visits
    <2>. QED
      BY <1>2, <2>2
  <1>4. i - 1 \in Nat /\ i - 1 \notin T
    BY <1>2, <1>3
  <1>5. PICK f : Visits(f, graph, i - 1)
    BY <1>4
  <1>. DEFINE g == [at \in Searches(DOMAIN graph) \X DOMAIN graph |-> VisitNode(f, graph, at[1], at[2])]
  <1>6. \A s \in Searches(DOMAIN graph), n \in DOMAIN graph : g[<<s, n>>] = VisitNode(f, graph, s, n)
    OBVIOUS
  <1>. HIDE DEF g
  <1>7. \A s \in Searches(DOMAIN graph), n \in DOMAIN graph : Left(graph, s) < i - 1 => g[<<s, n>>] = f[<<s, n>>]
    BY <1>5, <1>6 DEF Visits
  <1>8. ASSUME NEW s \in Searches(DOMAIN graph), NEW n \in DOMAIN graph, Left(graph, s) < i
        PROVE  g[<<s, n>>] = VisitNode(g, graph, s, n) /\ g[<<s, n>>] \in Beyond(graph, s)
    <2>1. Left(graph, s) <= i - 1
      BY <1>2, <1>8, LeftShrinks
    <2>2. /\ VisitNode(f, graph, s, n) = VisitNode(g, graph, s, n)
          /\ VisitNode(f, graph, s, n) \in Beyond(graph, s)
      BY <1>4, <1>5, <1>7, <2>1, OneLevel
    <2>. QED
      BY <1>6, <2>2
  <1>9. Visits(g, graph, i)
    BY <1>8 DEF Visits
  <1>. QED
    BY <1>2, <1>9

\* The search of the model is a solution of its recursive definition.
LEMMA VisitUnfolds ==
  ASSUME NEW graph, IsGraph(graph),
         NEW s \in Searches(DOMAIN graph), NEW n \in DOMAIN graph
  PROVE  Visit(graph)[<<s, n>>] = VisitNode(Visit(graph), graph, s, n)
  <1>. DEFINE Solves(v) == v = [at \in Searches(DOMAIN graph) \X DOMAIN graph |-> VisitNode(v, graph, at[1], at[2])]
  <1>1. \E v : Solves(v)
    <2>. DEFINE k == Cardinality(DOMAIN graph) + 1
    <2>1. k \in Nat
      BY FS_CardinalityType DEF IsGraph
    <2>2. \A t \in Searches(DOMAIN graph) : Left(graph, t) < k /\ Left(graph, t) \in Nat
      BY <2>1, LeftShrinks, FS_CardinalityType DEF IsGraph
    <2>. HIDE DEF k
    <2>3. PICK f : Visits(f, graph, k)
      BY <2>1, VisitsExist
    <2>. DEFINE g == [at \in Searches(DOMAIN graph) \X DOMAIN graph |-> VisitNode(f, graph, at[1], at[2])]
    <2>4. \A t \in Searches(DOMAIN graph), m \in DOMAIN graph : g[<<t, m>>] = f[<<t, m>>]
      BY <2>2, <2>3 DEF Visits
    <2>5. \A t \in Searches(DOMAIN graph), m \in DOMAIN graph :
            VisitNode(f, graph, t, m) = VisitNode(g, graph, t, m)
      <3>. HIDE DEF g
      <3>. TAKE t \in Searches(DOMAIN graph), m \in DOMAIN graph
      <3>1. Left(graph, t) <= k
        BY <2>1, <2>2
      <3>. QED
        BY <2>1, <2>3, <2>4, <3>1, OneLevel
    <2>6. Solves(g)
      BY <2>5
    <2>. QED
      BY <2>6
  <1>2. Visit(graph) = CHOOSE v : Solves(v)
    BY DEF Visit
  <1>3. Solves(Visit(graph))
    <2>. HIDE DEF Solves
    <2>. QED
      BY <1>1, <1>2
  <1>. QED
    BY <1>3

LEMMA VisitGoesOn ==
  ASSUME NEW graph, IsGraph(graph), NEW k \in Nat
  PROVE  Visits(Visit(graph), graph, k)
  <1>. DEFINE T == {i \in Nat : ~Visits(Visit(graph), graph, i)}
  <1>1. SUFFICES ASSUME T # {} PROVE FALSE
    OBVIOUS
  <1>2. PICK i \in T : \A j \in T : i <= j
    <2>1. T \in SUBSET Nat
      OBVIOUS
    <2>. HIDE DEF T
    <2>. QED
      BY <1>1, <2>1, Least
  <1>3. i # 0
    <2>1. \A s \in Searches(DOMAIN graph) : ~(Left(graph, s) < 0)
      BY LeftShrinks
    <2>2. Visits(Visit(graph), graph, 0)
      BY <2>1 DEF Visits
    <2>. QED
      BY <1>2, <2>2
  <1>4. i - 1 \in Nat /\ Visits(Visit(graph), graph, i - 1)
    BY <1>2, <1>3
  <1>5. ASSUME NEW s \in Searches(DOMAIN graph), NEW n \in DOMAIN graph, Left(graph, s) < i
        PROVE  /\ Visit(graph)[<<s, n>>] = VisitNode(Visit(graph), graph, s, n)
               /\ Visit(graph)[<<s, n>>] \in Beyond(graph, s)
    <2>1. Left(graph, s) <= i - 1
      BY <1>2, <1>5, LeftShrinks
    <2>2. VisitNode(Visit(graph), graph, s, n) \in Beyond(graph, s)
      BY <1>4, <2>1, OneLevel
    <2>. QED
      BY <2>2, VisitUnfolds
  <1>6. Visits(Visit(graph), graph, i)
    BY <1>5 DEF Visits
  <1>. QED
    BY <1>2, <1>6
-----------------------------------------------------------------------------
\* Every node of the circle leads to one of them.
Circle(graph, circle) ==
  circle # {} /\ \A a \in circle : \E b \in circle : b \in Range(graph[a])

HasCircle(graph) == \E circle \in SUBSET DOMAIN graph : Circle(graph, circle)

\* What is visited is not on the path, leads only to what is visited, and has no circle.
Sound(graph, s) ==
  /\ s.visiting \intersect s.visited = {}
  /\ \A a \in s.visited : Range(graph[a]) \intersect DOMAIN graph \subseteq s.visited
  /\ \A circle \in SUBSET s.visited : ~Circle(graph, circle)

\* Every node of the path leads to another one of it or to n.
PathTo(graph, s, n) == \A a \in s.visiting : \E b \in s.visiting \union {n} : b \in Range(graph[a])

\* What a search finds from s on: a circle, or that there is none in these nodes.
Finds(graph, s, found, t) ==
  /\ t.cyclic => HasCircle(graph)
  /\ ~t.cyclic => /\ t.visiting = s.visiting
                  /\ s.visited \subseteq t.visited /\ found \subseteq t.visited
                  /\ Sound(graph, t)

VisitsFind(graph, k) ==
  \A s \in Searches(DOMAIN graph), n \in DOMAIN graph :
    Left(graph, s) < k /\ ~s.cyclic /\ Sound(graph, s) /\ PathTo(graph, s, n) =>
      Finds(graph, s, {n}, Visit(graph)[<<s, n>>])

LEMMA ListFinds ==
  ASSUME NEW graph, IsGraph(graph), NEW k \in Nat, VisitsFind(graph, k),
         NEW e \in Searches(DOMAIN graph), Left(graph, e) < k, ~e.cyclic, Sound(graph, e),
         NEW list, Len(list) \in Nat,
         \A i \in 1..Len(list) : list[i] \in DOMAIN graph => PathTo(graph, e, list[i])
  PROVE  /\ VisitAll(Visit(graph), DOMAIN graph, e, list) \in Searches(DOMAIN graph)
         /\ Finds(graph, e, {list[i] : i \in 1..Len(list)} \intersect DOMAIN graph,
                  VisitAll(Visit(graph), DOMAIN graph, e, list))
  <1>. DEFINE been(i) == {list[j] : j \in 1..i} \intersect DOMAIN graph
              held == {p \in (0..Len(list)) \X Beyond(graph, e) :
                         \A i, t : p = <<i, t>> => Finds(graph, e, been(i), t)}
  <1>1. <<0, e>> \in held
    <2>1. been(0) = {} /\ e \in Beyond(graph, e)
      BY DEF Beyond
    <2>2. Finds(graph, e, been(0), e)
      BY <2>1 DEF Finds
    <2>. HIDE DEF been
    <2>. QED
      BY <2>1, <2>2
  <1>2. ASSUME NEW i \in 1..Len(list), NEW t, <<i - 1, t>> \in held
        PROVE  <<i, VisitNext(Visit(graph), DOMAIN graph, t, list[i])>> \in held
    <2>1. t \in Beyond(graph, e) /\ Finds(graph, e, been(i - 1), t) /\ i \in 0..Len(list)
      <3>. HIDE DEF been
      <3>. QED
        BY <1>2
    <2>2. been(i) = been(i - 1) \union ({list[i]} \intersect DOMAIN graph)
      <3>1. \A j : j \in 1..i <=> j \in 1..(i - 1) \/ j = i
        OBVIOUS
      <3>. QED
        BY <3>1
    <2>. HIDE DEF been
    <2>. SUFFICES ASSUME NEW u, u = VisitNext(Visit(graph), DOMAIN graph, t, list[i])
                  PROVE  u \in Beyond(graph, e) /\ Finds(graph, e, been(i), u)
      BY <2>1
    <2>3. CASE t.cyclic
      BY <2>1, <2>3 DEF VisitNext, Finds
    <2>4. CASE ~t.cyclic /\ list[i] \notin DOMAIN graph
      <3>1. u = t /\ been(i) = been(i - 1)
        BY <2>2, <2>4 DEF VisitNext
      <3>. QED
        BY <2>1, <3>1
    <2>5. CASE ~t.cyclic /\ list[i] \in DOMAIN graph
      <3>1. u = Visit(graph)[<<t, list[i]>>]
        BY <2>5 DEF VisitNext
      <3>2. /\ t.visiting = e.visiting /\ e.visited \subseteq t.visited
            /\ been(i - 1) \subseteq t.visited /\ Sound(graph, t)
        BY <2>1, <2>5 DEF Finds
      <3>3. t \in Searches(DOMAIN graph) /\ Left(graph, t) < k /\ Left(graph, t) \in Nat
        BY <2>1, LeftShrinks DEF Beyond
      <3>4. PathTo(graph, t, list[i])
        BY <2>5, <3>2 DEF PathTo
      <3>5. Finds(graph, t, {list[i]}, u)
        BY <2>5, <3>1, <3>2, <3>3, <3>4 DEF VisitsFind
      <3>6. u \in Beyond(graph, t)
        BY <2>5, <3>1, <3>3, VisitGoesOn DEF Visits
      <3>7. u \in Beyond(graph, e)
        BY <2>1, <3>6 DEF Beyond
      <3>8. Finds(graph, e, been(i), u)
        BY <2>2, <3>2, <3>5 DEF Finds
      <3>. QED
        BY <3>7, <3>8
    <2>. QED
      BY <2>3, <2>4, <2>5
  <1>3. <<Len(list), VisitAll(Visit(graph), DOMAIN graph, e, list)>> \in held
    <2>. HIDE DEF held
    <2>. QED
      BY <1>1, <1>2, ThroughList
  <1>. QED
    BY <1>3 DEF Beyond

\* A node that leads only to visited nodes closes no circle.
LEMMA AddVisited ==
  ASSUME NEW graph, NEW t, NEW n, NEW u,
         Sound(graph, t), n \in t.visiting, Range(graph[n]) \intersect DOMAIN graph \subseteq t.visited,
         n \in DOMAIN graph, t.visited \subseteq DOMAIN graph,
         u.visiting = t.visiting \ {n}, u.visited = t.visited \union {n}
  PROVE  Sound(graph, u)
  <1>1. n \notin t.visited
    BY DEF Sound
  <1>2. ASSUME NEW circle \in SUBSET u.visited, Circle(graph, circle)
        PROVE  FALSE
    <2>1. \A a \in circle : \E b \in circle : b \in Range(graph[a]) /\ b \in t.visited
      <3>. TAKE a \in circle
      <3>1. PICK b \in circle : b \in Range(graph[a])
        BY <1>2 DEF Circle
      <3>2. b \in DOMAIN graph /\ a \in t.visited \union {n}
        BY <1>2
      <3>. QED
        BY <3>1, <3>2 DEF Sound
    <2>2. Circle(graph, circle \ {n})
      <3>1. \A a \in circle \ {n} : \E b \in circle \ {n} : b \in Range(graph[a])
        BY <1>1, <2>1
      <3>2. circle \ {n} # {}
        BY <1>1, <1>2, <2>1 DEF Circle
      <3>. QED
        BY <3>1, <3>2 DEF Circle
    <2>3. circle \ {n} \in SUBSET t.visited
      BY <1>2
    <2>. QED
      BY <2>2, <2>3 DEF Sound
  <1>3. \A a \in u.visited : Range(graph[a]) \intersect DOMAIN graph \subseteq u.visited
    BY DEF Sound
  <1>4. u.visiting \intersect u.visited = {}
    BY DEF Sound
  <1>. QED
    BY <1>2, <1>3, <1>4 DEF Sound

LEMMA NodeFinds ==
  ASSUME NEW graph, IsGraph(graph), NEW k \in Nat, VisitsFind(graph, k),
         NEW s \in Searches(DOMAIN graph), NEW n \in DOMAIN graph, Left(graph, s) <= k,
         ~s.cyclic, Sound(graph, s), PathTo(graph, s, n)
  PROVE  Finds(graph, s, {n}, VisitNode(Visit(graph), graph, s, n))
  <1>1. CASE n \in s.visiting
    <2>1. Circle(graph, s.visiting) /\ s.visiting \in SUBSET DOMAIN graph
      BY <1>1 DEF PathTo, Circle, Searches
    <2>2. [s EXCEPT !.cyclic = TRUE].cyclic
      BY DEF Searches
    <2>. QED
      BY <1>1, <2>1, <2>2 DEF VisitNode, Finds, HasCircle
  <1>2. CASE n \notin s.visiting /\ n \in s.visited
    BY <1>2 DEF VisitNode, Finds
  <1>3. CASE n \notin s.visiting /\ n \notin s.visited
    <2>. SUFFICES ASSUME NEW e, e = Enter(s, n),
                         NEW t, t = VisitAll(Visit(graph), DOMAIN graph, e, graph[n])
                  PROVE  Finds(graph, s, {n}, Leave(t, n))
      BY <1>3 DEF VisitNode
    <2>1. /\ e \in Searches(DOMAIN graph) /\ e.visiting = s.visiting \union {n}
          /\ e.visited = s.visited /\ ~e.cyclic
          /\ Left(graph, e) < k
      BY <1>3, EnterGoesOn, LeftShrinks
    <2>2. Sound(graph, e)
      BY <1>3, <2>1 DEF Sound
    <2>3. Len(graph[n]) \in Nat /\ Range(graph[n]) = {graph[n][i] : i \in 1..Len(graph[n])}
      BY DEF IsGraph, Range
    <2>4. ASSUME NEW i \in 1..Len(graph[n]) PROVE PathTo(graph, e, graph[n][i])
      BY <2>1, <2>3 DEF PathTo
    <2>5. t \in Searches(DOMAIN graph) /\ Finds(graph, e, Range(graph[n]) \intersect DOMAIN graph, t)
      BY <2>1, <2>2, <2>3, <2>4, ListFinds
    <2>6. /\ Leave(t, n).visiting = t.visiting \ {n}
          /\ Leave(t, n).visited = t.visited \union {n} /\ Leave(t, n).cyclic = t.cyclic
      BY <2>5, LeaveGoesOn
    <2>7. CASE t.cyclic
      BY <2>5, <2>6, <2>7 DEF Finds
    <2>8. CASE ~t.cyclic
      <3>1. /\ t.visiting = s.visiting \union {n} /\ s.visited \subseteq t.visited
            /\ Range(graph[n]) \intersect DOMAIN graph \subseteq t.visited /\ Sound(graph, t)
        BY <2>1, <2>5, <2>8 DEF Finds
      <3>2. Sound(graph, Leave(t, n))
        BY <2>5, <2>6, <3>1, AddVisited DEF Searches
      <3>. QED
        BY <1>3, <2>6, <2>8, <3>1, <3>2 DEF Finds
    <2>. QED
      BY <2>7, <2>8
  <1>. QED
    BY <1>1, <1>2, <1>3

LEMMA VisitFinds ==
  ASSUME NEW graph, IsGraph(graph), NEW k \in Nat
  PROVE  VisitsFind(graph, k)
  <1>. DEFINE T == {i \in Nat : ~VisitsFind(graph, i)}
  <1>1. SUFFICES ASSUME T # {} PROVE FALSE
    OBVIOUS
  <1>2. PICK i \in T : \A j \in T : i <= j
    <2>1. T \in SUBSET Nat
      OBVIOUS
    <2>. HIDE DEF T
    <2>. QED
      BY <1>1, <2>1, Least
  <1>3. i # 0
    <2>1. \A s \in Searches(DOMAIN graph) : ~(Left(graph, s) < 0)
      BY LeftShrinks
    <2>2. VisitsFind(graph, 0)
      BY <2>1 DEF VisitsFind
    <2>. QED
      BY <1>2, <2>2
  <1>4. i - 1 \in Nat /\ VisitsFind(graph, i - 1)
    BY <1>2, <1>3
  <1>5. ASSUME NEW s \in Searches(DOMAIN graph), NEW n \in DOMAIN graph, Left(graph, s) < i,
               ~s.cyclic, Sound(graph, s), PathTo(graph, s, n)
        PROVE  Finds(graph, s, {n}, Visit(graph)[<<s, n>>])
    <2>1. Left(graph, s) <= i - 1
      BY <1>2, <1>5, LeftShrinks
    <2>. QED
      BY <1>4, <1>5, <2>1, NodeFinds, VisitUnfolds
  <1>6. VisitsFind(graph, i)
    BY <1>5 DEF VisitsFind
  <1>. QED
    BY <1>2, <1>6

LEMMA BacklogGraph ==
  ASSUME NEW stories, IsBacklog(stories)
  PROVE  /\ IsGraph(GraphOf(stories)) /\ DOMAIN GraphOf(stories) = StoryIds(stories)
         /\ Len(stories) \in Nat /\ DOMAIN stories = 1..Len(stories)
         /\ \A i \in DOMAIN stories : stories[i].id \in StoryIds(stories)
         /\ DistinctIds(stories) => \A i \in DOMAIN stories : GraphOf(stories)[stories[i].id] = stories[i].deps
  <1>1. Len(stories) \in Nat /\ DOMAIN stories = 1..Len(stories)
    BY DEF IsBacklog
  <1>2. IsFiniteSet(StoryIds(stories))
    <2>. DEFINE ids == [i \in 1..Len(stories) |-> stories[i].id]
    <2>1. IsFiniteSet(1..Len(stories))
      BY <1>1, FS_Interval
    <2>2. ids \in Surjection(1..Len(stories), StoryIds(stories))
      BY <1>1 DEF StoryIds, Surjection, Range
    <2>. HIDE DEF ids
    <2>. QED
      BY <2>1, <2>2, FS_Surjection
  <1>3. DOMAIN GraphOf(stories) = StoryIds(stories)
    BY DEF GraphOf
  <1>4. ASSUME NEW id \in StoryIds(stories)
        PROVE  \E i \in DOMAIN stories : stories[i].id = id /\ GraphOf(stories)[id] = stories[i].deps
    <2>. DEFINE T == {i \in 1..Len(stories) : stories[i].id = id}
    <2>1. T # {}
      BY <1>1 DEF StoryIds
    <2>2. PICK i \in T : \A j \in T : i >= j
      <3>1. T \in SUBSET (1..Len(stories))
        OBVIOUS
      <3>. HIDE DEF T
      <3>. QED
        BY <1>1, <2>1, <3>1, Greatest
    <2>3. \A j \in (i + 1)..Len(stories) : stories[j].id # id
      <3>. SUFFICES ASSUME NEW j \in (i + 1)..Len(stories), stories[j].id = id PROVE FALSE
        OBVIOUS
      <3>1. j \in 1..Len(stories) /\ j > i
        BY <1>1, <2>2
      <3>2. j \in T
        BY <3>1
      <3>. QED
        BY <2>2, <3>1, <3>2
    <2>. DEFINE last == CHOOSE l \in DOMAIN stories :
                          stories[l].id = id /\ \A j \in (l + 1)..Len(stories) : stories[j].id # id
    <2>4. last \in DOMAIN stories /\ stories[last].id = id
      BY <1>1, <2>2, <2>3
    <2>5. GraphOf(stories)[id] = stories[last].deps
      BY DEF GraphOf
    <2>. QED
      BY <2>4, <2>5
  <1>5. IsGraph(GraphOf(stories))
    <2>. SUFFICES ASSUME NEW id \in StoryIds(stories)
                  PROVE  /\ Len(GraphOf(stories)[id]) \in Nat
                         /\ DOMAIN GraphOf(stories)[id] = 1..Len(GraphOf(stories)[id])
      BY <1>2, <1>3 DEF IsGraph
    <2>1. PICK i \in DOMAIN stories : GraphOf(stories)[id] = stories[i].deps
      BY <1>4
    <2>. QED
      BY <2>1 DEF IsBacklog
  <1>6. \A i \in DOMAIN stories : stories[i].id \in StoryIds(stories)
    BY DEF StoryIds
  <1>7. ASSUME DistinctIds(stories), NEW i \in DOMAIN stories
        PROVE  GraphOf(stories)[stories[i].id] = stories[i].deps
    <2>1. PICK j \in DOMAIN stories : /\ stories[j].id = stories[i].id
                                      /\ GraphOf(stories)[stories[i].id] = stories[j].deps
      BY <1>4, <1>6
    <2>2. j = i
      BY <1>7, <2>1 DEF DistinctIds, IsInjective
    <2>. QED
      BY <2>1, <2>2
  <1>. QED
    BY <1>1, <1>2, <1>3, <1>5, <1>6, <1>7

\* The depth-first search of the workers, the endpoint and the contract finds exactly
\* the cycles: for every list of stories, with unknown dependencies and repeated ids.
THEOREM SearchIsRight ==
  ASSUME NEW stories, IsBacklog(stories)
  PROVE  HasCycle(stories) <=> DependsOnItself(stories)
  <1>. SUFFICES ASSUME NEW graph, graph = GraphOf(stories),
                       NEW ids, ids = [i \in DOMAIN stories |-> stories[i].id],
                       NEW t, t = VisitAll(Visit(graph), DOMAIN graph, Start, ids)
                PROVE  t.cyclic <=> HasCircle(graph)
    <2>1. DependsOnItself(stories) <=> HasCircle(GraphOf(stories))
      BY BacklogGraph DEF DependsOnItself, HasCircle, Circle
    <2>. QED
      BY <2>1, BacklogGraph DEF HasCycle
  <1>1. IsGraph(graph) /\ DOMAIN graph = StoryIds(stories)
    BY BacklogGraph
  <1>2. Len(ids) \in Nat /\ Len(ids) = Len(stories) /\ {ids[i] : i \in 1..Len(ids)} = StoryIds(stories)
    <2>1. Len(stories) \in Nat /\ DOMAIN stories = 1..Len(stories)
      BY BacklogGraph
    <2>2. Len(ids) = Len(stories)
      <3>1. ids \in Seq(StoryIds(stories)) /\ DOMAIN ids = 1..Len(stories)
        BY <2>1, BacklogGraph
      <3>. QED
        BY <2>1, <3>1
    <2>3. {ids[i] : i \in 1..Len(ids)} = {stories[i].id : i \in DOMAIN stories}
      BY <2>1, <2>2
    <2>. QED
      BY <2>1, <2>2, <2>3 DEF StoryIds
  <1>3. /\ Start \in Searches(DOMAIN graph) /\ ~Start.cyclic
        /\ Start.visiting = {} /\ Start.visited = {}
    BY DEF Start, Searches
  <1>4. Sound(graph, Start) /\ \A n : PathTo(graph, Start, n)
    BY <1>3 DEF Sound, PathTo, Circle
  <1>5. PICK k \in Nat : Left(graph, Start) < k
    <2>1. Left(graph, Start) \in Nat
      BY <1>1, <1>3, LeftShrinks
    <2>2. Left(graph, Start) + 1 \in Nat /\ Left(graph, Start) < Left(graph, Start) + 1
      BY <2>1
    <2>. QED
      BY <2>2
  <1>6. t \in Searches(DOMAIN graph) /\ Finds(graph, Start, DOMAIN graph, t)
    <2>1. VisitsFind(graph, k)
      BY <1>1, VisitFinds
    <2>2. {ids[i] : i \in 1..Len(ids)} \intersect DOMAIN graph = DOMAIN graph
      BY <1>1, <1>2
    <2>3. \A i \in 1..Len(ids) : ids[i] \in DOMAIN graph => PathTo(graph, Start, ids[i])
      BY <1>4
    <2>4. /\ t \in Searches(DOMAIN graph)
          /\ Finds(graph, Start, {ids[i] : i \in 1..Len(ids)} \intersect DOMAIN graph, t)
      BY <1>1, <1>2, <1>3, <1>4, <1>5, <2>1, <2>3, ListFinds
    <2>. QED
      BY <2>2, <2>4
  <1>7. ASSUME ~t.cyclic PROVE ~HasCircle(graph)
    BY <1>6, <1>7 DEF Finds, Sound, HasCircle
  <1>. QED
    BY <1>6, <1>7 DEF Finds
-----------------------------------------------------------------------------
(***************************************************************************)
(* A session: what it pays for and what it reports.                        *)
(***************************************************************************)
BeforeAnswer == {"context", "heartbeat", "invoke", "waiting"}
Places == {"context", "heartbeat", "invoke", "waiting", "judge", "write", "upload",
           "storing", "submit", "execute", "ended"}

\* The values of the variables a session moves through.
Shape ==
  /\ role \in Roles
  /\ pc \in Places
  /\ attempt \in 0..MaxRepairs
  /\ exit \in {None, 0, 1, 2} /\ (exit # None <=> pc = "ended")
  /\ report \in {None, "PASS", "FAIL"}
  /\ task \in {"RUNNING", "SUCCEEDED", "FAILED"} /\ token \in BOOLEAN /\ call \in BOOLEAN
  /\ paid \in Nat /\ recorded \in Nat

\* What is paid for, what has a row and what was reported.
Spending ==
  /\ paid <= attempt + 1 /\ recorded <= paid
  /\ call => paid <= attempt /\ recorded = paid /\ pc \in {"waiting", "ended"}
  /\ pc \in BeforeAnswer => paid <= attempt
  /\ pc # "ended" => recorded = paid
  /\ reported # None =>
       ~call /\ reported = paid /\ pc \in {"execute", "upload", "storing", "ended"}

\* Only the QA goes on after its outcome, with one thing left to upload.
Afterwards ==
  /\ report # None => role = "qa" /\ reported # None
  /\ pc = "execute" => role = "qa" /\ reported # None
  /\ pc = "write" => role = "qa"
  /\ reported # None /\ pc \in {"upload", "storing"} => report # None /\ Tail(todo) = <<>>

SpendInv == Shape /\ Spending /\ Afterwards

LEMMA SpendInit == Init => SpendInv
  <1>. SUFFICES ASSUME Init PROVE SpendInv
    OBVIOUS
  <1>. USE RepairsAssumption, NoneAssumption
  <1>1. ~call /\ call \in BOOLEAN
    BY DEF Init
  <1>2. Shape
    BY <1>1 DEF Init, Shape, Places
  <1>3. Spending
    BY <1>1 DEF Init, Spending, BeforeAnswer
  <1>. QED
    BY <1>2, <1>3 DEF Init, SpendInv, Afterwards

LEMMA SpendStep == SpendInv /\ [Next]_vars => SpendInv'
  <1>. SUFFICES ASSUME SpendInv, [Next]_vars PROVE SpendInv'
    OBVIOUS
  <1>. USE RepairsAssumption, NoneAssumption
  <1>. USE DEF SpendInv, Shape, Spending, Afterwards, BeforeAnswer, Places,
               vars, worker, made, gateway, served, GoOn, Finish, GiveUp, Answer
  <1>1. CASE GetContext
    BY <1>1 DEF GetContext
  <1>2. CASE Heartbeat
    BY <1>2 DEF Heartbeat
  <1>3. CASE InvokeStart
    BY <1>3 DEF InvokeStart
  <1>4. CASE Reject
    BY <1>4 DEF Reject, Repair, Repairable
  <1>5. CASE UsePo
    BY <1>5 DEF UsePo
  <1>6. CASE UseQa
    BY <1>6 DEF UseQa
  <1>7. CASE UseDev
    BY <1>7 DEF UseDev
  <1>8. CASE WriteTest
    BY <1>8 DEF WriteTest
  <1>9. CASE Upload
    BY <1>9 DEF Upload
  <1>10. CASE Store
    BY <1>10 DEF Store, NextItem
  <1>11. CASE Submit
    BY <1>11 DEF Submit
  <1>12. CASE RunCases
    <2>1. CASE GiveUp /\ UNCHANGED report
      BY <1>12, <2>1 DEF RunCases
    <2>2. CASE /\ report' \in {"PASS", "FAIL"} /\ pc' = "upload"
               /\ todo' = <<[path |-> EvidencePath, content |-> report']>>
               /\ UNCHANGED <<attempt, doc, exit>>
      <3>1. Tail(todo') = <<>>
        BY <2>2
      <3>. QED
        BY <1>12, <2>2, <3>1 DEF RunCases
    <2>. QED
      BY <1>12, <2>1, <2>2 DEF RunCases
  <1>13. CASE Refused
    BY <1>13 DEF Refused
  <1>14. CASE NoAnswer
    BY <1>14 DEF NoAnswer
  <1>15. CASE InvokeEnd
    <2>1. call /\ ~call' /\ call' \in BOOLEAN /\ pc = "waiting" /\ reported = None
      BY <1>15 DEF InvokeEnd
    <2>. QED
      BY <1>15, <2>1 DEF InvokeEnd, InvokeFailed
  <1>16. CASE InvokeUnread
    <2>1. call /\ ~call' /\ call' \in BOOLEAN /\ pc = "ended" /\ reported = None
      BY <1>16 DEF InvokeUnread
    <2>. QED
      BY <1>16, <2>1 DEF InvokeUnread
  <1>17. CASE Expire
    BY <1>17 DEF Expire
  <1>18. CASE Settle
    BY <1>18 DEF Settle
  <1>19. CASE UNCHANGED vars
    BY <1>19
  <1>. QED
    BY <1>1, <1>2, <1>3, <1>4, <1>5, <1>6, <1>7, <1>8, <1>9, <1>10, <1>11, <1>12,
       <1>13, <1>14, <1>15, <1>16, <1>17, <1>18, <1>19 DEF Next, Work
-----------------------------------------------------------------------------
\* The answer that is judged is one of the model's, and what is used of it is valid.
Judged ==
  /\ pc \in {"judge", "write", "upload", "storing", "submit"} /\ report = None => doc \in Answers[role]
  /\ pc \in {"write", "upload", "storing", "submit"} /\ report = None => Valid

JudgeInv == SpendInv /\ Judged

LEMMA JudgeStep == JudgeInv /\ [Next]_vars => JudgeInv'
  <1>. SUFFICES ASSUME JudgeInv, [Next]_vars PROVE Judged'
    BY SpendStep DEF JudgeInv
  <1>. USE DEF JudgeInv, Judged, vars, worker, made, gateway, served, GoOn, Finish, GiveUp, Answer
  <1>0. doc' = doc /\ role' = role => (Valid <=> Valid')
    BY DEF Valid
  <1>. USE <1>0
  <1>1. CASE GetContext
    BY <1>1 DEF GetContext
  <1>2. CASE Heartbeat
    BY <1>2 DEF Heartbeat
  <1>3. CASE InvokeStart
    BY <1>3 DEF InvokeStart
  <1>4. CASE Reject
    BY <1>4 DEF Reject, Repair
  <1>5. CASE UsePo
    BY <1>5 DEF UsePo
  <1>6. CASE UseQa
    BY <1>6 DEF UseQa
  <1>7. CASE UseDev
    BY <1>7 DEF UseDev
  <1>8. CASE WriteTest
    BY <1>8 DEF WriteTest
  <1>9. CASE Upload
    BY <1>9 DEF Upload
  <1>10. CASE Store
    BY <1>10 DEF Store, NextItem
  <1>11. CASE Submit
    BY <1>11 DEF Submit
  <1>12. CASE RunCases
    BY <1>12, NoneAssumption DEF RunCases
  <1>13. CASE Refused
    BY <1>13 DEF Refused
  <1>14. CASE NoAnswer
    BY <1>14 DEF NoAnswer
  <1>15. CASE InvokeEnd
    BY <1>15 DEF InvokeEnd, InvokeFailed
  <1>16. CASE InvokeUnread
    BY <1>16 DEF InvokeUnread
  <1>17. CASE Expire
    BY <1>17 DEF Expire
  <1>18. CASE Settle
    BY <1>18 DEF Settle
  <1>19. CASE UNCHANGED vars
    BY <1>19
  <1>. QED
    BY <1>1, <1>2, <1>3, <1>4, <1>5, <1>6, <1>7, <1>8, <1>9, <1>10, <1>11, <1>12,
       <1>13, <1>14, <1>15, <1>16, <1>17, <1>18, <1>19 DEF Next, Work

LEMMA DifferentTexts ==
  ASSUME NEW criteria, AllDifferent(Stripped, criteria)
  PROVE  AllDifferent(Raw, criteria)
  BY DEF AllDifferent, Stripped, Raw, IsInjective

LEMMA WorkerBeforeServer ==
  ASSUME NEW backlog, PoWorkerAccepts(backlog)
  PROVE  PoServerAccepts(backlog)
  BY DifferentTexts DEF PoWorkerAccepts, PoServerAccepts

\* Beside the title and the consequences every limit asked for is within the delivery's.
LEMMA DeliveryIsTaken ==
  ASSUME NEW answer, NEW criteria, KeepsSchema(answer), ~TooMuchForDelivery(answer)
  PROVE  LET delivery == DeliveryOf(answer, criteria)
         IN DevServerAccepts(delivery, criteria) /\ DevStorable(delivery)
  <1>. DEFINE delivery == DeliveryOf(answer, criteria)
  <1>1. \A t \in DOMAIN DeliveryLimits : answer.length[t] \in 1..DeliveryLimits[t]
    BY DEF KeepsSchema, TooMuchForDelivery, AskedLimits, DeliveryLimits
  <1>2. /\ delivery.length = answer.length /\ delivery.nul = answer.nul
        /\ criteria \subseteq DOMAIN delivery.evidence
        /\ "PASS" \notin Range(delivery.evidence)
    BY DEF DeliveryOf, Range
  <1>3. DevServerAccepts(delivery, criteria)
    BY <1>1, <1>2 DEF DevServerAccepts
  <1>4. DevStorable(delivery)
    BY <1>2 DEF DevStorable, TooMuchForDelivery
  <1>. QED
    BY <1>3, <1>4

LEMMA ValidIsTaken == JudgeInv => SubmissionIsTaken
  <1>. SUFFICES ASSUME JudgeInv, pc = "submit"
                PROVE  \/ Taken
                       \/ role = "po" /\ ~PoStorable(doc)
                       \/ role = "dev" /\ (~KeepsSchema(doc) \/ TooMuchForDelivery(doc))
    BY DEF SubmissionIsTaken
  <1>1. report = None /\ role \in {"po", "dev", "qa"} /\ role \in Roles
    BY RolesAssumption DEF JudgeInv, SpendInv, Shape, Spending, Afterwards
  <1>2. Valid /\ doc \in Answers[role] /\ doc # NotJson
    BY <1>1 DEF JudgeInv, Judged, Valid
  <1>3. CASE role = "po"
    BY <1>2, <1>3, WorkerBeforeServer DEF Valid, Taken
  <1>4. CASE role = "qa"
    BY <1>2, <1>4 DEF Valid, Taken, QaWorkerAccepts, QaServerAccepts
  <1>5. CASE role = "dev"
    BY <1>5, DeliveryIsTaken DEF Taken
  <1>. QED
    BY <1>1, <1>3, <1>4, <1>5
-----------------------------------------------------------------------------
(* What is written, uploaded and stored. *)
LEMMA WrittenIsListed ==
  ASSUME NEW files, files \in Seq(Range(files)), NEW p \in DOMAIN Written(files)
  PROVE  \E f \in Range(files) : f.path = p /\ f.content = Written(files)[p]
  <1>. DEFINE I == {i \in 1..Len(files) : files[i].path = p}
  <1>1. Len(files) \in Nat /\ DOMAIN files = 1..Len(files)
    OBVIOUS
  <1>2. p \in {f.path : f \in Range(files)}
    BY DEF Written
  <1>3. I \in SUBSET (1..Len(files)) /\ I # {}
    BY <1>1, <1>2 DEF Range
  <1>4. Max(I) \in I
    <2>. HIDE DEF I
    <2>1. \E m \in I : \A i \in I : m >= i
      BY <1>1, <1>3, Greatest
    <2>. QED
      BY <2>1 DEF Max
  <1>5. Written(files)[p] = files[Max(I)].content
    BY <1>2, <1>3 DEF Written, SelectLastInSeq
  <1>. QED
    BY <1>1, <1>4, <1>5 DEF Range

\* The file of the QA that is written and not yet stored.
Pending == IF pc \in {"upload", "storing"} /\ report = None THEN {Head(todo).path} ELSE {}

\* The files of the QA are stored but for the pending one, which is the next to store.
QaStored ==
  role = "qa" /\ (pc # "ended" \/ reported # None) =>
    /\ \A p \in DOMAIN local \ Pending : p \in DOMAIN stored /\ stored[p] = local[p]
    /\ Pending # {} => /\ Head(todo).path \in DOMAIN local
                       /\ local[Head(todo).path] = Head(todo).content

Manifest(files) == {<<f.path, f.content>> : f \in Range(files)}
SourceItem == [path |-> SourcePath, content |-> local]
ManifestItem == [path |-> ManifestPath, content |-> Manifest(doc.files)]
SourceStored == SourcePath \in DOMAIN stored /\ stored[SourcePath] = local
ManifestStored ==
  /\ ManifestPath \in DOMAIN stored
  /\ \A p \in DOMAIN local : <<p, local[p]>> \in stored[ManifestPath]

\* The Dev uploads its archive, then its manifest, then submits.
DevStored ==
  role = "dev" =>
    /\ pc \in {"upload", "storing"} =>
         /\ local = Written(doc.files)
         /\ \/ todo = <<SourceItem, ManifestItem>>
            \/ todo = <<ManifestItem>> /\ SourceStored
    /\ pc = "submit" \/ reported # None => SourceStored /\ ManifestStored

\* The PO has no artifacts.
PoStored ==
  role = "po" => stored = <<>> /\ pc \notin {"write", "upload", "storing", "execute"}

StoreInv == JudgeInv /\ QaStored /\ DevStored /\ PoStored

LEMMA StoreInit == Init => StoreInv
  <1>. SUFFICES ASSUME Init PROVE StoreInv
    OBVIOUS
  <1>1. JudgeInv
    BY SpendInit DEF Init, JudgeInv, Judged
  <1>. QED
    BY <1>1 DEF Init, StoreInv, QaStored, Pending, DevStored, PoStored

LEMMA WrittenIsInManifest ==
  ASSUME JudgeInv, role = "dev", pc \in {"judge", "upload", "storing"}, Valid
  PROVE  \A p \in DOMAIN Written(doc.files) : <<p, Written(doc.files)[p]>> \in Manifest(doc.files)
  <1>1. report = None /\ "dev" \in Roles
    BY DEF JudgeInv, SpendInv, Shape, Afterwards
  <1>2. doc.files \in Seq(Range(doc.files))
    BY <1>1, DevAnswersAssumption DEF JudgeInv, Judged, Valid
  <1>. QED
    BY <1>2, WrittenIsListed DEF Manifest

LEMMA PoStep == StoreInv /\ [Next]_vars => PoStored'
  <1>. SUFFICES ASSUME StoreInv, [Next]_vars, role' = "po" PROVE PoStored'
    BY DEF PoStored
  <1>. USE DEF StoreInv, PoStored, vars, worker, made, gateway, served, GoOn, Finish, GiveUp, Answer
  <1>. QED
    BY DEF Next, Work, GetContext, Heartbeat, InvokeStart, Reject, Repair, UsePo, UseQa, UseDev,
           WriteTest, Upload, Store, Submit, RunCases, Refused, NoAnswer, InvokeEnd, InvokeFailed,
           InvokeUnread, Expire, Settle

LEMMA DevStep == StoreInv /\ [Next]_vars => DevStored'
  <1>. SUFFICES ASSUME StoreInv, [Next]_vars, role' = "dev", JudgeInv' PROVE DevStored'
    BY JudgeStep DEF StoreInv, DevStored
  <1>. USE DEF StoreInv, DevStored, JudgeInv, SpendInv, Spending, Afterwards, BeforeAnswer,
               SourceItem, ManifestItem, SourceStored, ManifestStored,
               vars, worker, made, gateway, served, GoOn, Finish, GiveUp, Answer
  <1>1. CASE GetContext
    BY <1>1 DEF GetContext
  <1>2. CASE Heartbeat
    BY <1>2 DEF Heartbeat
  <1>3. CASE InvokeStart
    BY <1>3 DEF InvokeStart
  <1>4. CASE Reject
    BY <1>4 DEF Reject, Repair
  <1>5. CASE UsePo
    BY <1>5 DEF UsePo
  <1>6. CASE UseQa
    BY <1>6 DEF UseQa
  <1>7. CASE UseDev
    <2>1. reported' = None /\ local' = Written(doc.files)
      BY <1>7 DEF UseDev
    <2>2. CASE pc' = "upload" /\ UNCHANGED doc
      <3>1. todo' = <<[path |-> SourcePath, content |-> local'],
                      [path |-> ManifestPath, content |-> Manifest(doc.files)]>>
        BY <1>7, <2>2 DEF UseDev, Manifest
      <3>. QED
        BY <2>1, <2>2, <3>1
    <2>3. CASE pc' = "ended"
      BY <2>1, <2>3
    <2>. QED
      BY <1>7, <2>2, <2>3 DEF UseDev
  <1>8. CASE WriteTest
    BY <1>8 DEF WriteTest
  <1>9. CASE Upload
    BY <1>9 DEF Upload
  <1>10. CASE Store
    <2>. DEFINE item == Head(todo)
    <2>1. CASE pc' = "ended" /\ reported = None
      BY <1>10, <2>1 DEF Store
    <2>2. CASE ~(pc' = "ended" /\ reported = None)
      <3>1. reported = None /\ report = None /\ role = "dev" /\ pc = "storing" /\ Valid
        BY <1>10 DEF Store, Judged
      <3>2. ~Conflicts(item) /\ NextItem
        BY <1>10, <2>2, <3>1 DEF Store
      <3>3. item.path \in DOMAIN stored' /\ stored'[item.path] = item.content
            /\ \A p \in DOMAIN stored : p \in DOMAIN stored' /\ stored'[p] = stored[p]
        BY <1>10, <3>2 DEF Store, Conflicts, Bind
      <3>4. CASE todo = <<SourceItem, ManifestItem>>
        <4>1. Tail(todo) = <<ManifestItem>> /\ item = SourceItem
          BY <3>4
        <4>2. Tail(todo) # <<>>
          <5>. HIDE DEF ManifestItem
          <5>1. Len(<<ManifestItem>>) = 1 /\ Len(<<>>) = 0
            OBVIOUS
          <5>. QED
            BY <4>1, <5>1
        <4>3. pc' = "upload" /\ todo' = <<ManifestItem>> /\ UNCHANGED <<doc, local, reported>>
          BY <1>10, <3>1, <3>2, <4>1, <4>2 DEF Store, NextItem
        <4>. QED
          BY <3>1, <3>3, <4>1, <4>3, <1>10
      <3>5. CASE todo = <<ManifestItem>> /\ SourceStored
        <4>1. Tail(todo) = <<>> /\ item = ManifestItem
          BY <3>5
        <4>2. pc' = "submit" /\ UNCHANGED <<doc, local, reported>>
          BY <1>10, <3>1, <3>2, <4>1 DEF Store, NextItem
        <4>3. stored'[ManifestPath] = Manifest(doc.files) /\ ManifestPath \in DOMAIN stored'
          BY <3>3, <4>1
        <4>4. \A p \in DOMAIN local : <<p, local[p]>> \in Manifest(doc.files)
          BY <3>1, WrittenIsInManifest
        <4>. QED
          BY <3>3, <3>5, <4>2, <4>3, <4>4
      <3>. QED
        BY <3>1, <3>4, <3>5
    <2>. QED
      BY <2>1, <2>2
  <1>11. CASE Submit
    BY <1>11 DEF Submit
  <1>12. CASE RunCases
    BY <1>12 DEF RunCases
  <1>13. CASE Refused
    BY <1>13 DEF Refused
  <1>14. CASE NoAnswer
    BY <1>14 DEF NoAnswer
  <1>15. CASE InvokeEnd
    BY <1>15 DEF InvokeEnd, InvokeFailed
  <1>16. CASE InvokeUnread
    BY <1>16 DEF InvokeUnread
  <1>17. CASE Expire
    BY <1>17 DEF Expire
  <1>18. CASE Settle
    BY <1>18 DEF Settle
  <1>19. CASE UNCHANGED vars
    BY <1>19
  <1>. QED
    BY <1>1, <1>2, <1>3, <1>4, <1>5, <1>6, <1>7, <1>8, <1>9, <1>10, <1>11, <1>12,
       <1>13, <1>14, <1>15, <1>16, <1>17, <1>18, <1>19 DEF Next, Work

LEMMA QaStep == StoreInv /\ [Next]_vars => QaStored'
  <1>. SUFFICES ASSUME StoreInv, [Next]_vars, role' = "qa", JudgeInv' PROVE QaStored'
    BY JudgeStep DEF StoreInv, QaStored
  <1>. USE DEF StoreInv, QaStored, Pending, JudgeInv, SpendInv, Spending, Afterwards, BeforeAnswer,
               vars, worker, made, gateway, served, GoOn, Finish, GiveUp, Answer
  <1>1. CASE GetContext
    BY <1>1 DEF GetContext
  <1>2. CASE Heartbeat
    BY <1>2 DEF Heartbeat
  <1>3. CASE InvokeStart
    BY <1>3 DEF InvokeStart
  <1>4. CASE Reject
    BY <1>4 DEF Reject, Repair
  <1>5. CASE UsePo
    BY <1>5 DEF UsePo
  <1>6. CASE UseQa
    BY <1>6 DEF UseQa
  <1>7. CASE UseDev
    BY <1>7 DEF UseDev
  <1>8. CASE WriteTest
    <2>1. Pending = {} /\ pc = "write" /\ role = "qa"
      BY <1>8 DEF WriteTest
    <2>2. \A p \in DOMAIN local : p \in DOMAIN stored /\ stored[p] = local[p]
      BY <2>1
    <2>3. Head(todo).path \in DOMAIN local' /\ local'[Head(todo).path] = Head(todo).content
      BY <1>8 DEF WriteTest, Bind
    <2>4. \A p \in DOMAIN local' : p # Head(todo).path => p \in DOMAIN local /\ local'[p] = local[p]
      BY <1>8 DEF WriteTest, Bind
    <2>5. report = None
      BY <2>1, NoneAssumption DEF Shape
    <2>. QED
      BY <1>8, <2>2, <2>3, <2>4, <2>5 DEF WriteTest
  <1>9. CASE Upload
    BY <1>9 DEF Upload
  <1>10. CASE Store
    <2>1. CASE pc' = "ended" /\ reported = None
      BY <1>10, <2>1 DEF Store
    <2>2. CASE ~(pc' = "ended" /\ reported = None)
      <3>1. \A p \in DOMAIN stored : p \in DOMAIN stored' /\ stored'[p] = stored[p]
        BY <1>10 DEF Store, Bind
      <3>2. /\ role = "qa" /\ pc = "storing" /\ UNCHANGED <<local, report, reported>>
            /\ pc' \notin {"upload", "storing"}
        BY <1>10 DEF Store, NextItem
      <3>3. CASE reported # None
        BY <3>1, <3>2, <3>3
      <3>4. CASE reported = None
        <4>1. ~Conflicts(Head(todo)) /\ report = None
          BY <1>10, <2>2, <3>4 DEF Store
        <4>2. Head(todo).path \in DOMAIN stored' /\ stored'[Head(todo).path] = Head(todo).content
          BY <1>10, <4>1 DEF Store, Conflicts, Bind
        <4>3. Pending = {Head(todo).path} /\ Pending' = {}
          BY <3>2, <4>1
        <4>4. /\ \A p \in DOMAIN local : p # Head(todo).path => p \in DOMAIN stored /\ stored[p] = local[p]
              /\ Head(todo).path \in DOMAIN local => local[Head(todo).path] = Head(todo).content
          BY <3>2, <4>3
        <4>5. \A p \in DOMAIN local' : p \in DOMAIN stored' /\ stored'[p] = local'[p]
          BY <3>1, <3>2, <4>2, <4>4
        <4>. QED
          BY <4>3, <4>5
      <3>. QED
        BY <3>3, <3>4
    <2>. QED
      BY <2>1, <2>2
  <1>11. CASE Submit
    BY <1>11 DEF Submit
  <1>12. CASE RunCases
    BY <1>12 DEF RunCases
  <1>13. CASE Refused
    BY <1>13 DEF Refused
  <1>14. CASE NoAnswer
    BY <1>14 DEF NoAnswer
  <1>15. CASE InvokeEnd
    BY <1>15 DEF InvokeEnd, InvokeFailed
  <1>16. CASE InvokeUnread
    BY <1>16 DEF InvokeUnread
  <1>17. CASE Expire
    BY <1>17 DEF Expire
  <1>18. CASE Settle
    BY <1>18 DEF Settle
  <1>19. CASE UNCHANGED vars
    BY <1>19
  <1>. QED
    BY <1>1, <1>2, <1>3, <1>4, <1>5, <1>6, <1>7, <1>8, <1>9, <1>10, <1>11, <1>12,
       <1>13, <1>14, <1>15, <1>16, <1>17, <1>18, <1>19 DEF Next, Work
LEMMA StoreStep == StoreInv /\ [Next]_vars => StoreInv'
  BY JudgeStep, PoStep, DevStep, QaStep DEF StoreInv

LEMMA MadeIsStored == StoreInv => StoredIsWhatWasMade
  <1>. SUFFICES ASSUME StoreInv, reported # None PROVE StoredIsWhatWasMade
    BY DEF StoredIsWhatWasMade
  <1>1. role \in {"po", "dev", "qa"}
    BY RolesAssumption DEF StoreInv, JudgeInv, SpendInv, Shape
  <1>2. CASE role = "qa"
    <2>1. Pending = {}
      BY NoneAssumption DEF StoreInv, JudgeInv, SpendInv, Afterwards, Pending
    <2>. QED
      BY <1>2, <2>1 DEF StoreInv, QaStored, StoredIsWhatWasMade
  <1>3. CASE role = "dev"
    BY <1>3 DEF StoreInv, DevStored, SourceStored, ManifestStored, StoredIsWhatWasMade
  <1>4. CASE role = "po"
    BY <1>4 DEF StoreInv, PoStored, StoredIsWhatWasMade
  <1>. QED
    BY <1>1, <1>2, <1>3, <1>4
-----------------------------------------------------------------------------
(* The copies of the checks of a backlog, a plan and a delivery. *)
LEMMA BacklogCopies ==
  ASSUME NEW backlog, IsBacklog(backlog.stories), PoServerAccepts(backlog)
  PROVE  PoContractAccepts(backlog) <=>
           CriterionIdsUnique(backlog) /\ backlog.coverage \subseteq StoryIds(backlog.stories)
  <1>. SUFFICES ASSUME NEW stories, stories = backlog.stories
                PROVE  /\ \A i \in DOMAIN stories : stories[i].id \notin Range(stories[i].deps)
                       /\ {s.id : s \in {t \in Range(stories) : t.ready}} \subseteq StoryIds(stories)
    BY DEF PoServerAccepts, PoContractAccepts, Coherent
  <1>1. ~DependsOnItself(stories) /\ DistinctIds(stories)
    BY SearchIsRight DEF PoServerAccepts, Coherent
  <1>2. ASSUME NEW i \in DOMAIN stories, stories[i].id \in Range(stories[i].deps)
        PROVE  FALSE
    <2>1. stories[i].id \in StoryIds(stories) /\ GraphOf(stories)[stories[i].id] = stories[i].deps
      BY <1>1, BacklogGraph
    <2>2. {stories[i].id} \in SUBSET StoryIds(stories) /\ {stories[i].id} # {}
      BY <2>1
    <2>3. \A id \in {stories[i].id} : \E other \in {stories[i].id} : other \in Range(GraphOf(stories)[id])
      BY <1>2, <2>1
    <2>. QED
      BY <1>1, <2>2, <2>3 DEF DependsOnItself
  <1>3. {s.id : s \in {t \in Range(stories) : t.ready}} \subseteq StoryIds(stories)
    BY DEF Range, StoryIds
  <1>. QED
    BY <1>2, <1>3

LEMMA PlanCopies ==
  ASSUME NEW plan, NEW criteria, criteria # {}, QaWorkerAccepts(plan, criteria)
  PROVE  QaContractAccepts(plan, criteria) <=>
           /\ plan.delivery
           /\ IsInjective([i \in DOMAIN plan.cases |-> plan.cases[i].id])
           /\ CaseCriteria(plan) \subseteq criteria
  <1>1. criteria \subseteq CaseCriteria(plan)
    BY DEF QaWorkerAccepts, CaseCriteria
  <1>2. plan.cases # <<>>
    <2>1. Range(plan.cases) # {}
      BY DEF QaWorkerAccepts
    <2>2. Range(<<>>) = {}
      BY DEF Range
    <2>. QED
      BY <2>1, <2>2
  <1>. QED
    BY <1>1, <1>2 DEF QaWorkerAccepts, QaContractAccepts

LEMMA DeliveryCopies ==
  ASSUME NEW answer, NEW criteria, criteria # {}
  PROVE  ~DevContractAccepts(DeliveryOf(answer, criteria), criteria)
  BY DEF DevContractAccepts, DeliveryOf

LEMMA CopiesAgree == JudgeInv => ValidatorsAgree
  <1>. SUFFICES ASSUME JudgeInv, pc = "judge", doc # NotJson PROVE ValidatorsAgree
    BY DEF ValidatorsAgree
  <1>1. role \in {"po", "dev", "qa"} /\ role \in Roles /\ report = None
    BY RolesAssumption DEF JudgeInv, SpendInv, Shape, Spending, Afterwards
  <1>2. CASE role = "qa"
    BY <1>2, PlanCopies, CriteriaAssumption DEF ValidatorsAgree
  <1>3. CASE role = "dev"
    BY <1>3, DeliveryCopies, CriteriaAssumption DEF ValidatorsAgree
  <1>4. CASE role = "po"
    <2>1. IsBacklog(doc.stories)
      BY <1>1, <1>4, PoAnswersAssumption DEF JudgeInv, Judged
    <2>. QED
      BY <1>4, <2>1, SearchIsRight, BacklogCopies DEF ValidatorsAgree
  <1>. QED
    BY <1>1, <1>2, <1>3, <1>4
-----------------------------------------------------------------------------
LEMMA Typed == SpendInv => TypeOK
  BY DEF SpendInv, Shape, Spending, Places, TypeOK

\* A session keeps its types whatever the model answers and whichever calls fail;
\* in particular it never pays for more model calls than its repairs allow.
THEOREM SessionTypeCorrect == Spec => []TypeOK
  <1>1. SpendInv => TypeOK
    BY Typed
  <1>. QED
    BY SpendInit, SpendStep, <1>1, PTL DEF Spec

\* The usage in the event of an accepted outcome is what was paid for, although a
\* row may get lost: a row that is lost ends the worker before it submits.
THEOREM UsageComplete == Spec => []UsageIsComplete
  <1>1. SpendInv => UsageIsComplete
    BY DEF SpendInv, Spending, UsageIsComplete
  <1>. QED
    BY SpendInit, SpendStep, <1>1, PTL DEF Spec

\* What passes the checks of a worker is refused by its endpoint only for what no
\* worker checks: a backlog its tables cannot hold, or a Dev's answer that breaks the
\* schema asked for, has a title over 200 or consequences over 1000 characters, or a
\* NUL; for any set of answers of the model, of any lengths.
THEOREM SubmissionTaken == Spec => []SubmissionIsTaken
  <1>1. Init => JudgeInv
    BY StoreInit DEF StoreInv
  <1>. QED
    BY <1>1, JudgeStep, ValidIsTaken, PTL DEF Spec

\* Behind an accepted outcome are the artifacts of the files its worker made, however
\* many files there are and however often a path is written.
THEOREM MadeStored == Spec => []StoredIsWhatWasMade
  BY StoreInit, StoreStep, MadeIsStored, PTL DEF Spec

\* The copies of the validation agree where they should, the search finds exactly the
\* cycles, and they differ only where it is known, for any answers and criteria.
THEOREM CopiesOfChecksAgree == Spec => []ValidatorsAgree
  <1>1. Init => JudgeInv
    BY StoreInit DEF StoreInv
  <1>. QED
    BY <1>1, JudgeStep, CopiesAgree, PTL DEF Spec
=============================================================================
