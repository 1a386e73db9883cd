--------------------------- MODULE CrawlEngine_paths ---------------------------
(***************************************************************************)
(* Theorems about CrawlEngine that speak of the paths of the state-flow    *)
(* graph and of what an exhausted crawl has explored.                      *)
(***************************************************************************)
EXTENDS CrawlEngine_proofs, FiniteSetTheorems

USE DEF control, flow, local, past

-----------------------------------------------------------------------------
(***************************************************************************)
(* Within, for any graph g with edges e.                                   *)
(***************************************************************************)
\* Induction, with a set in the place of a predicate.
LEMMA SetInduction ==
  ASSUME NEW S, 0 \in S, \A n \in Nat : n \in S => n + 1 \in S
  PROVE  \A n \in Nat : n \in S
<1> DEFINE T == {n \in Nat : n \notin S}
<1> SUFFICES ASSUME T # {} PROVE FALSE
  OBVIOUS
<1> DEFINE R == OpToRel(<, Nat)
<1>1. IsWellFoundedOn(R, Nat)
  BY NatLessThanWellFounded
<1>2. T \subseteq Nat
  OBVIOUS
<1>3. R = {ss \in Nat \X Nat : ss[1] < ss[2]}
  BY DEF OpToRel
<1> HIDE DEF R, T
<1>4. PICK x \in T : \A y \in T : <<y, x>> \notin R
  BY <1>1, <1>2, WFMin
<1>5. x \in Nat /\ x # 0 /\ x - 1 \in Nat /\ x - 1 < x
  BY <1>2, <1>4 DEF T
<1>6. x - 1 \notin T
  BY <1>3, <1>4, <1>5
<1> QED
  BY <1>4, <1>5, <1>6 DEF T

Level(W, g, e, n) ==
  IF n = 0 THEN {Index}
  ELSE W[n-1] \cup {s \in g : \E r \in W[n-1] : <<r, s>> \in e}

Levels(g, e) == CHOOSE W : W = [n \in Nat |-> Level(W, g, e, n)]

\* Within is Levels of the current graph.
LEMMA WithinIsLevels == Within = Levels(graph, edges)
BY DEF Within, Levels, Level

\* A walk of k steps from the index.
Walk(p, k, g, e) ==
  /\ p \in [0 .. k -> g \cup {Index}]
  /\ p[0] = Index
  /\ \A i \in 0 .. k-1 : p[i+1] \in g /\ <<p[i], p[i+1]>> \in e

Ends(n, g, e) ==
  {s \in g \cup {Index} : \E k \in 0 .. n : \E p : Walk(p, k, g, e) /\ p[k] = s}

\* The recursion of Levels has a solution: the ends of the walks.
LEMMA LevelsExist ==
  ASSUME NEW g, NEW e
  PROVE  \E W : W = [n \in Nat |-> Level(W, g, e, n)]
<1> DEFINE W == [n \in Nat |-> Ends(n, g, e)]
<1> SUFFICES ASSUME NEW n \in Nat PROVE Ends(n, g, e) = Level(W, g, e, n)
  <2>1. W = [n \in Nat |-> Level(W, g, e, n)]
    OBVIOUS
  <2> HIDE DEF W
  <2> QED
    BY <2>1
<1>1. CASE n = 0
  <2>1. \A s : s \in Ends(0, g, e) => s = Index
    BY DEF Ends, Walk
  <2>2. Index \in Ends(0, g, e)
    <3> DEFINE p == [i \in 0 .. 0 |-> Index]
    <3>1. Walk(p, 0, g, e) /\ p[0] = Index
      BY DEF Walk
    <3> QED
      BY <3>1 DEF Ends
  <2>3. Ends(0, g, e) = {Index}
    BY <2>1, <2>2
  <2> QED
    BY <1>1, <2>3 DEF Level
<1>2. CASE n # 0
  <2> DEFINE m == n - 1
  <2>1. m \in Nat /\ n = m + 1
    BY <1>2
  <2>2. Level(W, g, e, n) = Ends(m, g, e) \cup {s \in g : \E r \in Ends(m, g, e) : <<r, s>> \in e}
    BY <1>2, <2>1 DEF Level
  <2> HIDE DEF m, W
  <2>3. ASSUME NEW s \in Ends(n, g, e), s \notin Ends(m, g, e)
        PROVE  s \in g /\ \E r \in Ends(m, g, e) : <<r, s>> \in e
    <3> PICK k \in 0 .. n : \E p : Walk(p, k, g, e) /\ p[k] = s
      BY DEF Ends
    <3>1. PICK p : Walk(p, k, g, e) /\ p[k] = s
      OBVIOUS
    <3>2. k = n
      BY <2>1, <2>3, <3>1 DEF Ends
    <3>3. s \in g /\ <<p[m], s>> \in e
      BY <2>1, <3>1, <3>2 DEF Walk
    <3>4. p[m] \in Ends(m, g, e)
      <4> DEFINE q == [i \in 0 .. m |-> p[i]]
      <4>1. Walk(q, m, g, e)
        <5>1. q \in [0 .. m -> g \cup {Index}]
          BY <2>1, <3>1, <3>2 DEF Walk
        <5>2. q[0] = Index
          BY <2>1, <3>1 DEF Walk
        <5>3. \A i \in 0 .. m-1 : q[i+1] \in g /\ <<q[i], q[i+1]>> \in e
          BY <2>1, <3>1, <3>2 DEF Walk
        <5> QED
          BY <5>1, <5>2, <5>3 DEF Walk
      <4>2. q[m] = p[m] /\ p[m] \in g \cup {Index} /\ m \in 0 .. m
        BY <2>1, <3>1, <3>2 DEF Walk
      <4> HIDE DEF q
      <4> QED
        BY <4>1, <4>2 DEF Ends
    <3> QED
      BY <3>3, <3>4
  <2>4. ASSUME NEW s \in g, NEW r \in Ends(m, g, e), <<r, s>> \in e
        PROVE  s \in Ends(n, g, e)
    <3> PICK k \in 0 .. m : \E p : Walk(p, k, g, e) /\ p[k] = r
      BY DEF Ends
    <3>1. PICK p : Walk(p, k, g, e) /\ p[k] = r
      OBVIOUS
    <3> DEFINE q == [i \in 0 .. k+1 |-> IF i = k+1 THEN s ELSE p[i]]
    <3>2. Walk(q, k+1, g, e)
      <4>1. q \in [0 .. k+1 -> g \cup {Index}]
        BY <2>1, <3>1 DEF Walk
      <4>2. q[0] = Index
        BY <2>1, <3>1 DEF Walk
      <4>3. ASSUME NEW i \in 0 .. k PROVE q[i+1] \in g /\ <<q[i], q[i+1]>> \in e
        <5>1. CASE i = k
          BY <2>1, <2>4, <3>1, <5>1
        <5>2. CASE i # k
          <6>1. i \in 0 .. k-1 /\ q[i] = p[i] /\ q[i+1] = p[i+1]
            BY <2>1, <5>2
          <6> QED
            BY <3>1, <6>1 DEF Walk
        <5> QED
          BY <5>1, <5>2
      <4>4. (k + 1) - 1 = k
        BY <2>1, <3>1
      <4> QED
        BY <4>1, <4>2, <4>3, <4>4 DEF Walk
    <3>3. q[k+1] = s /\ k + 1 \in 0 .. n
      BY <2>1, <3>1
    <3> HIDE DEF q
    <3> QED
      BY <3>2, <3>3 DEF Ends
  <2>5. Ends(m, g, e) \subseteq Ends(n, g, e)
    BY <2>1 DEF Ends
  <2> QED
    BY <2>2, <2>3, <2>4, <2>5
<1> QED
  BY <1>1, <1>2

\* Levels satisfies its recursion.
LEMMA LevelsDef ==
  ASSUME NEW g, NEW e
  PROVE  Levels(g, e) = [n \in Nat |-> Level(Levels(g, e), g, e, n)]
<1>1. \E W : W = [n \in Nat |-> Level(W, g, e, n)]
  BY LevelsExist
<1> QED
  BY <1>1, Zenon DEF Levels

\* Every level has the one before it, and what an edge leads to from there.
LEMMA LevelSteps ==
  ASSUME NEW g, NEW e
  PROVE  /\ Levels(g, e)[0] = {Index}
         /\ \A n \in Nat :
              Levels(g, e)[n+1] =
                Levels(g, e)[n] \cup {s \in g : \E r \in Levels(g, e)[n] : <<r, s>> \in e}
<1> DEFINE W == Levels(g, e)
<1>1. W = [n \in Nat |-> Level(W, g, e, n)]
  BY LevelsDef
<1> HIDE DEF W
<1>2. \A n \in Nat : W[n] = Level(W, g, e, n)
  BY <1>1
<1>3. W[0] = {Index}
  BY <1>2 DEF Level
<1>4. ASSUME NEW n \in Nat
      PROVE  W[n+1] = W[n] \cup {s \in g : \E r \in W[n] : <<r, s>> \in e}
  <2>1. n + 1 \in Nat /\ n + 1 # 0 /\ (n + 1) - 1 = n
    OBVIOUS
  <2>2. W[n+1] = Level(W, g, e, n+1)
    BY <1>2, <2>1
  <2> QED
    BY <2>1, <2>2 DEF Level
<1> QED
  BY <1>3, <1>4 DEF W

\* Levels stay among the pages.
LEMMA LevelsType ==
  ASSUME NEW g \in SUBSET Pages, NEW e
  PROVE  \A n \in Nat : Levels(g, e)[n] \subseteq Pages
<1> DEFINE W == Levels(g, e)
           S == {n \in Nat : W[n] \subseteq Pages}
<1>1. 0 \in S
  BY LevelSteps, EngineAssumption
<1>2. ASSUME NEW n \in Nat, n \in S PROVE n + 1 \in S
  BY <1>2, LevelSteps
<1> HIDE DEF S
<1>3. \A n \in Nat : n \in S
  BY <1>1, <1>2, SetInduction
<1> QED
  BY <1>3 DEF S

\* A graph that grows keeps what is within n steps.
LEMMA LevelsGrow ==
  ASSUME NEW g, NEW e, NEW h, NEW f, g \subseteq h, e \subseteq f
  PROVE  \A n \in Nat : Levels(g, e)[n] \subseteq Levels(h, f)[n]
<1> DEFINE V == Levels(g, e)
           W == Levels(h, f)
           S == {n \in Nat : V[n] \subseteq W[n]}
<1>1. /\ V[0] = {Index} /\ W[0] = {Index}
      /\ \A n \in Nat : V[n+1] = V[n] \cup {s \in g : \E r \in V[n] : <<r, s>> \in e}
      /\ \A n \in Nat : W[n+1] = W[n] \cup {s \in h : \E r \in W[n] : <<r, s>> \in f}
  BY LevelSteps
<1> HIDE DEF V, W
<1>2. 0 \in S
  BY <1>1
<1>3. ASSUME NEW n \in Nat, n \in S PROVE n + 1 \in S
  BY <1>1, <1>3
<1> HIDE DEF S
<1>4. \A n \in Nat : n \in S
  BY <1>2, <1>3, SetInduction
<1> QED
  BY <1>4 DEF S, V, W

\* Later levels have the earlier ones.
LEMMA LevelsRise ==
  ASSUME NEW g, NEW e, NEW m \in Nat
  PROVE  \A n \in Nat : m <= n => Levels(g, e)[m] \subseteq Levels(g, e)[n]
<1> DEFINE W == Levels(g, e)
           S == {n \in Nat : m <= n => W[m] \subseteq W[n]}
<1>1. \A n \in Nat : W[n] \subseteq W[n+1]
  BY LevelSteps
<1> HIDE DEF W
<1>2. 0 \in S
  OBVIOUS
<1>3. ASSUME NEW n \in Nat, n \in S PROVE n + 1 \in S
  <2>1. CASE m <= n
    BY <1>1, <1>3, <2>1
  <2>2. CASE m = n + 1
    BY <2>2
  <2> QED
    BY <2>1, <2>2
<1> HIDE DEF S
<1>4. \A n \in Nat : n \in S
  BY <1>2, <1>3, SetInduction
<1> QED
  BY <1>4 DEF S, W

\* A level that adds nothing is the last one that does.
LEMMA LevelsStop ==
  ASSUME NEW g, NEW e, NEW m \in Nat
  PROVE  Levels(g, e)[m+1] = Levels(g, e)[m] =>
           \A n \in Nat : Levels(g, e)[n] \subseteq Levels(g, e)[m]
<1> DEFINE W == Levels(g, e)
           S == {n \in Nat : W[n] \subseteq W[m]}
<1>1. W[0] \subseteq W[m]
  BY LevelsRise
<1>2. \A n \in Nat : W[n+1] = W[n] \cup {s \in g : \E r \in W[n] : <<r, s>> \in e}
  BY LevelSteps
<1> HIDE DEF W
<1> SUFFICES ASSUME W[m+1] = W[m] PROVE \A n \in Nat : W[n] \subseteq W[m]
  BY DEF W
<1>4. 0 \in S
  BY <1>1
<1>5. ASSUME NEW n \in Nat, n \in S PROVE n + 1 \in S
  BY <1>2, <1>5
<1> HIDE DEF S
<1>6. \A n \in Nat : n \in S
  BY <1>4, <1>5, SetInduction
<1> QED
  BY <1>6 DEF S

\* No page is more steps away from the index than there are pages.
LEMMA LevelsFill ==
  ASSUME IsFiniteSet(Pages), NEW g \in SUBSET Pages, NEW e
  PROVE  \A n \in Nat : Levels(g, e)[n] \subseteq Levels(g, e)[Cardinality(Pages)]
<1> DEFINE W == Levels(g, e)
           N == Cardinality(Pages)
           Full(m) == \A n \in Nat : W[n] \subseteq W[m]
           S == {m \in Nat : Full(m) \/ Cardinality(W[m]) >= m + 1}
<1>1. \A n \in Nat : W[n] \subseteq Pages
  BY LevelsType
<1>2. \A n \in Nat : IsFiniteSet(W[n]) /\ Cardinality(W[n]) \in Nat /\ Cardinality(W[n]) <= N
  BY <1>1, FS_Subset, FS_CardinalityType
<1>3. N \in Nat
  BY FS_CardinalityType
<1>4. \A n \in Nat : W[n] \subseteq W[n+1]
  BY LevelSteps
<1>5. \A n \in Nat : W[n+1] = W[n] => Full(n)
  BY LevelsStop
<1>6. 0 \in S
  <2>1. W[0] = {Index}
    BY LevelSteps
  <2>2. Cardinality(W[0]) = 1
    BY <2>1, FS_Singleton
  <2> QED
    BY <2>2
<1> HIDE DEF W, N
<1>7. ASSUME NEW m \in Nat, m \in S PROVE m + 1 \in S
  <2>1. CASE Full(m)
    <3>1. Full(m + 1)
      BY <1>4, <2>1
    <3> HIDE DEF Full
    <3> QED
      BY <3>1
  <2>2. CASE ~Full(m)
    <3>1. Cardinality(W[m]) >= m + 1
      BY <1>7, <2>2
    <3>2. W[m+1] # W[m] /\ W[m] \subseteq W[m+1] /\ m + 1 \in Nat
      BY <1>4, <1>5, <2>2
    <3>3. Cardinality(W[m]) <= Cardinality(W[m+1]) /\ Cardinality(W[m]) # Cardinality(W[m+1])
      BY <1>2, <3>2, FS_Subset
    <3>4. Cardinality(W[m+1]) >= (m + 1) + 1
      BY <1>2, <3>1, <3>2, <3>3
    <3> HIDE DEF Full
    <3> QED
      BY <3>2, <3>4
  <2> QED
    BY <2>1, <2>2
<1> HIDE DEF S
<1>8. N \in S
  BY <1>3, <1>6, <1>7, SetInduction
<1>9. Full(N)
  BY <1>2, <1>3, <1>8 DEF S
<1> QED
  BY <1>9 DEF W, N

-----------------------------------------------------------------------------
(***************************************************************************)
(* Within and Distance in a state of the crawl.                            *)
(***************************************************************************)
\* What is within n steps of the index, as far as the crawl needs it.
LEMMA WithinFacts ==
  ASSUME TypeOK
  PROVE  /\ Within[0] = {Index}
         /\ \A n \in Nat : Within[n] \subseteq Pages
         /\ \A m, n \in Nat : m <= n => Within[m] \subseteq Within[n]
<1>1. graph \in SUBSET Pages
  BY DEF TypeOK
<1> QED
  BY <1>1, WithinIsLevels, LevelSteps, LevelsType, LevelsRise

\* A graph that grows keeps what is within n steps.
LEMMA WithinGrows ==
  ASSUME graph \subseteq graph', edges \subseteq edges'
  PROVE  \A n \in Nat : Within[n] \subseteq Within'[n]
<1>1. Within = Levels(graph, edges)
  BY WithinIsLevels
<1>2. Within' = Levels(graph', edges')
  BY DEF Within, Levels, Level
<1>3. \A n \in Nat : Levels(graph, edges)[n] \subseteq Levels(graph', edges')[n]
  BY LevelsGrow
<1> QED
  BY <1>1, <1>2, <1>3

\* A new edge leads one step on.
LEMMA EdgeLeadsOn ==
  ASSUME NEW n \in Nat, NEW r \in Within'[n], NEW s \in graph', <<r, s>> \in edges'
  PROVE  s \in Within'[n+1]
<1>1. Within' = Levels(graph', edges')
  BY DEF Within, Levels, Level
<1> QED
  BY <1>1, LevelSteps

\* What can be reached at all is in Reachable.
LEMMA ReachableIsAll ==
  ASSUME IsFiniteSet(Pages), TypeOK
  PROVE  \A n \in Nat : Within[n] \subseteq Reachable
<1>1. graph \in SUBSET Pages
  BY DEF TypeOK
<1>2. \A n \in Nat : Levels(graph, edges)[n] \subseteq Levels(graph, edges)[Cardinality(Pages)]
  BY <1>1, LevelsFill
<1> QED
  BY <1>2, WithinIsLevels DEF Reachable

\* The distance of a page that can be reached is a number of steps to it.
LEMMA DistanceIsSteps ==
  ASSUME IsFiniteSet(Pages), NEW s \in Reachable
  PROVE  Distance(s) \in Nat /\ s \in Within[Distance(s)]
<1> DEFINE N == Cardinality(Pages)
           T == {n \in 0 .. N : s \in Within[n]}
           R == OpToRel(<, Nat)
<1>1. N \in Nat
  BY FS_CardinalityType
<1>2. N \in T
  BY <1>1 DEF Reachable
<1>3. T \subseteq Nat /\ IsWellFoundedOn(R, Nat) /\ R = {ss \in Nat \X Nat : ss[1] < ss[2]}
  BY <1>1, NatLessThanWellFounded DEF OpToRel
<1> HIDE DEF T, R
<1>4. PICK n \in T : \A m \in T : <<m, n>> \notin R
  BY <1>2, <1>3, WFMin
<1> HIDE DEF N
<1>5. n \in 0 .. N /\ s \in Within[n]
  BY <1>4 DEF T
<1>6. ASSUME NEW m \in 0 .. n-1 PROVE s \notin Within[m]
  <2>1. m \in Nat /\ n \in Nat /\ m < n /\ m \in 0 .. N
    BY <1>1, <1>5, <1>6
  <2>2. m \notin T
    BY <1>3, <1>4, <2>1
  <2> QED
    BY <2>1, <2>2 DEF T
<1>7. \E k \in 0 .. N : s \in Within[k] /\ \A m \in 0 .. k-1 : s \notin Within[m]
  BY <1>5, <1>6
<1>8. Distance(s) \in 0 .. N /\ s \in Within[Distance(s)]
  BY <1>7, Zenon DEF Distance, N
<1> QED
  BY <1>1, <1>8

-----------------------------------------------------------------------------
(***************************************************************************)
(* The pages of the crawl can be reached, and depths are justified.        *)
(***************************************************************************)
Reached == {s \in Pages : \E n \in Nat : s \in Within[n]}

\* Places of a consumer that is in the page cur, path events from the index.
OnPath == {"begin", "fire", "switch", "edge", "parse", "poll", "check"}

\* The path of a consumer leads where it is, or where it has to go back to.
PathOK(c) ==
  /\ cur[c] \in Reached /\ task[c] \in Reached
  /\ pc[c] \in {"follow", "followBack"} => depth[c] = 0
  /\ pc[c] \in {"resetBack", "followBack"} => task[c] \in Within[path[c]]
  /\ pc[c] \in OnPath => depth[c] \in 0 .. path[c] /\ cur[c] \in Within[path[c]]

PathInv ==
  /\ depth \in [Consumers -> Nat] /\ path \in [Consumers -> Nat]
  /\ parsed \subseteq Reached
  /\ \A c \in Consumers : PathOK(c)

\* The graph only grows.
LEMMA GraphGrows ==
  ASSUME TypeInv, [Next]_vars
  PROVE  graph \subseteq graph' /\ edges \subseteq edges'
<1>1. CASE UNCHANGED vars
  BY <1>1 DEF vars
<1>2. CASE Start
  BY <1>2 DEF Start, TypeInv, NotStarted
<1>3. CASE ShutDown \/ Finish \/ SignalFromOutside
  BY <1>3 DEF ShutDown, Finish, SignalFromOutside
<1>4. ASSUME NEW c \in Consumers, Consumer(c)
      PROVE  graph \subseteq graph' /\ edges \subseteq edges'
  BY <1>4 DEF Consumer, Loop, Await, Close, Reset, Follow, BeginActions, Fire,
              AddState, AddEdge, Parse, Poll, Check
<1> QED
  BY <1>1, <1>2, <1>3, <1>4 DEF Next, Controller

\* A page that was reached stays within as many steps.
LEMMA ReachedGrows ==
  ASSUME TypeInv, [Next]_vars
  PROVE  /\ \A n \in Nat : Within[n] \subseteq Within'[n]
         /\ Reached \subseteq Reached'
<1>1. \A n \in Nat : Within[n] \subseteq Within'[n]
  BY GraphGrows, WithinGrows
<1>2. ASSUME NEW s \in Reached PROVE s \in Reached'
  <2>1. PICK n \in Nat : s \in Within[n]
    BY DEF Reached
  <2> QED
    BY <1>1, <2>1 DEF Reached
<1> QED
  BY <1>1, <1>2

\* A consumer whose part of the state is not touched keeps its path.
LEMMA StaysOnPath ==
  ASSUME TypeInv, [Next]_vars, NEW d \in Consumers, PathOK(d), path[d] \in Nat,
         pc'[d] = pc[d], cur'[d] = cur[d], task'[d] = task[d],
         depth'[d] = depth[d], path'[d] = path[d]
  PROVE  PathOK(d)'
BY ReachedGrows DEF PathOK

\* A consumer that goes nowhere: back in the loop, or on its way out.
LEMMA LeavesPath ==
  ASSUME TypeInv, [Next]_vars, NEW d \in Consumers, PathOK(d),
         pc'[d] \notin OnPath \cup {"follow", "followBack", "resetBack"},
         cur'[d] \in Reached', task'[d] \in Reached', path'[d] = path[d]
  PROVE  PathOK(d)'
BY DEF PathOK

\* A consumer that stays where it is.
LEMMA GoesOnPath ==
  ASSUME TypeInv, [Next]_vars, NEW d \in Consumers, PathOK(d), path[d] \in Nat,
         pc[d] \in OnPath, pc'[d] \in OnPath, cur'[d] = cur[d], task'[d] = task[d],
         depth'[d] = depth[d], path'[d] = path[d]
  PROVE  PathOK(d)'
BY ReachedGrows DEF PathOK, OnPath

\* The index has been reached.
LEMMA IndexReached == Index \in Reached
<1>1. Within[0] = {Index}
  BY WithinIsLevels, LevelSteps
<1> QED
  BY <1>1, EngineAssumption DEF Reached

\* A consumer touches its own part of the state only.
LEMMA OthersUntouched ==
  ASSUME TypeOK, PathInv, NEW c \in Consumers, Consumer(c), NEW d \in Consumers, d # c
  PROVE  /\ pc'[d] = pc[d] /\ cur'[d] = cur[d] /\ task'[d] = task[d]
         /\ depth'[d] = depth[d] /\ path'[d] = path[d]
<1> USE DEF TypeOK, PathInv, Goto, EndTask, Die
<1>1. CASE Loop(c) \/ Await(c) \/ Close(c)
  BY <1>1 DEF Loop, Await, Close
<1>2. CASE Reset(c)
  BY <1>2 DEF Reset, StartOver
<1>3. CASE Follow(c)
  BY <1>3 DEF Follow, Purge
<1>4. CASE BeginActions(c)
  BY <1>4 DEF BeginActions
<1>5. CASE Fire(c)
  BY <1>5 DEF Fire
<1>6. CASE AddState(c) \/ Poll(c) \/ Check(c)
  BY <1>6 DEF AddState, Poll, Check
<1>7. CASE AddEdge(c)
  BY <1>7 DEF AddEdge
<1>8. CASE Parse(c)
  BY <1>8 DEF Parse
<1> QED
  BY <1>1, <1>2, <1>3, <1>4, <1>5, <1>6, <1>7, <1>8 DEF Consumer

\* The task of a consumer is a parsed page.
LEMMA LoopPath ==
  ASSUME TypeInv, PathInv, [Next]_vars, NEW c \in Consumers,
         Loop(c) \/ Await(c) \/ Close(c)
  PROVE  /\ PathOK(c)' /\ parsed' \subseteq Reached'
         /\ depth' \in [Consumers -> Nat] /\ path' \in [Consumers -> Nat]
<1>1. UNCHANGED <<parsed, cur, depth, path>>
  BY DEF Loop, Await, Close
<1>2. pc'[c] \in {"close", "await", "reset", "closed"}
  BY DEF Loop, Await, Close, Goto, TypeInv, TypeOK
<1>3. task'[c] \in Reached
  <2>1. CASE UNCHANGED task
    BY <2>1 DEF PathInv, PathOK
  <2>2. CASE \E s \in Pages : pending[s] # {} /\ task' = [task EXCEPT ![c] = s]
    BY <2>2 DEF PathInv, TypeInv, TypeOK, OnlyParsed
  <2> QED
    BY <2>1, <2>2 DEF Loop, Await, Close
<1>4. PathOK(c)'
  BY <1>1, <1>2, <1>3, ReachedGrows, LeavesPath DEF PathInv, PathOK, OnPath
<1> QED
  BY <1>1, <1>4, ReachedGrows DEF PathInv

\* The index is reached, at a depth of 0; the path back is kept.
LEMMA ResetPath ==
  ASSUME TypeInv, PathInv, [Next]_vars, NEW c \in Consumers, Reset(c)
  PROVE  /\ PathOK(c)' /\ parsed' \subseteq Reached'
         /\ depth' \in [Consumers -> Nat] /\ path' \in [Consumers -> Nat]
<1>1. UNCHANGED <<parsed, path, task>> /\ cur'[c] = Index /\ depth'[c] = 0
  BY DEF Reset, StartOver, TypeInv, TypeOK, PathInv
<1>2. \/ pc[c] = "reset" /\ pc'[c] = "follow"
      \/ pc[c] = "resetBack" /\ pc'[c] = "followBack"
      \/ pc'[c] \in {"loop", "dead"}
  BY DEF Reset, Goto, EndTask, Die, TypeInv, TypeOK
<1>3. PathOK(c)
  BY DEF PathInv
<1>4. pc'[c] \notin OnPath
  BY <1>2 DEF OnPath
<1>5. pc'[c] = "followBack" => task'[c] \in Within'[path'[c]]
  BY <1>1, <1>2, <1>3, ReachedGrows DEF PathOK, PathInv
<1>6. PathOK(c)'
  BY <1>1, <1>2, <1>3, <1>4, <1>5, ReachedGrows, IndexReached DEF PathOK
<1>7. depth' \in [Consumers -> Nat]
  BY DEF Reset, StartOver, PathInv
<1> QED
  BY <1>1, <1>6, <1>7, ReachedGrows DEF PathInv

\* The path followed is as long as the depth that is counted.
LEMMA FollowPath ==
  ASSUME IsFiniteSet(Pages), TypeInv, PathInv, [Next]_vars, NEW c \in Consumers, Follow(c)
  PROVE  /\ PathOK(c)' /\ parsed' \subseteq Reached'
         /\ depth' \in [Consumers -> Nat] /\ path' \in [Consumers -> Nat]
<1> DEFINE length == IF pc[c] = "followBack" THEN path[c] ELSE Distance(task[c])
<1>1. UNCHANGED <<parsed, task>>
  BY DEF Follow
<1>2. PathOK(c) /\ pc[c] \in {"follow", "followBack"}
  BY DEF PathInv, Follow
<1>3. length \in Nat /\ task[c] \in Within[length]
  <2>1. CASE pc[c] = "followBack"
    BY <1>2, <2>1 DEF PathOK, PathInv
  <2>2. CASE pc[c] # "followBack"
    <3>1. task[c] \in Reachable
      BY <1>2, ReachableIsAll DEF PathOK, Reached, TypeInv
    <3> QED
      BY <2>2, <3>1, DistanceIsSteps
  <2> QED
    BY <2>1, <2>2
<1>4. CASE /\ cur' = [cur EXCEPT ![c] = task[c]]
           /\ depth' = [depth EXCEPT ![c] = @ + length]
           /\ path' = [path EXCEPT ![c] = length]
           /\ Goto(c, IF pc[c] = "followBack" THEN "poll" ELSE "begin")
  <2> HIDE DEF length
  <2>1. cur'[c] = task[c] /\ pc'[c] \in {"poll", "begin"} /\ path'[c] = length
    BY <1>4 DEF Goto, TypeInv, TypeOK, PathInv
  <2>2. depth'[c] = length
    BY <1>2, <1>3, <1>4 DEF PathOK, PathInv
  <2>3. task[c] \in Within'[length] /\ task[c] \in Reached'
    BY <1>2, <1>3, ReachedGrows DEF PathOK
  <2>4. depth' \in [Consumers -> Nat] /\ path' \in [Consumers -> Nat]
    BY <1>3, <1>4 DEF PathInv
  <2> QED
    BY <1>1, <1>3, <2>1, <2>2, <2>3, <2>4, ReachedGrows DEF PathOK, PathInv
<1>5. CASE UNCHANGED <<cur, depth, path>> /\ (Purge(c, task[c]) \/ EndTask(c) \/ Die(c))
  <2>1. pc'[c] \in {"loop", "dead"}
    BY <1>5 DEF Purge, EndTask, Die, Goto, TypeInv, TypeOK
  <2>2. PathOK(c)'
    BY <1>1, <1>2, <1>5, <2>1, ReachedGrows, LeavesPath DEF PathOK, OnPath
  <2> QED
    BY <1>1, <1>5, <2>2, ReachedGrows DEF PathInv
<1> QED
  BY <1>4, <1>5 DEF Follow

\* Actions are polled, put back and dropped in one page.
LEMMA PollPath ==
  ASSUME TypeInv, PathInv, [Next]_vars, NEW c \in Consumers,
         BeginActions(c) \/ Poll(c) \/ Check(c) \/ AddState(c)
  PROVE  /\ PathOK(c)' /\ parsed' \subseteq Reached'
         /\ depth' \in [Consumers -> Nat] /\ path' \in [Consumers -> Nat]
<1>1. UNCHANGED <<parsed, cur, task, depth, path>>
  BY DEF BeginActions, Poll, Check, AddState
<1>2. PathOK(c) /\ path[c] \in Nat
  BY DEF PathInv
<1>3. pc[c] \in OnPath /\ (pc'[c] \in OnPath \/ pc'[c] = "loop")
  BY DEF BeginActions, Poll, Check, AddState, Goto, EndTask, OnPath, TypeInv, TypeOK
<1>4. PathOK(c)'
  <2>1. CASE pc'[c] \in OnPath
    BY <1>1, <1>2, <1>3, <2>1, GoesOnPath
  <2>2. CASE pc'[c] = "loop"
    BY <1>1, <1>2, <2>2, ReachedGrows, LeavesPath DEF PathOK, OnPath
  <2> QED
    BY <1>3, <2>1, <2>2
<1> QED
  BY <1>1, <1>4, ReachedGrows DEF PathInv

\* A consumer that left the domain knows the path back.
LEMMA FirePath ==
  ASSUME TypeInv, PathInv, [Next]_vars, NEW c \in Consumers, Fire(c)
  PROVE  /\ PathOK(c)' /\ parsed' \subseteq Reached'
         /\ depth' \in [Consumers -> Nat] /\ path' \in [Consumers -> Nat]
<1>1. UNCHANGED <<parsed, cur, depth, path>>
  BY DEF Fire
<1>2. PathOK(c) /\ path[c] \in Nat /\ pc[c] \in OnPath
  BY DEF PathInv, Fire, OnPath
<1>3. task'[c] \in {task[c], cur[c]}
  BY DEF Fire, TypeInv, TypeOK
<1>4. CASE pc'[c] = "resetBack"
  <2>1. task'[c] = cur[c]
    BY <1>4 DEF Fire, AfterEvent, MayNotFire, EndTask, Die, Goto, TypeInv, TypeOK
  <2>2. PathOK(c)'
    BY <1>1, <1>2, <1>4, <2>1, ReachedGrows DEF PathOK, OnPath
  <2> QED
    BY <1>1, <2>2, ReachedGrows DEF PathInv
<1>5. CASE pc'[c] \in {"poll", "switch"}
  <2>1. PathOK(c)'
    BY <1>1, <1>2, <1>3, <1>5, ReachedGrows DEF PathOK, OnPath
  <2> QED
    BY <1>1, <2>1, ReachedGrows DEF PathInv
<1>6. CASE pc'[c] \in {"loop", "dead"}
  <2>1. PathOK(c)'
    BY <1>1, <1>2, <1>3, <1>6, ReachedGrows DEF PathOK, OnPath
  <2> QED
    BY <1>1, <2>1, ReachedGrows DEF PathInv
<1> QED
  BY <1>4, <1>5, <1>6 DEF Fire, AfterEvent, EndTask, Die, Goto, TypeInv, TypeOK

\* An edge leads one step on, and counts for the depth once at most.
LEMMA AddEdgePath ==
  ASSUME TypeInv, PathInv, [Next]_vars, NEW c \in Consumers, AddEdge(c)
  PROVE  /\ PathOK(c)' /\ parsed' \subseteq Reached'
         /\ depth' \in [Consumers -> Nat] /\ path' \in [Consumers -> Nat]
<1>1. UNCHANGED <<parsed, task, graph>> /\ path' = [path EXCEPT ![c] = @ + 1]
      /\ edges' = edges \cup {<<cur[c], dom[c]>>}
  BY DEF AddEdge, NewEdge
<1>2. PathOK(c) /\ path[c] \in Nat /\ depth[c] \in 0 .. path[c] /\ cur[c] \in Within[path[c]]
  BY DEF PathInv, PathOK, AddEdge, OnPath
<1>3. dom[c] \in graph /\ dom[c] \in Pages
  BY DEF TypeInv, OnGraph, AddEdge
<1>4. dom[c] \in Within'[path[c] + 1]
  <2>1. cur[c] \in Within'[path[c]] /\ <<cur[c], dom[c]>> \in edges' /\ dom[c] \in graph'
    BY <1>1, <1>2, <1>3, ReachedGrows
  <2> QED
    BY <1>2, <2>1, EdgeLeadsOn
<1>5. dom[c] \in Reached'
  BY <1>2, <1>3, <1>4 DEF Reached
<1>6. path' \in [Consumers -> Nat] /\ path'[c] = path[c] + 1
  BY <1>1 DEF PathInv
<1>7. CASE /\ cur' = [cur EXCEPT ![c] = dom[c]]
           /\ depth' = [depth EXCEPT ![c] = IF isNew[c] THEN @ + 1 ELSE @]
           /\ Goto(c, IF isNew[c] /\ ~AtMaxDepth(c) THEN "parse" ELSE "poll")
  <2>1. cur'[c] = dom[c] /\ pc'[c] \in {"parse", "poll"}
    BY <1>7 DEF Goto, TypeInv, TypeOK
  <2>2. depth' \in [Consumers -> Nat] /\ depth'[c] \in 0 .. path'[c]
    BY <1>2, <1>6, <1>7 DEF PathInv
  <2>3. PathOK(c)'
    BY <1>1, <1>2, <1>4, <1>5, <1>6, <2>1, <2>2, ReachedGrows DEF PathOK, OnPath
  <2> QED
    BY <1>1, <1>6, <2>2, <2>3, ReachedGrows DEF PathInv
<1>8. CASE UNCHANGED <<cur, depth>> /\ (EndTask(c) \/ Die(c))
  <2>1. pc'[c] \in {"loop", "dead"}
    BY <1>8 DEF EndTask, Die, Goto, TypeInv, TypeOK
  <2>2. PathOK(c)'
    BY <1>1, <1>2, <1>8, <2>1, ReachedGrows DEF PathOK, OnPath
  <2> QED
    BY <1>1, <1>6, <1>8, <2>2, ReachedGrows DEF PathInv
<1> QED
  BY <1>7, <1>8 DEF AddEdge

\* Only a page that was reached is parsed.
LEMMA ParsePath ==
  ASSUME TypeInv, PathInv, [Next]_vars, NEW c \in Consumers, Parse(c)
  PROVE  /\ PathOK(c)' /\ parsed' \subseteq Reached'
         /\ depth' \in [Consumers -> Nat] /\ path' \in [Consumers -> Nat]
<1>1. UNCHANGED <<cur, task, depth, path>> /\ parsed' \subseteq parsed \cup {cur[c]}
  BY DEF Parse
<1>2. PathOK(c) /\ path[c] \in Nat /\ pc[c] \in OnPath
  BY DEF PathInv, Parse, OnPath
<1>3. pc'[c] = "poll" \/ pc'[c] \in {"loop", "dead"}
  BY DEF Parse, EndTask, Die, Goto, TypeInv, TypeOK
<1>4. PathOK(c)'
  <2>1. CASE pc'[c] = "poll"
    BY <1>1, <1>2, <2>1, GoesOnPath DEF OnPath
  <2>2. CASE pc'[c] \in {"loop", "dead"}
    BY <1>1, <1>2, <2>2, ReachedGrows, LeavesPath DEF PathOK, OnPath
  <2> QED
    BY <1>3, <2>1, <2>2
<1>5. parsed' \subseteq Reached'
  BY <1>1, <1>2, ReachedGrows DEF PathInv, PathOK
<1> QED
  BY <1>1, <1>4, <1>5 DEF PathInv

\* With TypeInv, PathInv is inductive.
LEMMA NextPath ==
  ASSUME IsFiniteSet(Pages), TypeInv, PathInv, [Next]_vars
  PROVE  PathInv'
<1>1. CASE UNCHANGED <<pc, cur, task, depth, path, parsed>>
  <2>1. \A c \in Consumers : PathOK(c)'
    BY <1>1, StaysOnPath DEF PathInv
  <2> QED
    BY <1>1, <2>1, ReachedGrows DEF PathInv
<1>2. CASE Start /\ CrawlIndex /\ pc' = [c \in Consumers |-> "loop"]
  <2>1. parsed' = {Index} /\ UNCHANGED <<cur, task, depth, path>> /\ \A c \in Consumers : pc'[c] = "loop"
    BY <1>2 DEF Start, CrawlIndex
  <2>2. parsed' \subseteq Reached'
    BY <2>1, IndexReached, ReachedGrows
  <2>3. \A c \in Consumers : PathOK(c)'
    BY <2>1, ReachedGrows, LeavesPath DEF PathInv, PathOK, OnPath
  <2> QED
    BY <2>1, <2>2, <2>3 DEF PathInv
<1>3. ASSUME NEW c \in Consumers, Consumer(c) PROVE PathInv'
  <2>1. /\ PathOK(c)' /\ parsed' \subseteq Reached'
        /\ depth' \in [Consumers -> Nat] /\ path' \in [Consumers -> Nat]
    BY <1>3, LoopPath, ResetPath, FollowPath, PollPath, FirePath, AddEdgePath, ParsePath
       DEF Consumer
  <2>2. ASSUME NEW d \in Consumers, d # c PROVE PathOK(d)'
    <3>1. PathOK(d) /\ path[d] \in Nat
      BY DEF PathInv
    <3>2. /\ pc'[d] = pc[d] /\ cur'[d] = cur[d] /\ task'[d] = task[d]
          /\ depth'[d] = depth[d] /\ path'[d] = path[d]
      BY <1>3, <2>2, OthersUntouched DEF TypeInv
    <3> QED
      BY <3>1, <3>2, StaysOnPath
  <2> QED
    BY <2>1, <2>2 DEF PathInv
<1> QED
  <2>1. CASE UNCHANGED vars \/ ShutDown \/ Finish \/ SignalFromOutside
    BY <1>1, <2>1 DEF vars, ShutDown, Finish, SignalFromOutside
  <2>2. CASE Start
    BY <1>1, <1>2, <2>2 DEF Start
  <2> QED
    BY <1>3, <2>1, <2>2 DEF Next, Controller

\* At first nothing was parsed and every consumer is at the index.
LEMMA InitPath == Init => PathInv
BY IndexReached DEF Init, PathInv, PathOK, OnPath

\* Every page with actions to fire can be reached again from the index, in no
\* more events than there are pages, whatever failed on the way there.
THEOREM TasksStayReachable ==
  ASSUME IsFiniteSet(Pages)
  PROVE  Spec => []TasksAreReachable
<1>1. Init => TypeInv /\ PathInv
  BY InitType, InitPath
<1>2. TypeInv /\ PathInv /\ [Next]_vars => (TypeInv /\ PathInv)'
  BY NextType, NextPath
<1>3. TypeInv /\ PathInv => TasksAreReachable
  <2> SUFFICES ASSUME TypeInv, PathInv, NEW s \in Pages, pending[s] # {}
               PROVE  s \in Reachable
    BY DEF TasksAreReachable
  <2>1. s \in Reached
    BY DEF TypeInv, OnlyParsed, PathInv
  <2> QED
    BY <2>1, ReachableIsAll DEF Reached, TypeInv
<1> QED
  BY <1>1, <1>2, <1>3, PTL DEF Spec

\* The depth a crawler counts is no more than the events of a path that leads
\* where it is: no path followed, no way back from another domain and no reset
\* lets the two get out of step, while other consumers add edges.
THEOREM DepthStaysJustified ==
  ASSUME IsFiniteSet(Pages)
  PROVE  Spec => []DepthIsJustified
<1>1. Init => TypeInv /\ PathInv
  BY InitType, InitPath
<1>2. TypeInv /\ PathInv /\ [Next]_vars => (TypeInv /\ PathInv)'
  BY NextType, NextPath
<1>3. PathInv => DepthIsJustified
  BY DEF PathInv, PathOK, OnPath, DepthIsJustified
<1> QED
  BY <1>1, <1>2, <1>3, PTL DEF Spec

-----------------------------------------------------------------------------
(***************************************************************************)
(* Exhaustion, with one browser.                                           *)
(***************************************************************************)
OneConsumer == \A c, d \in Consumers : c = d

\* A crawl that was found exhausted has no action left, and its consumer goes.
DoneInv ==
  /\ signal = "exhausted" => ctl \notin {"start", "failed"}
  /\ exitReason = "exhausted" => ctl \in {"stopping", "done"}
  /\ signal = "exhausted" \/ exitReason = "exhausted" =>
       CacheIsEmpty /\ \A c \in Consumers : pc[c] \in {"close", "closed"}

\* Only a consumer that finds nothing left signals the exhaustion, and it is
\* the only one there is.
LEMMA NextDone ==
  ASSUME OneConsumer, TypeInv, DoneInv, [Next]_vars
  PROVE  DoneInv'
<1>1. CASE UNCHANGED vars
  BY <1>1 DEF vars, DoneInv, CacheIsEmpty
<1>2. CASE Start
  BY <1>2 DEF Start, DoneInv
<1>3. CASE SignalFromOutside \/ ShutDown \/ Finish
  BY <1>3 DEF SignalFromOutside, ShutDown, Finish, DoneInv, CacheIsEmpty
<1>4. ASSUME NEW c \in Consumers, Consumer(c) PROVE DoneInv'
  <2>1. UNCHANGED <<ctl, exitReason>>
    BY <1>4 DEF Consumer, Loop, Await, Close, Reset, Follow, BeginActions, Fire,
                AddState, AddEdge, Parse, Poll, Check
  <2>2. ctl \notin {"start", "failed"}
    BY <1>4 DEF Consumer, Loop, Await, Close, Reset, Follow, BeginActions, Fire,
                AddState, AddEdge, Parse, Poll, Check, TypeInv, NotStarted
  <2>3. CASE signal = "exhausted" \/ exitReason = "exhausted"
    <3>1. Close(c)
      BY <1>4, <2>3 DEF Consumer, Loop, Await, Reset, Follow, BeginActions, Fire,
                        AddState, AddEdge, Parse, Poll, Check, DoneInv
    <3> QED
      BY <2>1, <2>3, <3>1 DEF Close, Goto, TypeInv, TypeOK, DoneInv, CacheIsEmpty
  <2>4. CASE signal # "exhausted" /\ exitReason # "exhausted" /\ signal' # "exhausted"
    BY <2>1, <2>4 DEF DoneInv
  <2>5. CASE signal # "exhausted" /\ signal' = "exhausted"
    <3>1. Loop(c) /\ CacheIsEmpty /\ pc'[c] = "close"
      BY <1>4, <2>5 DEF Consumer, Loop, Await, Close, Reset, Follow, BeginActions, Fire,
                        AddState, AddEdge, Parse, Poll, Check, NothingLeft, Goto, TypeInv, TypeOK
    <3>2. \A d \in Consumers : pc'[d] = "close"
      BY <3>1 DEF OneConsumer
    <3>3. CacheIsEmpty'
      BY <3>1 DEF Loop, CacheIsEmpty
    <3> QED
      BY <2>1, <2>2, <3>2, <3>3 DEF DoneInv
  <2> QED
    BY <2>3, <2>4, <2>5
<1> QED
  BY <1>1, <1>2, <1>3, <1>4 DEF Next, Controller

\* With one browser an exhausted crawl is one that has no action left, whatever
\* the crawl met on its way.
THEOREM ExhaustionIsTrue ==
  ASSUME OneConsumer
  PROVE  Spec => []ExhaustedMeansDone
<1>1. Init => TypeInv /\ DoneInv
  BY InitType DEF Init, DoneInv
<1>2. TypeInv /\ DoneInv /\ [Next]_vars => (TypeInv /\ DoneInv)'
  BY NextType, NextDone
<1>3. DoneInv => ExhaustedMeansDone
  BY DEF DoneInv, ExhaustedMeansDone
<1> QED
  BY <1>1, <1>2, <1>3, PTL DEF Spec

\* Nothing keeps an event from being fired, or a new state from being parsed,
\* but an interrupt.
NothingFails == Faults \cap {"unfired", "exception", "error"} = {}

\* Firing an action of s led to t, as far as it went.
Led(s, t) ==
  \/ t \in {s, Offsite}
  \/ <<s, t>> \in edges
  \/ \E c \in Consumers : pc[c] \in {"switch", "edge"} /\ cur[c] = s /\ dom[c] = t

\* Until it is told to stop a crawl parses every state it adds, and what it
\* tried led somewhere.
ExploreInv ==
  /\ ctl \in {"start", "await"} => \A c \in Consumers : ~flag[c]
  /\ ctl = "await" \/ exitReason = "exhausted" =>
       /\ \A s \in graph : s \in parsed \/ \E c \in Consumers : Adding(c, s)
       /\ \A s \in Pages : \A a \in Candidates(s) :
            <<s, a>> \in tried => \E t \in App[s][a] : Led(s, t)

\* A step that keeps what is being added and what was tried.
LEMMA ExploreKept ==
  ASSUME ExploreInv, UNCHANGED <<ctl, exitReason, graph, tried>>,
         ctl \in {"start", "await"} => \A c \in Consumers : ~flag'[c],
         parsed \subseteq parsed',
         \A c \in Consumers, s \in graph : Adding(c, s) =>
           s \in parsed' \/ \E d \in Consumers : Adding(d, s)',
         \A s, t : Led(s, t) => Led(s, t)'
  PROVE  ExploreInv'
BY DEF ExploreInv

\* Nothing was added or tried by a consumer at these places.
LEMMA NotAdding ==
  ASSUME NEW c \in Consumers, UNCHANGED <<edges, dom, isNew>>,
         pc[c] \notin {"switch", "edge", "parse"},
         \A d \in Consumers \ {c} : pc'[d] = pc[d] /\ cur'[d] = cur[d]
  PROVE  /\ \A d \in Consumers, s \in graph : Adding(d, s) => Adding(d, s)'
         /\ \A s, t : Led(s, t) => Led(s, t)'
<1>1. \A d \in Consumers, s \in graph : Adding(d, s) => Adding(d, s)'
  BY DEF Adding
<1>2. ASSUME NEW s, NEW t, Led(s, t) PROVE Led(s, t)'
  BY <1>2 DEF Led
<1> QED
  BY <1>1, <1>2

\* Steps that add, try and parse nothing.
LEMMA QuietExplore ==
  ASSUME TypeInv, PathInv, ExploreInv, NEW c \in Consumers, Consumer(c),
         \/ Loop(c) \/ Await(c) \/ Close(c) \/ Reset(c) \/ Follow(c)
         \/ BeginActions(c) \/ Poll(c) \/ Check(c)
  PROVE  ExploreInv'
<1>1. /\ UNCHANGED <<ctl, exitReason, graph, tried, parsed, edges, dom, isNew>>
      /\ pc[c] \notin {"switch", "edge", "parse"}
  BY DEF Loop, Await, Close, Reset, StartOver, Follow, Purge, BeginActions, Poll, Check
<1>2. \A d \in Consumers \ {c} : pc'[d] = pc[d] /\ cur'[d] = cur[d]
  BY OthersUntouched DEF TypeInv
<1>3. ctl \in {"start", "await"} => \A d \in Consumers : ~flag'[d]
  BY DEF ExploreInv, TypeInv, TypeOK, Loop, Await, Close, Reset, Follow, BeginActions, Poll,
         Check, RaiseFlagAgain
<1>4. /\ \A d \in Consumers, s \in graph : Adding(d, s) => Adding(d, s)'
      /\ \A s, t : Led(s, t) => Led(s, t)'
  BY <1>1, <1>2, NotAdding
<1> QED
  BY <1>1, <1>3, <1>4, ExploreKept

\* What was fired led to the page the browser shows, and to a consumer that is
\* going to add the edge.
LEMMA FireExplore ==
  ASSUME NothingFails, TypeInv, PathInv, ExploreInv, ctl = "await",
         NEW c \in Consumers, Consumer(c), Fire(c)
  PROVE  ExploreInv'
<1>1. ~flag[c] /\ UNCHANGED <<control, graph, edges, parsed, flag, cur, isNew>> /\ pc[c] = "fire"
      /\ tried' = tried \cup {<<cur[c], hand[c]>>}
  BY DEF ExploreInv, Fire
<1>2. PICK t \in App[cur[c]][hand[c]] :
        dom' = [dom EXCEPT ![c] = t] /\ Goto(c, AfterEvent(cur[c], t))
  BY <1>1 DEF Fire, MayNotFire, Die, NothingFails
<1>3. dom'[c] = t /\ pc'[c] = AfterEvent(cur[c], t) /\ pc'[c] \notin {"edge", "parse"}
  BY <1>2 DEF Goto, TypeInv, TypeOK, AfterEvent
<1>4. \A d \in Consumers \ {c} : pc'[d] = pc[d] /\ cur'[d] = cur[d] /\ dom'[d] = dom[d]
  BY <1>2, OthersUntouched DEF TypeInv, TypeOK
<1>5. Led(cur[c], t)'
  BY <1>1, <1>3 DEF Led, AfterEvent
<1>6. \A d \in Consumers, s \in graph : Adding(d, s) => Adding(d, s)'
  BY <1>1, <1>4 DEF Adding
<1>7. ASSUME NEW s, NEW u, Led(s, u) PROVE Led(s, u)'
  BY <1>1, <1>4, <1>7 DEF Led
<1>8. \A s \in graph : s \in parsed' \/ \E d \in Consumers : Adding(d, s)'
  BY <1>1, <1>6 DEF ExploreInv
<1>9. ASSUME NEW s \in Pages, NEW a \in Candidates(s), <<s, a>> \in tried'
      PROVE  \E u \in App[s][a] : Led(s, u)'
  <2>1. CASE <<s, a>> \in tried
    BY <1>7, <2>1 DEF ExploreInv
  <2>2. CASE s = cur[c] /\ a = hand[c]
    BY <1>1, <1>5, <2>2
  <2> QED
    BY <1>1, <1>9, <2>1, <2>2
<1> QED
  BY <1>1, <1>8, <1>9 DEF ExploreInv

\* A new state is being added by the consumer that found it.
LEMMA AddStateExplore ==
  ASSUME TypeInv, PathInv, ExploreInv, ctl = "await",
         NEW c \in Consumers, Consumer(c), AddState(c)
  PROVE  ExploreInv'
<1>1. /\ UNCHANGED <<ctl, exitReason, edges, parsed, tried, flag, cur, dom>>
      /\ pc[c] = "switch" /\ graph' = graph \cup {dom[c]}
  BY DEF AddState
<1>2. pc'[c] = "edge" /\ isNew'[c] = (dom[c] \notin graph)
  BY DEF AddState, Goto, TypeInv, TypeOK
<1>3. \A d \in Consumers \ {c} : pc'[d] = pc[d] /\ isNew'[d] = isNew[d]
  BY DEF AddState, Goto, TypeInv, TypeOK
<1>4. \A d \in Consumers, s \in graph : Adding(d, s) => Adding(d, s)'
  BY <1>1, <1>3 DEF Adding
<1>5. dom[c] \in graph \/ Adding(c, dom[c])'
  BY <1>1, <1>2 DEF Adding
<1>6. \A s \in graph' : s \in parsed' \/ \E d \in Consumers : Adding(d, s)'
  BY <1>1, <1>4, <1>5 DEF ExploreInv
<1>7. ASSUME NEW s, NEW t, Led(s, t) PROVE Led(s, t)'
  BY <1>1, <1>2, <1>3, <1>7 DEF Led
<1> QED
  BY <1>1, <1>6, <1>7 DEF ExploreInv

\* The edge stands for the event, and without a depth limit a new state is parsed.
LEMMA AddEdgeExplore ==
  ASSUME NothingFails, MaxDepth = 0, TypeInv, PathInv, ExploreInv, ctl = "await",
         NEW c \in Consumers, Consumer(c), AddEdge(c)
  PROVE  ExploreInv'
<1>1. /\ UNCHANGED <<control, graph, parsed, tried, flag, dom, isNew>>
      /\ pc[c] = "edge" /\ edges' = edges \cup {<<cur[c], dom[c]>>}
  BY DEF AddEdge, NewEdge
<1>2. /\ cur' = [cur EXCEPT ![c] = dom[c]]
      /\ Goto(c, IF isNew[c] /\ ~AtMaxDepth(c) THEN "parse" ELSE "poll")
  BY DEF AddEdge, Die, NothingFails
<1>3. ~AtMaxDepth(c)
  BY DEF AtMaxDepth, PathInv
<1>4. isNew[c] => cur'[c] = dom[c] /\ pc'[c] = "parse"
  BY <1>1, <1>2, <1>3 DEF Goto, TypeInv, TypeOK
<1>5. \A d \in Consumers \ {c} : pc'[d] = pc[d] /\ cur'[d] = cur[d]
  BY OthersUntouched DEF TypeInv
<1>6. \A d \in Consumers, s \in graph : Adding(d, s) => Adding(d, s)'
  BY <1>1, <1>4, <1>5 DEF Adding
<1>7. ASSUME NEW s, NEW t, Led(s, t) PROVE Led(s, t)'
  BY <1>1, <1>5, <1>7 DEF Led
<1> QED
  BY <1>1, <1>6, <1>7, ExploreKept DEF ExploreInv

\* A page is parsed whole.
LEMMA ParseExplore ==
  ASSUME NothingFails, TypeInv, PathInv, ExploreInv,
         NEW c \in Consumers, Consumer(c), Parse(c)
  PROVE  ExploreInv'
<1>1. /\ UNCHANGED <<control, graph, edges, tried, flag, cur, dom, isNew>>
      /\ pc[c] = "parse" /\ parsed' = parsed \cup {cur[c]}
  BY DEF Parse, Die, NothingFails
<1>2. \A d \in Consumers \ {c} : pc'[d] = pc[d]
  BY OthersUntouched DEF TypeInv
<1>3. \A d \in Consumers, s \in graph : Adding(d, s) => s \in parsed' \/ Adding(d, s)'
  BY <1>1, <1>2 DEF Adding
<1>4. ASSUME NEW s, NEW t, Led(s, t) PROVE Led(s, t)'
  BY <1>1, <1>2, <1>4 DEF Led
<1> QED
  BY <1>1, <1>3, <1>4, ExploreKept DEF ExploreInv

\* With the other invariants, ExploreInv is inductive.
LEMMA NextExplore ==
  ASSUME OneConsumer, NothingFails, MaxDepth = 0,
         TypeInv, PathInv, DoneInv, ExploreInv, [Next]_vars
  PROVE  ExploreInv'
<1>1. CASE UNCHANGED vars \/ SignalFromOutside \/ Finish
  <2>1. UNCHANGED <<exitReason, graph, edges, parsed, tried, flag, pc, cur, dom, isNew>>
        /\ (ctl' = ctl \/ ctl' = "done")
    BY <1>1 DEF vars, SignalFromOutside, Finish
  <2>2. \A c \in Consumers, s \in graph : Adding(c, s) <=> Adding(c, s)'
    BY <2>1 DEF Adding
  <2>3. \A s, t : Led(s, t) <=> Led(s, t)'
    BY <2>1 DEF Led
  <2> QED
    BY <2>1, <2>2, <2>3 DEF ExploreInv
<1>2. CASE ShutDown
  <2>1. UNCHANGED <<graph, edges, parsed, tried, pc, cur, dom, isNew>>
        /\ ctl = "await" /\ ctl' = "stopping"
    BY <1>2 DEF ShutDown
  <2>2. \A c \in Consumers, s \in graph : Adding(c, s) <=> Adding(c, s)'
    BY <2>1 DEF Adding
  <2>3. \A s, t : Led(s, t) <=> Led(s, t)'
    BY <2>1 DEF Led
  <2> QED
    BY <2>1, <2>2, <2>3 DEF ExploreInv
<1>3. CASE Start
  <2>1. UNCHANGED <<flag, tried, exitReason>> /\ ctl = "start" /\ ctl' = "await"
        /\ graph' = {Index} /\ parsed' = {Index}
    BY <1>3 DEF Start, CrawlIndex, NothingFails
  <2>2. tried = {}
    BY <2>1 DEF TypeInv, NotStarted, OnlyParsed
  <2> QED
    BY <2>1, <2>2 DEF ExploreInv
<1>4. ASSUME NEW c \in Consumers, Consumer(c) PROVE ExploreInv'
  <2>1. CASE \/ Loop(c) \/ Await(c) \/ Close(c) \/ Reset(c) \/ Follow(c)
             \/ BeginActions(c) \/ Poll(c) \/ Check(c)
    BY <1>4, <2>1, QuietExplore
  <2>2. CASE Fire(c) \/ AddState(c) \/ AddEdge(c) \/ Parse(c)
    <3>1. exitReason # "exhausted" /\ exitReason' = exitReason /\ ctl' = ctl /\ flag' = flag
      BY <2>2 DEF Fire, AddState, AddEdge, Parse, DoneInv
    <3>2. CASE ctl = "await"
      BY <1>4, <2>2, <3>2, FireExplore, AddStateExplore, AddEdgeExplore, ParseExplore
    <3>3. CASE ctl # "await"
      BY <3>1, <3>3 DEF ExploreInv
    <3> QED
      BY <3>2, <3>3
  <2> QED
    BY <1>4, <2>1, <2>2 DEF Consumer
<1> QED
  BY <1>1, <1>2, <1>3, <1>4 DEF Next, Controller

\* With one browser, and nothing that fails but paths that cannot be followed, an
\* exhausted crawl without a depth limit has explored the site: every action of
\* every state was given up with its state, or led nowhere new, or along an edge
\* of the graph that is reported.
THEOREM ExhaustionIsExploration ==
  ASSUME OneConsumer, NothingFails, IsFiniteSet(Pages)
  PROVE  Spec => []ExhaustedMeansExplored
<1>1. CASE MaxDepth # 0
  <2>1. ExhaustedMeansExplored
    BY <1>1 DEF ExhaustedMeansExplored
  <2> QED
    BY <2>1, PTL
<1>2. CASE MaxDepth = 0
  <2> DEFINE ExInv == TypeInv /\ EveryActionAccounted /\ PathInv /\ DoneInv /\ ExploreInv
  <2>1. Init => ExInv
    BY InitType, InitAccounted, InitPath DEF Init, DoneInv, ExploreInv
  <2>2. ExInv /\ [Next]_vars => ExInv'
    BY <1>2, NextType, NextAccounted, NextPath, NextDone, NextExplore
  <2>3. ExInv => ExhaustedMeansExplored
    <3> SUFFICES ASSUME ExInv, exitReason = "exhausted",
                        NEW s \in graph, NEW a \in Candidates(s), <<s, a>> \notin lost
                 PROVE  \E t \in App[s][a] : t \in {s, Offsite} \/ <<s, t>> \in edges
      BY DEF ExhaustedMeansExplored
    <3>1. CacheIsEmpty /\ \A c \in Consumers : pc[c] \in {"close", "closed"}
      BY DEF DoneInv
    <3>2. s \in Pages /\ s \in parsed
      BY <3>1 DEF ExploreInv, Adding, TypeInv, TypeOK
    <3>3. ~Waits(s, a)
      BY <3>1, <3>2 DEF CacheIsEmpty, Waits
    <3>4. ~IsHeld(s, a)
      <4>1. \A c \in Consumers : hand[c] = NoAction
        BY <3>1 DEF TypeInv, HandInUse
      <4> QED
        BY <4>1, <3>2, EngineAssumption DEF IsHeld, Holds
    <3>5. <<s, a>> \in tried
      BY <3>2, <3>3, <3>4 DEF EveryActionAccounted, IsOver
    <3>6. \E t \in App[s][a] : Led(s, t)
      BY <3>2, <3>5 DEF ExploreInv
    <3> QED
      BY <3>1, <3>6 DEF Led
  <2> HIDE DEF ExInv
  <2> QED
    BY <2>1, <2>2, <2>3, PTL DEF Spec
<1> QED
  BY <1>1, <1>2

-----------------------------------------------------------------------------
(***************************************************************************)
(* The result of a crawl, if the consumers stop in time.                   *)
(***************************************************************************)
\* Only consumers that have ended, or never began, are left by the controller.
ResultInv ==
  ctl = "done" => \A c \in Consumers : Ended(c)

\* Every consumer step starts from a consumer that has not ended.
LEMMA NextResult ==
  ASSUME "slow" \notin Faults, TypeInv, ResultInv, [Next]_vars
  PROVE  ResultInv' /\ (ctl \in {"done", "failed"} => UNCHANGED flow)
<1>1. CASE UNCHANGED vars
  BY <1>1 DEF vars, ResultInv, Ended
<1>2. CASE Start \/ ShutDown \/ SignalFromOutside
  BY <1>2 DEF Start, ShutDown, SignalFromOutside, ResultInv
<1>3. CASE Finish
  BY <1>3 DEF Finish, Ended, ResultInv
<1>4. ASSUME NEW c \in Consumers, Consumer(c)
      PROVE  ResultInv' /\ (ctl \in {"done", "failed"} => UNCHANGED flow)
  <2>1. pc[c] \notin {"idle", "closed", "dead"} /\ UNCHANGED ctl
    BY <1>4 DEF Consumer, Loop, Await, Close, Reset, Follow, BeginActions, Fire,
                AddState, AddEdge, Parse, Poll, Check
  <2>2. ctl \notin {"done", "failed"}
    BY <2>1 DEF ResultInv, Ended, TypeInv, NotStarted
  <2> QED
    BY <2>1, <2>2 DEF ResultInv
<1> QED
  BY <1>1, <1>2, <1>3, <1>4 DEF Next, Controller

\* Unless a consumer needs more than the 15 seconds it is given, nobody changes
\* the graph any more once the crawl has returned.
THEOREM ResultStaysFinal ==
  ASSUME "slow" \notin Faults
  PROVE  Spec => ResultIsFinal
<1>1. Init => TypeInv /\ ResultInv
  BY InitType DEF Init, ResultInv
<1>2. TypeInv /\ ResultInv /\ [Next]_vars => (TypeInv /\ ResultInv)'
  BY NextType, NextResult
<1>3. TypeInv /\ ResultInv /\ [Next]_vars
      => [(ctl \in {"done", "failed"}) => UNCHANGED flow]_vars
  BY NextResult
<1> QED
  BY <1>1, <1>2, <1>3, PTL DEF Spec, ResultIsFinal
=============================================================================
