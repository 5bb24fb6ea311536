-------------------------- MODULE EvaluatorProofs --------------------------
(***************************************************************************)
(* The recursion of findPaths, for every graph, policy and target: it      *)
(* stays within MaxHops and walks simple connected paths.  The second half *)
(* prepares SearchProofs: the powers of the decay, the invariant of the    *)
(* search (what is found, what is ahead) and the steps that start it.      *)
(***************************************************************************)
EXTENDS Evaluator, WellFoundedInduction, TLAPS

(* What the loops have yet to look at. *)
LoopInv ==
    /\ pc \in {"roots", "search"} =>
          policy.maxHops > 0 /\ roots \subseteq DOMAIN policy.roots
    /\ pc = "search" => \A d \in 1..depth : todo[d] \subseteq OutEdges(current[d])

Inv == TypeOK /\ LoopInv /\ VisitedIsCurrentPath

(* The inputs are what the assumptions say. *)
LEMMA InitInv == Init => Inv
<1> SUFFICES ASSUME Init PROVE Inv
  BY Zenon
<1>1. TypeOK
  <2>1. IsGraph(edges) /\ IsPolicy(policy) /\ target \in Identities
    BY Zenon, InputAssumption DEF Init
  <2> QED BY <2>1, SizeAssumption DEF Init, TypeOK
<1> QED BY Zenon, <1>1 DEF Init, Inv, LoopInv, VisitedIsCurrentPath

(* Out-edges are edges of the graph. *)
LEMMA OutEdgesType ==
    ASSUME IsGraph(edges), NEW n
    PROVE  OutEdges(n) \subseteq 1..MaxEdge /\ OutEdges(n) \subseteq DOMAIN edges
BY Zenon DEF IsGraph, OutEdges

(* An edge of the graph leads to an identity. *)
LEMMA NeighborType ==
    ASSUME IsGraph(edges), NEW e \in DOMAIN edges
    PROVE  Neighbor(e) \in Identities
BY Zenon DEF IsGraph, Neighbor, EdgeType

(* The frames of the calls in progress. *)
LEMMA FrameFacts ==
    ASSUME TypeOK, pc = "search"
    PROVE  /\ depth \in Nat /\ 1 <= depth /\ depth <= policy.maxHops /\ policy.maxHops \in Int
           /\ policy.maxHops <= HopLimit /\ HopLimit \in Nat
           /\ depth \in Frames /\ depth \in 1..depth /\ 1..depth \subseteq Frames
<1>1. /\ depth \in 1..policy.maxHops /\ policy.maxHops \in Int /\ policy.maxHops <= HopLimit
      /\ HopLimit \in Nat
  BY Zenon, SizeAssumption DEF TypeOK, IsPolicy
<1> QED BY <1>1 DEF Frames

(* A step that leaves the path alone keeps it. *)
LEMMA PathUnchanged ==
    ASSUME VisitedIsCurrentPath,
           UNCHANGED <<edges, policy, target, pc, root, depth, current, hop, visited>>
    PROVE  VisitedIsCurrentPath'
<1>1. \A m : OutEdges(m)' = OutEdges(m)
  BY Zenon DEF OutEdges
<1>2. \A x : Neighbor(x)' = Neighbor(x)
  BY Zenon DEF Neighbor
<1>3. {current[d] : d \in 1..depth}' = {current[d] : d \in 1..depth}
  <2>1. current' = current /\ depth' = depth
    BY Zenon
  <2> QED BY <2>1, Zenon
<1> QED BY Zenon, <1>1, <1>2, <1>3 DEF VisitedIsCurrentPath

(* Validate replaces MinConfidence by its default and begins with the roots. *)
LEMMA ValidateStep == Inv /\ Validate => Inv'
<1> SUFFICES ASSUME Inv, Validate PROVE Inv'
  BY Zenon
<1>1. CASE ValidPolicy
  <2>1. /\ pc' = "roots" /\ roots' = DOMAIN policy.roots
        /\ policy' = [policy EXCEPT !.min = IF @ <= 0 THEN DefaultMinConfidence ELSE @]
        /\ UNCHANGED <<edges, target, frames, allPaths, nodes, records, unconfidence>>
    BY Zenon, <1>1 DEF Validate
  <2>2. /\ policy'.roots = policy.roots /\ policy'.topic = policy.topic
        /\ policy'.maxHops = policy.maxHops /\ policy'.decay = policy.decay
        /\ policy'.min = (IF policy.min <= 0 THEN DefaultMinConfidence ELSE policy.min)
        /\ policy' = [roots |-> policy'.roots, topic |-> policy'.topic,
                      maxHops |-> policy'.maxHops, decay |-> policy'.decay,
                      min |-> policy'.min]
    BY Zenon, <2>1 DEF Inv, TypeOK, IsPolicy
  <2>3. IsPolicy(policy')
    BY <2>2, UnitAssumption DEF Inv, TypeOK, IsPolicy
  <2>4. policy.maxHops > 0
    BY Zenon, <1>1 DEF ValidPolicy
  <2>5. roots' \subseteq Identities
    BY Zenon, <2>1 DEF Inv, TypeOK, IsPolicy
  <2> QED
    BY Zenon, <2>1, <2>2, <2>3, <2>4, <2>5 DEF Inv, TypeOK, LoopInv,
       VisitedIsCurrentPath, frames
<1>2. CASE ~ValidPolicy
  BY Zenon, <1>2 DEF Validate, Inv, TypeOK, LoopInv, VisitedIsCurrentPath, frames
<1> QED BY Zenon, <1>1, <1>2

(* A root that is the target is not searched from. *)
LEMMA TargetIsRootStep ==
    ASSUME Inv, NEW r \in roots, TargetIsRoot(r)
    PROVE  Inv'
BY Zenon DEF Inv, TypeOK, LoopInv, VisitedIsCurrentPath, TargetIsRoot, NextRoot,
   inputs, frames

(* The search begins with the root on the path and its edges to look at. *)
LEMMA SearchFromStep ==
    ASSUME Inv, NEW r \in roots, SearchFrom(r)
    PROVE  Inv'
<1>1. /\ pc = "roots" /\ r # target /\ roots' = roots \ {r} /\ pc' = "search" /\ root' = r
      /\ depth' = 1 /\ current' = [current EXCEPT ![1] = r]
      /\ todo' = [todo EXCEPT ![1] = OutEdges(r)]
      /\ weight' = [weight EXCEPT ![1] = policy.roots[r]] /\ visited' = {r}
      /\ UNCHANGED <<edges, policy, target, hop, nodes, records>>
  BY Zenon DEF SearchFrom, NextRoot, inputs
<1>2. r \in Identities /\ policy.roots[r] \in Int /\ policy.maxHops > 0 /\ 1 \in Frames
  BY <1>1, SizeAssumption DEF Inv, TypeOK, LoopInv, IsPolicy, Frames
<1>3. OutEdges(r) \subseteq 1..MaxEdge
  BY Zenon, OutEdgesType DEF Inv, TypeOK
<1>4. current'[1] = r /\ todo'[1] = OutEdges(r) /\ OutEdges(r)' = OutEdges(r)
  BY Zenon, <1>1, <1>2 DEF Inv, TypeOK, OutEdges
<1>5. TypeOK'
  <2>1. /\ current' \in [Frames -> Identities] /\ todo' \in [Frames -> SUBSET (1..MaxEdge)]
        /\ weight' \in [Frames -> Int]
    BY Zenon, <1>1, <1>2, <1>3 DEF Inv, TypeOK
  <2>2. depth' \in 0..HopLimit /\ depth' \in 1..policy'.maxHops
    BY <1>1, <1>2, SizeAssumption DEF Inv, TypeOK, IsPolicy
  <2> QED BY Zenon, <1>1, <1>2, <2>1, <2>2 DEF Inv, TypeOK
<1>6. \A d \in 1..depth' : d = 1
  BY <1>1
<1>7. LoopInv'
  BY Zenon, <1>1, <1>2, <1>4, <1>6 DEF Inv, LoopInv
<1>8. VisitedIsCurrentPath'
  <2>1. {current'[d] : d \in 1..depth'} = {r}
    BY <1>1, <1>4, <1>6
  <2>2. 1..(depth' - 1) = {}
    BY <1>1
  <2> QED BY Zenon, <1>1, <1>4, <1>6, <2>1, <2>2 DEF VisitedIsCurrentPath
<1> QED BY Zenon, <1>5, <1>7, <1>8 DEF Inv

(* Looking at an edge, whether or not it completes a path, only takes it    *)
(* off the loop of the frame.                                               *)
LEMMA LookStep ==
    ASSUME Inv, pc = "search", NEW e \in todo[depth],
           todo' = [todo EXCEPT ![depth] = @ \ {e}],
           nodes' \subseteq Identities, records' \subseteq 1..MaxEdge,
           UNCHANGED <<inputs, pc, roots, root, depth, current, hop, weight, visited>>
    PROVE  Inv'
<1>1. depth \in Frames /\ depth \in 1..depth /\ 1..depth \subseteq Frames
  BY Zenon, FrameFacts DEF Inv
<1>2. \A d \in Frames : todo'[d] \subseteq todo[d]
  BY Zenon, <1>1 DEF Inv, TypeOK
<1>3. TypeOK'
  <2>1. todo' \in [Frames -> SUBSET (1..MaxEdge)]
    BY Zenon, <1>1 DEF Inv, TypeOK
  <2> QED BY Zenon, <2>1 DEF Inv, TypeOK, inputs
<1>5. LoopInv'
  BY Zenon, <1>1, <1>2 DEF Inv, LoopInv, OutEdges, inputs
<1>6. VisitedIsCurrentPath'
  BY Zenon, PathUnchanged DEF Inv, inputs
<1> QED BY Zenon, <1>3, <1>5, <1>6 DEF Inv

(* An edge that leads nowhere is dropped. *)
LEMMA SkipEdgeStep ==
    ASSUME Inv, NEW e \in DOMAIN edges, SkipEdge(e)
    PROVE  Inv'
<1>1. /\ pc = "search" /\ e \in todo[depth] /\ todo' = [todo EXCEPT ![depth] = @ \ {e}]
      /\ UNCHANGED <<inputs, pc, roots, root, depth, current, hop, weight, visited>>
      /\ UNCHANGED <<nodes, records>>
  BY Zenon DEF SkipEdge, NextEdge
<1>2. nodes' \subseteq Identities /\ records' \subseteq 1..MaxEdge
  BY Zenon, <1>1 DEF Inv, TypeOK
<1> QED BY Zenon, <1>1, <1>2, LookStep

(* An edge to the target completes a path. *)
LEMMA ReachTargetStep ==
    ASSUME Inv, NEW e \in DOMAIN edges, ReachTarget(e)
    PROVE  Inv'
<1>1. /\ pc = "search" /\ e \in todo[depth] /\ todo' = [todo EXCEPT ![depth] = @ \ {e}]
      /\ nodes' = nodes \cup {root, target} \cup {current[d] : d \in 1..depth}
      /\ records' = records \cup {e} \cup {hop[d] : d \in 1..(depth - 1)}
      /\ UNCHANGED <<inputs, pc, roots, root, depth, current, hop, weight, visited>>
  BY Zenon DEF ReachTarget, NextEdge
<1>2. 1..depth \subseteq Frames
  BY Zenon, <1>1, FrameFacts DEF Inv
<1>3. nodes' \subseteq Identities
  BY Zenon, <1>1, <1>2 DEF Inv, TypeOK
<1>4. \A d \in 1..(depth - 1) : hop[d] \in 1..MaxEdge
  <2>1. \A d \in 1..(depth - 1) : hop[d] \in OutEdges(current[d])
    BY Zenon, <1>1 DEF Inv, VisitedIsCurrentPath
  <2> QED BY Zenon, <2>1, OutEdgesType DEF Inv, TypeOK
<1>5. e \in 1..MaxEdge
  BY Zenon DEF Inv, TypeOK, IsGraph
<1>6. records' \subseteq 1..MaxEdge
  BY Zenon, <1>1, <1>4, <1>5 DEF Inv, TypeOK
<1> QED BY Zenon, <1>1, <1>3, <1>6, LookStep

(* A call puts the neighbor, which is not on the path, at its end. *)
LEMMA DescendStep ==
    ASSUME Inv, NEW e \in DOMAIN edges, Descend(e)
    PROVE  Inv'
<1> DEFINE n == Neighbor(e)
           k == depth + 1
<1>1. /\ depth < policy.maxHops /\ pc = "search" /\ e \in todo[depth]
      /\ n \notin visited /\ n # target
      /\ visited' = visited \cup {n} /\ depth' = k
      /\ current' = [current EXCEPT ![k] = n]
      /\ todo' = [todo EXCEPT ![depth] = @ \ {e}, ![k] = OutEdges(n)]
      /\ hop' = [hop EXCEPT ![depth] = e]
      /\ weight' = [weight EXCEPT ![k] = PathWeight]
      /\ UNCHANGED <<edges, policy, target, pc, roots, root, nodes, records>>
  BY Zenon DEF Descend, Call, inputs
<1>2. /\ depth \in Frames /\ k \in Frames /\ depth \in 1..policy.maxHops
      /\ k \in 1..policy.maxHops /\ 1..depth \subseteq Frames /\ 1..k = (1..depth) \cup {k}
      /\ k \notin 1..depth /\ depth \in 1..depth
  <2>1. /\ depth \in Nat /\ 1 <= depth /\ policy.maxHops \in Int
        /\ policy.maxHops <= HopLimit /\ HopLimit \in Nat /\ depth < policy.maxHops
        /\ depth \in Frames /\ depth \in 1..depth /\ 1..depth \subseteq Frames
    BY Zenon, <1>1, FrameFacts DEF Inv
  <2>2. k \in Frames /\ depth \in 1..policy.maxHops /\ k \in 1..policy.maxHops
    BY <2>1 DEF Frames
  <2>3. k \notin 1..depth /\ 1..k = (1..depth) \cup {k}
    BY <2>1
  <2> QED BY Zenon, <2>1, <2>2, <2>3
<1>3. n \in Identities /\ OutEdges(n) \subseteq 1..MaxEdge /\ e \in 0..MaxEdge
  BY NeighborType, OutEdgesType DEF Inv, TypeOK, IsGraph
<1>4. PathWeight \in Int
  <2>1. weight[depth] \in Int /\ policy.decay \in Int
    BY Zenon, <1>2 DEF Inv, TypeOK, IsPolicy
  <2> QED BY <2>1 DEF PathWeight
<1> HIDE DEF n, k
<1>5. /\ current'[k] = n /\ \A d \in 1..depth : current'[d] = current[d]
      /\ hop'[depth] = e /\ \A d \in 1..(depth - 1) : hop'[d] = hop[d]
      /\ todo'[k] = OutEdges(n) /\ \A d \in 1..depth : todo'[d] \subseteq todo[d]
  <2>1. \A d \in 1..(depth - 1) : d \in 1..depth /\ d # depth
    BY <1>2 DEF Frames
  <2> QED BY Zenon, <1>1, <1>2, <2>1 DEF Inv, TypeOK
<1>6. TypeOK'
  <2>1. /\ current' \in [Frames -> Identities] /\ todo' \in [Frames -> SUBSET (1..MaxEdge)]
        /\ hop' \in [Frames -> 0..MaxEdge] /\ weight' \in [Frames -> Int]
    BY Zenon, <1>1, <1>2, <1>3, <1>4 DEF Inv, TypeOK
  <2>2. depth' \in 0..HopLimit /\ depth' \in 1..policy'.maxHops
    BY <1>1, <1>2 DEF Frames
  <2> QED BY Zenon, <1>1, <1>3, <2>1, <2>2 DEF Inv, TypeOK
<1>7. \A m : OutEdges(m)' = OutEdges(m)
  BY Zenon, <1>1 DEF OutEdges
<1>8. LoopInv'
  <2>1. \A d \in 1..k : todo'[d] \subseteq OutEdges(current'[d])
    BY Zenon, <1>1, <1>2, <1>5 DEF Inv, LoopInv
  <2> QED BY Zenon, <1>1, <1>7, <2>1 DEF Inv, LoopInv
<1>9. VisitedIsCurrentPath'
  <2>1. visited = {current[d] : d \in 1..depth}
    BY Zenon, <1>1 DEF Inv, VisitedIsCurrentPath
  <2>2. visited' = {current'[d] : d \in 1..k}
    <3>1. {current'[d] : d \in 1..k} = {current'[d] : d \in 1..depth} \cup {current'[k]}
      BY Zenon, <1>2
    <3>2. {current'[d] : d \in 1..depth} = {current[d] : d \in 1..depth}
      BY Zenon, <1>5
    <3> QED BY Zenon, <1>1, <1>5, <2>1, <3>1, <3>2
  <2>3. \A c, d \in 1..k : current'[c] = current'[d] => c = d
    <3>1. \A d \in 1..depth : current'[d] # n
      BY <1>1, <1>5, <2>1
    <3>2. \A c, d \in 1..depth : current[c] = current[d] => c = d
      BY Zenon, <1>1 DEF Inv, VisitedIsCurrentPath
    <3> QED BY Zenon, <1>2, <1>5, <3>1, <3>2
  <2>4. current'[1] = root' /\ target' \notin visited'
    <3>1. 1 \in 1..depth
      BY <1>2 DEF Frames
    <3> QED BY Zenon, <1>1, <1>5, <3>1 DEF Inv, VisitedIsCurrentPath
  <2>5. \A d \in 1..(k - 1) : /\ hop'[d] \in OutEdges(current'[d])
                              /\ edges[hop'[d]].subject = current'[d + 1]
    <3>1. k - 1 = depth /\ 1..depth = (1..(depth - 1)) \cup {depth}
      BY <1>2 DEF k, Frames
    <3>2. e \in OutEdges(current[depth]) /\ edges[e].subject = n
      BY Zenon, <1>1, <1>2 DEF Inv, LoopInv, n, Neighbor
    <3>3. ASSUME NEW d \in 1..(depth - 1)
          PROVE  /\ hop'[d] \in OutEdges(current'[d])
                 /\ edges[hop'[d]].subject = current'[d + 1]
      <4>1. d \in 1..depth /\ d + 1 \in 1..depth
        BY <1>2 DEF Frames
      <4> QED BY Zenon, <1>1, <1>5, <4>1 DEF Inv, VisitedIsCurrentPath, Neighbor
    <3>4. depth + 1 = k
      BY Zenon DEF k
    <3> QED BY <1>2, <1>5, <3>1, <3>2, <3>3, <3>4
  <2> QED
    BY <1>1, <1>7, <2>2, <2>3, <2>4, <2>5 DEF VisitedIsCurrentPath, Neighbor
<1> QED BY Zenon, <1>6, <1>8, <1>9 DEF Inv

(* The caller takes exactly the node of the call off the path. *)
LEMMA ReturnStep == Inv /\ Return => Inv'
<1> SUFFICES ASSUME Inv, Return PROVE Inv'
  BY Zenon
<1>1. /\ pc = "search" /\ pc' = (IF depth = 1 THEN "roots" ELSE pc) /\ depth' = depth - 1
      /\ visited' = (IF depth = 1 THEN visited ELSE visited \ {current[depth]})
      /\ UNCHANGED <<edges, policy, target, roots, root, current, todo, hop, weight,
                     nodes, records>>
  BY Zenon DEF Return, inputs
<1>2. depth \in 1..policy.maxHops /\ policy.maxHops <= HopLimit /\ policy.maxHops \in Int
  BY Zenon, <1>1 DEF Inv, TypeOK, IsPolicy
<1>3. /\ depth' \in 0..HopLimit
      /\ depth # 1 => depth' \in 1..policy.maxHops /\ 1..depth = (1..depth') \cup {depth}
      /\ depth \notin 1..depth' /\ 1..depth' \subseteq 1..depth
  BY <1>1, <1>2, SizeAssumption
<1>4. visited' \subseteq visited /\ pc' \in {"roots", "search"} /\ (pc' = "search" => depth # 1)
  BY Zenon, <1>1
<1>5. TypeOK'
  BY Zenon, <1>1, <1>3, <1>4 DEF Inv, TypeOK
<1>6. \A m : OutEdges(m)' = OutEdges(m)
  BY Zenon, <1>1 DEF OutEdges
<1>7. LoopInv'
  BY Zenon, <1>1, <1>3, <1>4, <1>6 DEF Inv, LoopInv
<1>8. ASSUME depth # 1
      PROVE  /\ visited' = {current[d] : d \in 1..depth'}
             /\ \A c, d \in 1..depth' : current[c] = current[d] => c = d
             /\ current[1] = root /\ target \notin visited'
             /\ \A d \in 1..(depth' - 1) : /\ hop[d] \in OutEdges(current[d])
                                           /\ Neighbor(hop[d]) = current[d + 1]
  <2>1. /\ visited = {current[d] : d \in 1..depth}
        /\ \A c, d \in 1..depth : current[c] = current[d] => c = d
    BY Zenon, <1>1 DEF Inv, VisitedIsCurrentPath
  <2>2. visited' = {current[d] : d \in 1..depth'}
    BY <1>1, <1>2, <1>3, <1>8, <2>1
  <2>3. 1..(depth' - 1) \subseteq 1..(depth - 1)
    BY <1>1, <1>2
  <2> QED BY Zenon, <1>1, <1>3, <1>4, <2>1, <2>2, <2>3 DEF Inv, VisitedIsCurrentPath
<1>9. VisitedIsCurrentPath'
  BY <1>1, <1>4, <1>6, <1>8 DEF VisitedIsCurrentPath, Neighbor
<1> QED BY Zenon, <1>5, <1>7, <1>9 DEF Inv

(* Every step keeps the invariant. *)
LEMMA NextInv == Inv /\ [Next]_vars => Inv'
<1> SUFFICES ASSUME Inv, [Next]_vars PROVE Inv'
  BY Zenon
<1>1. CASE Validate
  BY Zenon, <1>1, ValidateStep
<1>2. CASE \E r \in roots : TargetIsRoot(r) \/ SearchFrom(r)
  BY Zenon, <1>2, TargetIsRootStep, SearchFromStep
<1>3. CASE \E e \in DOMAIN edges : SkipEdge(e) \/ ReachTarget(e) \/ Descend(e)
  BY Zenon, <1>3, SkipEdgeStep, ReachTargetStep, DescendStep
<1>4. CASE Return
  BY <1>4, ReturnStep
<1>5. CASE Combine
  BY Zenon, <1>5 DEF Combine, Inv, TypeOK, LoopInv, VisitedIsCurrentPath, inputs, frames
<1>6. CASE UNCHANGED vars
  <2>1. TypeOK' /\ LoopInv'
    BY Zenon, <1>6 DEF vars, Inv, TypeOK, LoopInv, OutEdges, inputs, frames
  <2> QED BY Zenon, <1>6, <2>1, PathUnchanged DEF vars, Inv, inputs, frames
<1> QED BY Zenon, <1>1, <1>2, <1>3, <1>4, <1>5, <1>6 DEF Next

(* The invariant holds in every reachable state. *)
LEMMA Invariance == Spec => []Inv
BY InitInv, NextInv, PTL DEF Spec

(* The search has its types and never goes deeper than MaxHops. *)
THEOREM SearchBounded == Spec => []TypeOK
<1>1. Inv => TypeOK
  BY Zenon DEF Inv
<1> QED BY <1>1, Invariance, PTL

(* findPaths backtracks exactly: its visited map is the current path, which *)
(* is simple, connected and free of the target.                             *)
THEOREM BacktracksExactly == Spec => []VisitedIsCurrentPath
<1>1. Inv => VisitedIsCurrentPath
  BY Zenon DEF Inv
<1> QED BY <1>1, Invariance, PTL

-----------------------------------------------------------------------------
(* Powers *)

(* A set of numbers has a least one: induction, as an argument about the    *)
(* least counterexample.                                                    *)
LEMMA LeastNumber ==
    ASSUME NEW T, T \subseteq Nat, T # {}
    PROVE  \E n \in T : \A m \in T : n <= m
<1> DEFINE R == OpToRel(<, Nat)
<1>1. IsWellFoundedOn(R, Nat)
  BY Zenon, NatLessThanWellFounded
<1>2. \A m, n \in Nat : m < n => <<m, n>> \in R
  BY Zenon DEF OpToRel
<1> HIDE DEF R
<1>3. PICK n \in T : \A m \in T : ~(<<m, n>> \in R)
  BY Zenon, <1>1, WFMin
<1>4. \A m \in T : ~(m < n)
  BY Zenon, <1>2, <1>3
<1> QED
  BY <1>4

(* What the recursion of Power computes. *)
LEMMA PowerDef ==
    ASSUME NEW b \in Int
    PROVE  /\ Power(b)[0] = 1
           /\ \A n \in 1..HopLimit : Power(b)[n] = b * Power(b)[n - 1]
           /\ \A n \in 0..HopLimit : Power(b)[n] \in Int
<1> DEFINE Steps(n, g) == [i \in 0..n |-> IF i = 0 THEN 1 ELSE b * g[i - 1]]
           power == CHOOSE g : g = Steps(HopLimit, g)
<1>1. HopLimit \in Nat
  BY Zenon, SizeAssumption
<1>2. ASSUME NEW n \in Nat PROVE \E g : g = Steps(n, g)
  <2> SUFFICES ASSUME ~\E g : g = Steps(n, g) PROVE FALSE
    BY Zenon
  <2> DEFINE T == {m \in Nat : ~\E g : g = Steps(m, g)}
  <2>1. T \subseteq Nat /\ T # {}
    BY Zenon
  <2>2. PICK m \in T : \A k \in T : m <= k
    <3> HIDE DEF T
    <3> QED
      BY Zenon, <2>1, LeastNumber
  <2>3. m # 0
    <3> DEFINE g == [i \in 0..0 |-> 1]
    <3>1. g = Steps(0, g)
      OBVIOUS
    <3> QED
      BY Zenon, <2>2, <3>1
  <2>4. m - 1 \in Nat /\ m - 1 \notin T
    <3> HIDE DEF T
    <3> QED
      BY <2>1, <2>2, <2>3
  <2>5. PICK g : g = Steps(m - 1, g)
    BY Zenon, <2>4
  <2> DEFINE h == Steps(m, g)
  <2>6. \A i \in 1..m : h[i - 1] = g[i - 1]
    <3> SUFFICES ASSUME NEW i \in 1..m PROVE h[i - 1] = g[i - 1]
      BY Zenon
    <3>1. i - 1 \in 0..m /\ i - 1 \in 0..(m - 1)
      BY <2>4
    <3>2. h[i - 1] = IF i - 1 = 0 THEN 1 ELSE b * g[(i - 1) - 1]
      BY Zenon, <3>1
    <3>3. g[i - 1] = Steps(m - 1, g)[i - 1]
      BY Zenon, <2>5
    <3>4. g[i - 1] = IF i - 1 = 0 THEN 1 ELSE b * g[(i - 1) - 1]
      BY Zenon, <3>1, <3>3
    <3> QED
      BY Zenon, <3>2, <3>4
  <2>7. h = Steps(m, h)
    <3>1. \A i \in 0..m : i # 0 => h[i - 1] = g[i - 1]
      <4> HIDE DEF h
      <4> QED
        BY <2>2, <2>6
    <3>2. \A i \in 0..m : h[i] = Steps(m, h)[i]
      BY Zenon, <3>1
    <3> QED
      BY Zenon, <3>2
  <2> QED
    BY Zenon, <2>2, <2>7
<1>3. power = Steps(HopLimit, power)
  BY Zenon, <1>1, <1>2
<1>4. Power(b) = power
  BY Zenon DEF Power
<1> HIDE DEF power
<1>5. power[0] = 1 /\ \A n \in 1..HopLimit : power[n] = b * power[n - 1]
  <2>1. \A n \in 0..HopLimit : power[n] = IF n = 0 THEN 1 ELSE b * power[n - 1]
    BY Zenon, <1>3
  <2> QED
    BY <1>1, <2>1
<1>6. \A n \in 0..HopLimit : power[n] \in Int
  <2> SUFFICES ASSUME NEW k \in 0..HopLimit, power[k] \notin Int PROVE FALSE
    BY Zenon
  <2> DEFINE T == {n \in 0..HopLimit : power[n] \notin Int}
  <2>1. T \subseteq Nat /\ T # {}
    BY <1>1
  <2>2. PICK n \in T : \A m \in T : n <= m
    <3> HIDE DEF T
    <3> QED
      BY Zenon, <2>1, LeastNumber
  <2>3. n # 0 /\ n \in 0..HopLimit /\ power[n] \notin Int
    BY <1>5, <2>2
  <2>4. n - 1 \in 0..HopLimit /\ n \in 1..HopLimit /\ ~(n <= n - 1)
    BY <1>1, <2>3
  <2>5. power[n - 1] \in Int
    BY Zenon, <2>2, <2>4
  <2> QED
    BY <1>5, <2>3, <2>4, <2>5
<1> QED
  BY Zenon, <1>4, <1>5, <1>6

(* Factors keep an order. *)
LEMMA Times ==
    ASSUME NEW a \in Int, NEW b \in Int, NEW c \in Int, a <= b, 0 <= c
    PROVE  /\ a * c <= b * c /\ c * a <= c * b
           /\ 0 <= a => 0 <= a * c /\ 0 <= c * a
           /\ a < b /\ 0 < c => a * c < b * c /\ c * a < c * b
OBVIOUS

(* The powers of a proper fraction decrease from 1 and stay positive. *)
LEMMA PowersDecrease ==
    ASSUME NEW b \in Int, NEW c \in Int, 0 < b, b < c, NEW k \in 0..HopLimit
    PROVE  /\ Power(b)[k] \in Int /\ Power(c)[k] \in Int
           /\ 0 < Power(b)[k] /\ Power(b)[k] <= Power(c)[k]
           /\ k # 0 => Power(b)[k] < Power(c)[k]
<1>1. HopLimit \in Nat
  BY Zenon, SizeAssumption
<1> DEFINE p == Power(b)
           q == Power(c)
           Fine(n) == 0 < p[n] /\ p[n] <= q[n] /\ (n # 0 => p[n] < q[n])
<1>2. /\ p[0] = 1 /\ \A n \in 1..HopLimit : p[n] = b * p[n - 1]
      /\ \A n \in 0..HopLimit : p[n] \in Int
  BY Zenon, PowerDef
<1>3. /\ q[0] = 1 /\ \A n \in 1..HopLimit : q[n] = c * q[n - 1]
      /\ \A n \in 0..HopLimit : q[n] \in Int
  BY Zenon, PowerDef
<1> HIDE DEF p, q
<1>4. ASSUME ~Fine(k) PROVE FALSE
  <2> DEFINE T == {n \in 0..HopLimit : ~Fine(n)}
  <2>1. T \subseteq Nat /\ T # {}
    BY <1>1, <1>4
  <2>2. PICK n \in T : \A m \in T : n <= m
    <3> HIDE DEF T
    <3> QED
      BY Zenon, <2>1, LeastNumber
  <2>3. n # 0 /\ n \in 0..HopLimit
    BY <1>2, <1>3, <2>2
  <2>4. n - 1 \in 0..HopLimit /\ n \in 1..HopLimit /\ ~(n <= n - 1)
    BY <1>1, <2>3
  <2>5. Fine(n - 1)
    BY Zenon, <2>2, <2>4
  <2>6. p[n - 1] \in Int /\ q[n - 1] \in Int /\ 0 < p[n - 1] /\ p[n - 1] <= q[n - 1]
    BY Zenon, <1>2, <1>3, <2>4, <2>5
  <2>7. p[n] = b * p[n - 1] /\ q[n] = c * q[n - 1]
    BY Zenon, <1>2, <1>3, <2>4
  <2> DEFINE x == p[n - 1]
             y == q[n - 1]
  <2>8. x \in Int /\ y \in Int /\ 0 < x /\ x <= y
    BY Zenon, <2>6
  <2> HIDE DEF x, y
  <2>9. 0 < b * x /\ b * x < c * x
    BY <2>8
  <2>10. c * x <= c * y
    BY <2>8
  <2>11. b * x \in Int /\ c * x \in Int /\ c * y \in Int
    BY <2>8
  <2>12. 0 < b * x /\ b * x < c * y
    BY <2>9, <2>10, <2>11
  <2>13. Fine(n)
    BY <2>7, <2>11, <2>12 DEF x, y
  <2> QED
    BY Zenon, <2>2, <2>13
<1>5. Fine(k)
  BY Zenon, <1>4
<1> QED
  BY Zenon, <1>2, <1>3, <1>5 DEF p, q

-----------------------------------------------------------------------------
(* What the search has found and has yet to find *)

(* p goes the way of the current path up to frame d. *)
Agrees(p, d) == \A i \in 1..(d - 1) : p[i] = hop[i]

(* p parts from the current path at an edge that a loop has yet to look at, *)
(* or at one that it has looked at already.                                 *)
Ahead(p) ==
    \E d \in 1..depth : d \in DOMAIN p /\ Agrees(p, d) /\ p[d] \in todo[d]

Behind(p) ==
    \E d \in 1..depth :
       /\ d \in DOMAIN p /\ Agrees(p, d)
       /\ \A f \in todo[d] : p[d] < f
       /\ d < depth => p[d] < hop[d]

(* The traces of findPaths, and the runs past the checks of the policy. *)
Traces == [root : Identities, hops : Seq(1..MaxEdge), weight : Int]

Begun == pc \notin {"validate", "error"}

(* What Validate has made sure of. *)
PolicyInv ==
    Begun => /\ policy.decay > 0 /\ policy.decay < DecayUnit /\ policy.min >= 0
             /\ \A r \in DOMAIN policy.roots :
                   policy.roots[r] > 0 /\ policy.roots[r] <= One

(* The loops look at roots and edges in order, and each frame has the       *)
(* weight of the path that leads to it.                                     *)
FrameInv ==
    pc = "search" =>
       /\ root \in DOMAIN policy.roots \ {target}
       /\ \A r \in roots : root < r
       /\ \A d \in 1..depth :
             weight[d] = policy.roots[root] * Power(policy.decay)[d - 1]
       /\ \A d \in 1..(depth - 1) : \A f \in todo[d] : hop[d] < f

(* A trace is a path of the reference, with its weight. *)
Genuine(t) ==
    /\ t.root \in DOMAIN policy.roots \ {target}
    /\ t.hops \in PathsFrom(t.root)
    /\ t.weight = policy.roots[t.root] * Power(policy.decay)[Len(t.hops)]

(* It was found before all that the search has yet to look at. *)
Passed(t) ==
    /\ \A r \in roots : t.root < r
    /\ pc = "search" => \/ t.root < root
                        \/ t.root = root /\ Behind(t.hops)

(* All traces found so far are genuine and behind the search. *)
TraceInv ==
    /\ allPaths \in Seq(Traces)
    /\ ~Begun => allPaths = <<>>
    /\ \A t \in Range(allPaths) : Genuine(t) /\ Passed(t)

(* They were found in the order of the roots and of their edges. *)
Ordered ==
    \A i, j \in DOMAIN allPaths : i < j =>
       \/ allPaths[i].root < allPaths[j].root
       \/ /\ allPaths[i].root = allPaths[j].root
          /\ Before(allPaths[i].hops, allPaths[j].hops)

(* p is among the traces of root r. *)
Found(r, p) == \E t \in Range(allPaths) : t.root = r /\ t.hops = p

(* Every path is found, or ahead of the search. *)
Complete ==
    Begun => \A r \in DOMAIN policy.roots \ {target} :
                \/ r \in roots
                \/ \A p \in PathsFrom(r) :
                      \/ Found(r, p)
                      \/ pc = "search" /\ r = root /\ Ahead(p)

(* The invariant: an exhaustive search, at every moment of it. *)
SearchInv ==
    /\ Inv /\ PolicyInv /\ FrameInv /\ TraceInv /\ Ordered /\ Complete
    /\ pc = "done" => roots = {}

(* The paths of the reference are sequences of edges. *)
LEMMA PathShape ==
    ASSUME IsPolicy(policy), NEW r, NEW p \in PathsFrom(r)
    PROVE  /\ Len(p) \in 1..policy.maxHops /\ Len(p) \in 1..HopLimit
           /\ Len(p) \in Nat /\ DOMAIN p = 1..Len(p)
           /\ p \in [1..Len(p) -> DOMAIN edges]
           /\ SimplePath(r, p) /\ Significant(r, p)
<1>1. PICK n \in 1..policy.maxHops : p \in [1..n -> DOMAIN edges]
  BY Zenon DEF PathsFrom
<1>2. /\ n \in Nat /\ policy.maxHops \in Int
      /\ policy.maxHops <= HopLimit /\ HopLimit \in Nat
  BY SizeAssumption DEF IsPolicy
<1>3. Len(p) = n
  BY <1>1, <1>2
<1>4. n \in 1..HopLimit
  BY <1>2
<1>5. SimplePath(r, p) /\ Significant(r, p)
  BY Zenon DEF PathsFrom
<1> QED
  BY Zenon, <1>1, <1>2, <1>3, <1>4, <1>5

(* A path that goes the way of the current one visits its nodes, and goes   *)
(* on with an edge out of the frame's node.                                 *)
LEMMA SameWay ==
    ASSUME Inv, pc = "search", NEW p \in PathsFrom(root), NEW d \in 1..depth,
           d \in DOMAIN p, Agrees(p, d)
    PROVE  /\ \A c \in 1..d : NodeAt(root, p, c - 1) = current[c]
           /\ p[d] \in OutEdges(current[d])
           /\ Neighbor(p[d]) = NodeAt(root, p, d)
<1>1. /\ Len(p) \in Nat /\ DOMAIN p = 1..Len(p) /\ SimplePath(root, p)
      /\ p \in [1..Len(p) -> DOMAIN edges]
  BY Zenon, PathShape DEF Inv, TypeOK
<1>2. depth \in Nat /\ d \in Nat /\ 1 <= d /\ d <= depth
  BY FrameFacts DEF Inv
<1>3. ASSUME NEW c \in 1..d PROVE NodeAt(root, p, c - 1) = current[c]
  <2>1. CASE c = 1
    BY <2>1 DEF NodeAt, Inv, VisitedIsCurrentPath
  <2>2. CASE c # 1
    <3>1. c - 1 \in 1..(d - 1) /\ c - 1 \in 1..(depth - 1) /\ c - 1 # 0 /\ (c - 1) + 1 = c
      BY <1>2, <2>2
    <3>2. p[c - 1] = hop[c - 1] /\ Neighbor(hop[c - 1]) = current[c]
      BY Zenon, <3>1 DEF Agrees, Inv, VisitedIsCurrentPath
    <3> QED
      BY Zenon, <3>1, <3>2 DEF NodeAt, Neighbor
  <2> QED
    BY Zenon, <2>1, <2>2
<1>4. NodeAt(root, p, d - 1) = current[d] /\ d # 0
  BY <1>2, <1>3
<1>5. /\ p[d] \in DOMAIN edges /\ edges[p[d]].proposer = current[d]
      /\ edges[p[d]].active /\ policy.topic \in {"", edges[p[d]].topic}
  BY Zenon, <1>1, <1>4 DEF SimplePath
<1>6. p[d] \in OutEdges(current[d])
  BY Zenon, <1>5 DEF OutEdges
<1> QED
  BY Zenon, <1>3, <1>4, <1>6 DEF NodeAt, Neighbor

(* One more hop of decay does not lift a weight over the threshold. *)
LEMMA HopShrinks ==
    ASSUME NEW b \in Int, NEW c \in Int, 0 < b, b < c,
           NEW w \in Int, NEW x \in Int, NEW m \in Int, NEW y \in Int,
           0 <= m, 0 < y, w * x < m * y
    PROVE  w * (b * x) < m * (c * y)
<1> DEFINE u == w * x
           v == m * y
<1>1. u \in Int /\ v \in Int /\ u < v /\ 0 <= v
  BY Times
<1>2. w * (b * x) = u * b /\ m * (c * y) = v * c
  OBVIOUS
<1> HIDE DEF u, v
<1>3. u * b < v * b /\ v * b <= v * c /\ u * b \in Int /\ v * b \in Int /\ v * c \in Int
  BY <1>1, Times
<1> QED
  BY <1>2, <1>3

(* The weight of the path that the current one would become. *)
LEMMA WeightOfPath ==
    ASSUME Inv, FrameInv, pc = "search"
    PROVE  /\ PathWeight = policy.roots[root] * Power(policy.decay)[depth]
           /\ policy.roots[root] \in Int /\ policy.decay \in Int /\ policy.min \in Int
           /\ depth \in 1..HopLimit /\ root \in DOMAIN policy.roots
<1>1. policy.roots[root] \in Int /\ policy.decay \in Int /\ policy.min \in Int
  BY Zenon DEF Inv, TypeOK, IsPolicy, FrameInv
<1>2. depth \in 1..HopLimit /\ depth - 1 \in 0..HopLimit /\ depth \in 1..depth
  BY FrameFacts DEF Inv
<1>3. weight[depth] = policy.roots[root] * Power(policy.decay)[depth - 1]
  BY Zenon, <1>2 DEF FrameInv
<1>4. /\ Power(policy.decay)[depth] = policy.decay * Power(policy.decay)[depth - 1]
      /\ Power(policy.decay)[depth - 1] \in Int
  BY Zenon, <1>1, <1>2, PowerDef
<1> DEFINE w == policy.roots[root]
           x == Power(policy.decay)[depth - 1]
           b == policy.decay
<1>5. w \in Int /\ x \in Int /\ b \in Int
  BY Zenon, <1>1, <1>4
<1> HIDE DEF w, x, b
<1>6. (w * x) * b = w * (b * x)
  BY <1>5
<1>7. PathWeight = (w * x) * b
  BY Zenon, <1>3 DEF PathWeight, w, x, b
<1> QED
  BY Zenon, <1>1, <1>2, <1>4, <1>6, <1>7 DEF w, x, b, FrameInv

(* A weight below the threshold stays below it, however the path goes on:   *)
(* findPaths may stop there.                                                *)
LEMMA DampedForGood ==
    ASSUME Inv, PolicyInv, FrameInv, pc = "search", Damped,
           NEW p \in PathsFrom(root), depth \in DOMAIN p
    PROVE  FALSE
<1> DEFINE w == policy.roots[root]
           m == policy.min
           x == Power(policy.decay)
           y == Power(DecayUnit)
           Low(k) == w * x[k] < m * y[k]
<1>1. /\ w \in Int /\ policy.decay \in Int /\ m \in Int /\ 0 <= m
      /\ 0 < policy.decay /\ policy.decay < DecayUnit /\ DecayUnit \in Int
  BY WeightOfPath, UnitAssumption DEF PolicyInv, Begun
<1>2. depth \in 1..HopLimit /\ HopLimit \in Nat /\ Len(p) \in depth..HopLimit
  BY WeightOfPath, PathShape, SizeAssumption DEF Inv, TypeOK
<1>3. Low(depth)
  BY Zenon, WeightOfPath DEF Damped
<1>4. ~Low(Len(p))
  <2>1. w * x[Len(p)] >= m * y[Len(p)]
    BY Zenon, PathShape DEF Significant, Inv, TypeOK
  <2>2. x[Len(p)] \in Int /\ y[Len(p)] \in Int
    BY <1>1, <1>2, PowerDef
  <2>3. w * x[Len(p)] \in Int /\ m * y[Len(p)] \in Int
    BY <1>1, <2>2
  <2> QED
    BY <2>1, <2>3
<1> DEFINE T == {k \in depth..HopLimit : ~Low(k)}
<1>5. T \subseteq Nat /\ T # {}
  BY <1>2, <1>4
<1>6. PICK k \in T : \A n \in T : k <= n
  <2> HIDE DEF T
  <2> QED
    BY Zenon, <1>5, LeastNumber
<1>7. k \in depth..HopLimit /\ ~Low(k) /\ k # depth
  BY Zenon, <1>3, <1>6
<1>8. /\ k - 1 \in depth..HopLimit /\ k \in 1..HopLimit
      /\ k - 1 \in 0..HopLimit /\ ~(k <= k - 1)
  BY <1>2, <1>7
<1>9. Low(k - 1)
  BY Zenon, <1>6, <1>8
<1>10. /\ x[k] = policy.decay * x[k - 1] /\ y[k] = DecayUnit * y[k - 1]
       /\ x[k - 1] \in Int /\ y[k - 1] \in Int
  BY Zenon, <1>1, <1>8, PowerDef
<1>11. 0 < y[k - 1]
  <2>1. /\ Power(policy.decay)[k - 1] \in Int /\ Power(DecayUnit)[k - 1] \in Int
        /\ 0 < Power(policy.decay)[k - 1]
        /\ Power(policy.decay)[k - 1] <= Power(DecayUnit)[k - 1]
    BY Zenon, <1>1, <1>8, PowersDecrease
  <2> QED
    BY <2>1
<1> HIDE DEF w, m, x, y
<1>12. w * (policy.decay * x[k - 1]) < m * (DecayUnit * y[k - 1])
  BY Zenon, <1>1, <1>9, <1>10, <1>11, HopShrinks
<1> QED
  BY Zenon, <1>7, <1>10, <1>12

(* An edge that SkipEdge drops is on no path that goes the current way.     *)
LEMMA SkippedIsNoPath ==
    ASSUME Inv, PolicyInv, FrameInv, pc = "search", NEW e \in DOMAIN edges,
           \/ Neighbor(e) \in visited
           \/ Damped
           \/ Neighbor(e) # target /\ depth >= policy.maxHops,
           NEW p \in PathsFrom(root), depth \in DOMAIN p, Agrees(p, depth),
           p[depth] = e
    PROVE  FALSE
<1>1. depth \in Nat /\ depth \in 1..depth /\ policy.maxHops \in Int
  BY Zenon, FrameFacts DEF Inv
<1>2. /\ Len(p) \in 1..policy.maxHops /\ Len(p) \in Nat /\ DOMAIN p = 1..Len(p)
      /\ SimplePath(root, p)
  BY Zenon, PathShape DEF Inv, TypeOK
<1>3. /\ \A c \in 1..depth : NodeAt(root, p, c - 1) = current[c]
      /\ Neighbor(e) = NodeAt(root, p, depth)
  BY Zenon, <1>1, SameWay
<1>4. \A i, j \in 0..Len(p) : NodeAt(root, p, i) = NodeAt(root, p, j) => i = j
  BY Zenon, <1>2 DEF SimplePath
<1>5. CASE Neighbor(e) \in visited
  <2>1. PICK c \in 1..depth : Neighbor(e) = current[c]
    BY Zenon, <1>5 DEF Inv, VisitedIsCurrentPath
  <2>2. c - 1 \in 0..Len(p) /\ depth \in 0..Len(p) /\ c - 1 # depth
    BY <1>1, <1>2
  <2> QED
    BY Zenon, <1>3, <1>4, <2>1, <2>2
<1>6. CASE Damped
  BY Zenon, <1>6, DampedForGood
<1>7. CASE Neighbor(e) # target /\ depth >= policy.maxHops
  <2>1. Len(p) = depth
    BY <1>1, <1>2, <1>7
  <2> QED
    BY Zenon, <1>2, <1>3, <1>7, <2>1 DEF SimplePath
<1> QED
  BY Zenon, <1>5, <1>6, <1>7

(* The hops of a trace: those of the frames below, and the edge. *)
LEMMA HopsShape ==
    ASSUME Inv, pc = "search", NEW e \in DOMAIN edges, e \in todo[depth]
    PROVE  /\ DOMAIN NextHops(e) = 1..depth /\ Len(NextHops(e)) = depth
           /\ NextHops(e) \in [1..depth -> DOMAIN edges]
           /\ NextHops(e)[depth] = e
           /\ \A d \in 1..(depth - 1) : NextHops(e)[d] = hop[d]
           /\ NextHops(e) \in Seq(1..MaxEdge)
<1>1. depth \in Nat /\ 1 <= depth /\ depth \in 1..depth
  BY Zenon, FrameFacts DEF Inv
<1>2. \A d \in 1..(depth - 1) : d \in 1..depth /\ d # depth /\ hop[d] \in DOMAIN edges
  <2>1. \A d \in 1..(depth - 1) : hop[d] \in OutEdges(current[d])
    BY Zenon DEF Inv, VisitedIsCurrentPath
  <2>2. \A d \in 1..(depth - 1) : hop[d] \in DOMAIN edges
    BY Zenon, <2>1 DEF OutEdges
  <2> QED
    BY <1>1, <2>2
<1>3. \A d \in 1..depth : d # depth => d \in 1..(depth - 1)
  BY <1>1
<1>4. NextHops(e) \in [1..depth -> DOMAIN edges]
  BY Zenon, <1>1, <1>2, <1>3 DEF NextHops
<1>5. Len(NextHops(e)) = depth
  BY <1>1, <1>4
<1>6. NextHops(e) \in [1..depth -> 1..MaxEdge]
  BY Zenon, <1>4 DEF Inv, TypeOK, IsGraph
<1>7. NextHops(e) \in Seq(1..MaxEdge)
  BY <1>1, <1>6 DEF NextHops
<1>8. NextHops(e)[depth] = e /\ \A d \in 1..(depth - 1) : NextHops(e)[d] = hop[d]
  BY Zenon, <1>1, <1>2 DEF NextHops
<1> QED
  BY Zenon, <1>4, <1>5, <1>7, <1>8

(* A trace that ReachTarget appends is a path of the reference. *)
LEMMA ReachedIsPath ==
    ASSUME Inv, FrameInv, pc = "search", NEW e \in DOMAIN edges, e \in todo[depth],
           Neighbor(e) = target, ~Damped
    PROVE  NextHops(e) \in PathsFrom(root)
<1> DEFINE p == NextHops(e)
<1>1. /\ DOMAIN p = 1..depth /\ Len(p) = depth /\ p \in [1..depth -> DOMAIN edges]
      /\ p[depth] = e /\ \A d \in 1..(depth - 1) : p[d] = hop[d]
  BY Zenon, HopsShape
<1> HIDE DEF p
<1>2. depth \in Nat /\ 1 <= depth /\ depth \in 1..depth /\ depth \in 1..policy.maxHops
  BY Zenon, FrameFacts DEF Inv, TypeOK
<1>3. /\ \A d \in 1..(depth - 1) : hop[d] \in OutEdges(current[d])
                                  /\ Neighbor(hop[d]) = current[d + 1]
      /\ current[1] = root
      /\ \A c, d \in 1..depth : current[c] = current[d] => c = d
      /\ \A d \in 1..depth : current[d] # target
  BY Zenon DEF Inv, VisitedIsCurrentPath
<1>4. e \in OutEdges(current[depth])
  BY Zenon, <1>2 DEF Inv, LoopInv
<1>5. ASSUME NEW i \in 0..(depth - 1) PROVE NodeAt(root, p, i) = current[i + 1]
  <2>1. CASE i = 0
    BY <1>3, <2>1 DEF NodeAt
  <2>2. CASE i # 0
    <3>1. i \in 1..(depth - 1)
      BY <1>2, <2>2
    <3> QED
      BY Zenon, <1>1, <1>3, <2>2, <3>1 DEF NodeAt, Neighbor
  <2> QED
    BY Zenon, <2>1, <2>2
<1>6. NodeAt(root, p, depth) = target
  BY <1>1, <1>2 DEF NodeAt, Neighbor
<1>7. ASSUME NEW i \in 1..depth PROVE p[i] \in OutEdges(current[i])
  <2>1. i = depth \/ i \in 1..(depth - 1)
    BY <1>2
  <2> QED
    BY Zenon, <1>1, <1>3, <1>4, <2>1
<1>8. ASSUME NEW i \in DOMAIN p
      PROVE  /\ edges[p[i]].proposer = NodeAt(root, p, i - 1)
             /\ edges[p[i]].active
             /\ policy.topic \in {"", edges[p[i]].topic}
  <2>1. i \in 1..depth /\ i - 1 \in 0..(depth - 1) /\ (i - 1) + 1 = i
    BY <1>1, <1>2
  <2>2. NodeAt(root, p, i - 1) = current[i] /\ p[i] \in OutEdges(current[i])
    BY Zenon, <1>5, <1>7, <2>1
  <2> QED
    BY Zenon, <2>2 DEF OutEdges
<1>9. ASSUME NEW i \in 0..Len(p), NEW j \in 0..Len(p),
             NodeAt(root, p, i) = NodeAt(root, p, j)
      PROVE  i = j
  <2>1. ASSUME NEW k \in 0..Len(p)
        PROVE  \/ k = depth
               \/ k \in 0..(depth - 1) /\ k + 1 \in 1..depth
    BY <1>1, <1>2
  <2>2. CASE i = depth
    BY <1>3, <1>5, <1>6, <1>9, <2>1, <2>2
  <2>3. CASE j = depth
    BY <1>3, <1>5, <1>6, <1>9, <2>1, <2>3
  <2>4. CASE i # depth /\ j # depth
    <3>1. i + 1 \in 1..depth /\ j + 1 \in 1..depth /\ current[i + 1] = current[j + 1]
      BY <1>5, <1>9, <2>1, <2>4
    <3>2. i + 1 = j + 1
      BY Zenon, <1>3, <3>1
    <3> QED
      BY <1>1, <1>2, <3>2
  <2> QED
    BY Zenon, <2>2, <2>3, <2>4
<1>10. SimplePath(root, p)
  BY Zenon, <1>1, <1>6, <1>8, <1>9 DEF SimplePath
<1>11. Significant(root, p)
  <2> DEFINE w == policy.roots[root] * Power(policy.decay)[depth]
             m == policy.min * Power(DecayUnit)[depth]
  <2>1. /\ PathWeight = w /\ policy.roots[root] \in Int /\ policy.decay \in Int
        /\ policy.min \in Int /\ depth \in 0..HopLimit
    BY WeightOfPath
  <2>2. Power(policy.decay)[depth] \in Int /\ Power(DecayUnit)[depth] \in Int
    BY <2>1, PowerDef, UnitAssumption
  <2>3. w \in Int /\ m \in Int
    BY <2>1, <2>2
  <2>4. ~(w < m)
    BY Zenon, <2>1 DEF Damped
  <2> HIDE DEF w, m
  <2>5. w >= m
    BY <2>3, <2>4
  <2> QED
    BY Zenon, <1>1, <2>5 DEF Significant, w, m
<1> QED
  BY Zenon, <1>1, <1>2, <1>10, <1>11 DEF PathsFrom, p

(* It is the only one that goes the current way and then along the edge. *)
LEMMA ReachedIsOnly ==
    ASSUME Inv, pc = "search", NEW e \in DOMAIN edges, e \in todo[depth],
           Neighbor(e) = target,
           NEW p \in PathsFrom(root), depth \in DOMAIN p, Agrees(p, depth),
           p[depth] = e
    PROVE  p = NextHops(e)
<1>1. depth \in Nat /\ depth \in 1..depth
  BY Zenon, FrameFacts DEF Inv
<1>2. /\ Len(p) \in Nat /\ DOMAIN p = 1..Len(p) /\ p \in [1..Len(p) -> DOMAIN edges]
      /\ SimplePath(root, p)
  BY Zenon, PathShape DEF Inv, TypeOK
<1>3. NodeAt(root, p, depth) = target
  BY Zenon, <1>1, SameWay
<1>4. depth \in 0..Len(p) /\ Len(p) \in 0..Len(p)
  BY <1>1, <1>2
<1>5. Len(p) = depth
  BY Zenon, <1>2, <1>3, <1>4 DEF SimplePath
<1>6. /\ NextHops(e) \in [1..depth -> DOMAIN edges] /\ NextHops(e)[depth] = e
      /\ \A d \in 1..(depth - 1) : NextHops(e)[d] = hop[d]
  BY Zenon, HopsShape
<1>7. \A d \in 1..depth : d = depth \/ d \in 1..(depth - 1)
  BY <1>1
<1>8. \A d \in 1..depth : p[d] = NextHops(e)[d]
  BY Zenon, <1>6, <1>7 DEF Agrees
<1> QED
  BY <1>2, <1>5, <1>6, <1>8

(* A path that goes on through the neighbor that findPaths is called for    *)
(* goes on with one of its edges.                                           *)
LEMMA CalledGoesOn ==
    ASSUME Inv, pc = "search", NEW e \in DOMAIN edges, e \in todo[depth],
           Neighbor(e) # target,
           NEW p \in PathsFrom(root), depth \in DOMAIN p, Agrees(p, depth),
           p[depth] = e
    PROVE  depth + 1 \in DOMAIN p /\ p[depth + 1] \in OutEdges(Neighbor(e))
<1>1. depth \in Nat /\ depth \in 1..depth
  BY Zenon, FrameFacts DEF Inv
<1>2. /\ Len(p) \in Nat /\ DOMAIN p = 1..Len(p) /\ p \in [1..Len(p) -> DOMAIN edges]
      /\ SimplePath(root, p)
  BY Zenon, PathShape DEF Inv, TypeOK
<1>3. NodeAt(root, p, depth) = Neighbor(e)
  BY Zenon, <1>1, SameWay
<1>4. Len(p) # depth
  BY Zenon, <1>2, <1>3 DEF SimplePath
<1>5. depth + 1 \in DOMAIN p /\ (depth + 1) - 1 = depth
  BY <1>1, <1>2, <1>4
<1>6. /\ p[depth + 1] \in DOMAIN edges /\ edges[p[depth + 1]].proposer = Neighbor(e)
      /\ edges[p[depth + 1]].active /\ policy.topic \in {"", edges[p[depth + 1]].topic}
  BY Zenon, <1>2, <1>3, <1>5 DEF SimplePath
<1> QED
  BY Zenon, <1>5, <1>6 DEF OutEdges

(* The paths of the reference depend on the inputs alone. *)
LEMMA SameInputs ==
    ASSUME UNCHANGED inputs
    PROVE  /\ \A r : PathsFrom(r)' = PathsFrom(r)
           /\ \A t : Genuine(t)' <=> Genuine(t)
           /\ \A n : OutEdges(n)' = OutEdges(n)
<1>1. edges' = edges /\ policy' = policy /\ target' = target
  BY Zenon DEF inputs
<1>2. \A r, p, i : NodeAt(r, p, i)' = NodeAt(r, p, i)
  BY Zenon, <1>1 DEF NodeAt
<1>3. \A r, p : SimplePath(r, p)' <=> SimplePath(r, p)
  BY ZenonT(30), <1>1, <1>2 DEF SimplePath
<1>4. \A r, p : Significant(r, p)' <=> Significant(r, p)
  BY Zenon, <1>1 DEF Significant
<1>5. \A r : PathsFrom(r)' = PathsFrom(r)
  BY Zenon, <1>1, <1>3, <1>4 DEF PathsFrom
<1>6. \A t : Genuine(t)' <=> Genuine(t)
  BY Zenon, <1>1, <1>5 DEF Genuine
<1> QED
  BY Zenon, <1>1, <1>5, <1>6 DEF OutEdges

(* A step that finds no trace. *)
LEMMA NoTrace ==
    ASSUME SearchInv, UNCHANGED <<inputs, allPaths>>, Begun, Begun'
    PROVE  /\ PolicyInv' /\ Ordered'
           /\ (\A t \in Range(allPaths) : Passed(t)') => TraceInv'
           /\ \A r, p : Found(r, p)' <=> Found(r, p)
<1>1. edges' = edges /\ policy' = policy /\ target' = target /\ allPaths' = allPaths
  BY Zenon DEF inputs
<1>2. PolicyInv'
  BY Zenon, <1>1 DEF SearchInv, PolicyInv
<1>3. Ordered'
  BY <1>1 DEF SearchInv, Ordered, Before
<1>4. \A t \in Range(allPaths) : Genuine(t)'
  BY Zenon, SameInputs DEF SearchInv, TraceInv
<1>5. Range(allPaths)' = Range(allPaths)
  BY Zenon, <1>1 DEF Range
<1>6. ASSUME \A t \in Range(allPaths) : Passed(t)' PROVE TraceInv'
  BY Zenon, <1>1, <1>4, <1>5, <1>6 DEF SearchInv, TraceInv
<1> QED
  BY Zenon, <1>2, <1>3, <1>5, <1>6 DEF Found

(* Validate lets only proper policies through. *)
LEMMA ValidateSearch ==
    ASSUME SearchInv, Validate
    PROVE  SearchInv'
<1>1. Inv' /\ allPaths = <<>> /\ allPaths' = <<>> /\ pc' \in {"roots", "error"}
  BY Zenon, ValidateStep DEF SearchInv, TraceInv, Begun, Validate
<1>2. Range(allPaths)' = {} /\ DOMAIN allPaths' = {}
  BY <1>1 DEF Range
<1>3. TraceInv' /\ Ordered' /\ FrameInv'
  BY <1>1, <1>2 DEF TraceInv, Ordered, FrameInv
<1>4. CASE ValidPolicy
  <2>1. /\ policy' = [policy EXCEPT !.min = IF @ <= 0 THEN DefaultMinConfidence ELSE @]
        /\ roots' = DOMAIN policy.roots
        /\ IsPolicy(policy)
    BY Zenon, <1>4 DEF Validate, SearchInv, Inv, TypeOK
  <2>2. /\ policy'.roots = policy.roots /\ policy'.decay = policy.decay
        /\ policy'.min = (IF policy.min <= 0 THEN DefaultMinConfidence ELSE policy.min)
    BY Zenon, <2>1 DEF IsPolicy
  <2>3. policy'.min >= 0
    BY <2>1, <2>2, UnitAssumption DEF IsPolicy
  <2>4. PolicyInv'
    BY Zenon, <1>4, <2>2, <2>3 DEF PolicyInv, ValidPolicy
  <2>5. Complete'
    BY Zenon, <2>1, <2>2 DEF Complete
  <2> QED
    BY Zenon, <1>1, <1>3, <2>4, <2>5 DEF SearchInv
<1>5. CASE ~ValidPolicy
  <2>1. pc' = "error"
    BY Zenon, <1>5 DEF Validate
  <2> QED
    BY Zenon, <1>1, <1>3, <2>1 DEF SearchInv, PolicyInv, Complete, Begun
<1> QED
  BY Zenon, <1>4, <1>5

(* The target needs no search. *)
LEMMA TargetIsRootSearch ==
    ASSUME SearchInv, NEW r \in roots, TargetIsRoot(r)
    PROVE  SearchInv'
<1>1. /\ pc = "roots" /\ pc' = "roots" /\ roots' = roots \ {r} /\ r = target
      /\ UNCHANGED <<inputs, allPaths>>
  BY Zenon DEF TargetIsRoot, NextRoot
<1>2. Inv' /\ Begun /\ Begun'
  BY Zenon, <1>1, TargetIsRootStep DEF SearchInv, Begun
<1>3. \A t \in Range(allPaths) : Passed(t)'
  BY Zenon, <1>1 DEF SearchInv, TraceInv, Passed
<1>4. PolicyInv' /\ Ordered' /\ TraceInv' /\ \A q, p : Found(q, p)' <=> Found(q, p)
  BY Zenon, <1>1, <1>2, <1>3, NoTrace
<1>5. Complete'
  <2>1. policy' = policy /\ target' = target /\ \A q : PathsFrom(q)' = PathsFrom(q)
    BY Zenon, <1>1, SameInputs DEF inputs
  <2> QED
    BY Zenon, <1>1, <1>2, <1>4, <2>1 DEF SearchInv, Complete
<1> QED
  BY Zenon, <1>1, <1>2, <1>4, <1>5 DEF SearchInv, FrameInv

(* When a search begins, all the paths from its root are ahead of it. *)
LEMMA SearchFromSearch ==
    ASSUME SearchInv, NEW r \in roots, SearchFrom(r)
    PROVE  SearchInv'
<1>1. /\ pc = "roots" /\ r # target /\ roots' = roots \ {r} /\ pc' = "search" /\ root' = r
      /\ \A q \in roots : r <= q
      /\ depth' = 1 /\ todo' = [todo EXCEPT ![1] = OutEdges(r)]
      /\ weight' = [weight EXCEPT ![1] = policy.roots[r]]
      /\ UNCHANGED <<inputs, allPaths>>
      /\ edges' = edges /\ policy' = policy /\ target' = target
  BY Zenon DEF SearchFrom, NextRoot, inputs
<1>2. Inv /\ Inv' /\ Begun /\ Begun'
  BY Zenon, <1>1, SearchFromStep DEF SearchInv, Begun
<1>3. r \in DOMAIN policy.roots /\ roots \subseteq Nat /\ 1 \in Frames
  BY <1>1, <1>2, IdentityAssumption, SizeAssumption DEF Inv, TypeOK, LoopInv, Frames
<1>4. \A t \in Range(allPaths) : Passed(t)'
  <2>1. \A t \in Range(allPaths) : \A q \in roots : t.root < q
    BY Zenon DEF SearchInv, TraceInv, Passed
  <2> QED
    BY Zenon, <1>1, <2>1 DEF Passed
<1>5. PolicyInv' /\ Ordered' /\ TraceInv' /\ \A q, p : Found(q, p)' <=> Found(q, p)
  BY Zenon, <1>1, <1>2, <1>4, NoTrace
<1>6. FrameInv'
  <2>1. \A q \in roots' : root' < q
    BY <1>1, <1>3
  <2>2. weight'[1] = policy.roots[r] /\ policy.roots[r] \in Int /\ policy.decay \in Int
    BY Zenon, <1>1, <1>2, <1>3 DEF Inv, TypeOK, IsPolicy
  <2>3. weight'[1] = policy.roots[r] * Power(policy.decay)[1 - 1]
    BY <2>2, PowerDef
  <2>4. \A d \in 1..depth' : d = 1
    BY <1>1
  <2>5. 1..(depth' - 1) = {}
    BY <1>1
  <2> QED
    BY Zenon, <1>1, <1>3, <2>1, <2>3, <2>4, <2>5 DEF FrameInv
<1>7. ASSUME NEW p \in PathsFrom(r) PROVE Ahead(p)'
  <2>1. /\ Len(p) \in 1..policy.maxHops /\ DOMAIN p = 1..Len(p) /\ SimplePath(r, p)
        /\ p \in [1..Len(p) -> DOMAIN edges]
    BY Zenon, <1>2, PathShape DEF Inv, TypeOK
  <2>2. 1 \in DOMAIN p /\ 1 - 1 = 0
    BY <2>1
  <2>3. NodeAt(r, p, 1 - 1) = r
    BY Zenon, <2>2 DEF NodeAt
  <2>4. p[1] \in OutEdges(r)
    BY Zenon, <2>1, <2>2, <2>3 DEF SimplePath, OutEdges
  <2>5. todo'[1] = OutEdges(r) /\ 1 \in 1..depth' /\ 1..(1 - 1) = {}
    BY <1>1, <1>2, <1>3 DEF Inv, TypeOK
  <2> QED
    BY Zenon, <2>2, <2>4, <2>5 DEF Ahead, Agrees
<1>8. Complete'
  <2>1. \A q : PathsFrom(q)' = PathsFrom(q)
    BY Zenon, <1>1, SameInputs
  <2> QED
    BY Zenon, <1>1, <1>2, <1>5, <1>7, <2>1 DEF SearchInv, Complete
<1> QED
  BY Zenon, <1>1, <1>2, <1>5, <1>6, <1>8 DEF SearchInv
=============================================================================
