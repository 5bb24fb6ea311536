---------------------------- MODULE SearchProofs ----------------------------
(***************************************************************************)
(* What an evaluation returns, for every graph, policy and target: every   *)
(* significant simple path once and in order, exactly their records and    *)
(* parties as provenance, and a score that no piece of evidence exceeds.   *)
(***************************************************************************)
EXTENDS EvaluatorProofs

(* Looking at the first edge of a loop moves it from ahead to behind. *)
LEMMA LookSearch ==
    ASSUME SearchInv, pc = "search", NEW e \in todo[depth], \A f \in todo[depth] : e <= f,
           todo' = [todo EXCEPT ![depth] = @ \ {e}],
           UNCHANGED <<inputs, pc, roots, root, depth, current, hop, weight>>
    PROVE  /\ FrameInv'
           /\ \A t : Passed(t) => Passed(t)'
           /\ \A p : Ahead(p) => \/ Ahead(p)'
                                 \/ depth \in DOMAIN p /\ Agrees(p, depth) /\ p[depth] = e
           /\ todo'[depth] = todo[depth] \ {e} /\ \A f \in todo'[depth] : e < f
<1>1. /\ policy' = policy /\ target' = target /\ pc' = pc /\ roots' = roots
      /\ root' = root /\ depth' = depth /\ hop' = hop /\ weight' = weight
  BY Zenon DEF inputs
<1>2. /\ depth \in Frames /\ depth \in 1..depth /\ 1..depth \subseteq Frames
      /\ 1..(depth - 1) \subseteq 1..depth
  BY FrameFacts DEF SearchInv, Inv
<1>3. /\ todo'[depth] = todo[depth] \ {e}
      /\ \A d \in Frames : d # depth => todo'[d] = todo[d]
      /\ todo[depth] \subseteq Nat
  BY <1>2 DEF SearchInv, Inv, TypeOK
<1>4. FrameInv'
  BY Zenon, <1>1, <1>2, <1>3 DEF SearchInv, FrameInv
<1>5. \A p, d : Agrees(p, d)' <=> Agrees(p, d)
  BY <1>1 DEF Agrees
<1>6. \A p : Behind(p) => Behind(p)'
  BY Zenon, <1>1, <1>2, <1>3, <1>5 DEF Behind
<1>7. \A t : Passed(t) => Passed(t)'
  BY Zenon, <1>1, <1>6 DEF Passed
<1>8. \A p : Ahead(p) => \/ Ahead(p)'
                         \/ depth \in DOMAIN p /\ Agrees(p, depth) /\ p[depth] = e
  BY Zenon, <1>1, <1>2, <1>3, <1>5 DEF Ahead
<1>9. \A f \in todo'[depth] : e < f
  BY <1>3
<1> QED
  BY Zenon, <1>3, <1>4, <1>7, <1>8, <1>9

(* No path is lost by the edges that findPaths skips. *)
LEMMA SkipEdgeSearch ==
    ASSUME SearchInv, NEW e \in DOMAIN edges, SkipEdge(e)
    PROVE  SearchInv'
<1>1. /\ pc = "search" /\ e \in todo[depth] /\ \A f \in todo[depth] : e <= f
      /\ todo' = [todo EXCEPT ![depth] = @ \ {e}]
      /\ UNCHANGED <<inputs, pc, roots, root, depth, current, hop, weight>>
      /\ UNCHANGED <<inputs, allPaths>>
      /\ \/ Neighbor(e) \in visited
         \/ Damped
         \/ Neighbor(e) # target /\ depth >= policy.maxHops
  BY Zenon DEF SkipEdge, NextEdge
<1>2. Inv' /\ Begun /\ Begun' /\ pc' = "search" /\ roots' = roots /\ root' = root
  BY Zenon, <1>1, SkipEdgeStep DEF SearchInv, Begun
<1>3. /\ FrameInv'
      /\ \A t : Passed(t) => Passed(t)'
      /\ \A p : Ahead(p) => \/ Ahead(p)'
                            \/ depth \in DOMAIN p /\ Agrees(p, depth) /\ p[depth] = e
  BY Zenon, <1>1, LookSearch
<1>4. PolicyInv' /\ Ordered' /\ TraceInv' /\ \A q, p : Found(q, p)' <=> Found(q, p)
  BY Zenon, <1>1, <1>2, <1>3, NoTrace DEF SearchInv, TraceInv
<1>5. ASSUME NEW p \in PathsFrom(root), Ahead(p) PROVE Ahead(p)'
  BY Zenon, <1>1, <1>3, <1>5, SkippedIsNoPath DEF SearchInv
<1>6. Complete'
  <2>1. policy' = policy /\ target' = target /\ \A q : PathsFrom(q)' = PathsFrom(q)
    BY Zenon, <1>1, SameInputs DEF inputs
  <2> QED
    BY Zenon, <1>1, <1>2, <1>4, <1>5, <2>1 DEF SearchInv, Complete
<1> QED
  BY Zenon, <1>1, <1>2, <1>3, <1>4, <1>6 DEF SearchInv

(* The traces after one more was found. *)
LEMMA OneMore ==
    ASSUME NEW S, NEW s \in Seq(S), NEW t \in S
    PROVE  /\ Append(s, t) \in Seq(S) /\ Range(Append(s, t)) = Range(s) \cup {t}
           /\ DOMAIN Append(s, t) = DOMAIN s \cup {Len(s) + 1}
           /\ DOMAIN s = 1..Len(s) /\ Len(s) \in Nat
           /\ \A i \in DOMAIN s : Append(s, t)[i] = s[i] /\ s[i] \in Range(s)
           /\ Append(s, t)[Len(s) + 1] = t
<1>1. /\ Append(s, t) \in Seq(S) /\ DOMAIN s = 1..Len(s) /\ Len(s) \in Nat
      /\ DOMAIN Append(s, t) = 1..(Len(s) + 1)
      /\ \A i \in 1..Len(s) : Append(s, t)[i] = s[i]
      /\ Append(s, t)[Len(s) + 1] = t
  OBVIOUS
<1>2. 1..(Len(s) + 1) = (1..Len(s)) \cup {Len(s) + 1}
  BY <1>1
<1> QED
  BY <1>1, <1>2 DEF Range

(* A trace is genuine, and comes after all those found before it. *)
LEMMA ReachTargetSearch ==
    ASSUME SearchInv, NEW e \in DOMAIN edges, ReachTarget(e)
    PROVE  SearchInv'
<1> SUFFICES ASSUME NEW h, h = NextHops(e), NEW t, t = PathTrace(h)
             PROVE  SearchInv'
  BY Zenon
<1>1. /\ pc = "search" /\ e \in todo[depth] /\ \A f \in todo[depth] : e <= f
      /\ todo' = [todo EXCEPT ![depth] = @ \ {e}]
      /\ UNCHANGED <<inputs, pc, roots, root, depth, current, hop, weight>>
      /\ UNCHANGED inputs
      /\ Neighbor(e) = target /\ ~Damped
      /\ allPaths' = Append(allPaths, t)
  BY Zenon DEF ReachTarget, NextEdge
<1>2. /\ Inv /\ FrameInv /\ TraceInv /\ Inv' /\ Begun /\ Begun' /\ pc' = "search"
      /\ roots' = roots /\ root' = root /\ depth' = depth
      /\ policy' = policy /\ target' = target /\ hop' = hop
  BY Zenon, <1>1, ReachTargetStep DEF SearchInv, Begun, inputs
<1>3. /\ FrameInv'
      /\ \A s : Passed(s) => Passed(s)'
      /\ \A p : Ahead(p) => \/ Ahead(p)'
                            \/ depth \in DOMAIN p /\ Agrees(p, depth) /\ p[depth] = e
      /\ \A f \in todo'[depth] : e < f
  BY Zenon, <1>1, LookSearch
<1>4. /\ DOMAIN h = 1..depth /\ Len(h) = depth /\ h[depth] = e
      /\ \A d \in 1..(depth - 1) : h[d] = hop[d]
      /\ h \in Seq(1..MaxEdge) /\ depth \in 1..depth
  BY Zenon, <1>1, <1>2, HopsShape, FrameFacts DEF Inv
<1>5. h \in PathsFrom(root)
  BY Zenon, <1>1, <1>2, ReachedIsPath
<1>6. /\ PathWeight = policy.roots[root] * Power(policy.decay)[depth]
      /\ PathWeight \in Int /\ root \in Identities /\ root \in DOMAIN policy.roots \ {target}
  <2>1. /\ PathWeight = policy.roots[root] * Power(policy.decay)[depth]
        /\ weight[depth] \in Int /\ policy.decay \in Int
    BY Zenon, <1>1, <1>2, WeightOfPath, FrameFacts DEF Inv, TypeOK
  <2>2. PathWeight \in Int
    BY <2>1 DEF PathWeight
  <2> QED
    BY Zenon, <1>1, <1>2, <2>1, <2>2 DEF Inv, TypeOK, FrameInv
<1>7. t.root = root /\ t.hops = h /\ t.weight = PathWeight /\ t \in Traces
  BY Zenon, <1>4, <1>6 DEF PathTrace, Traces
<1>8. Genuine(t)
  BY Zenon, <1>4, <1>5, <1>6, <1>7 DEF Genuine
<1>9. Passed(t)'
  <2>1. Behind(h)'
    BY <1>2, <1>3, <1>4 DEF Behind, Agrees
  <2>2. \A r \in roots : root < r
    BY Zenon, <1>1, <1>2 DEF FrameInv
  <2> QED
    BY Zenon, <1>2, <1>7, <2>1, <2>2 DEF Passed
<1>10. /\ allPaths' \in Seq(Traces) /\ Range(allPaths)' = Range(allPaths) \cup {t}
       /\ DOMAIN allPaths' = DOMAIN allPaths \cup {Len(allPaths) + 1}
       /\ DOMAIN allPaths = 1..Len(allPaths) /\ Len(allPaths) \in Nat
       /\ \A i \in DOMAIN allPaths :
             allPaths'[i] = allPaths[i] /\ allPaths[i] \in Range(allPaths)
       /\ allPaths'[Len(allPaths) + 1] = t
  BY <1>1, <1>2, <1>7, OneMore DEF TraceInv
<1>11. TraceInv'
  <2>1. \A s : Genuine(s)' <=> Genuine(s)
    BY Zenon, <1>1, SameInputs
  <2> QED
    BY Zenon, <1>2, <1>3, <1>8, <1>9, <1>10, <2>1 DEF TraceInv
<1>12. ASSUME NEW s \in Range(allPaths)
       PROVE  s.root < t.root \/ (s.root = t.root /\ Before(s.hops, t.hops))
  <2>1. s.root < root \/ (s.root = root /\ Behind(s.hops))
    BY Zenon, <1>1, <1>2 DEF TraceInv, Passed
  <2>2. ASSUME Behind(s.hops) PROVE Before(s.hops, h)
    <3>1. PICK d \in 1..depth : /\ d \in DOMAIN s.hops /\ Agrees(s.hops, d)
                                /\ \A f \in todo[d] : s.hops[d] < f
                                /\ d < depth => s.hops[d] < hop[d]
      BY Zenon, <2>2 DEF Behind
    <3>2. depth \in Nat /\ d \in DOMAIN h /\ \A j \in 1..(d - 1) : j \in 1..(depth - 1)
      BY <1>1, <1>2, <1>4, FrameFacts DEF Inv
    <3>3. \A j \in 1..(d - 1) : s.hops[j] = h[j]
      BY Zenon, <1>4, <3>1, <3>2 DEF Agrees
    <3>4. s.hops[d] < h[d]
      <4>1. d = depth \/ (d < depth /\ d \in 1..(depth - 1))
        BY <3>2
      <4> QED
        BY Zenon, <1>1, <1>4, <3>1, <4>1
    <3> QED
      BY Zenon, <3>1, <3>2, <3>3, <3>4 DEF Before
  <2> QED
    BY Zenon, <1>7, <2>1, <2>2
<1>13. Ordered'
  <2> SUFFICES ASSUME NEW i \in DOMAIN allPaths', NEW j \in DOMAIN allPaths', i < j
               PROVE  \/ allPaths'[i].root < allPaths'[j].root
                      \/ /\ allPaths'[i].root = allPaths'[j].root
                         /\ Before(allPaths'[i].hops, allPaths'[j].hops)
    BY Zenon DEF Ordered, Before
  <2>1. i \in DOMAIN allPaths
    BY <1>10
  <2>2. CASE j \in DOMAIN allPaths
    BY Zenon, <1>10, <2>1, <2>2 DEF SearchInv, Ordered
  <2>3. CASE j = Len(allPaths) + 1
    <3>1. allPaths'[i] \in Range(allPaths) /\ allPaths'[j] = t
      BY Zenon, <1>10, <2>1, <2>3
    <3> QED
      BY Zenon, <1>12, <3>1
  <2> QED
    BY Zenon, <1>10, <2>2, <2>3
<1>14. ASSUME NEW p \in PathsFrom(root), Ahead(p) PROVE Ahead(p)' \/ p = h
  BY Zenon, <1>1, <1>2, <1>3, <1>14, ReachedIsOnly
<1>15. Complete'
  <2>1. \A q : PathsFrom(q)' = PathsFrom(q)
    BY Zenon, <1>1, SameInputs
  <2>2. \A q, p : Found(q, p) => Found(q, p)'
    BY Zenon, <1>10 DEF Found
  <2>3. \A q, p : q = root /\ p = h => Found(q, p)'
    BY Zenon, <1>7, <1>10 DEF Found
  <2> QED
    BY Zenon, <1>1, <1>2, <1>14, <2>1, <2>2, <2>3 DEF SearchInv, Complete
<1>16. PolicyInv'
  BY Zenon, <1>2 DEF SearchInv, PolicyInv
<1> QED
  BY Zenon, <1>2, <1>3, <1>11, <1>13, <1>15, <1>16 DEF SearchInv

(* A call takes the edge along: what goes through it is ahead of the new    *)
(* frame, and what was found is behind it.                                  *)
LEMMA DescendSearch ==
    ASSUME SearchInv, NEW e \in DOMAIN edges, Descend(e)
    PROVE  SearchInv'
<1> SUFFICES ASSUME NEW k, k = depth + 1
             PROVE  SearchInv'
  BY Zenon
<1>1. /\ depth < policy.maxHops /\ pc = "search" /\ e \in todo[depth]
      /\ \A f \in todo[depth] : e <= f /\ Neighbor(e) # target
      /\ depth' = k
      /\ todo' = [todo EXCEPT ![depth] = @ \ {e}, ![k] = OutEdges(Neighbor(e))]
      /\ hop' = [hop EXCEPT ![depth] = e]
      /\ weight' = [weight EXCEPT ![k] = PathWeight]
      /\ UNCHANGED <<inputs, allPaths>>
      /\ policy' = policy /\ target' = target /\ pc' = pc /\ roots' = roots /\ root' = root
  BY Zenon DEF Descend, Call, inputs
<1>2. Inv /\ PolicyInv /\ FrameInv /\ TraceInv /\ Inv' /\ Begun /\ Begun'
  BY Zenon, <1>1, DescendStep DEF SearchInv, Begun
<1>3. /\ depth \in Nat /\ 1 <= depth /\ k \in Nat /\ depth < k /\ k - 1 = depth
      /\ depth \in Frames /\ k \in Frames /\ 1..depth \subseteq Frames
      /\ \A d \in 1..k : d \in 1..depth \/ d = k
      /\ \A d \in 1..(k - 1) : d \in 1..depth
      /\ \A d \in 1..depth : /\ d \in 1..k /\ d < k /\ d # k
                             /\ d = depth \/ (d < depth /\ d \in 1..(depth - 1))
  <2>1. /\ depth \in Nat /\ 1 <= depth /\ policy.maxHops \in Int
        /\ policy.maxHops <= HopLimit /\ HopLimit \in Nat /\ depth < policy.maxHops
        /\ depth \in Frames /\ 1..depth \subseteq Frames
    BY Zenon, <1>1, <1>2, FrameFacts DEF Inv
  <2>2. k \in Frames
    BY <2>1 DEF Frames
  <2> QED
    BY <2>1, <2>2
<1>4. /\ todo'[depth] = todo[depth] \ {e} /\ todo'[k] = OutEdges(Neighbor(e))
      /\ \A d \in 1..depth : d # depth => todo'[d] = todo[d]
      /\ todo[depth] \subseteq Nat
  BY <1>1, <1>2, <1>3 DEF Inv, TypeOK
<1>5. /\ hop'[depth] = e /\ \A d \in 1..depth : d # depth => hop'[d] = hop[d]
      /\ weight'[k] = PathWeight /\ \A d \in 1..depth : weight'[d] = weight[d]
  BY Zenon, <1>1, <1>2, <1>3 DEF Inv, TypeOK
<1>6. FrameInv'
  <2>1. PathWeight = policy.roots[root] * Power(policy.decay)[depth]
    BY Zenon, <1>1, <1>2, WeightOfPath
  <2>2. \A d \in 1..k : weight'[d] = policy.roots[root] * Power(policy.decay)[d - 1]
    <3>1. \A d \in 1..depth :
             weight'[d] = policy.roots[root] * Power(policy.decay)[d - 1]
      BY Zenon, <1>1, <1>2, <1>5 DEF FrameInv
    <3>2. weight'[k] = policy.roots[root] * Power(policy.decay)[k - 1]
      BY Zenon, <1>3, <1>5, <2>1
    <3> QED
      BY Zenon, <1>3, <3>1, <3>2
  <2>3. \A f \in todo'[depth] : e < f
    BY <1>1, <1>4
  <2>4. \A d \in 1..(k - 1) : \A f \in todo'[d] : hop'[d] < f
    <3>1. \A d \in 1..(depth - 1) : \A f \in todo[d] : hop[d] < f
      BY Zenon, <1>1, <1>2 DEF FrameInv
    <3> SUFFICES ASSUME NEW d \in 1..(k - 1) PROVE \A f \in todo'[d] : hop'[d] < f
      BY Zenon
    <3>2. d \in 1..depth /\ (d = depth \/ (d # depth /\ d \in 1..(depth - 1)))
      BY Zenon, <1>3
    <3> QED
      BY Zenon, <1>4, <1>5, <2>3, <3>1, <3>2
  <2> QED
    BY Zenon, <1>1, <1>2, <2>2, <2>4 DEF FrameInv
<1>7. \A p : \A d \in 1..depth : Agrees(p, d) => Agrees(p, d)'
  <2>1. \A d \in 1..depth : \A i \in 1..(d - 1) : i \in 1..depth /\ i # depth
    BY <1>3
  <2> QED
    BY Zenon, <1>5, <2>1 DEF Agrees
<1>8. \A p : Behind(p) => Behind(p)'
  <2> SUFFICES ASSUME NEW p, Behind(p) PROVE Behind(p)'
    BY Zenon
  <2>1. PICK d \in 1..depth : /\ d \in DOMAIN p /\ Agrees(p, d)
                              /\ \A f \in todo[d] : p[d] < f
                              /\ d < depth => p[d] < hop[d]
    BY Zenon DEF Behind
  <2>2. p[d] < hop'[d]
    BY Zenon, <1>1, <1>3, <1>5, <2>1
  <2>3. d \in 1..k /\ Agrees(p, d)' /\ \A f \in todo'[d] : p[d] < f
    BY Zenon, <1>3, <1>4, <1>7, <2>1
  <2> QED
    BY Zenon, <1>1, <2>1, <2>2, <2>3 DEF Behind
<1>9. \A t \in Range(allPaths) : Passed(t)'
  BY Zenon, <1>1, <1>2, <1>8 DEF TraceInv, Passed
<1>10. PolicyInv' /\ Ordered' /\ TraceInv' /\ \A q, p : Found(q, p)' <=> Found(q, p)
  BY Zenon, <1>1, <1>2, <1>9, NoTrace
<1>11. ASSUME NEW p \in PathsFrom(root), Ahead(p) PROVE Ahead(p)'
  <2>1. PICK d \in 1..depth : d \in DOMAIN p /\ Agrees(p, d) /\ p[d] \in todo[d]
    BY Zenon, <1>11 DEF Ahead
  <2>2. CASE p[d] \in todo'[d]
    BY Zenon, <1>1, <1>3, <1>7, <2>1, <2>2 DEF Ahead
  <2>3. CASE p[d] \notin todo'[d]
    <3>1. d = depth /\ p[depth] = e
      BY Zenon, <1>4, <2>1, <2>3
    <3>2. k \in DOMAIN p /\ p[k] \in todo'[k]
      BY <1>1, <1>2, <1>4, <2>1, <3>1, CalledGoesOn
    <3>3. Agrees(p, k)'
      BY Zenon, <1>3, <1>5, <2>1, <3>1 DEF Agrees
    <3>4. k \in 1..k
      BY <1>3
    <3> QED
      BY Zenon, <1>1, <3>2, <3>3, <3>4 DEF Ahead
  <2> QED
    BY Zenon, <2>2, <2>3
<1>12. Complete'
  <2>1. \A q : PathsFrom(q)' = PathsFrom(q)
    BY Zenon, <1>1, SameInputs
  <2> QED
    BY Zenon, <1>1, <1>2, <1>10, <1>11, <2>1 DEF SearchInv, Complete
<1> QED
  BY Zenon, <1>1, <1>2, <1>6, <1>10, <1>12 DEF SearchInv

(* A call returns with everything through its node found. *)
LEMMA ReturnSearch ==
    ASSUME SearchInv, Return
    PROVE  SearchInv'
<1>1. /\ pc = "search" /\ todo[depth] = {} /\ pc' = (IF depth = 1 THEN "roots" ELSE pc)
      /\ depth' = depth - 1
      /\ UNCHANGED <<inputs, allPaths>>
      /\ policy' = policy /\ target' = target /\ roots' = roots /\ root' = root
      /\ todo' = todo /\ hop' = hop /\ weight' = weight
  BY Zenon DEF Return, inputs
<1>2. Inv /\ FrameInv /\ TraceInv /\ Inv' /\ Begun /\ Begun' /\ pc' # "done"
  BY Zenon, <1>1, ReturnStep DEF SearchInv, Begun
<1>3. /\ depth \in Nat /\ 1 <= depth
      /\ \A d \in 1..(depth - 1) : d \in 1..depth /\ d # depth
      /\ \A d \in 1..depth : d = depth \/ d \in 1..(depth - 1)
      /\ \A d \in 1..((depth - 1) - 1) : d \in 1..(depth - 1)
  BY <1>1, <1>2, FrameFacts DEF Inv
<1>4. FrameInv'
  BY Zenon, <1>1, <1>2, <1>3 DEF FrameInv
<1>5. \A p, d : Agrees(p, d)' <=> Agrees(p, d)
  BY Zenon, <1>1 DEF Agrees
<1>6. ASSUME depth # 1, NEW t \in Traces, Behind(t.hops) PROVE Behind(t.hops)'
  <2> SUFFICES ASSUME NEW p, p = t.hops PROVE Behind(p)'
    BY Zenon
  <2>1. PICK d \in 1..depth : /\ d \in DOMAIN p /\ Agrees(p, d)
                              /\ \A f \in todo[d] : p[d] < f
                              /\ d < depth => p[d] < hop[d]
    BY Zenon, <1>6 DEF Behind
  <2>2. CASE d # depth
    <3>1. d \in 1..(depth - 1) /\ (d < depth - 1 => d < depth)
      BY <1>3, <2>2
    <3> QED
      BY Zenon, <1>1, <1>5, <2>1, <3>1 DEF Behind
  <2>3. CASE d = depth
    <3> SUFFICES ASSUME NEW c, c = depth - 1 PROVE Behind(p)'
      BY Zenon
    <3>1. c \in 1..c /\ c \in 1..(d - 1) /\ ~(c < c) /\ 1..(c - 1) \subseteq 1..(d - 1)
      BY <1>3, <1>6, <2>3
    <3>2. p[c] = hop[c] /\ Agrees(p, c)
      BY Zenon, <2>1, <3>1 DEF Agrees
    <3>3. \A f \in todo[c] : hop[c] < f
      BY Zenon, <1>1, <1>2, <2>3, <3>1 DEF FrameInv
    <3>4. c \in DOMAIN p
      <4>1. p \in Seq(1..MaxEdge)
        BY Zenon DEF Traces
      <4>2. DOMAIN p = 1..Len(p) /\ Len(p) \in Nat
        BY <4>1
      <4> QED
        BY <1>3, <2>1, <2>3, <3>1, <4>2
    <3> QED
      BY Zenon, <1>1, <1>5, <3>1, <3>2, <3>3, <3>4 DEF Behind
  <2> QED
    BY Zenon, <2>2, <2>3
<1>7. Range(allPaths) \subseteq Traces
  BY <1>2 DEF TraceInv, Range
<1>8. \A t \in Range(allPaths) : Passed(t)'
  <2> SUFFICES ASSUME NEW t \in Range(allPaths) PROVE Passed(t)'
    BY Zenon
  <2>1. Passed(t)
    BY Zenon, <1>2 DEF TraceInv
  <2>2. pc' = "search" => t.root < root \/ (t.root = root /\ Behind(t.hops)')
    BY Zenon, <1>1, <1>6, <1>7, <2>1 DEF Passed
  <2> QED
    BY Zenon, <1>1, <2>1, <2>2 DEF Passed
<1>9. PolicyInv' /\ Ordered' /\ TraceInv' /\ \A q, p : Found(q, p)' <=> Found(q, p)
  BY Zenon, <1>1, <1>2, <1>8, NoTrace
<1>10. ASSUME NEW p, Ahead(p) PROVE pc' = "search" /\ Ahead(p)'
  <2>1. PICK d \in 1..depth : d \in DOMAIN p /\ Agrees(p, d) /\ p[d] \in todo[d]
    BY Zenon, <1>10 DEF Ahead
  <2>2. d # depth /\ d \in 1..(depth - 1) /\ depth # 1
    BY <1>1, <1>3, <2>1
  <2> QED
    BY Zenon, <1>1, <1>5, <2>1, <2>2 DEF Ahead
<1>11. Complete'
  <2>1. \A q : PathsFrom(q)' = PathsFrom(q)
    BY Zenon, <1>1, SameInputs
  <2> QED
    BY Zenon, <1>1, <1>2, <1>9, <1>10, <2>1 DEF SearchInv, Complete
<1> QED
  BY Zenon, <1>1, <1>2, <1>4, <1>9, <1>11 DEF SearchInv

(* Every step keeps the invariant of the search. *)
LEMMA NextSearchInv ==
    ASSUME SearchInv, [Next]_vars
    PROVE  SearchInv'
<1>1. CASE Validate
  BY Zenon, <1>1, ValidateSearch
<1>2. CASE \E r \in roots : TargetIsRoot(r) \/ SearchFrom(r)
  BY Zenon, <1>2, TargetIsRootSearch, SearchFromSearch
<1>3. CASE \E e \in DOMAIN edges : SkipEdge(e) \/ ReachTarget(e) \/ Descend(e)
  BY Zenon, <1>3, SkipEdgeSearch, ReachTargetSearch, DescendSearch
<1>4. CASE Return
  BY <1>4, ReturnSearch
<1>5. CASE Combine
  <2>1. /\ pc = "roots" /\ pc' = "done" /\ roots = {} /\ roots' = {}
        /\ UNCHANGED <<inputs, allPaths>> /\ policy' = policy /\ target' = target
    BY Zenon, <1>5 DEF Combine, inputs
  <2>2. Inv' /\ Begun /\ Begun'
    BY Zenon, <1>5, <2>1, NextInv DEF SearchInv, Begun, Next
  <2>3. PolicyInv' /\ Ordered' /\ TraceInv' /\ \A q, p : Found(q, p)' <=> Found(q, p)
    BY Zenon, <2>1, <2>2, NoTrace DEF Passed
  <2>4. Complete'
    <3>1. \A q : PathsFrom(q)' = PathsFrom(q)
      BY Zenon, <2>1, SameInputs
    <3> QED
      BY Zenon, <2>1, <2>2, <2>3, <3>1 DEF SearchInv, Complete
  <2> QED
    BY Zenon, <2>1, <2>2, <2>3, <2>4 DEF SearchInv, FrameInv
<1>6. CASE UNCHANGED vars
  <2>1. /\ UNCHANGED <<inputs, allPaths>> /\ policy' = policy /\ target' = target
        /\ UNCHANGED <<pc, roots, root, depth, todo, hop, weight, allPaths>>
    BY Zenon, <1>6 DEF vars, inputs, frames
  <2>2. Inv' /\ (Begun' <=> Begun)
    BY Zenon, <1>6, <2>1, NextInv DEF SearchInv, Begun
  <2>3. /\ \A p, d : Agrees(p, d)' <=> Agrees(p, d)
        /\ FrameInv'
    BY Zenon, <2>1 DEF SearchInv, FrameInv, Agrees
  <2>4. \A p : (Ahead(p)' <=> Ahead(p)) /\ (Behind(p)' <=> Behind(p))
    BY Zenon, <2>1, <2>3 DEF Ahead, Behind
  <2>5. \A t : Passed(t)' <=> Passed(t)
    BY Zenon, <2>1, <2>4 DEF Passed
  <2>6. Range(allPaths)' = Range(allPaths)
    BY Zenon, <2>1 DEF Range
  <2>7. \A q, p : Found(q, p)' <=> Found(q, p)
    BY Zenon, <2>6 DEF Found
  <2>8. /\ \A q : PathsFrom(q)' = PathsFrom(q)
        /\ \A t : Genuine(t)' <=> Genuine(t)
    BY Zenon, <2>1, SameInputs
  <2>9. TraceInv'
    BY Zenon, <2>1, <2>2, <2>5, <2>6, <2>8 DEF SearchInv, TraceInv
  <2>10. Complete'
    BY Zenon, <2>1, <2>2, <2>4, <2>7, <2>8 DEF SearchInv, Complete
  <2>11. PolicyInv' /\ Ordered'
    BY <2>1, <2>2 DEF SearchInv, PolicyInv, Ordered, Before
  <2> QED
    BY Zenon, <2>1, <2>2, <2>3, <2>9, <2>10, <2>11 DEF SearchInv
<1> QED
  BY Zenon, <1>1, <1>2, <1>3, <1>4, <1>5, <1>6 DEF Next

(* Nothing is found at first. *)
LEMMA InitSearchInv == Init => SearchInv
<1> SUFFICES ASSUME Init PROVE SearchInv
  BY Zenon
<1>1. Inv /\ pc = "validate" /\ allPaths = <<>> /\ ~Begun
  BY Zenon, InitInv DEF Init, Begun
<1>2. Range(allPaths) = {} /\ DOMAIN allPaths = {}
  BY <1>1 DEF Range
<1> QED
  BY <1>1, <1>2 DEF SearchInv, PolicyInv, FrameInv, TraceInv, Ordered, Complete

(* The invariant of the search holds in every reachable state. *)
LEMMA SearchInvariance == Spec => []SearchInv
BY InitSearchInv, NextSearchInv, PTL DEF Spec

(* findPaths returns every simple path from a root to the target that is    *)
(* active, on topic, within MaxHops and significant, each of them once, no  *)
(* other one, and in the order of the roots and of the edges.               *)
THEOREM SearchIsExhaustive == Spec => []FindsEverySimplePath
<1>1. ASSUME SearchInv PROVE FindsEverySimplePath
  <2> SUFFICES ASSUME pc = "done" PROVE FindsEverySimplePath
    BY Zenon DEF FindsEverySimplePath
  <2>1. Begun /\ roots = {}
    BY Zenon, <1>1 DEF SearchInv, Begun
  <2> DEFINE Wanted == UNION {{r} \X PathsFrom(r) : r \in DOMAIN policy.roots \ {target}}
             Given == {<<t.root, t.hops>> : t \in Range(allPaths)}
  <2>2. ASSUME NEW t \in Range(allPaths) PROVE <<t.root, t.hops>> \in Wanted
    <3>1. t.root \in DOMAIN policy.roots \ {target} /\ t.hops \in PathsFrom(t.root)
      BY Zenon, <1>1 DEF SearchInv, TraceInv, Genuine
    <3> QED
      BY <3>1
  <2>3. ASSUME NEW r \in DOMAIN policy.roots \ {target}, NEW p \in PathsFrom(r)
        PROVE  <<r, p>> \in Given
    <3>1. Found(r, p)
      BY Zenon, <1>1, <2>1 DEF SearchInv, Complete
    <3> QED
      BY Zenon, <3>1 DEF Found
  <2>4. Given \subseteq Wanted
    BY Zenon, <2>2
  <2>5. Wanted \subseteq Given
    <3> SUFFICES ASSUME NEW x \in Wanted PROVE x \in Given
      BY Zenon
    <3>1. PICK r \in DOMAIN policy.roots \ {target} : x \in {r} \X PathsFrom(r)
      BY Zenon
    <3>2. PICK p \in PathsFrom(r) : x = <<r, p>>
      BY <3>1
    <3> QED
      BY Zenon, <2>3, <3>2
  <2>6. Given = Wanted
    BY Zenon, <2>4, <2>5
  <2> QED
    BY Zenon, <1>1, <2>6 DEF SearchInv, Ordered, FindsEverySimplePath
<1> QED
  BY <1>1, SearchInvariance, PTL

-----------------------------------------------------------------------------
(* Provenance *)

(* The records on the paths found so far. *)
OnPaths == UNION {Range(t.hops) : t \in Range(allPaths)}

(* The target, once it was met as a root. *)
OwnTrust == {x \in DOMAIN policy.roots \cap {target} : Begun /\ x \notin roots}

(* At every moment the provenance is that of the traces found so far. *)
Provenance ==
    /\ records = OnPaths
    /\ nodes = {edges[e].proposer : e \in OnPaths}
               \cup {edges[e].subject : e \in OnPaths} \cup OwnTrust

(* A step that finds no trace. *)
LEMMA SameProvenance ==
    ASSUME Provenance, UNCHANGED <<edges, allPaths, records>>,
           NEW S, OwnTrust' = OwnTrust \cup S, nodes' = nodes \cup S
    PROVE  Provenance'
<1>1. OnPaths' = OnPaths
  BY Zenon DEF OnPaths, Range
<1> QED
  BY Zenon, <1>1 DEF Provenance

(* The nodes that ReachTarget adds are the parties of the records it adds. *)
LEMMA ReachTargetProvenance ==
    ASSUME SearchInv, Provenance, NEW e \in DOMAIN edges, ReachTarget(e)
    PROVE  Provenance'
<1> SUFFICES ASSUME NEW h, h = NextHops(e), NEW t, t = PathTrace(h)
             PROVE  Provenance'
  BY Zenon
<1>1. /\ pc = "search" /\ e \in todo[depth] /\ Neighbor(e) = target
      /\ nodes' = nodes \cup {root, target} \cup {current[d] : d \in 1..depth}
      /\ records' = records \cup {e} \cup {hop[d] : d \in 1..(depth - 1)}
      /\ allPaths' = Append(allPaths, t)
      /\ edges' = edges /\ policy' = policy /\ target' = target /\ roots' = roots /\ pc' = pc
  BY Zenon DEF ReachTarget, NextEdge, inputs
<1>2. Inv /\ TraceInv /\ TraceInv'
  BY Zenon, ReachTargetSearch DEF SearchInv
<1>3. /\ DOMAIN h = 1..depth /\ h[depth] = e
      /\ \A d \in 1..(depth - 1) : h[d] = hop[d]
  BY Zenon, <1>1, <1>2, HopsShape
<1>4. /\ depth \in Nat /\ 1 <= depth /\ depth \in 1..depth /\ 1 \in 1..depth
      /\ \A d \in 1..depth : d = depth \/ d \in 1..(depth - 1)
      /\ \A d \in 1..(depth - 1) : d \in 1..depth /\ d + 1 \in 1..depth
      /\ \A d \in 1..depth : d = 1 \/ (d - 1 \in 1..(depth - 1) /\ (d - 1) + 1 = d)
  BY <1>1, <1>2, FrameFacts DEF Inv
<1>5. Range(h) = {e} \cup {hop[d] : d \in 1..(depth - 1)}
  BY Zenon, <1>3, <1>4 DEF Range
<1>6. t.hops = h
  BY Zenon DEF PathTrace
<1>7. Range(allPaths)' = Range(allPaths) \cup {t}
  <2>1. /\ allPaths \in Seq(Traces) /\ Append(allPaths, t) \in Seq(Traces)
        /\ Append(allPaths, t)[Len(allPaths) + 1] = t
        /\ Len(allPaths) + 1 \in DOMAIN Append(allPaths, t)
    BY <1>1, <1>2 DEF TraceInv
  <2>2. t \in Traces
    BY <2>1
  <2> QED
    BY <1>1, <2>1, <2>2, OneMore
<1>8. OnPaths' = OnPaths \cup Range(h)
  <2>1. OnPaths' = UNION {Range(s.hops) : s \in Range(allPaths)'}
    BY Zenon DEF OnPaths, Range
  <2> QED
    BY Zenon, <1>6, <1>7, <2>1 DEF OnPaths
<1>9. records' = OnPaths'
  BY Zenon, <1>1, <1>5, <1>8 DEF Provenance
<1> DEFINE Parties(S) == {edges[x].proposer : x \in S} \cup {edges[x].subject : x \in S}
           new == {current[d] : d \in 1..depth} \cup {root, target}
<1>10. Parties(Range(h)) = new
  <2>1. /\ \A d \in 1..(depth - 1) : hop[d] \in OutEdges(current[d])
                                    /\ edges[hop[d]].subject = current[d + 1]
        /\ current[1] = root
    BY Zenon, <1>1, <1>2 DEF Inv, VisitedIsCurrentPath, Neighbor
  <2>2. e \in OutEdges(current[depth]) /\ edges[e].subject = target
    BY Zenon, <1>1, <1>2, <1>4 DEF Inv, LoopInv, Neighbor
  <2>3. /\ edges[e].proposer = current[depth]
        /\ \A d \in 1..(depth - 1) : edges[hop[d]].proposer = current[d]
    BY Zenon, <2>1, <2>2 DEF OutEdges
  <2>4. Parties(Range(h)) \subseteq new
    BY <1>4, <1>5, <2>1, <2>2, <2>3
  <2>5. ASSUME NEW d \in 1..depth PROVE current[d] \in Parties(Range(h))
    BY Zenon, <1>4, <1>5, <2>3
  <2>6. target \in Parties(Range(h))
    BY Zenon, <1>5, <2>2
  <2>7. new \subseteq Parties(Range(h))
    BY <1>4, <2>1, <2>5, <2>6
  <2> QED
    BY Zenon, <2>4, <2>7
<1>11. Parties(OnPaths \cup Range(h)) = Parties(OnPaths) \cup Parties(Range(h))
  BY Zenon
<1>12. OwnTrust' = OwnTrust
  BY Zenon, <1>1 DEF OwnTrust, Begun
<1>13. nodes' = Parties(OnPaths \cup Range(h)) \cup OwnTrust
  <2>1. nodes = Parties(OnPaths) \cup OwnTrust /\ nodes' = nodes \cup new
    BY Zenon, <1>1 DEF Provenance
  <2> HIDE DEF Parties, new
  <2> QED
    BY Zenon, <1>10, <1>11, <2>1
<1> QED
  BY <1>1, <1>8, <1>9, <1>12, <1>13 DEF Provenance

(* Every step keeps the provenance exact. *)
LEMMA NextProvenance ==
    ASSUME SearchInv, Provenance, [Next]_vars
    PROVE  Provenance'
<1>1. CASE Validate
  <2>1. OwnTrust = {}
    BY Zenon, <1>1 DEF OwnTrust, Begun, Validate
  <2>2. OwnTrust' = {}
    <3>1. CASE ValidPolicy
      <4>1. roots' = DOMAIN policy.roots /\ policy'.roots = policy.roots
        BY Zenon, <1>1, <3>1 DEF Validate, SearchInv, Inv, TypeOK, IsPolicy
      <4> QED
        BY Zenon, <4>1 DEF OwnTrust
    <3>2. CASE ~ValidPolicy
      BY Zenon, <1>1, <3>2 DEF Validate, OwnTrust, Begun
    <3> QED
      BY Zenon, <3>1, <3>2
  <2>3. UNCHANGED <<edges, allPaths, records, nodes>>
    BY Zenon, <1>1 DEF Validate
  <2> QED
    BY Zenon, <2>1, <2>2, <2>3, SameProvenance
<1>2. ASSUME NEW r \in roots, TargetIsRoot(r) PROVE Provenance'
  <2>1. /\ pc = "roots" /\ pc' = pc /\ roots' = roots \ {r} /\ r = target
        /\ nodes' = nodes \cup {target}
        /\ UNCHANGED <<edges, policy, target, allPaths, records>>
    BY Zenon, <1>2 DEF TargetIsRoot, NextRoot, inputs
  <2>2. target \in DOMAIN policy.roots
    BY Zenon, <2>1 DEF SearchInv, Inv, LoopInv
  <2>3. OwnTrust' = OwnTrust \cup {target}
    BY Zenon, <2>1, <2>2 DEF OwnTrust, Begun
  <2> QED
    BY Zenon, <2>1, <2>3, SameProvenance
<1>3. ASSUME NEW r \in roots, SearchFrom(r) PROVE Provenance'
  <2>1. /\ pc = "roots" /\ pc' = "search" /\ roots' = roots \ {r} /\ r # target
        /\ UNCHANGED <<edges, policy, target, allPaths, records, nodes>>
    BY Zenon, <1>3 DEF SearchFrom, NextRoot, inputs
  <2>2. OwnTrust' = OwnTrust
    BY Zenon, <2>1 DEF OwnTrust, Begun
  <2>3. OwnTrust' = OwnTrust \cup {} /\ nodes' = nodes \cup {}
    BY Zenon, <2>1, <2>2
  <2> QED
    BY Zenon, <2>1, <2>3, SameProvenance
<1>4. ASSUME NEW e \in DOMAIN edges, ReachTarget(e) PROVE Provenance'
  BY Zenon, <1>4, ReachTargetProvenance
<1>5. CASE \/ \E e \in DOMAIN edges : SkipEdge(e) \/ Descend(e)
           \/ Return \/ Combine \/ UNCHANGED vars
  <2>1. /\ UNCHANGED <<edges, policy, target, roots, allPaths, records, nodes>>
        /\ pc' = pc \/ (pc \in {"search", "roots"} /\ pc' \in {"search", "roots", "done"})
    BY Zenon, <1>5 DEF SkipEdge, NextEdge, Descend, Call, Return, Combine, vars, inputs
  <2>2. OwnTrust' = OwnTrust
    BY Zenon, <2>1 DEF OwnTrust, Begun
  <2>3. OwnTrust' = OwnTrust \cup {} /\ nodes' = nodes \cup {}
    BY Zenon, <2>1, <2>2
  <2> QED
    BY Zenon, <2>1, <2>3, SameProvenance
<1> QED
  BY Zenon, <1>1, <1>2, <1>3, <1>4, <1>5 DEF Next

(* The records and nodes that Evaluate names are those of the returned      *)
(* paths and, if it is a root itself, the target: none is missing and none  *)
(* is left over from a branch that was given up.                            *)
THEOREM ProvenanceIsExact == Spec => []ProvenanceExact
<1>1. Init => Provenance
  <2> SUFFICES ASSUME Init PROVE Provenance
    BY Zenon
  <2>1. OnPaths = {} /\ OwnTrust = {} /\ records = {} /\ nodes = {}
    BY DEF Init, OnPaths, Range, OwnTrust, Begun
  <2> QED
    BY Zenon, <2>1 DEF Provenance
<1>2. SearchInv /\ Provenance => ProvenanceExact
  <2> SUFFICES ASSUME SearchInv, Provenance, pc = "done" PROVE ProvenanceExact
    BY Zenon DEF ProvenanceExact
  <2>1. OwnTrust = DOMAIN policy.roots \cap {target}
    BY Zenon DEF SearchInv, OwnTrust, Begun
  <2> QED
    BY Zenon, <2>1 DEF Provenance, ProvenanceExact, OnPaths
<1>3. Spec => []Provenance
  <2>1. SearchInv /\ Provenance /\ [Next]_vars => Provenance'
    BY Zenon, NextProvenance
  <2> QED
    BY <1>1, <2>1, SearchInvariance, PTL DEF Spec
<1> QED
  BY <1>2, <1>3, SearchInvariance, PTL

-----------------------------------------------------------------------------
(* The score *)

(* One more piece of evidence, x / y, on top of the unconfidence a / b. *)
LEMMA EvidenceStep ==
    ASSUME NEW a \in Int, NEW b \in Int, 0 <= a, a <= b, 0 < b,
           NEW x \in Int, NEW y \in Int, 0 < x, x < y
    PROVE  /\ a * (y - x) \in Int /\ b * y \in Int
           /\ 0 <= a * (y - x) /\ a * (y - x) < b * y /\ 0 < b * y
           /\ (a * (y - x)) * y <= (y - x) * (b * y)
           /\ \A p, q \in Int : 0 <= q /\ a * p <= q * b =>
                 (a * (y - x)) * p <= q * (b * y)
<1> DEFINE z == y - x
<1>1. z \in Int /\ 0 < z /\ z < y
  OBVIOUS
<1> HIDE DEF z
<1>2. a * z \in Int /\ b * z \in Int /\ b * y \in Int
  BY <1>1
<1>3. 0 <= a * z /\ a * z <= b * z /\ b * z < b * y /\ 0 < b * z
  BY <1>1, Times
<1>4. 0 <= a * z /\ a * z < b * y /\ 0 < b * y
  BY <1>2, <1>3
<1>5. (a * z) * y <= z * (b * y)
  <2>1. (a * z) * y <= (b * z) * y
    BY <1>1, <1>2, <1>3, Times
  <2>2. (b * z) * y = z * (b * y)
    BY <1>1
  <2> QED
    BY Zenon, <2>1, <2>2
<1>6. ASSUME NEW p \in Int, NEW q \in Int, 0 <= q, a * p <= q * b
      PROVE  (a * z) * p <= q * (b * y)
  <2>1. a * p \in Int /\ q * b \in Int /\ 0 <= q * b
    BY <1>6, Times
  <2> DEFINE u == a * p
             v == q * b
  <2>2. (a * z) * p = u * z /\ q * (b * y) = v * y
    BY <1>1
  <2>3. u \in Int /\ v \in Int /\ 0 <= v /\ u <= v
    BY Zenon, <1>6, <2>1
  <2> HIDE DEF u, v
  <2>4. u * z \in Int /\ v * z \in Int /\ v * y \in Int
    BY <1>1, <2>3
  <2>5. u * z <= v * z /\ v * z <= v * y
    BY <1>1, <2>3, Times
  <2> QED
    BY <2>2, <2>4, <2>5
<1> QED
  BY Zenon, <1>2, <1>4, <1>5, <1>6 DEF z

(* The weight of a trace is a proper fraction. *)
LEMMA TraceFraction ==
    ASSUME SearchInv, Begun, NEW t \in Range(allPaths)
    PROVE  /\ Fraction(t).num \in Int /\ Fraction(t).den \in Int
           /\ 0 < Fraction(t).num /\ Fraction(t).num < Fraction(t).den
<1> DEFINE n == Len(t.hops)
           w == policy.roots[t.root]
           x == Power(policy.decay)[n]
           y == Power(DecayUnit)[n]
<1>1. /\ t.root \in DOMAIN policy.roots /\ t.hops \in PathsFrom(t.root) /\ t.weight = w * x
      /\ IsPolicy(policy)
  BY Zenon DEF SearchInv, TraceInv, Genuine, Inv, TypeOK
<1>2. n \in 1..HopLimit /\ n # 0 /\ n \in 0..HopLimit
  <2>1. n \in 1..HopLimit
    BY Zenon, <1>1, PathShape
  <2> QED
    BY <2>1
<1>3. /\ w \in Int /\ 0 < w /\ w <= One /\ One \in Int /\ DecayUnit \in Int
      /\ policy.decay \in Int /\ 0 < policy.decay /\ policy.decay < DecayUnit
  BY <1>1, UnitAssumption DEF SearchInv, PolicyInv, IsPolicy
<1>4. x \in Int /\ y \in Int /\ 0 < x /\ x < y
  BY Zenon, <1>2, <1>3, PowersDecrease
<1>5. Fraction(t).num = w * x /\ Fraction(t).den = One * y
  BY Zenon, <1>1 DEF Fraction, Ratio
<1> HIDE DEF w, x, y, n
<1>6. 0 < w * x /\ w * x <= One * x /\ One * x < One * y
  BY <1>3, <1>4, Times
<1>7. w * x \in Int /\ One * x \in Int /\ One * y \in Int
  BY <1>3, <1>4
<1> QED
  BY <1>5, <1>6, <1>7

(* The target's own weight is one too, or nothing. *)
LEMMA OwnFraction ==
    ASSUME SearchInv, Begun
    PROVE  /\ DirectTrust \in Int /\ 0 <= DirectTrust /\ DirectTrust <= One
           /\ One \in Int /\ 0 < One
BY UnitAssumption DEF SearchInv, PolicyInv, Inv, TypeOK, IsPolicy, DirectTrust

(* What ScoreCountsAllEvidence says of an unconfidence. *)
Counts(u) ==
    /\ 0 <= u.num /\ u.num <= u.den
    /\ \A t \in Range(allPaths) :
          u.num * Fraction(t).den <= (Fraction(t).den - Fraction(t).num) * u.den
    /\ u.num * One <= (One - DirectTrust) * u.den
    /\ u.num = u.den <=> allPaths = <<>> /\ DirectTrust = 0

(* The product of the noisy-OR, factor by factor. *)
LEMMA ScoreCounts ==
    ASSUME SearchInv, Begun
    PROVE  Counts(Score)
<1> DEFINE L == Len(allPaths)
           F(i) == Fraction(allPaths[i])
           Steps(n, g) == [i \in 0..n |->
               IF i = 0 THEN Ratio(One - DirectTrust, One)
               ELSE Ratio(g[i - 1].num * (F(i).den - F(i).num),
                          g[i - 1].den * F(i).den)]
           after == CHOOSE g : g = Steps(L, g)
<1>1. /\ L \in Nat /\ DOMAIN allPaths = 1..L
      /\ \A i \in 1..L : allPaths[i] \in Range(allPaths)
  BY DEF SearchInv, TraceInv, Range
<1>2. ASSUME NEW i \in 1..L
      PROVE  F(i).num \in Int /\ F(i).den \in Int /\ 0 < F(i).num /\ F(i).num < F(i).den
  BY Zenon, <1>1, TraceFraction
<1>3. ASSUME NEW n \in Nat PROVE \E g : g = Steps(n, g)
  <2> HIDE DEF F
  <2> SUFFICES ASSUME ~\E g : g = Steps(n, g) PROVE FALSE
    BY Zenon
  <2> DEFINE T == {m \in Nat : ~\E g : g = Steps(m, g)}
  <2>1. T \subseteq Nat /\ T # {}
    BY Zenon
  <2>2. PICK m \in T : \A k \in T : m <= k
    <3> HIDE DEF T
    <3> QED
      BY Zenon, <2>1, LeastNumber
  <2>3. m # 0
    <3> DEFINE g == [i \in 0..0 |-> Ratio(One - DirectTrust, One)]
    <3>1. g = Steps(0, g)
      OBVIOUS
    <3> QED
      BY Zenon, <2>2, <3>1
  <2>4. m - 1 \in Nat /\ m - 1 \notin T
    <3> HIDE DEF T
    <3> QED
      BY <2>1, <2>2, <2>3
  <2>5. PICK g : g = Steps(m - 1, g)
    BY Zenon, <2>4
  <2> DEFINE h == Steps(m, g)
  <2>6. \A i \in 1..m : h[i - 1] = g[i - 1]
    <3> SUFFICES ASSUME NEW i \in 1..m PROVE h[i - 1] = g[i - 1]
      BY Zenon
    <3> DEFINE j == i - 1
               Value == IF j = 0 THEN Ratio(One - DirectTrust, One)
                        ELSE Ratio(g[j - 1].num * (F(j).den - F(j).num),
                                   g[j - 1].den * F(j).den)
    <3>1. j \in 0..m /\ j \in 0..(m - 1)
      BY <2>4
    <3> HIDE DEF j
    <3>2. h[j] = Value
      BY Zenon, <3>1
    <3>3. g[j] = Steps(m - 1, g)[j]
      BY Zenon, <2>5
    <3>4. Steps(m - 1, g)[j] = Value
      BY Zenon, <3>1
    <3>5. h[j] = g[j]
      BY Zenon, <3>2, <3>3, <3>4
    <3> QED
      BY Zenon, <3>5 DEF j
  <2>7. h = Steps(m, h)
    <3>1. \A i \in 0..m : i # 0 => h[i - 1] = g[i - 1]
      <4> HIDE DEF h
      <4> QED
        BY <2>2, <2>6
    <3>2. \A i \in 0..m : h[i] = Steps(m, h)[i]
      BY Zenon, <3>1
    <3> QED
      BY Zenon, <3>2
  <2> QED
    BY Zenon, <2>2, <2>7
<1>4. after = Steps(L, after)
  BY Zenon, <1>1, <1>3
<1>5. Score = after[L]
  BY Zenon DEF Score
<1> HIDE DEF after, F, L
<1>6. ASSUME NEW i \in 0..L
      PROVE  after[i] = IF i = 0 THEN Ratio(One - DirectTrust, One)
                        ELSE Ratio(after[i - 1].num * (F(i).den - F(i).num),
                                   after[i - 1].den * F(i).den)
  BY Zenon, <1>4
<1> DEFINE N(i) == after[i].num
           D(i) == after[i].den
           Fine(i) ==
              /\ N(i) \in Int /\ D(i) \in Int /\ 0 <= N(i) /\ N(i) <= D(i) /\ 0 < D(i)
              /\ \A j \in 1..i : N(i) * F(j).den <= (F(j).den - F(j).num) * D(i)
              /\ N(i) * One <= (One - DirectTrust) * D(i)
              /\ N(i) = D(i) <=> i = 0 /\ DirectTrust = 0
<1>7. /\ DirectTrust \in Int /\ 0 <= DirectTrust /\ DirectTrust <= One
      /\ One \in Int /\ 0 < One
  BY Zenon, OwnFraction
<1>8. Fine(0)
  <2>1. N(0) = One - DirectTrust /\ D(0) = One
    <3>1. 0 \in 0..L
      BY <1>1
    <3>2. after[0] = Ratio(One - DirectTrust, One)
      BY Zenon, <1>6, <3>1
    <3> QED
      BY <3>2 DEF Ratio
  <2>2. 1..0 = {}
    OBVIOUS
  <2> HIDE DEF N, D
  <2> QED
    BY <1>7, <2>1, <2>2
<1>9. ASSUME NEW i \in 1..L, Fine(i - 1) PROVE Fine(i)
  <2> DEFINE a == N(i - 1)
             b == D(i - 1)
             x == F(i).num
             y == F(i).den
  <2>1. a \in Int /\ b \in Int /\ 0 <= a /\ a <= b /\ 0 < b
    BY Zenon, <1>9
  <2>2. x \in Int /\ y \in Int /\ 0 < x /\ x < y
    BY Zenon, <1>2
  <2>3. N(i) = a * (y - x) /\ D(i) = b * y
    <3>1. i \in 0..L /\ i # 0
      BY <1>1
    <3>2. after[i] = Ratio(after[i - 1].num * (F(i).den - F(i).num),
                           after[i - 1].den * F(i).den)
      BY Zenon, <1>6, <3>1
    <3> QED
      BY <3>2 DEF Ratio
  <2>4. \A j \in 1..(i - 1) : /\ a * F(j).den <= (F(j).den - F(j).num) * b
                             /\ F(j).den \in Int /\ F(j).den - F(j).num \in Int
                             /\ 0 <= F(j).den - F(j).num
    <3> SUFFICES ASSUME NEW j \in 1..(i - 1)
                 PROVE  /\ a * F(j).den <= (F(j).den - F(j).num) * b
                        /\ F(j).den \in Int /\ F(j).den - F(j).num \in Int
                        /\ 0 <= F(j).den - F(j).num
      BY Zenon
    <3>1. j \in 1..L
      BY <1>1
    <3>2. F(j).num \in Int /\ F(j).den \in Int /\ 0 < F(j).num /\ F(j).num < F(j).den
      BY Zenon, <1>2, <3>1
    <3> QED
      BY <1>9, <3>2
  <2>5. a * One <= (One - DirectTrust) * b
    BY Zenon, <1>9
  <2> HIDE DEF a, b, x, y
  <2>6. /\ a * (y - x) \in Int /\ b * y \in Int
        /\ 0 <= a * (y - x) /\ a * (y - x) < b * y /\ 0 < b * y
        /\ (a * (y - x)) * y <= (y - x) * (b * y)
        /\ \A p, q \in Int : 0 <= q /\ a * p <= q * b => (a * (y - x)) * p <= q * (b * y)
    BY Zenon, <2>1, <2>2, EvidenceStep
  <2> HIDE DEF N, D
  <2>7. /\ N(i) \in Int /\ D(i) \in Int /\ 0 <= N(i) /\ N(i) < D(i) /\ 0 < D(i)
        /\ N(i) * y <= (y - x) * D(i)
        /\ \A p, q \in Int : 0 <= q /\ a * p <= q * b => N(i) * p <= q * D(i)
    BY Zenon, <2>3, <2>6
  <2>8. N(i) * One <= (One - DirectTrust) * D(i)
    <3>1. One - DirectTrust \in Int /\ 0 <= One - DirectTrust
      BY <1>7
    <3> QED
      BY Zenon, <1>7, <2>5, <2>7, <3>1
  <2>9. ASSUME NEW j \in 1..i PROVE N(i) * F(j).den <= (F(j).den - F(j).num) * D(i)
    <3>1. j = i \/ j \in 1..(i - 1)
      BY <1>1
    <3>2. CASE j = i
      BY Zenon, <2>7, <3>2 DEF x, y
    <3>3. CASE j \in 1..(i - 1)
      BY Zenon, <2>4, <2>7, <3>3
    <3> QED
      BY Zenon, <3>1, <3>2, <3>3
  <2>10. N(i) <= D(i) /\ N(i) # D(i) /\ i # 0
    BY <1>1, <2>7
  <2> QED
    BY Zenon, <2>7, <2>8, <2>9, <2>10
<1>10. Fine(L)
  <2> HIDE DEF Fine
  <2> SUFFICES ASSUME ~Fine(L) PROVE FALSE
    BY Zenon
  <2> DEFINE T == {i \in 0..L : ~Fine(i)}
  <2>1. T \subseteq Nat /\ T # {}
    BY <1>1
  <2>2. PICK i \in T : \A m \in T : i <= m
    <3> HIDE DEF T
    <3> QED
      BY Zenon, <2>1, LeastNumber
  <2>3. i # 0 /\ i \in 0..L /\ ~Fine(i)
    BY Zenon, <1>8, <2>2
  <2>4. i \in 1..L /\ i - 1 \in 0..L /\ ~(i <= i - 1)
    BY <1>1, <2>3
  <2>5. Fine(i - 1)
    BY Zenon, <2>2, <2>4
  <2> QED
    BY Zenon, <1>9, <2>3, <2>4, <2>5
<1> DEFINE u == after[L]
<1>11. ASSUME NEW t \in Range(allPaths)
       PROVE  u.num * Fraction(t).den <= (Fraction(t).den - Fraction(t).num) * u.den
  <2>1. PICK j \in 1..L : t = allPaths[j]
    BY Zenon, <1>1 DEF Range
  <2> QED
    BY Zenon, <1>10, <2>1 DEF F
<1>12. allPaths = <<>> <=> L = 0
  BY DEF L, SearchInv, TraceInv
<1>13. Counts(u)
  BY Zenon, <1>10, <1>11, <1>12 DEF Counts
<1> QED
  BY Zenon, <1>5, <1>13

(* The noisy-OR of Evaluate: the confidence lies between 0 and 1, is at     *)
(* least that of each path and of the target's own weight, and is 0 only    *)
(* without evidence.                                                        *)
THEOREM NoEvidenceLost == Spec => []ScoreCountsAllEvidence
<1>1. Init => ScoreCountsAllEvidence
  BY Zenon DEF Init, ScoreCountsAllEvidence
<1>2. ASSUME SearchInv, ScoreCountsAllEvidence, [Next]_vars
      PROVE  ScoreCountsAllEvidence'
  <2> SUFFICES ASSUME pc' = "done" PROVE ScoreCountsAllEvidence'
    BY Zenon DEF ScoreCountsAllEvidence
  <2>1. ASSUME NEW u, Counts(u), unconfidence' = u, UNCHANGED <<policy, target, allPaths>>
        PROVE  ScoreCountsAllEvidence'
    <3>1. Range(allPaths)' = Range(allPaths) /\ DirectTrust' = DirectTrust
      BY Zenon, <2>1 DEF Range, DirectTrust
    <3>2. Counts(u)'
      BY Zenon, <2>1, <3>1 DEF Counts, Fraction, Ratio
    <3> QED
      BY Zenon, <2>1, <3>2 DEF Counts, ScoreCountsAllEvidence
  <2>2. CASE Combine
    <3>1. /\ unconfidence' = Score /\ UNCHANGED <<policy, target, allPaths>>
          /\ Begun
      BY Zenon, <2>2 DEF Combine, inputs, Begun
    <3>2. Counts(Score)
      BY Zenon, <1>2, <3>1, ScoreCounts
    <3> QED
      BY Zenon, <2>1, <3>1, <3>2
  <2>3. CASE UNCHANGED vars
    <3>1. UNCHANGED <<policy, target, allPaths, unconfidence, pc>>
      BY Zenon, <2>3 DEF vars, inputs
    <3>2. Counts(unconfidence)
      BY Zenon, <1>2, <3>1 DEF Counts, ScoreCountsAllEvidence
    <3> QED
      BY Zenon, <2>1, <3>1, <3>2
  <2>4. pc' = "done" => Combine \/ UNCHANGED vars
    BY Zenon, <1>2 DEF Next, Validate, TargetIsRoot, NextRoot, SearchFrom, SkipEdge,
       NextEdge,
                ReachTarget, Descend, Call, Return, SearchInv, Inv, TypeOK
  <2> QED
    BY Zenon, <2>2, <2>3, <2>4
<1> QED
  BY <1>1, <1>2, SearchInvariance, PTL DEF Spec
=============================================================================
