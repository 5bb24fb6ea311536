------------------------------ MODULE Evaluator ------------------------------
(***************************************************************************)
(* internal/graph/v1, Evaluator.Evaluate: the confidence in a target, from *)
(* every path of active endorsements that leads to it from a trust root.   *)
(*                                                                         *)
(* The graph is the private projection an evaluation runs on; nothing      *)
(* changes it meanwhile.  An edge is named by the sequence of its record,  *)
(* an identity by a number, in the order of the hexadecimal keys.  Weights *)
(* are counted in units of 1/One and the decay factor in 1/DecayUnit, so a *)
(* path's weight is exact where the code's float64 rounds.                 *)
(*                                                                         *)
(* findPaths calls itself; frame d of the call stack has the node          *)
(* current[d] it was called for, the edges todo[d] its loop has yet to     *)
(* look at and the edge hop[d] it went down.                               *)
(***************************************************************************)
EXTENDS Integers, Sequences, Functions

CONSTANTS Identities,     \* a set of numbers
          MaxEdge,        \* highest sequence in a graph
          HopLimit,       \* highest MaxHops of a policy
          One,            \* units in the weight 1.0
          DecayUnit,      \* units in the decay factor 1.0
          DefaultMinConfidence,
          Graphs,         \* graphs evaluated
          Policies        \* policies evaluated

ASSUME IdentityAssumption == Identities \subseteq Nat
ASSUME SizeAssumption == MaxEdge \in Nat /\ HopLimit \in Nat \ {0}
ASSUME UnitAssumption ==
    One \in Nat \ {0} /\ DecayUnit \in Nat \ {0} /\ DefaultMinConfidence \in Nat

EdgeType == [proposer : Identities, subject : Identities, topic : STRING,
             active : BOOLEAN]
IsGraph(g) == DOMAIN g \subseteq 1..MaxEdge /\ g \in [DOMAIN g -> EdgeType]

IsPolicy(p) ==
    /\ p = [roots |-> p.roots, topic |-> p.topic, maxHops |-> p.maxHops,
            decay |-> p.decay, min |-> p.min]
    /\ DOMAIN p.roots \subseteq Identities /\ p.roots \in [DOMAIN p.roots -> Int]
    /\ p.maxHops \in Int /\ p.maxHops <= HopLimit
    /\ p.decay \in Int /\ p.min \in Int

ASSUME InputAssumption ==
    /\ \A g \in Graphs : IsGraph(g)
    /\ \A p \in Policies : IsPolicy(p)

VARIABLES edges, policy, target,    \* the inputs
          pc,
          roots,      \* trust roots still to search from
          root,       \* the root of the search
          depth,      \* depth of the call of findPaths
          current,    \* [frames -> node]
          todo,       \* [frames -> edges the loop has yet to look at]
          hop,        \* [frames -> edge gone down, 0 before the first]
          weight,     \* [frames -> currentWeight, in 1/(One * DecayUnit^(d-1))]
          visited,
          allPaths,   \* path traces found, in order
          nodes, records,   \* the provenance
          unconfidence      \* the score, 1 - num / den

inputs == <<edges, policy, target>>
frames == <<root, depth, current, todo, hop, weight, visited>>
vars == <<inputs, pc, roots, frames, allPaths, nodes, records, unconfidence>>

Frames == 1..HopLimit
Ratio(num, den) == [num |-> num, den |-> den]

Init ==
    /\ edges \in Graphs
    /\ policy \in Policies
    /\ target \in Identities
    /\ pc = "validate"
    /\ roots = {}
    /\ root = target
    /\ depth = 0
    /\ current = [d \in Frames |-> target]
    /\ todo = [d \in Frames |-> {}]
    /\ hop = [d \in Frames |-> 0]
    /\ weight = [d \in Frames |-> 0]
    /\ visited = {}
    /\ allPaths = <<>>
    /\ nodes = {}
    /\ records = {}
    /\ unconfidence = Ratio(1, 1)

-----------------------------------------------------------------------------
(* EvaluationPolicy.Validate *)
ValidPolicy ==
    /\ DOMAIN policy.roots # {}
    /\ \A r \in DOMAIN policy.roots :
          policy.roots[r] > 0 /\ policy.roots[r] <= One
    /\ policy.maxHops > 0
    /\ policy.decay > 0 /\ policy.decay < DecayUnit

Validate ==
    /\ pc = "validate"
    /\ IF ValidPolicy
       THEN /\ pc' = "roots"
            /\ roots' = DOMAIN policy.roots
            /\ policy' = [policy EXCEPT !.min =
                             IF @ <= 0 THEN DefaultMinConfidence ELSE @]
       ELSE pc' = "error" /\ UNCHANGED <<roots, policy>>
    /\ UNCHANGED <<edges, target, frames, allPaths, nodes, records,
                   unconfidence>>

(* Graph.OutEdges, active edges only. *)
OutEdgesWithRevoked(n) ==
    {e \in DOMAIN edges :
        /\ edges[e].proposer = n
        /\ policy.topic # "" => edges[e].topic = policy.topic}

OutEdges(n) ==
    {e \in DOMAIN edges :
        /\ edges[e].proposer = n
        /\ edges[e].active
        /\ policy.topic # "" => edges[e].topic = policy.topic}

(* The loop of Evaluate over the roots, in order.  The target itself is not *)
(* searched from: its own weight is added to the score at the end.          *)
NextRoot(r) ==
    /\ pc = "roots"
    /\ r \in roots
    /\ \A q \in roots : r <= q
    /\ roots' = roots \ {r}
    /\ UNCHANGED <<inputs, allPaths, records, unconfidence>>

TargetIsRoot(r) ==
    /\ NextRoot(r)
    /\ r = target
    /\ nodes' = nodes \cup {target}
    /\ UNCHANGED <<pc, frames>>

SearchFrom(r) ==
    /\ NextRoot(r)
    /\ r # target
    /\ pc' = "search"
    /\ root' = r
    /\ depth' = 1
    /\ current' = [current EXCEPT ![1] = r]
    /\ todo' = [todo EXCEPT ![1] = OutEdges(r)]
    /\ weight' = [weight EXCEPT ![1] = policy.roots[r]]
    /\ visited' = {r}
    /\ UNCHANGED <<hop, nodes>>

-----------------------------------------------------------------------------
(* The powers of b, up to that of the longest path. *)
Power(b) ==
    LET power[n \in 0..HopLimit] == IF n = 0 THEN 1 ELSE b * power[n - 1]
    IN  power

(* The loop of findPaths: e is the first edge not looked at yet. *)
NextEdge(e) ==
    /\ pc = "search"
    /\ e \in todo[depth]
    /\ \A f \in todo[depth] : e <= f
    /\ UNCHANGED <<inputs, pc, roots, root, current, unconfidence>>

(* The weight of a path through an edge of the current frame, compared with *)
(* MinConfidence.                                                           *)
PathWeight == weight[depth] * policy.decay
Damped == PathWeight < policy.min * Power(DecayUnit)[depth]

Neighbor(e) == edges[e].subject

(* The neighbor is on the path already, or the weight is too small, or the  *)
(* hops are used up.                                                        *)
SkipEdge(e) ==
    /\ NextEdge(e)
    /\ \/ Neighbor(e) \in visited
       \/ Damped
       \/ Neighbor(e) # target /\ depth >= policy.maxHops
    /\ todo' = [todo EXCEPT ![depth] = @ \ {e}]
    /\ UNCHANGED <<depth, hop, weight, visited, allPaths, nodes, records>>

(* nextHops: the hops of the frames below, copied, and this edge. *)
NextHops(e) == [d \in 1..depth |-> IF d = depth THEN e ELSE hop[d]]

PathTrace(hops) ==
    [root |-> root, hops |-> hops, weight |-> PathWeight]

(* Faulty variant: only the last hop joins the provenance. *)
ReachTargetLastHop(e) ==
    /\ NextEdge(e)
    /\ Neighbor(e) \notin visited
    /\ ~Damped
    /\ Neighbor(e) = target
    /\ todo' = [todo EXCEPT ![depth] = @ \ {e}]
    /\ allPaths' = Append(allPaths, PathTrace(NextHops(e)))
    /\ nodes' = nodes \cup {root, current[depth], target}
    /\ records' = records \cup {e}
    /\ UNCHANGED <<depth, hop, weight, visited>>

(* A path is complete; its nodes and records join the provenance. *)
ReachTarget(e) ==
    /\ NextEdge(e)
    /\ Neighbor(e) \notin visited
    /\ ~Damped
    /\ Neighbor(e) = target
    /\ todo' = [todo EXCEPT ![depth] = @ \ {e}]
    /\ allPaths' = Append(allPaths, PathTrace(NextHops(e)))
    /\ nodes' = nodes \cup {root, target}
                      \cup {current[d] : d \in 1..depth}
    /\ records' = records \cup {e} \cup {hop[d] : d \in 1..(depth - 1)}
    /\ UNCHANGED <<depth, hop, weight, visited>>

(* The call of findPaths for the neighbor. *)
Call(e) ==
    /\ pc = "search"
    /\ e \in todo[depth]
    /\ \A f \in todo[depth] : e <= f
    /\ Neighbor(e) \notin visited
    /\ ~Damped
    /\ Neighbor(e) # target
    /\ visited' = visited \cup {Neighbor(e)}
    /\ depth' = depth + 1
    /\ current' = [current EXCEPT ![depth + 1] = Neighbor(e)]
    /\ todo' = [todo EXCEPT ![depth] = @ \ {e},
                            ![depth + 1] = OutEdges(Neighbor(e))]
    /\ hop' = [hop EXCEPT ![depth] = e]
    /\ weight' = [weight EXCEPT ![depth + 1] = PathWeight]
    /\ UNCHANGED <<inputs, pc, roots, root, allPaths, nodes, records,
                   unconfidence>>

(* Faulty variant: the hops are counted from 0. *)
DescendOnceMore(e) == depth <= policy.maxHops /\ Call(e)

(* findPaths calls itself while hops are left. *)
Descend(e) == depth < policy.maxHops /\ Call(e)

(* Faulty variant: a node stays visited after the call for it returned. *)
ReturnKeepsVisited ==
    /\ pc = "search"
    /\ todo[depth] = {}
    /\ pc' = IF depth = 1 THEN "roots" ELSE pc
    /\ depth' = depth - 1
    /\ UNCHANGED <<inputs, roots, root, current, todo, hop, weight, visited,
                   allPaths, nodes, records, unconfidence>>

(* The loop ends: the call returns, and its caller takes the node off the   *)
(* path again.                                                              *)
Return ==
    /\ pc = "search"
    /\ todo[depth] = {}
    /\ pc' = IF depth = 1 THEN "roots" ELSE pc
    /\ visited' = IF depth = 1 THEN visited ELSE visited \ {current[depth]}
    /\ depth' = depth - 1
    /\ UNCHANGED <<inputs, roots, root, current, todo, hop, weight,
                   allPaths, nodes, records, unconfidence>>

-----------------------------------------------------------------------------
(* A weight as a fraction of 1. *)
Fraction(path) == Ratio(path.weight, One * Power(DecayUnit)[Len(path.hops)])

(* Faulty variant: the target's own weight as a root is left out. *)
ScoreWithoutDirectTrust ==
    LET after[i \in 0..Len(allPaths)] ==
            IF i = 0 THEN Ratio(One, One)
            ELSE LET f == Fraction(allPaths[i])
                 IN  Ratio(after[i - 1].num * (f.den - f.num),
                           after[i - 1].den * f.den)
    IN  after[Len(allPaths)]

DirectTrust ==
    IF target \in DOMAIN policy.roots THEN policy.roots[target] ELSE 0

(* Noisy-OR of the target's own weight and the weights of the paths. *)
Score ==
    LET after[i \in 0..Len(allPaths)] ==
            IF i = 0 THEN Ratio(One - DirectTrust, One)
            ELSE LET f == Fraction(allPaths[i])
                 IN  Ratio(after[i - 1].num * (f.den - f.num),
                           after[i - 1].den * f.den)
    IN  after[Len(allPaths)]

(* Every root is searched: combine the paths and return the result. *)
Combine ==
    /\ pc = "roots"
    /\ roots = {}
    /\ pc' = "done"
    /\ unconfidence' = Score
    /\ UNCHANGED <<inputs, roots, frames, allPaths, nodes, records>>

Next ==
    \/ Validate
    \/ \E r \in roots : TargetIsRoot(r) \/ SearchFrom(r)
    \/ \E e \in DOMAIN edges : SkipEdge(e) \/ ReachTarget(e) \/ Descend(e)
    \/ Return
    \/ Combine

Spec == Init /\ [][Next]_vars

-----------------------------------------------------------------------------
(* Properties *)

(* Every variable keeps its type, and no search goes deeper than MaxHops. *)
TypeOK ==
    /\ IsGraph(edges) /\ IsPolicy(policy) /\ target \in Identities
    /\ pc \in {"validate", "roots", "search", "done", "error"}
    /\ roots \subseteq Identities
    /\ root \in Identities
    /\ depth \in 0..HopLimit
    /\ pc = "search" => depth \in 1..policy.maxHops
    /\ current \in [Frames -> Identities]
    /\ todo \in [Frames -> SUBSET (1..MaxEdge)]
    /\ hop \in [Frames -> 0..MaxEdge]
    /\ weight \in [Frames -> Int]
    /\ visited \subseteq Identities
    /\ nodes \subseteq Identities
    /\ records \subseteq 1..MaxEdge

(* The recursion backtracks exactly: while a search runs, the visited map   *)
(* holds the nodes of the current path and no others, no node is on it      *)
(* twice, and the path is connected: each call was made for the subject of  *)
(* an active endorsement by the node of the call before it.                 *)
VisitedIsCurrentPath ==
    pc = "search" =>
       /\ visited = {current[d] : d \in 1..depth}
       /\ \A c, d \in 1..depth : current[c] = current[d] => c = d
       /\ current[1] = root /\ target \notin visited
       /\ \A d \in 1..(depth - 1) :
             /\ hop[d] \in OutEdges(current[d])
             /\ Neighbor(hop[d]) = current[d + 1]

(* Reference: a simple path of on-topic active endorsements from r to the   *)
(* target, that passes the target only at its end.                          *)
NodeAt(r, p, i) == IF i = 0 THEN r ELSE edges[p[i]].subject

SimplePath(r, p) ==
    /\ \A i \in DOMAIN p :
          /\ edges[p[i]].proposer = NodeAt(r, p, i - 1)
          /\ edges[p[i]].active
          /\ policy.topic \in {"", edges[p[i]].topic}
    /\ \A i, j \in 0..Len(p) : NodeAt(r, p, i) = NodeAt(r, p, j) => i = j
    /\ NodeAt(r, p, Len(p)) = target

(* Reference: the weight of the path does not fall below MinConfidence.     *)
Significant(r, p) ==
    policy.roots[r] * Power(policy.decay)[Len(p)]
       >= policy.min * Power(DecayUnit)[Len(p)]

PathsFrom(r) ==
    {p \in UNION {[1..n -> DOMAIN edges] : n \in 1..policy.maxHops} :
        SimplePath(r, p) /\ Significant(r, p)}

(* p is enumerated before q: they part at an edge of lower sequence. *)
Before(p, q) ==
    \E i \in DOMAIN p \cap DOMAIN q :
       /\ p[i] < q[i]
       /\ \A j \in 1..(i - 1) : p[j] = q[j]

(* The search is complete and reproducible.  When it ends, the traces are   *)
(* the simple active paths of at most MaxHops endorsements, from a root     *)
(* other than the target, whose damped weight is significant: all of them,  *)
(* each once, ordered by root and then by record sequence, whatever cycles, *)
(* parallel edges and shared stretches the graph has.                       *)
FindsEverySimplePath ==
    pc = "done" =>
       /\ {<<t.root, t.hops>> : t \in Range(allPaths)} =
             UNION {{r} \X PathsFrom(r) : r \in DOMAIN policy.roots \ {target}}
       /\ \A i, j \in DOMAIN allPaths :
             i < j => \/ allPaths[i].root < allPaths[j].root
                      \/ /\ allPaths[i].root = allPaths[j].root
                         /\ Before(allPaths[i].hops, allPaths[j].hops)

(* The provenance explains the score and nothing else: its records are the  *)
(* endorsements on the traces, its nodes their parties, and the target when *)
(* it is itself a root.                                                     *)
ProvenanceExact ==
    pc = "done" =>
       LET onPaths == UNION {Range(t.hops) : t \in Range(allPaths)}
       IN  /\ records = onPaths
           /\ nodes = {edges[e].proposer : e \in onPaths}
                      \cup {edges[e].subject : e \in onPaths}
                      \cup (DOMAIN policy.roots \cap {target})

(* The score is a probability that no evidence lowers: it is at least the   *)
(* weight of every path and the target's own weight as a root, and 0 only   *)
(* when there is neither.                                                   *)
ScoreCountsAllEvidence ==
    pc = "done" =>
       LET u == unconfidence
       IN  /\ 0 <= u.num /\ u.num <= u.den
           /\ \A t \in Range(allPaths) :
                 u.num * Fraction(t).den
                    <= (Fraction(t).den - Fraction(t).num) * u.den
           /\ u.num * One <= (One - DirectTrust) * u.den
           /\ u.num = u.den <=> allPaths = <<>> /\ DirectTrust = 0

-----------------------------------------------------------------------------
(* What a comment says of the evaluation, and the code does not do *)

(* "Combine independent paths using noisy-OR": no two of the paths whose    *)
(* weights are multiplied rest on the same record.                          *)
PathsAreIndependent ==
    \A i, j \in DOMAIN allPaths :
       i # j => Range(allPaths[i].hops) \cap Range(allPaths[j].hops) = {}
=============================================================================
