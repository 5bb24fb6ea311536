---------------------------- MODULE MCEvaluator ----------------------------
(* Instances of Evaluator for TLC: every graph with EdgeCount endorsements *)
(* between distinct identities, and the same graphs with some of them      *)
(* revoked or on another topic.                                            *)
EXTENDS Evaluator, TLC

CONSTANTS EdgeCount, Varied    \* endorsements, how many of them vary

Pairs == {p \in Identities \X Identities : p[1] # p[2]}

MCGraphs ==
    {[e \in 1..EdgeCount |->
        [proposer |-> ends[e][1], subject |-> ends[e][2],
         topic |-> IF e \in other THEN "b" ELSE "a",
         active |-> e \notin revoked]] :
       ends \in [1..EdgeCount -> Pairs],
       revoked \in SUBSET (1..Varied), other \in SUBSET (1..Varied)}

MCPolicy(weights, topic, maxHops, decay, min) ==
    [roots |-> weights, topic |-> topic, maxHops |-> maxHops, decay |-> decay,
     min |-> min]

(* One or two roots, with weights at and below 1.0; each way a policy can  *)
(* be invalid; a threshold that cuts paths, one that is met exactly, and   *)
(* none, which stands for the default.                                     *)
MCPolicies ==
    {MCPolicy(1 :> 4, "a", 3, 1, 0), MCPolicy((1 :> 4) @@ (2 :> 2), "", 2, 1, 1),
     MCPolicy((1 :> 2) @@ (3 :> 4), "a", 3, 1, 1), MCPolicy(1 :> 4, "", 1, 1, 1),
     MCPolicy(<<>>, "", 2, 1, 1), MCPolicy(1 :> 5, "", 2, 1, 1),
     MCPolicy(1 :> 0, "", 2, 1, 1), MCPolicy(1 :> 4, "", 0, 1, 1),
     MCPolicy(1 :> 4, "", 2, 2, 1), MCPolicy(1 :> 4, "", 2, 0, 1)}
=============================================================================
