---------------------------- MODULE MCLifecycle ----------------------------
(* Instances of Lifecycle for TLC: two base environments, and every         *)
(* environment that differs from one of them in one variable.               *)
EXTENDS Lifecycle

MCLocal ==
    [port |-> Unset, level |-> Unset, timeout |-> 3, enabled |-> Unset,
     sampler |-> {}, ratio |-> Unset, environment |-> Unset,
     endpoint |-> Unset, project |-> Unset, database |-> TRUE,
     keyReference |-> Unset]

MCProduction ==
    [MCLocal EXCEPT !.enabled = TRUE, !.environment = "production",
                    !.endpoint = "https", !.project = "valid"]

MCVariants(e) ==
    {[e EXCEPT !.port = v] : v \in {0, 1, 65535, 65536, Unparsable}}
    \cup {[e EXCEPT !.level = v] : v \in {"warn", "trace"}}
    \cup {[e EXCEPT !.timeout = v] : v \in {0, 1, 2, 9, 10, Unset, Unparsable}}
    \cup {[e EXCEPT !.enabled = v] : v \in {FALSE, TRUE, Unparsable}}
    \cup {[e EXCEPT !.sampler = v] : v \in {{"OTEL_TRACES_SAMPLER"}}}
    \cup {[e EXCEPT !.ratio = v] : v \in {-1, 0, 1, 2, Unparsable}}
    \cup {[e EXCEPT !.environment = v] : v \in {"staging", "development"}}
    \cup {[e EXCEPT !.endpoint = v] : v \in {Unset, "http loopback", "http remote"}}
    \cup {[e EXCEPT !.project = v] : v \in {Unset, Unparsable}}
    \cup {[e EXCEPT !.database = v] : v \in {FALSE}}
    \cup {[e EXCEPT !.keyReference = v] : v \in {"invalid"}}

MCEnvironments == MCVariants(MCLocal) \cup MCVariants(MCProduction)
MCHanging == {MCProduction, [MCProduction EXCEPT !.timeout = 2]}
=============================================================================
