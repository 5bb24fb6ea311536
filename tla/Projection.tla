----------------------------- MODULE Projection -----------------------------
(***************************************************************************)
(* internal/graph/v1: projectors replay stored ledgers, batch by batch,    *)
(* into in-memory attestation graphs while admission keeps appending.      *)
(*                                                                         *)
(* The ledgers are the abstract logs that admission implements             *)
(* (LedgerLog).  A record digest is a pair <<ledger, sequence>>, which     *)
(* names one record; sequence 0 stands for a digest no record has.  An     *)
(* endorsement is its two parties, a revocation its target, revoker and    *)
(* role; topics, claims, times and reasons do not decide how a record is   *)
(* projected.  Stored payloads were verified and encoded by admission, so  *)
(* decoding them does not fail.                                            *)
(*                                                                         *)
(* Every Graph method holds the graph's lock, but ApplyRecord calls two:   *)
(* it reads LastSequence, and later changes the graph.                     *)
(*                                                                         *)
(*   idle --Replay--> scan --ScanRecords--> check --LastSequence--> apply  *)
(*        apply --next record of the batch--> check                        *)
(*        apply --batch applied--> scan or done                            *)
(***************************************************************************)
EXTENDS LedgerKernel, Sequences, FiniteSets

CONSTANTS Ledgers,
          Identities,      \* public keys
          Projectors,
          BatchSize,       \* records per ScanRecords, 256 in httpapi
          Shared,          \* TRUE when all projectors wrap one graph
          ScanFaults       \* TRUE when ScanRecords may fail

ASSUME BatchAssumption == BatchSize \in Nat \ {0}
ASSUME SharedAssumption == Shared \in BOOLEAN

VARIABLES log,        \* [Ledgers -> the ledger's events in order]
          graph,      \* [Projectors -> the graph it created]
          pc,         \* [Projectors -> where the replay is]
          next,       \* [Projectors -> sequence of the record to apply]
          end,        \* [Projectors -> last sequence of the scanned batch]
          full,       \* projectors whose batch has BatchSize records
          result      \* [Projectors -> error of the last replay, or "ok"]

(* History: the ledger's length when the replay began. *)
VARIABLE floor

local == <<graph, pc, next, end, full, result, floor>>
projectionVars == <<log, local>>

-----------------------------------------------------------------------------
(* Events *)

Roles == {"proposer", "subject"}

GenesisEvent == [kind |-> EventKindLedgerInitialized]

Endorsements ==
    [kind : {EventKindEndorsementAccepted}, proposer : Identities,
     subject : Identities]

Revocations ==
    [kind : {EventKindEndorsementRevoked},
     target : Ledgers \X (0..MaxSequence), revoker : Identities, role : Roles]

Log == INSTANCE LedgerLog WITH
    Genesis <- GenesisEvent, Events <- Endorsements \cup Revocations

(* Admission appends any event whose signatures verify.  What a revocation  *)
(* targets is not looked at, but its digest exists when it is signed.       *)
Admit ==
    /\ \E l \in Ledgers :
          \/ Log!Open(l)
          \/ \E e \in Endorsements : Log!Extend(l, e)
          \/ \E e \in Revocations :
                /\ e.target[2] <= Len(log[e.target[1]])
                /\ Log!Extend(l, e)
    /\ UNCHANGED local

-----------------------------------------------------------------------------
(* Graph: the watermark and the edges, keyed by the sequence of the record  *)
(* that created them.  revocation holds the sequence of the record that     *)
(* revoked the edge; the edge is active while it is empty.                  *)

Graph(l, n, edges) == [ledger |-> l, last |-> n, edges |-> edges]

NewGraph(l) == Graph(l, 0, <<>>)

AttestationEdge(proposer, subject, revocation) ==
    [proposer |-> proposer, subject |-> subject, revocation |-> revocation]

IsActive(edge) == edge.revocation = {}

SetLastSequence(g, n) == Graph(g.ledger, n, g.edges)

(* Faulty variant: the watermark is the sequence to read next. *)
RaiseToNext(last, n) == n + 1

(* AddEdge and RevokeEdge only ever raise the watermark. *)
Raise(last, n) == IF n > last THEN n ELSE last

(* AddEdge returns its error, or "ok", and the graph it leaves. *)
AddEdge(g, n, e) ==
    IF n \in DOMAIN g.edges THEN [err |-> "ErrDuplicateEdge", graph |-> g]
    ELSE [err |-> "ok",
          graph |-> Graph(g.ledger, Raise(g.last, n),
              [i \in DOMAIN g.edges \cup {n} |->
                  IF i = n THEN AttestationEdge(e.proposer, e.subject, {})
                           ELSE g.edges[i]])]

(* Faulty variant: only the revoker's identity is compared, not its role. *)
RevokeErrorAnyParty(g, e) ==
    IF e.target[1] # g.ledger \/ e.target[2] \notin DOMAIN g.edges
    THEN "ErrEdgeNotFound"
    ELSE LET edge == g.edges[e.target[2]]
         IN  IF ~IsActive(edge) THEN "ErrEdgeAlreadyRevoked"
             ELSE IF e.revoker \notin {edge.proposer, edge.subject}
                  THEN "ErrUnauthorizedRevoker"
             ELSE "ok"

RevokeError(g, e) ==
    IF e.target[1] # g.ledger \/ e.target[2] \notin DOMAIN g.edges
    THEN "ErrEdgeNotFound"
    ELSE LET edge == g.edges[e.target[2]]
         IN  IF ~IsActive(edge) THEN "ErrEdgeAlreadyRevoked"
             ELSE IF e.revoker # edge[e.role] THEN "ErrUnauthorizedRevoker"
             ELSE "ok"

(* Faulty variant: a revoked edge is forgotten. *)
RevokeEdgeRemoves(g, n, e) ==
    IF RevokeError(g, e) # "ok" THEN [err |-> RevokeError(g, e), graph |-> g]
    ELSE [err |-> "ok",
          graph |-> Graph(g.ledger, Raise(g.last, n),
              [i \in DOMAIN g.edges \ {e.target[2]} |-> g.edges[i]])]

RevokeEdge(g, n, e) ==
    IF RevokeError(g, e) # "ok" THEN [err |-> RevokeError(g, e), graph |-> g]
    ELSE [err |-> "ok",
          graph |-> Graph(g.ledger, Raise(g.last, n),
              [g.edges EXCEPT ![e.target[2]] =
                  AttestationEdge(@.proposer, @.subject, {n})])]

(* The switch of ApplyRecord; kinds without edges advance the watermark. *)
Project(g, n, e) ==
    CASE e.kind = EventKindEndorsementAccepted -> AddEdge(g, n, e)
      [] e.kind = EventKindEndorsementRevoked -> RevokeEdge(g, n, e)
      [] OTHER -> [err |-> "ok", graph |-> SetLastSequence(g, n)]

-----------------------------------------------------------------------------
(* Projectors *)

(* The graph a projector works on. *)
Home(p) == IF Shared THEN CHOOSE q \in Projectors : TRUE ELSE p
GraphOf(p) == graph[Home(p)]
Events(p) == log[GraphOf(p).ledger]

Init ==
    /\ Log!LogInit
    /\ graph \in [Projectors -> {NewGraph(l) : l \in Ledgers}]
    /\ pc = [p \in Projectors |-> "idle"]
    /\ next = [p \in Projectors |-> 0]
    /\ end = [p \in Projectors |-> 0]
    /\ full = {}
    /\ result = [p \in Projectors |-> "none"]
    /\ floor = [p \in Projectors |-> 0]

(* ReplayFromStore is called: on the fresh graph of NewProjector, on one    *)
(* wrapped by NewProjectorWithGraph, or again to catch up.                  *)
Replay(p) ==
    /\ pc[p] \in {"idle", "done"}
    /\ pc' = [pc EXCEPT ![p] = "scan"]
    /\ floor' = [floor EXCEPT ![p] = Len(Events(p))]
    /\ result' = [result EXCEPT ![p] = "none"]
    /\ UNCHANGED <<log, graph, next, end, full>>

Goto(p, place) == pc' = [pc EXCEPT ![p] = place] /\ UNCHANGED result

Finish(p, err) ==
    /\ pc' = [pc EXCEPT ![p] = "done"]
    /\ result' = [result EXCEPT ![p] = err]

(* ScanRecords: the bounds of the first BatchSize rows from a sequence on,  *)
(* 0 and 1 being the same place to start.                                   *)
ScanRecords(l, from) ==
    LET first == IF from = 0 THEN 1 ELSE from
        limit == first + BatchSize - 1
    IN  [first |-> first,
         last |-> IF limit < Len(log[l]) THEN limit ELSE Len(log[l])]

(* Scan the batch after the watermark; an empty one ends the replay. *)
Scan(p) ==
    LET rows == ScanRecords(GraphOf(p).ledger, NextSequence(GraphOf(p).last))
    IN  /\ pc[p] = "scan"
        /\ next' = [next EXCEPT ![p] = rows.first]
        /\ end' = [end EXCEPT ![p] = rows.last]
        /\ full' = IF rows.last = rows.first + BatchSize - 1
                   THEN full \cup {p} ELSE full \ {p}
        /\ IF rows.first <= rows.last THEN Goto(p, "check")
                                      ELSE Finish(p, "ok")
        /\ UNCHANGED <<log, graph, floor>>

ScanFails(p) ==
    /\ ScanFaults
    /\ pc[p] = "scan"
    /\ Finish(p, "scan failed")
    /\ UNCHANGED <<log, graph, next, end, full, floor>>

(* ApplyRecord compares the record's sequence with the watermark. *)
CheckSequence(p) ==
    LET last == GraphOf(p).last
    IN  /\ pc[p] = "check"
        /\ IF next[p] = (IF last = 0 THEN 1 ELSE NextSequence(last))
           THEN Goto(p, "apply")
           ELSE Finish(p, "ErrSequenceBreak")
        /\ UNCHANGED <<log, graph, next, end, full, floor>>

(* Faulty variant: the replay ends with its first batch. *)
ContinueOnce(p) == IF next[p] < end[p] THEN Goto(p, "check")
                                       ELSE Finish(p, "ok")

(* Where the loops of ReplayFromStore go after a record: to the next record *)
(* of the batch, to the next batch, or out after a short batch.             *)
Continue(p) ==
    CASE next[p] < end[p] -> Goto(p, "check")
      [] next[p] = end[p] /\ p \in full -> Goto(p, "scan")
      [] OTHER -> Finish(p, "ok")

(* ApplyRecord projects the record. *)
ApplyRecord(p) ==
    LET n == next[p]
        projected == Project(GraphOf(p), n, Events(p)[n])
    IN  /\ pc[p] = "apply"
        /\ graph' = [graph EXCEPT ![Home(p)] = projected.graph]
        /\ IF projected.err = "ok"
           THEN next' = [next EXCEPT ![p] = n + 1] /\ Continue(p)
           ELSE UNCHANGED next /\ Finish(p, projected.err)
        /\ UNCHANGED <<log, end, full, floor>>

ProjectorStep(p) ==
    Scan(p) \/ ScanFails(p) \/ CheckSequence(p) \/ ApplyRecord(p)

Next == Admit \/ \E p \in Projectors : Replay(p) \/ ProjectorStep(p)

Spec == Init /\ [][Next]_projectionVars

-----------------------------------------------------------------------------
(* Properties *)

Errors ==
    {"scan failed", "ErrSequenceBreak", "ErrDuplicateEdge", "ErrEdgeNotFound",
     "ErrEdgeAlreadyRevoked", "ErrUnauthorizedRevoker"}

Edges == [proposer : Identities, subject : Identities,
          revocation : SUBSET (1..MaxSequence)]

(* Every variable keeps its type. *)
TypeOK ==
    /\ log \in [Ledgers -> Seq({GenesisEvent} \cup Endorsements
                                              \cup Revocations)]
    /\ \A p \in Projectors :
          /\ graph[p].ledger \in Ledgers
          /\ graph[p].last \in 0..MaxSequence
          /\ DOMAIN graph[p].edges \subseteq 1..MaxSequence
          /\ \A n \in DOMAIN graph[p].edges : graph[p].edges[n] \in Edges
    /\ pc \in [Projectors -> {"idle", "scan", "check", "apply", "done"}]
    /\ next \in [Projectors -> 0..(MaxSequence + 1)]
    /\ end \in [Projectors -> 0..MaxSequence]
    /\ full \subseteq Projectors
    /\ result \in [Projectors -> Errors \cup {"none", "ok"}]
    /\ floor \in [Projectors -> 0..MaxSequence]

(* Reference: the sequences, up to k, of the records of l that revoke the   *)
(* endorsement at n.                                                        *)
RevokersOf(l, n, k) ==
    {m \in 1..k : /\ log[l][m].kind = EventKindEndorsementRevoked
                  /\ log[l][m].target = <<l, n>>}

(* Reference: the edges that the first k records of l stand for. *)
ProjectionOf(l, k) ==
    [n \in {i \in 1..k : log[l][i].kind = EventKindEndorsementAccepted} |->
        AttestationEdge(log[l][n].proposer, log[l][n].subject,
                        RevokersOf(l, n, k))]

(* Reference: the record at n makes sense after the records before it: a    *)
(* revocation is the first one of an earlier endorsement of this ledger, by *)
(* the party it says it is.                                                 *)
Meaningful(l, n) ==
    LET e == log[l][n]
    IN  e.kind = EventKindEndorsementRevoked =>
           /\ e.target[1] = l
           /\ e.target[2] \in 1..(n - 1)
           /\ log[l][e.target[2]].kind = EventKindEndorsementAccepted
           /\ e.revoker = log[l][e.target[2]][e.role]
           /\ RevokersOf(l, e.target[2], n - 1) = {}

(* At every moment of a replay, whatever admission appends between its      *)
(* batches, a private graph is exactly what the records up to its watermark *)
(* stand for: no record is skipped, applied twice or read from a later      *)
(* state, and an edge is inactive because of exactly one earlier record.    *)
(* Two evaluations that report the same sequence used the same graph.       *)
GraphIsProjection ==
    \A p \in Projectors :
       /\ graph[p].last <= Len(log[graph[p].ledger])
       /\ graph[p].edges = ProjectionOf(graph[p].ledger, graph[p].last)

(* A replay that returns without error has applied everything that was      *)
(* admitted before it was called, over as many batches as that takes: an    *)
(* evaluation sees every record whose admission was answered before it.     *)
ReplayIsFresh ==
    \A p \in Projectors :
       result[p] = "ok" => GraphOf(p).last >= floor[p]

(* A private replay is refused only by the ledger itself: it stops exactly  *)
(* before the first record that makes no sense, and never passes one.  The  *)
(* one other reason is a caught-up graph at the last sequence of all, whose *)
(* successor wraps to 0.                                                    *)
StopsAtFirstMeaningless ==
    \A p \in Projectors :
       LET g == graph[p]
           n == g.last + 1
       IN  /\ \A m \in 1..g.last : Meaningful(g.ledger, m)
           /\ result[p] \in Errors \ {"scan failed"} =>
                 \/ n <= Len(log[g.ledger]) /\ ~Meaningful(g.ledger, n)
                 \/ result[p] = "ErrSequenceBreak" /\ g.last = MaxSequence

-----------------------------------------------------------------------------
(* What documents and comments say of the projection, and the code does not *)
(* do                                                                       *)

(* Replay from genesis reproduces the chain head and state: the projection  *)
(* of a ledger that admission wrote does not fail.                          *)
EveryReplaySucceeds ==
    \A p \in Projectors : result[p] \in {"none", "ok", "scan failed"}

(* Graph.LastSequence returns the highest sequence number processed into    *)
(* the graph, for a graph that is safe to share between threads.            *)
WatermarkIsHighest ==
    \A p \in Projectors :
       \A n \in DOMAIN GraphOf(p).edges : n <= GraphOf(p).last
=============================================================================
