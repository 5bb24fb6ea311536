--------------------------- MODULE ProjectionProofs ---------------------------
(***************************************************************************)
(* A projector with a graph of its own, as every evaluation has one,       *)
(* computes what the ledger means, for ledgers, batches and identities of  *)
(* any number.                                                             *)
(***************************************************************************)
EXTENDS Projection, TLAPS

Entries == {GenesisEvent} \cup Endorsements \cup Revocations

(* A revocation names a record that existed when it was signed. *)
TargetPrecedes(l, m) ==
    /\ log[l][m].kind = EventKindEndorsementRevoked
    /\ log[l][m].target[1] = l
    => log[l][m].target[2] < m

LogInv ==
    /\ log \in [Ledgers -> Seq(Entries)]
    /\ \A l \in Ledgers :
          /\ Len(log[l]) <= MaxSequence
          /\ \A m \in 1..Len(log[l]) : TargetPrecedes(l, m)

(* The graph that the first k records of l stand for. *)
GraphAt(l, k) == Graph(l, k, ProjectionOf(l, k))

(* NewGraph is the meaning of no records. *)
LEMMA EmptyGraph ==
    ASSUME LogInv, NEW l \in Ledgers
    PROVE  NewGraph(l) = GraphAt(l, 0)
<1>1. {i \in 1..0 : log[l][i].kind = EventKindEndorsementAccepted} = {}
  OBVIOUS
<1>2. ProjectionOf(l, 0) = <<>>
  BY <1>1 DEF ProjectionOf
<1> QED
  BY Zenon, <1>2 DEF NewGraph, GraphAt

(* The kind of a stored record decides its type. *)
LEMMA EntryTypes ==
    ASSUME LogInv, NEW l \in Ledgers, NEW m \in 1..Len(log[l])
    PROVE  /\ log[l][m].kind \in {1, 2, 3}
           /\ log[l][m].kind = EventKindEndorsementAccepted =>
                 log[l][m] \in Endorsements
           /\ log[l][m].kind = EventKindEndorsementRevoked =>
                 log[l][m] \in Revocations
<1>1. log[l][m] \in Entries
  BY DEF LogInv
<1> QED
  BY <1>1 DEF Entries, GenesisEvent, Endorsements, Revocations,
              EventKindLedgerInitialized, EventKindEndorsementAccepted,
              EventKindEndorsementRevoked

(* What the record at k + 1 adds to the revocations of the one at n. *)
LEMMA RevokersStep ==
    ASSUME LogInv, NEW l \in Ledgers, NEW k \in Nat, k + 1 \in 1..Len(log[l]),
           NEW n \in Nat
    PROVE  RevokersOf(l, n, k + 1) =
              IF /\ log[l][k + 1].kind = EventKindEndorsementRevoked
                 /\ log[l][k + 1].target = <<l, n>>
              THEN RevokersOf(l, n, k) \cup {k + 1}
              ELSE RevokersOf(l, n, k)
  BY DEF RevokersOf

(* Nothing up to its own position revokes a record. *)
LEMMA NoEarlyRevoker ==
    ASSUME LogInv, NEW l \in Ledgers, NEW n \in 1..Len(log[l])
    PROVE  RevokersOf(l, n, n) = {}
<1>1. ASSUME NEW m \in 1..n,
             log[l][m].kind = EventKindEndorsementRevoked,
             log[l][m].target = <<l, n>>
      PROVE  FALSE
  <2>1. m \in 1..Len(log[l])
    BY DEF LogInv
  <2>2. TargetPrecedes(l, m)
    BY Zenon, <2>1 DEF LogInv
  <2> QED
    BY <1>1, <2>2 DEF TargetPrecedes
<1> QED
  BY Zenon, <1>1 DEF RevokersOf

(* Projecting the endorsement after the watermark. *)
LEMMA AddStep ==
    ASSUME LogInv, NEW l \in Ledgers, NEW k \in Nat, k + 1 \in 1..Len(log[l]),
           log[l][k + 1].kind = EventKindEndorsementAccepted
    PROVE  AddEdge(GraphAt(l, k), k + 1, log[l][k + 1]) =
              [err |-> "ok", graph |-> GraphAt(l, k + 1)]
<1> DEFINE n == k + 1
           g == GraphAt(l, k)
           D(i) == {j \in 1..i : log[l][j].kind = EventKindEndorsementAccepted}
           e == log[l][n]
           new == [i \in DOMAIN g.edges \cup {n} |->
                     IF i = n THEN AttestationEdge(e.proposer, e.subject, {})
                              ELSE g.edges[i]]
<1>1. g.edges = ProjectionOf(l, k) /\ DOMAIN g.edges = D(k) /\ g.last = k
  BY Zenon DEF GraphAt, Graph, ProjectionOf
<1>2. n \notin DOMAIN g.edges
  BY <1>1
<1>3. D(n) = D(k) \cup {n}
  OBVIOUS
<1>4. RevokersOf(l, n, n) = {}
  BY Zenon, NoEarlyRevoker
<1>5. \A i \in D(k) : RevokersOf(l, i, n) = RevokersOf(l, i, k)
  <2>1. log[l][n].kind # EventKindEndorsementRevoked
    BY DEF EventKindEndorsementAccepted, EventKindEndorsementRevoked
  <2>2. \A i \in D(k) : i \in Nat
    OBVIOUS
  <2> QED
    BY Zenon, <2>1, <2>2, RevokersStep
<1>6. new = ProjectionOf(l, n)
  <2>1. \A i \in D(k) : g.edges[i] = ProjectionOf(l, n)[i]
    BY <1>1, <1>3, <1>5 DEF ProjectionOf
  <2>2. ProjectionOf(l, n)[n] = AttestationEdge(e.proposer, e.subject, {})
    BY Zenon, <1>3, <1>4 DEF ProjectionOf
  <2>3. DOMAIN ProjectionOf(l, n) = D(n)
    BY Zenon DEF ProjectionOf
  <2>4. ProjectionOf(l, n) = [i \in D(n) |-> ProjectionOf(l, n)[i]]
    BY Zenon, <2>3 DEF ProjectionOf
  <2> HIDE DEF D
  <2>5. new = [i \in D(n) |-> ProjectionOf(l, n)[i]]
    BY Zenon, <1>1, <1>2, <1>3, <2>1, <2>2
  <2> QED
    BY Zenon, <2>4, <2>5
<1>7. Graph(g.ledger, Raise(g.last, n), new) = GraphAt(l, n)
  <2>1. Raise(g.last, n) = n /\ g.ledger = l
    BY <1>1 DEF Raise, GraphAt, Graph
  <2> QED
    BY Zenon, <2>1, <1>6 DEF GraphAt
<1> QED
  BY Zenon, <1>2, <1>7 DEF AddEdge

(* RevokeEdge refuses exactly the revocations that make no sense. *)
LEMMA RevokeErrorMeaning ==
    ASSUME LogInv, NEW l \in Ledgers, NEW k \in Nat, k + 1 \in 1..Len(log[l]),
           log[l][k + 1].kind = EventKindEndorsementRevoked
    PROVE  /\ RevokeError(GraphAt(l, k), log[l][k + 1]) = "ok"
                 <=> Meaningful(l, k + 1)
           /\ RevokeError(GraphAt(l, k), log[l][k + 1]) \in
                 {"ok", "ErrEdgeNotFound", "ErrEdgeAlreadyRevoked",
                  "ErrUnauthorizedRevoker"}
<1> DEFINE n == k + 1
           g == GraphAt(l, k)
           e == log[l][n]
           t == e.target[2]
           D == {j \in 1..k : log[l][j].kind = EventKindEndorsementAccepted}
<1>1. g.ledger = l /\ g.edges = ProjectionOf(l, k) /\ DOMAIN g.edges = D
  BY Zenon DEF GraphAt, Graph, ProjectionOf
<1>2. e \in Revocations
  BY Zenon, EntryTypes
<1>3. /\ e.role \in {"proposer", "subject"}
      /\ e.target \in Ledgers \X (0..MaxSequence)
  BY Zenon, <1>2 DEF Revocations, Roles
<1>4. 1..(n - 1) = 1..k /\ RevokersOf(l, t, n - 1) = RevokersOf(l, t, k)
  <2>1. n - 1 = k
    OBVIOUS
  <2> QED
    BY Zenon, <2>1
<1>5. ASSUME t \in D
      PROVE  /\ g.edges[t].revocation = RevokersOf(l, t, k)
             /\ g.edges[t][e.role] = log[l][t][e.role]
  <2>1. g.edges[t] = AttestationEdge(log[l][t].proposer, log[l][t].subject,
                                     RevokersOf(l, t, k))
    BY Zenon, <1>1, <1>5 DEF ProjectionOf
  <2>2. CASE e.role = "proposer"
    BY <2>1, <2>2 DEF AttestationEdge
  <2>3. CASE e.role = "subject"
    BY <2>1, <2>3 DEF AttestationEdge
  <2> QED
    BY Zenon, <1>3, <2>2, <2>3
<1>6. CASE e.target[1] = l /\ t \in D
  <2> DEFINE edge == g.edges[t]
  <2>1. Meaningful(l, n) <=> /\ e.revoker = log[l][t][e.role]
                             /\ RevokersOf(l, t, k) = {}
    BY Zenon, <1>4, <1>6 DEF Meaningful
  <2>2. RevokeError(g, e) =
           IF ~IsActive(edge) THEN "ErrEdgeAlreadyRevoked"
           ELSE IF e.revoker # edge[e.role] THEN "ErrUnauthorizedRevoker"
           ELSE "ok"
    BY Zenon, <1>1, <1>6 DEF RevokeError
  <2>3. IsActive(edge) <=> RevokersOf(l, t, k) = {}
    BY Zenon, <1>5, <1>6 DEF IsActive
  <2> QED
    BY Zenon, <2>1, <2>2, <2>3, <1>5, <1>6
<1>7. CASE ~(e.target[1] = l /\ t \in D)
  <2>1. ~Meaningful(l, n)
    BY Zenon, <1>4, <1>7 DEF Meaningful
  <2>2. RevokeError(g, e) = "ErrEdgeNotFound"
    BY Zenon, <1>1, <1>7 DEF RevokeError
  <2> QED
    BY Zenon, <2>1, <2>2
<1> QED
  BY Zenon, <1>6, <1>7

(* Projecting a revocation that makes sense. *)
LEMMA RevokeStep ==
    ASSUME LogInv, NEW l \in Ledgers, NEW k \in Nat, k + 1 \in 1..Len(log[l]),
           log[l][k + 1].kind = EventKindEndorsementRevoked,
           Meaningful(l, k + 1)
    PROVE  RevokeEdge(GraphAt(l, k), k + 1, log[l][k + 1]) =
              [err |-> "ok", graph |-> GraphAt(l, k + 1)]
<1> DEFINE n == k + 1
           g == GraphAt(l, k)
           e == log[l][n]
           t == e.target[2]
           D(i) == {j \in 1..i : log[l][j].kind = EventKindEndorsementAccepted}
           new == [g.edges EXCEPT ![t] =
                      AttestationEdge(@.proposer, @.subject, {n})]
<1>1. /\ g.ledger = l /\ g.last = k
      /\ g.edges = ProjectionOf(l, k) /\ DOMAIN g.edges = D(k)
  BY Zenon DEF GraphAt, Graph, ProjectionOf
<1>2. D(n) = D(k)
  BY DEF EventKindEndorsementAccepted, EventKindEndorsementRevoked
<1>3. e \in Revocations
  BY Zenon, EntryTypes
<1>4. e.target \in Ledgers \X (0..MaxSequence)
  BY Zenon, <1>3 DEF Revocations
<1>5. e.target[1] = l /\ t \in D(k) /\ RevokersOf(l, t, k) = {}
  <2>1. n - 1 = k
    OBVIOUS
  <2> QED
    BY Zenon, <2>1 DEF Meaningful
<1>6. e.target = <<l, t>>
  BY <1>4, <1>5
<1>7. RevokersOf(l, t, n) = {n}
  <2>1. t \in Nat
    BY <1>5
  <2> QED
    BY Zenon, <1>5, <1>6, <2>1, RevokersStep
<1>8. \A i \in D(k) : i # t => RevokersOf(l, i, n) = RevokersOf(l, i, k)
  <2>1. \A i \in D(k) : i \in Nat
    OBVIOUS
  <2>2. \A i \in D(k) : i # t => e.target # <<l, i>>
    BY <1>6
  <2> QED
    BY Zenon, <2>1, <2>2, RevokersStep
<1>9. new = ProjectionOf(l, n)
  <2>1. \A i \in D(k) : i # t => g.edges[i] = ProjectionOf(l, n)[i]
    BY Zenon, <1>1, <1>2, <1>8 DEF ProjectionOf
  <2>2. ProjectionOf(l, n)[t] =
           AttestationEdge(log[l][t].proposer, log[l][t].subject, {n})
    BY Zenon, <1>2, <1>5, <1>7 DEF ProjectionOf
  <2>3. g.edges[t].proposer = log[l][t].proposer
        /\ g.edges[t].subject = log[l][t].subject
    <3>1. g.edges[t] = AttestationEdge(log[l][t].proposer, log[l][t].subject,
                                       RevokersOf(l, t, k))
      BY Zenon, <1>1, <1>5 DEF ProjectionOf
    <3> QED
      BY <3>1 DEF AttestationEdge
  <2>4. ProjectionOf(l, n) = [i \in D(k) |-> ProjectionOf(l, n)[i]]
    BY Zenon, <1>2 DEF ProjectionOf
  <2> HIDE DEF D
  <2>5. new = [i \in D(k) |-> ProjectionOf(l, n)[i]]
    BY Zenon, <1>1, <1>5, <2>1, <2>2, <2>3
  <2> QED
    BY Zenon, <2>4, <2>5
<1>10. Graph(g.ledger, Raise(g.last, n), new) = GraphAt(l, n)
  <2>1. Raise(g.last, n) = n
    BY <1>1 DEF Raise
  <2> QED
    BY Zenon, <1>1, <1>9, <2>1 DEF GraphAt
<1>11. RevokeError(g, e) = "ok"
  BY Zenon, RevokeErrorMeaning
<1> QED
  BY Zenon, <1>10, <1>11 DEF RevokeEdge

(* Projecting a record of another kind. *)
LEMMA QuietStep ==
    ASSUME LogInv, NEW l \in Ledgers, NEW k \in Nat, k + 1 \in 1..Len(log[l]),
           log[l][k + 1].kind \notin {EventKindEndorsementAccepted,
                                      EventKindEndorsementRevoked}
    PROVE  SetLastSequence(GraphAt(l, k), k + 1) = GraphAt(l, k + 1)
<1> DEFINE n == k + 1
           D(i) == {j \in 1..i : log[l][j].kind = EventKindEndorsementAccepted}
<1>1. D(n) = D(k)
  OBVIOUS
<1>2. \A i \in D(k) : RevokersOf(l, i, n) = RevokersOf(l, i, k)
  <2>1. \A i \in D(k) : i \in Nat
    OBVIOUS
  <2> QED
    BY Zenon, <2>1, RevokersStep
<1>3. ProjectionOf(l, n) = ProjectionOf(l, k)
  BY Zenon, <1>1, <1>2 DEF ProjectionOf
<1> QED
  BY Zenon, <1>3 DEF SetLastSequence, GraphAt, Graph

(* ApplyRecord on the record after the watermark: it is projected if it     *)
(* makes sense, and refused, leaving the graph alone, if not.               *)
LEMMA ProjectStep ==
    ASSUME LogInv, NEW l \in Ledgers, NEW k \in Nat, k + 1 \in 1..Len(log[l])
    PROVE  LET r == Project(GraphAt(l, k), k + 1, log[l][k + 1])
           IN  IF Meaningful(l, k + 1)
               THEN r.err = "ok" /\ r.graph = GraphAt(l, k + 1)
               ELSE /\ r.err \in Errors \ {"ErrSequenceBreak", "scan failed"}
                    /\ r.graph = GraphAt(l, k)
<1> DEFINE e == log[l][k + 1]
<1>1. CASE e.kind = EventKindEndorsementAccepted
  <2>1. Meaningful(l, k + 1)
    BY <1>1 DEF Meaningful, EventKindEndorsementAccepted,
                EventKindEndorsementRevoked
  <2>2. Project(GraphAt(l, k), k + 1, e) = AddEdge(GraphAt(l, k), k + 1, e)
    BY <1>1 DEF Project, EventKindEndorsementAccepted,
                EventKindEndorsementRevoked
  <2>3. AddEdge(GraphAt(l, k), k + 1, e) =
           [err |-> "ok", graph |-> GraphAt(l, k + 1)]
    BY Zenon, <1>1, AddStep
  <2> QED
    BY <2>1, <2>2, <2>3
<1>2. CASE e.kind = EventKindEndorsementRevoked
  <2>1. Project(GraphAt(l, k), k + 1, e) = RevokeEdge(GraphAt(l, k), k + 1, e)
    BY <1>2 DEF Project, EventKindEndorsementAccepted,
                EventKindEndorsementRevoked
  <2>2. CASE Meaningful(l, k + 1)
    <3>1. RevokeEdge(GraphAt(l, k), k + 1, e) =
             [err |-> "ok", graph |-> GraphAt(l, k + 1)]
      BY Zenon, <1>2, <2>2, RevokeStep
    <3> QED
      BY <2>1, <2>2, <3>1
  <2>3. CASE ~Meaningful(l, k + 1)
    <3> DEFINE cause == RevokeError(GraphAt(l, k), e)
    <3>1. cause \in {"ErrEdgeNotFound", "ErrEdgeAlreadyRevoked",
                   "ErrUnauthorizedRevoker"}
      BY Zenon, <1>2, <2>3, RevokeErrorMeaning
    <3>2. RevokeEdge(GraphAt(l, k), k + 1, e) =
             [err |-> cause, graph |-> GraphAt(l, k)]
      BY Zenon, <3>1 DEF RevokeEdge
    <3>3. cause \in Errors \ {"ErrSequenceBreak", "scan failed"}
      BY Zenon, <3>1 DEF Errors
    <3> HIDE DEF cause
    <3>4. /\ Project(GraphAt(l, k), k + 1, e).err = cause
          /\ Project(GraphAt(l, k), k + 1, e).graph = GraphAt(l, k)
      BY <2>1, <3>2
    <3> QED
      BY Zenon, <2>3, <3>3, <3>4
  <2> QED
    BY Zenon, <2>2, <2>3
<1>3. CASE e.kind \notin {EventKindEndorsementAccepted,
                          EventKindEndorsementRevoked}
  <2>1. Meaningful(l, k + 1)
    BY Zenon, <1>3 DEF Meaningful
  <2> QED
    BY Zenon, <1>3, <2>1, QuietStep DEF Project
<1> QED
  BY Zenon, <1>1, <1>2, <1>3

-------------------------------------------------------------------------------
(* The log under a replay *)

(* What is appended leaves the records before it alone. *)
Grows ==
    \A l \in Ledgers :
       /\ Len(log[l]) \in Nat /\ Len(log'[l]) \in Nat
       /\ Len(log[l]) <= Len(log'[l])
       /\ \A m \in 1..Len(log[l]) : log'[l][m] = log[l][m]

(* Admission appends at the end of one ledger. *)
LEMMA AdmitGrows ==
    ASSUME LogInv, Admit
    PROVE  LogInv' /\ Grows
<1>1. PICK l \in Ledgers, e \in Entries :
         /\ log' = [log EXCEPT ![l] = Append(@, e)]
         /\ Len(log[l]) < MaxSequence
         /\ e.kind = EventKindEndorsementRevoked =>
               e.target[2] <= Len(log[e.target[1]])
  <2>1. CASE \E l \in Ledgers : Log!Open(l)
    <3>1. PICK l \in Ledgers : Log!Open(l)
      BY Zenon, <2>1
    <3>2. log[l] = <<>> /\ Append(<<>>, GenesisEvent) = <<GenesisEvent>>
          /\ Len(log[l]) = 0
      BY <3>1 DEF Log!Open
    <3>3. log' = [log EXCEPT ![l] = Append(log[l], GenesisEvent)]
      BY Zenon, <3>1, <3>2 DEF Log!Open
    <3>4. GenesisEvent.kind # EventKindEndorsementRevoked
      BY DEF GenesisEvent, EventKindLedgerInitialized,
             EventKindEndorsementRevoked
    <3>5. GenesisEvent \in Entries /\ Len(log[l]) < MaxSequence
      BY <3>2, MaxSequenceAssumption DEF Entries
    <3> QED
      BY Zenon, <3>3, <3>4, <3>5
  <2>2. CASE \E l \in Ledgers : \E e \in Endorsements : Log!Extend(l, e)
    <3>1. PICK l \in Ledgers, e \in Endorsements : Log!Extend(l, e)
      BY Zenon, <2>2
    <3>2. e.kind # EventKindEndorsementRevoked
      BY DEF Endorsements, EventKindEndorsementAccepted,
             EventKindEndorsementRevoked
    <3> QED
      BY Zenon, <3>1, <3>2 DEF Log!Extend, Entries
  <2>3. CASE \E l \in Ledgers : \E e \in Revocations :
                /\ e.target[2] <= Len(log[e.target[1]])
                /\ Log!Extend(l, e)
    BY Zenon, <2>3 DEF Log!Extend, Entries
  <2> QED
    BY Zenon, <2>1, <2>2, <2>3 DEF Admit
<1>2. log[l] \in Seq(Entries) /\ Len(log[l]) \in Nat
  BY DEF LogInv
<1>3. /\ log'[l] = Append(log[l], e)
      /\ \A q \in Ledgers : q # l => log'[q] = log[q]
      /\ log' \in [Ledgers -> Seq(Entries)]
  BY <1>1, <1>2 DEF LogInv
<1>4. /\ Len(log'[l]) = Len(log[l]) + 1
      /\ \A m \in 1..Len(log[l]) : log'[l][m] = log[l][m]
      /\ log'[l][Len(log[l]) + 1] = e
  BY <1>2, <1>3
<1>5. \A q \in Ledgers : Len(log[q]) \in Nat
  BY DEF LogInv
<1>6. Grows
  <2>1. ASSUME NEW q \in Ledgers
        PROVE  /\ Len(log'[q]) \in Nat /\ Len(log[q]) <= Len(log'[q])
               /\ \A m \in 1..Len(log[q]) : log'[q][m] = log[q][m]
    <3>1. CASE q = l
      BY <3>1, <1>4, <1>5
    <3>2. CASE q # l
      BY <3>2, <1>3, <1>5
    <3> QED
      BY Zenon, <3>1, <3>2
  <2> QED
    BY Zenon, <2>1, <1>5 DEF Grows
<1>7. ASSUME NEW q \in Ledgers
      PROVE  /\ Len(log'[q]) <= MaxSequence
             /\ \A m \in 1..Len(log'[q]) : TargetPrecedes(q, m)'
  <2>1. CASE q # l
    BY Zenon, <2>1, <1>3 DEF LogInv, TargetPrecedes
  <2>2. CASE q = l
    <3>1. Len(log'[q]) <= MaxSequence
      BY <2>2, <1>1, <1>2, <1>4, MaxSequenceAssumption
    <3>2. ASSUME NEW m \in 1..Len(log[l]) PROVE TargetPrecedes(l, m)'
      BY Zenon, <1>4 DEF LogInv, TargetPrecedes
    <3>3. ASSUME NEW m \in 1..Len(log'[l]), m = Len(log[l]) + 1
          PROVE  TargetPrecedes(l, m)'
      <4>1. SUFFICES ASSUME e.kind = EventKindEndorsementRevoked,
                            e.target[1] = l
                     PROVE  e.target[2] < m
        BY Zenon, <1>4, <3>3 DEF TargetPrecedes
      <4>2. e \in Revocations
        BY <4>1 DEF Entries, GenesisEvent, Endorsements, Revocations,
                    EventKindLedgerInitialized, EventKindEndorsementAccepted,
                    EventKindEndorsementRevoked
      <4>3. e.target[2] \in Int
        BY <4>2, MaxSequenceAssumption DEF Revocations
      <4> QED
        BY <3>3, <4>1, <4>3, <1>1, <1>2
    <3>4. \A m \in 1..Len(log'[l]) :
             m \in 1..Len(log[l]) \/ m = Len(log[l]) + 1
      BY <1>2, <1>4
    <3> QED
      BY Zenon, <2>2, <3>1, <3>2, <3>3, <3>4
  <2> QED
    BY Zenon, <2>1, <2>2
<1> QED
  BY Zenon, <1>3, <1>6, <1>7 DEF LogInv

(* What the records up to k mean does not depend on later ones. *)
LEMMA MeaningStable ==
    ASSUME LogInv, Grows, NEW l \in Ledgers, NEW k \in 0..Len(log[l])
    PROVE  /\ GraphAt(l, k)' = GraphAt(l, k)
           /\ \A m \in 1..k : Meaningful(l, m)' <=> Meaningful(l, m)
<1>1. /\ Len(log[l]) \in Nat
      /\ \A m \in 1..Len(log[l]) : log'[l][m] = log[l][m]
  BY Zenon DEF Grows
<1>2. \A i \in 0..k : \A n : RevokersOf(l, n, i)' = RevokersOf(l, n, i)
  BY <1>1 DEF RevokersOf
<1>3. \A m \in 1..k : log'[l][m] = log[l][m]
  BY <1>1
<1>4. ProjectionOf(l, k)' = ProjectionOf(l, k)
  BY <1>2, <1>3 DEF ProjectionOf
<1>5. ASSUME NEW m \in 1..k PROVE Meaningful(l, m)' <=> Meaningful(l, m)
  <2>1. m - 1 \in 0..k /\ \A i \in 1..(m - 1) : log'[l][i] = log[l][i]
    BY <1>3
  <2>2. \A n : RevokersOf(l, n, m - 1)' = RevokersOf(l, n, m - 1)
    BY Zenon, <1>2, <2>1
  <2> QED
    BY Zenon, <1>3, <2>1, <2>2 DEF Meaningful
<1> QED
  BY Zenon, <1>4, <1>5 DEF GraphAt

-------------------------------------------------------------------------------
(* The inductive invariant *)

(* Where a replay of l that has applied k records can be.  The batch lies   *)
(* within the ledger, and a short one reaches past what was there when the  *)
(* replay began; the record to apply is the next one, unless the watermark  *)
(* has reached the last sequence.                                           *)
Position(p, l, k) ==
    /\ floor[p] \in 0..Len(log[l])
    /\ pc[p] \in {"idle", "scan", "check", "apply", "done"}
    /\ pc[p] # "done" => result[p] = "none"
    /\ pc[p] \in {"check", "apply"} =>
          /\ end[p] \in 1..Len(log[l])
          /\ next[p] \in 1..end[p]
          /\ p \notin full => floor[p] <= end[p]
    /\ pc[p] = "check" => next[p] = k + 1 \/ k = MaxSequence
    /\ pc[p] = "apply" => next[p] = k + 1

(* What the result of a replay says about l and the k records applied. *)
Verdict(p, l, k) ==
    /\ result[p] = "ok" => floor[p] <= k
    /\ result[p] \in Errors \ {"scan failed"} =>
          \/ k < Len(log[l]) /\ ~Meaningful(l, k + 1)
          \/ result[p] = "ErrSequenceBreak" /\ k = MaxSequence

(* The part of the invariant for one projector. *)
At(p, l, k) ==
    /\ k \in 0..Len(log[l])
    /\ graph[p] = GraphAt(l, k)
    /\ \A m \in 1..k : Meaningful(l, m)
    /\ Position(p, l, k)
    /\ Verdict(p, l, k)

ReplayInv(p) == \E l \in Ledgers, k \in Nat : At(p, l, k)

Shapes ==
    /\ graph = [p \in Projectors |-> graph[p]]
    /\ pc = [p \in Projectors |-> pc[p]]
    /\ next = [p \in Projectors |-> next[p]]
    /\ end = [p \in Projectors |-> end[p]]
    /\ result = [p \in Projectors |-> result[p]]
    /\ floor = [p \in Projectors |-> floor[p]]

ProjectionInv == LogInv /\ Shapes /\ \A p \in Projectors : ReplayInv(p)

(* Fresh graphs over empty ledgers satisfy the invariant. *)
LEMMA InitProjectionInv ==
    ASSUME Init
    PROVE  ProjectionInv
<1>1. \A l \in Ledgers : log[l] = <<>> /\ Len(log[l]) = 0
  BY Zenon DEF Init, Log!LogInit
<1>2. LogInv
  <2>1. log \in [Ledgers -> Seq(Entries)]
    BY DEF Init, Log!LogInit
  <2> QED
    BY <1>1, <2>1, MaxSequenceAssumption DEF LogInv
<1>3. Shapes
  BY Zenon DEF Init, Shapes
<1>4. ASSUME NEW p \in Projectors PROVE ReplayInv(p)
  <2>1. PICK l \in Ledgers : graph[p] = NewGraph(l)
    BY Zenon DEF Init
  <2>2. graph[p] = GraphAt(l, 0)
    BY Zenon, <2>1, <1>2, EmptyGraph
  <2>3. pc[p] = "idle" /\ result[p] = "none" /\ floor[p] = 0
    BY Zenon DEF Init
  <2>4. Position(p, l, 0) /\ Verdict(p, l, 0)
    BY <2>3, <1>1 DEF Position, Verdict, Errors
  <2>5. 0 \in 0..Len(log[l]) /\ \A m \in 1..0 : Meaningful(l, m)
    BY <1>1
  <2> QED
    BY Zenon, <2>2, <2>4, <2>5 DEF ReplayInv, At
<1> QED
  BY Zenon, <1>2, <1>3, <1>4 DEF ProjectionInv

(* A graph after a step, and a place and a result that fit it. *)
LEMMA Witnessed ==
    ASSUME LogInv, Grows, NEW p \in Projectors, NEW l \in Ledgers,
           NEW k \in 0..Len(log[l]), graph'[p] = GraphAt(l, k),
           \A m \in 1..k : Meaningful(l, m),
           Position(p, l, k)', Verdict(p, l, k)'
    PROVE  ReplayInv(p)'
<1>1. GraphAt(l, k)' = GraphAt(l, k) /\ \A m \in 1..k : Meaningful(l, m)'
  BY Zenon, MeaningStable
<1>2. k \in 0..Len(log'[l])
  BY DEF Grows
<1> QED
  BY <1>1, <1>2 DEF ReplayInv, At

Untouched(p) ==
    /\ graph'[p] = graph[p] /\ pc'[p] = pc[p] /\ next'[p] = next[p]
    /\ end'[p] = end[p] /\ result'[p] = result[p] /\ floor'[p] = floor[p]
    /\ p \in full' <=> p \in full

(* A step of admission or of another projector. *)
LEMMA UntouchedStays ==
    ASSUME LogInv, Grows, NEW p \in Projectors, ReplayInv(p), Untouched(p)
    PROVE  ReplayInv(p)'
<1>0. PICK l \in Ledgers, k \in Nat : At(p, l, k)
  BY Zenon DEF ReplayInv
<1>1. /\ k \in 0..Len(log[l])
      /\ graph[p] = GraphAt(l, k)
      /\ \A m \in 1..k : Meaningful(l, m)
      /\ Position(p, l, k)
      /\ Verdict(p, l, k)
  BY Zenon, <1>0 DEF At
<1>2. /\ Len(log[l]) \in Nat /\ Len(log'[l]) \in Nat
      /\ Len(log[l]) <= Len(log'[l])
  BY Zenon DEF Grows
<1>3. Position(p, l, k)'
  <2>1. floor'[p] \in 0..Len(log'[l])
    BY <1>1, <1>2 DEF Untouched, Position
  <2>2. pc[p] \in {"check", "apply"} => end[p] \in 1..Len(log'[l])
    BY <1>1, <1>2 DEF Position
  <2> QED
    BY Zenon, <1>1, <2>1, <2>2 DEF Untouched, Position
<1>4. Verdict(p, l, k)'
  <2>1. k < Len(log[l]) => (Meaningful(l, k + 1)' <=> Meaningful(l, k + 1))
    <3>1. ASSUME k < Len(log[l])
          PROVE  k + 1 \in 0..Len(log[l]) /\ k + 1 \in 1..(k + 1)
      BY <3>1, <1>2
    <3> QED
      BY Zenon, <3>1, MeaningStable
  <2>2. k < Len(log[l]) => k < Len(log'[l])
    BY <1>2
  <2> QED
    BY Zenon, <1>1, <2>1, <2>2 DEF Untouched, Verdict
<1>5. graph'[p] = GraphAt(l, k)
  BY Zenon, <1>1 DEF Untouched
<1> QED
  BY Zenon, <1>1, <1>3, <1>4, <1>5, Witnessed

(* What a projector knows of its graph before a step of its own. *)
LEMMA Own ==
    ASSUME ~Shared, LogInv, NEW p \in Projectors, NEW l \in Ledgers,
           NEW k \in Nat, At(p, l, k)
    PROVE  /\ Home(p) = p /\ GraphOf(p) = GraphAt(l, k)
           /\ GraphOf(p).ledger = l /\ GraphOf(p).last = k
           /\ Events(p) = log[l]
           /\ Len(log[l]) \in Nat /\ k <= Len(log[l])
           /\ Len(log[l]) <= MaxSequence
<1>1. Home(p) = p /\ GraphOf(p) = GraphAt(l, k)
  BY Zenon DEF Home, GraphOf, At
<1>2. GraphOf(p).ledger = l /\ GraphOf(p).last = k
  BY <1>1 DEF GraphAt, Graph
<1>3. Len(log[l]) \in Nat /\ Len(log[l]) <= MaxSequence /\ k <= Len(log[l])
  BY DEF LogInv, At
<1> QED
  BY Zenon, <1>1, <1>2, <1>3 DEF Events

(* A step that leaves the logs alone. *)
LEMMA SameLogGrows ==
    ASSUME LogInv, log' = log
    PROVE  LogInv' /\ Grows
<1>1. \A l \in Ledgers : Len(log[l]) \in Nat
  BY DEF LogInv
<1> QED
  BY <1>1 DEF LogInv, Grows, TargetPrecedes

(* A call of ReplayFromStore keeps its projector's part of the invariant. *)
LEMMA ReplayKeeps ==
    ASSUME ~Shared, ProjectionInv, NEW p \in Projectors, Replay(p)
    PROVE  ReplayInv(p)'
<1>1. PICK l \in Ledgers, k \in Nat : At(p, l, k)
  BY Zenon DEF ProjectionInv, ReplayInv
<1>2. LogInv /\ Grows /\ log' = log /\ graph' = graph
  BY Zenon, SameLogGrows DEF ProjectionInv, Replay
<1>3. pc'[p] = "scan" /\ result'[p] = "none" /\ floor'[p] = Len(log[l])
  BY Zenon, <1>1, <1>2, Own DEF Replay, ProjectionInv, Shapes
<1>4. Position(p, l, k)' /\ Verdict(p, l, k)'
  BY <1>1, <1>2, <1>3, Own DEF Position, Verdict, Errors
<1> QED
  BY Zenon, <1>1, <1>2, <1>4, Witnessed DEF At

(* The successor of a sequence, which wraps after the last one. *)
LEMMA Successor ==
    ASSUME NEW k \in 0..MaxSequence
    PROVE  NextSequence(k) = IF k = MaxSequence THEN 0 ELSE k + 1
<1>1. MaxSequence \in Nat
  BY Zenon, MaxSequenceAssumption
<1>2. CASE k = MaxSequence
  <2>1. (MaxSequence + 1) % (MaxSequence + 1) = 0
    BY <1>1
  <2> QED
    BY Zenon, <1>2, <2>1 DEF NextSequence
<1>3. CASE k # MaxSequence
  <2>1. k + 1 \in 0..MaxSequence
    BY <1>1, <1>3
  <2>2. (k + 1) % (MaxSequence + 1) = k + 1
    BY <1>1, <2>1
  <2> QED
    BY Zenon, <1>3, <2>2 DEF NextSequence
<1> QED
  BY Zenon, <1>2, <1>3

(* The batch after the watermark begins with the next record, unless the    *)
(* watermark is the last sequence; it is empty only on a caught-up graph,   *)
(* and a short one ends with the ledger.                                    *)
LEMMA BatchBounds ==
    ASSUME LogInv, NEW l \in Ledgers, NEW k \in 0..Len(log[l])
    PROVE  LET rows == ScanRecords(l, NextSequence(k))
           IN  /\ rows.first \in Nat \ {0} /\ rows.last \in 0..Len(log[l])
               /\ rows.first = k + 1 \/ k = MaxSequence
               /\ rows.first > rows.last => k = Len(log[l])
               /\ rows.last # rows.first + BatchSize - 1 =>
                     rows.last = Len(log[l])
<1> DEFINE from == NextSequence(k)
           first == IF from = 0 THEN 1 ELSE from
           limit == first + BatchSize - 1
           last == IF limit < Len(log[l]) THEN limit ELSE Len(log[l])
<1>1. Len(log[l]) \in Nat /\ Len(log[l]) <= MaxSequence
  BY DEF LogInv
<1>2. first \in Nat \ {0} /\ (first = k + 1 \/ (k = MaxSequence /\ first = 1))
  BY <1>1, Successor, MaxSequenceAssumption
<1>3. limit \in Nat /\ first <= limit
  BY <1>2, BatchAssumption
<1> HIDE DEF first, limit
<1>4. /\ last \in 0..Len(log[l])
      /\ first > last => k = Len(log[l])
      /\ last # limit => last = Len(log[l])
  BY <1>1, <1>2, <1>3, MaxSequenceAssumption
<1> USE DEF first, limit
<1>5. ScanRecords(l, from).first = first /\ ScanRecords(l, from).last = last
  BY Zenon DEF ScanRecords
<1>6. limit = first + BatchSize - 1
  BY Zenon
<1> HIDE DEF first, limit, last
<1> QED
  BY Zenon, <1>2, <1>4, <1>5, <1>6

(* ScanRecords returns a batch that continues the graph, or ends the replay *)
(* with everything applied.                                                 *)
LEMMA ScanKeeps ==
    ASSUME ~Shared, ProjectionInv, NEW p \in Projectors, Scan(p)
    PROVE  ReplayInv(p)'
<1>1. PICK l \in Ledgers, k \in Nat : At(p, l, k)
  BY Zenon DEF ProjectionInv, ReplayInv
<1>2. /\ LogInv /\ Grows /\ log' = log /\ graph' = graph /\ floor' = floor
      /\ pc[p] = "scan"
  BY Zenon, SameLogGrows DEF ProjectionInv, Scan
<1>3. /\ Len(log[l]) \in Nat /\ k \in 0..Len(log[l])
      /\ GraphOf(p).ledger = l /\ GraphOf(p).last = k
  BY Zenon, <1>1, <1>2, Own DEF At
<1>4. floor[p] \in 0..Len(log[l]) /\ result[p] = "none"
  BY Zenon, <1>1, <1>2 DEF At, Position
<1> DEFINE rows == ScanRecords(l, NextSequence(k))
<1>5. /\ rows.first \in Nat \ {0} /\ rows.last \in 0..Len(log[l])
      /\ rows.first = k + 1 \/ k = MaxSequence
      /\ rows.first > rows.last => k = Len(log[l])
      /\ rows.last # rows.first + BatchSize - 1 => rows.last = Len(log[l])
  BY Zenon, <1>2, <1>3, BatchBounds
<1>6. /\ next'[p] = rows.first /\ end'[p] = rows.last
      /\ p \notin full' => rows.last # rows.first + BatchSize - 1
      /\ IF rows.first <= rows.last
         THEN pc'[p] = "check" /\ result'[p] = "none"
         ELSE pc'[p] = "done" /\ result'[p] = "ok"
  BY Zenon, <1>3, <1>4 DEF Scan, Goto, Finish, ProjectionInv, Shapes
<1> HIDE DEF rows
<1>7. CASE rows.first <= rows.last
  <2>1. pc'[p] = "check" /\ result'[p] = "none"
    BY Zenon, <1>6, <1>7
  <2>2. /\ end'[p] \in 1..Len(log[l]) /\ next'[p] \in 1..end'[p]
        /\ p \notin full' => floor[p] <= end'[p]
        /\ next'[p] = k + 1 \/ k = MaxSequence
    BY <1>3, <1>4, <1>5, <1>6, <1>7
  <2>3. Position(p, l, k)' /\ Verdict(p, l, k)'
    BY Zenon, <1>2, <1>4, <2>1, <2>2 DEF Position, Verdict, Errors
  <2> QED
    BY Zenon, <1>1, <1>2, <2>3, Witnessed DEF At
<1>8. CASE ~(rows.first <= rows.last)
  <2>1. pc'[p] = "done" /\ result'[p] = "ok"
    BY Zenon, <1>6, <1>8
  <2>2. floor[p] <= k
    BY <1>3, <1>4, <1>5, <1>8
  <2>3. Position(p, l, k)' /\ Verdict(p, l, k)'
    BY Zenon, <1>2, <1>4, <2>1, <2>2 DEF Position, Verdict, Errors
  <2> QED
    BY <1>1, <1>2, <2>3, Witnessed DEF At
<1> QED
  BY Zenon, <1>7, <1>8

(* A failed scan leaves the graph as it was. *)
LEMMA ScanFailsKeeps ==
    ASSUME ~Shared, ProjectionInv, NEW p \in Projectors, ScanFails(p)
    PROVE  ReplayInv(p)'
<1>1. PICK l \in Ledgers, k \in Nat : At(p, l, k)
  BY Zenon DEF ProjectionInv, ReplayInv
<1>2. /\ LogInv /\ Grows /\ log' = log /\ graph' = graph /\ floor' = floor
      /\ pc'[p] = "done" /\ result'[p] = "scan failed"
  BY Zenon, SameLogGrows DEF ProjectionInv, ScanFails, Finish, Shapes
<1>3. Position(p, l, k)' /\ Verdict(p, l, k)'
  BY Zenon, <1>1, <1>2 DEF At, Position, Verdict, Errors
<1> QED
  BY Zenon, <1>1, <1>2, <1>3, Witnessed DEF At

(* The sequence check passes the next record, and only fails at the last    *)
(* sequence.                                                                *)
LEMMA CheckKeeps ==
    ASSUME ~Shared, ProjectionInv, NEW p \in Projectors, CheckSequence(p)
    PROVE  ReplayInv(p)'
<1>1. PICK l \in Ledgers, k \in Nat : At(p, l, k)
  BY DEF ProjectionInv, ReplayInv
<1>2. /\ LogInv /\ Grows /\ log' = log /\ graph' = graph /\ floor' = floor
      /\ end' = end /\ next' = next /\ full' = full /\ pc[p] = "check"
  BY Zenon, SameLogGrows DEF ProjectionInv, CheckSequence
<1>3. /\ Len(log[l]) \in Nat /\ k <= Len(log[l])
      /\ Len(log[l]) <= MaxSequence /\ GraphOf(p).last = k
  BY Zenon, <1>1, <1>2, Own
<1>4. /\ floor[p] \in 0..Len(log[l]) /\ result[p] = "none"
      /\ end[p] \in 1..Len(log[l]) /\ next[p] \in 1..end[p]
      /\ p \notin full => floor[p] <= end[p]
      /\ next[p] = k + 1 \/ k = MaxSequence
  BY Zenon, <1>1, <1>2 DEF At, Position
<1> DEFINE wanted == IF k = 0 THEN 1 ELSE NextSequence(k)
<1>5. IF next[p] = wanted
      THEN pc'[p] = "apply" /\ result'[p] = "none"
      ELSE pc'[p] = "done" /\ result'[p] = "ErrSequenceBreak"
  BY Zenon, <1>3, <1>4 DEF CheckSequence, Goto, Finish, ProjectionInv, Shapes
<1>6. /\ next[p] = wanted => next[p] = k + 1
      /\ next[p] # wanted => k = MaxSequence
  BY <1>3, <1>4, Successor, MaxSequenceAssumption
<1> HIDE DEF wanted
<1>7. Position(p, l, k)' /\ Verdict(p, l, k)'
  BY Zenon, <1>2, <1>4, <1>5, <1>6 DEF Position, Verdict, Errors
<1> QED
  BY Zenon, <1>1, <1>2, <1>7, Witnessed DEF At

(* Projecting a record moves the graph to the next meaning, or stops.        *)
LEMMA ApplyKeeps ==
    ASSUME ~Shared, ProjectionInv, NEW p \in Projectors, ApplyRecord(p)
    PROVE  ReplayInv(p)'
<1>1. PICK l \in Ledgers, k \in Nat : At(p, l, k)
  BY Zenon DEF ProjectionInv, ReplayInv
<1>2. /\ LogInv /\ Grows /\ log' = log /\ floor' = floor
      /\ end' = end /\ full' = full /\ pc[p] = "apply"
  BY Zenon, SameLogGrows DEF ProjectionInv, ApplyRecord
<1>3. /\ Len(log[l]) \in Nat /\ Home(p) = p
      /\ GraphOf(p) = GraphAt(l, k) /\ Events(p) = log[l]
  BY Zenon, <1>1, <1>2, Own
<1>4. /\ floor[p] \in 0..Len(log[l]) /\ result[p] = "none"
      /\ end[p] \in 1..Len(log[l]) /\ k + 1 \in 1..end[p]
      /\ p \notin full => floor[p] <= end[p]
      /\ next[p] = k + 1
  BY Zenon, <1>1, <1>2 DEF At, Position
<1>5. k + 1 \in 1..Len(log[l]) /\ k + 1 \in 0..Len(log[l])
  BY <1>3, <1>4
<1> DEFINE projected == Project(GraphAt(l, k), k + 1, log[l][k + 1])
<1>6. /\ graph'[p] = projected.graph
      /\ IF projected.err = "ok"
         THEN next'[p] = k + 2 /\ Continue(p)
         ELSE Finish(p, projected.err)
  <2>1. Project(GraphOf(p), next[p], Events(p)[next[p]]) = projected
    BY Zenon, <1>3, <1>4
  <2> HIDE DEF projected
  <2>2. /\ graph' = [graph EXCEPT ![p] = projected.graph]
        /\ IF projected.err = "ok"
           THEN next' = [next EXCEPT ![p] = next[p] + 1] /\ Continue(p)
           ELSE Finish(p, projected.err)
    BY Zenon, <1>3, <2>1 DEF ApplyRecord
  <2>3. p \in DOMAIN graph /\ p \in DOMAIN next
    BY Zenon DEF ProjectionInv, Shapes
  <2> QED
    BY <1>4, <2>2, <2>3
<1>7. p \in DOMAIN pc /\ p \in DOMAIN result
  BY Zenon DEF ProjectionInv, Shapes
<1>8. CASE Meaningful(l, k + 1)
  <2>1. projected.err = "ok" /\ projected.graph = GraphAt(l, k + 1)
    BY Zenon, <1>2, <1>5, <1>8, ProjectStep
  <2> HIDE DEF projected
  <2>2. graph'[p] = GraphAt(l, k + 1) /\ next'[p] = k + 2 /\ Continue(p)
    BY Zenon, <1>6, <2>1
  <2>3. \A m \in 1..(k + 1) : Meaningful(l, m)
    <3>1. \A m \in 1..k : Meaningful(l, m)
      BY Zenon, <1>1 DEF At
    <3>2. \A m \in 1..(k + 1) : m \in 1..k \/ m = k + 1
      OBVIOUS
    <3> QED
      BY Zenon, <1>8, <3>1, <3>2
  <2>4. CASE k + 1 < end[p]
    <3>1. pc'[p] = "check" /\ result'[p] = "none"
      BY <1>4, <1>7, <2>2, <2>4 DEF Continue, Goto
    <3>2. next'[p] \in 1..end[p] /\ next'[p] = (k + 1) + 1
      BY <1>3, <1>4, <2>2, <2>4
    <3>3. Position(p, l, k + 1)' /\ Verdict(p, l, k + 1)'
      BY Zenon, <1>2, <1>4, <3>1, <3>2 DEF Position, Verdict, Errors
    <3> QED
      BY Zenon, <1>2, <1>5, <2>2, <2>3, <3>3, Witnessed
  <2>5. CASE k + 1 = end[p] /\ p \in full
    <3>1. pc'[p] = "scan" /\ result'[p] = "none"
      BY <1>4, <1>7, <2>2, <2>5 DEF Continue, Goto
    <3>2. Position(p, l, k + 1)' /\ Verdict(p, l, k + 1)'
      BY Zenon, <1>2, <1>4, <3>1 DEF Position, Verdict, Errors
    <3> QED
      BY <1>2, <1>5, <2>2, <2>3, <3>2, Witnessed
  <2>6. CASE k + 1 = end[p] /\ p \notin full
    <3>1. pc'[p] = "done" /\ result'[p] = "ok"
      BY <1>4, <1>7, <2>2, <2>6 DEF Continue, Finish
    <3>2. floor[p] <= k + 1
      BY Zenon, <1>4, <2>6
    <3>3. Position(p, l, k + 1)' /\ Verdict(p, l, k + 1)'
      BY Zenon, <1>2, <1>4, <3>1, <3>2 DEF Position, Verdict, Errors
    <3> QED
      BY <1>2, <1>5, <2>2, <2>3, <3>3, Witnessed
  <2> QED
    BY <1>4, <2>4, <2>5, <2>6
<1>9. CASE ~Meaningful(l, k + 1)
  <2>1. /\ projected.err \in Errors \ {"ErrSequenceBreak", "scan failed"}
        /\ projected.graph = GraphAt(l, k)
    BY Zenon, <1>2, <1>5, <1>9, ProjectStep
  <2> DEFINE err == projected.err
  <2> HIDE DEF projected
  <2>2. err # "ok"
    BY Zenon, <2>1 DEF Errors
  <2>3. pc'[p] = "done" /\ result'[p] = err /\ graph'[p] = GraphAt(l, k)
    BY Zenon, <1>6, <1>7, <2>1, <2>2 DEF Finish
  <2>4. k < Len(log'[l]) /\ ~Meaningful(l, k + 1)'
    <3>1. Meaningful(l, k + 1)' <=> Meaningful(l, k + 1)
      BY <1>2, <1>5, MeaningStable
    <3> QED
      BY <1>2, <1>5, <1>9, <3>1
  <2>5. Position(p, l, k)'
    BY Zenon, <1>2, <1>4, <2>3 DEF Position
  <2>6. Verdict(p, l, k)'
    BY Zenon, <2>2, <2>3, <2>4 DEF Verdict
  <2> QED
    BY Zenon, <1>1, <1>2, <2>3, <2>5, <2>6, Witnessed DEF At
<1> QED
  BY Zenon, <1>8, <1>9

(* A projector with a graph of its own touches no other projector. *)
LEMMA OthersUntouched ==
    ASSUME ~Shared, ProjectionInv, NEW p \in Projectors,
           Replay(p) \/ ProjectorStep(p)
    PROVE  /\ log' = log /\ Shapes'
           /\ \A q \in Projectors \ {p} : Untouched(q)
<1>1. Home(p) = p
  BY Zenon DEF Home
<1>2. CASE Replay(p)
  BY Zenon, <1>2 DEF Replay, ProjectionInv, Shapes, Untouched
<1>3. CASE Scan(p)
  <2>1. \A q \in Projectors \ {p} : q \in full' <=> q \in full
    BY Zenon, <1>3 DEF Scan
  <2>2. /\ log' = log /\ graph' = graph /\ floor' = floor
        /\ \E x, y : /\ next' = [next EXCEPT ![p] = x]
                     /\ end' = [end EXCEPT ![p] = y]
        /\ \E x : pc' = [pc EXCEPT ![p] = x]
        /\ result' = result \/ \E x : result' = [result EXCEPT ![p] = x]
    BY Zenon, <1>3 DEF Scan, Goto, Finish
  <2> QED
    BY Zenon, <2>1, <2>2 DEF ProjectionInv, Shapes, Untouched
<1>4. CASE ScanFails(p)
  BY Zenon, <1>4 DEF ScanFails, Finish, ProjectionInv, Shapes, Untouched
<1>5. CASE CheckSequence(p)
  <2>1. /\ UNCHANGED <<log, graph, next, end, full, floor>>
        /\ \E x : pc' = [pc EXCEPT ![p] = x]
        /\ result' = result \/ \E x : result' = [result EXCEPT ![p] = x]
    BY Zenon, <1>5 DEF CheckSequence, Goto, Finish
  <2> QED
    BY Zenon, <2>1 DEF ProjectionInv, Shapes, Untouched
<1>6. CASE ApplyRecord(p)
  <2>1. /\ UNCHANGED <<log, end, full, floor>>
        /\ \E x : graph' = [graph EXCEPT ![p] = x]
        /\ next' = next \/ \E x : next' = [next EXCEPT ![p] = x]
    BY Zenon, <1>1, <1>6 DEF ApplyRecord
  <2>2. /\ \E x : pc' = [pc EXCEPT ![p] = x]
        /\ result' = result \/ \E x : result' = [result EXCEPT ![p] = x]
    <3>1. Continue(p) \/ \E err : Finish(p, err)
      BY Zenon, <1>6 DEF ApplyRecord
    <3>2. CASE Continue(p)
      BY Zenon, <3>2 DEF Continue, Goto, Finish
    <3>3. CASE \E err : Finish(p, err)
      BY Zenon, <3>3 DEF Finish
    <3> QED
      BY Zenon, <3>1, <3>2, <3>3
  <2> QED
    BY Zenon, <2>1, <2>2 DEF ProjectionInv, Shapes, Untouched
<1> QED
  BY Zenon, <1>2, <1>3, <1>4, <1>5, <1>6 DEF ProjectorStep

(* Every step preserves the invariant. *)
LEMMA NextProjectionInv ==
    ASSUME ~Shared, ProjectionInv, [Next]_projectionVars
    PROVE  ProjectionInv'
<1>1. LogInv /\ Shapes /\ \A p \in Projectors : ReplayInv(p)
  BY Zenon DEF ProjectionInv
<1>2. CASE Admit
  <2>1. LogInv' /\ Grows
    BY Zenon, <1>1, <1>2, AdmitGrows
  <2>2. \A p \in Projectors : Untouched(p)
    BY Zenon, <1>2 DEF Admit, local, Untouched
  <2>3. Shapes'
    BY Zenon, <1>1, <1>2 DEF Admit, local, Shapes
  <2> QED
    BY Zenon, <1>1, <2>1, <2>2, <2>3, UntouchedStays DEF ProjectionInv
<1>3. ASSUME NEW p \in Projectors, Replay(p) \/ ProjectorStep(p)
      PROVE  ProjectionInv'
  <2>1. log' = log /\ Shapes' /\ \A q \in Projectors \ {p} : Untouched(q)
    BY Zenon, <1>3, OthersUntouched
  <2>2. LogInv' /\ Grows
    BY Zenon, <1>1, <2>1, SameLogGrows
  <2>3. \A q \in Projectors \ {p} : ReplayInv(q)'
    BY Zenon, <1>1, <2>1, <2>2, UntouchedStays
  <2>4. ReplayInv(p)'
    BY Zenon, <1>3, ReplayKeeps, ScanKeeps, ScanFailsKeeps, CheckKeeps, ApplyKeeps
       DEF ProjectorStep
  <2> QED
    BY Zenon, <2>1, <2>2, <2>3, <2>4 DEF ProjectionInv
<1>4. CASE UNCHANGED projectionVars
  <2>1. /\ UNCHANGED <<log, graph, pc, next, end, full, result, floor>>
    BY Zenon, <1>4 DEF projectionVars, local
  <2>2. LogInv' /\ Grows
    BY Zenon, <1>1, <2>1, SameLogGrows
  <2>3. Shapes' /\ \A p \in Projectors : Untouched(p)
    BY Zenon, <1>1, <2>1 DEF Shapes, Untouched
  <2> QED
    BY Zenon, <1>1, <2>2, <2>3, UntouchedStays DEF ProjectionInv
<1> QED
  BY Zenon, <1>2, <1>3, <1>4 DEF Next

-------------------------------------------------------------------------------
(* What follows from the invariant *)

(* The graph, the meaning of what it holds and the verdict of the replay    *)
(* are what the three properties say.                                       *)
LEMMA InvImplies ==
    ASSUME ~Shared, ProjectionInv
    PROVE  GraphIsProjection /\ ReplayIsFresh /\ StopsAtFirstMeaningless
<1>1. ASSUME NEW p \in Projectors
      PROVE  LET g == graph[p]
                 n == g.last + 1
             IN  /\ g.last <= Len(log[g.ledger])
                 /\ g.edges = ProjectionOf(g.ledger, g.last)
                 /\ result[p] = "ok" => GraphOf(p).last >= floor[p]
                 /\ \A m \in 1..g.last : Meaningful(g.ledger, m)
                 /\ result[p] \in Errors \ {"scan failed"} =>
                      \/ n <= Len(log[g.ledger]) /\ ~Meaningful(g.ledger, n)
                      \/ result[p] = "ErrSequenceBreak" /\ g.last = MaxSequence
  <2>1. PICK l \in Ledgers, k \in Nat : At(p, l, k)
    BY Zenon DEF ProjectionInv, ReplayInv
  <2>2. /\ graph[p].ledger = l /\ graph[p].last = k
        /\ graph[p].edges = ProjectionOf(l, k)
    BY <2>1 DEF At, GraphAt, Graph
  <2>3. /\ Len(log[l]) \in Nat /\ k <= Len(log[l]) /\ GraphOf(p).last = k
    BY Zenon, <2>1, Own DEF ProjectionInv
  <2>4. \A m \in 1..k : Meaningful(l, m)
    BY Zenon, <2>1 DEF At
  <2>5. result[p] = "ok" => k >= floor[p]
    <3>1. floor[p] \in 0..Len(log[l]) /\ (result[p] = "ok" => floor[p] <= k)
      BY Zenon, <2>1 DEF At, Position, Verdict
    <3> QED
      BY Zenon, <2>3, <3>1
  <2>6. result[p] \in Errors \ {"scan failed"} =>
           \/ k + 1 <= Len(log[l]) /\ ~Meaningful(l, k + 1)
           \/ result[p] = "ErrSequenceBreak" /\ k = MaxSequence
    <3>1. result[p] \in Errors \ {"scan failed"} =>
             \/ k < Len(log[l]) /\ ~Meaningful(l, k + 1)
             \/ result[p] = "ErrSequenceBreak" /\ k = MaxSequence
      BY Zenon, <2>1 DEF At, Verdict
    <3>2. k < Len(log[l]) => k + 1 <= Len(log[l])
      BY <2>3
    <3> QED
      BY Zenon, <3>1, <3>2
  <2> QED
    BY Zenon, <2>2, <2>3, <2>4, <2>5, <2>6
<1> QED
  BY Zenon, <1>1 DEF GraphIsProjection, ReplayIsFresh, StopsAtFirstMeaningless

(* Whatever admission appends while ReplayFromStore runs, and however its   *)
(* scans cut the ledger into batches, the graph of a projector holds        *)
(* exactly the edges that the records up to LastSequence stand for.         *)
THEOREM GraphTheorem ==
    ASSUME ~Shared
    PROVE  Spec => []GraphIsProjection
<1>1. Init => ProjectionInv
  BY Zenon, InitProjectionInv
<1>2. ProjectionInv /\ [Next]_projectionVars => ProjectionInv'
  BY Zenon, NextProjectionInv
<1>3. ProjectionInv => GraphIsProjection
  BY Zenon, InvImplies
<1> QED
  BY <1>1, <1>2, <1>3, PTL DEF Spec

(* When ReplayFromStore returns nil, the watermark has reached every record *)
(* that was in the ledger when it was called.                               *)
THEOREM FreshTheorem ==
    ASSUME ~Shared
    PROVE  Spec => []ReplayIsFresh
<1>1. Init => ProjectionInv
  BY InitProjectionInv
<1>2. ProjectionInv /\ [Next]_projectionVars => ProjectionInv'
  BY NextProjectionInv
<1>3. ProjectionInv => ReplayIsFresh
  BY Zenon, InvImplies
<1> QED
  BY <1>1, <1>2, <1>3, PTL DEF Spec

(* AddEdge and RevokeEdge refuse a record exactly when the ledger gives it  *)
(* no meaning, the replay stops before the first such record, and           *)
(* ErrSequenceBreak is returned at the last sequence only.                  *)
THEOREM StopTheorem ==
    ASSUME ~Shared
    PROVE  Spec => []StopsAtFirstMeaningless
<1>1. Init => ProjectionInv
  BY InitProjectionInv
<1>2. ProjectionInv /\ [Next]_projectionVars => ProjectionInv'
  BY NextProjectionInv
<1>3. ProjectionInv => StopsAtFirstMeaningless
  BY Zenon, InvImplies
<1> QED
  BY <1>1, <1>2, <1>3, PTL DEF Spec

-------------------------------------------------------------------------------
(* Types, for graphs of one's own and for shared ones *)

(* What a graph is made of. *)
GraphTyped(g) ==
    /\ g.ledger \in Ledgers
    /\ g.last \in 0..MaxSequence
    /\ DOMAIN g.edges \subseteq 1..MaxSequence
    /\ \A n \in DOMAIN g.edges : g.edges[n] \in Edges

(* A batch that is being applied lies within the ledger. *)
InBatch(p) ==
    pc[p] \in {"check", "apply"} =>
       next[p] \in 1..end[p] /\ end[p] \in 1..Len(Events(p))

(* The projectors' own variables. *)
Control ==
    /\ pc \in [Projectors -> {"idle", "scan", "check", "apply", "done"}]
    /\ next \in [Projectors -> 0..(MaxSequence + 1)]
    /\ end \in [Projectors -> 0..MaxSequence]
    /\ full \subseteq Projectors
    /\ result \in [Projectors -> Errors \cup {"none", "ok"}]
    /\ floor \in [Projectors -> 0..MaxSequence]

(* The inductive invariant: the types, and that a batch lies within its    *)
(* ledger, which makes the record given to ApplyRecord a stored one.        *)
TypeInv ==
    /\ LogInv /\ Control
    /\ graph = [p \in Projectors |-> graph[p]]
    /\ \A p \in Projectors : GraphTyped(graph[p]) /\ InBatch(p)

(* AddEdge, RevokeEdge and SetLastSequence keep a graph's type and ledger,  *)
(* whether they succeed or return an error.                                 *)
LEMMA ProjectTyped ==
    ASSUME NEW g, GraphTyped(g), NEW n \in 1..MaxSequence, NEW e \in Entries
    PROVE  /\ GraphTyped(Project(g, n, e).graph)
           /\ Project(g, n, e).graph.ledger = g.ledger
           /\ Project(g, n, e).err \in Errors \cup {"ok"}
<1>1. /\ MaxSequence \in Nat /\ n \in 0..MaxSequence
      /\ Raise(g.last, n) \in 0..MaxSequence
  BY MaxSequenceAssumption DEF GraphTyped, Raise
<1>2. ASSUME NEW k \in 0..MaxSequence, NEW edges,
             DOMAIN edges \subseteq 1..MaxSequence,
             \A i \in DOMAIN edges : edges[i] \in Edges
      PROVE  /\ GraphTyped(Graph(g.ledger, k, edges))
             /\ Graph(g.ledger, k, edges).ledger = g.ledger
  BY Zenon, <1>2 DEF GraphTyped, Graph
<1>3. CASE e.kind = EventKindEndorsementAccepted
  <2>1. e \in Endorsements
    BY <1>3 DEF Entries, GenesisEvent, Endorsements, Revocations,
       EventKindLedgerInitialized, EventKindEndorsementAccepted,
       EventKindEndorsementRevoked
  <2> DEFINE edges == [i \in DOMAIN g.edges \cup {n} |->
                  IF i = n THEN AttestationEdge(e.proposer, e.subject, {})
                           ELSE g.edges[i]]
  <2>2. AttestationEdge(e.proposer, e.subject, {}) \in Edges
    BY Zenon, <2>1 DEF AttestationEdge, Edges, Endorsements
  <2>3. /\ DOMAIN edges \subseteq 1..MaxSequence
        /\ \A i \in DOMAIN edges : edges[i] \in Edges
    BY Zenon, <2>2 DEF GraphTyped
  <2>4. Project(g, n, e) = AddEdge(g, n, e)
    BY <1>3 DEF Project, EventKindEndorsementAccepted, EventKindEndorsementRevoked
  <2>5. CASE n \in DOMAIN g.edges
    BY <2>4, <2>5 DEF AddEdge, Errors
  <2>6. CASE n \notin DOMAIN g.edges
    <3>1. AddEdge(g, n, e) =
             [err |-> "ok", graph |-> Graph(g.ledger, Raise(g.last, n), edges)]
      BY Zenon, <2>6 DEF AddEdge
    <3> HIDE DEF edges
    <3> QED
      BY <1>1, <1>2, <2>3, <2>4, <3>1
  <2> QED
    BY Zenon, <2>5, <2>6
<1>4. CASE e.kind = EventKindEndorsementRevoked
  <2> DEFINE edges == [g.edges EXCEPT ![e.target[2]] =
                          AttestationEdge(@.proposer, @.subject, {n})]
             err == RevokeError(g, e)
  <2>1. Project(g, n, e) = RevokeEdge(g, n, e)
    BY <1>4 DEF Project, EventKindEndorsementAccepted, EventKindEndorsementRevoked
  <2>2. err \in Errors \cup {"ok"} /\ (err = "ok" => e.target[2] \in DOMAIN g.edges)
    BY Zenon DEF RevokeError, Errors
  <2>3. CASE err # "ok"
    BY <2>1, <2>2, <2>3 DEF RevokeEdge
  <2>4. CASE err = "ok"
    <3>1. RevokeEdge(g, n, e) =
             [err |-> "ok", graph |-> Graph(g.ledger, Raise(g.last, n), edges)]
      BY Zenon, <2>4 DEF RevokeEdge
    <3>2. DOMAIN edges = DOMAIN g.edges
      BY Zenon
    <3>3. ASSUME NEW i \in DOMAIN edges PROVE edges[i] \in Edges
      <4>1. g.edges[i] \in Edges
        BY Zenon, <3>2 DEF GraphTyped
      <4>2. AttestationEdge(g.edges[i].proposer, g.edges[i].subject, {n}) \in Edges
        BY Zenon, <4>1 DEF AttestationEdge, Edges
      <4>3. \/ edges[i] = g.edges[i]
            \/ edges[i] = AttestationEdge(g.edges[i].proposer,
                                         g.edges[i].subject, {n})
        BY Zenon, <3>2
      <4> QED
        BY Zenon, <4>1, <4>2, <4>3
    <3>4. DOMAIN edges \subseteq 1..MaxSequence
      BY Zenon, <3>2 DEF GraphTyped
    <3> HIDE DEF edges
    <3> QED
      BY <1>1, <1>2, <2>1, <3>1, <3>3, <3>4
  <2> QED
    BY Zenon, <2>3, <2>4
<1>5. CASE e.kind \notin {EventKindEndorsementAccepted, EventKindEndorsementRevoked}
  <2>1. Project(g, n, e) = [err |-> "ok", graph |-> Graph(g.ledger, n, g.edges)]
    BY Zenon, <1>5 DEF Project, SetLastSequence
  <2> QED
    BY <1>1, <1>2, <2>1 DEF GraphTyped
<1> QED
  BY Zenon, <1>3, <1>4, <1>5

(* The graph a projector works on is one of the projectors' graphs, and the *)
(* ledger it reads is one of the ledgers.                                   *)
LEMMA HomeTyped ==
    ASSUME TypeInv, NEW p \in Projectors
    PROVE  /\ Home(p) \in Projectors /\ GraphOf(p) = graph[Home(p)]
           /\ GraphTyped(GraphOf(p)) /\ GraphOf(p).ledger \in Ledgers
           /\ GraphOf(p).last \in 0..MaxSequence
           /\ Events(p) \in Seq(Entries) /\ Len(Events(p)) \in 0..MaxSequence
<1>1. Home(p) \in Projectors
  BY Zenon DEF Home
<1>2. GraphTyped(GraphOf(p)) /\ GraphOf(p).ledger \in Ledgers
  BY Zenon, <1>1 DEF GraphOf, TypeInv, GraphTyped
<1>3. Events(p) \in Seq(Entries) /\ Len(Events(p)) <= MaxSequence
  BY Zenon, <1>2 DEF Events, TypeInv, LogInv
<1>4. Len(Events(p)) \in Nat
  BY <1>3
<1> QED
  BY <1>1, <1>2, <1>3, <1>4, MaxSequenceAssumption DEF GraphOf, GraphTyped

(* A batch stays within its ledger while the ledger grows and its graph     *)
(* keeps its ledger.                                                        *)
LEMMA BatchStays ==
    ASSUME TypeInv, Grows, NEW q \in Projectors,
           \A p \in Projectors : graph'[p].ledger = graph[p].ledger,
           pc'[q] \in {"check", "apply"} =>
              next'[q] \in 1..end'[q] /\ end'[q] \in 1..Len(Events(q))
    PROVE  InBatch(q)'
<1>1. GraphOf(q)'.ledger = GraphOf(q).ledger /\ GraphOf(q).ledger \in Ledgers
  BY Zenon, HomeTyped DEF GraphOf, Home
<1>2. /\ Len(Events(q)) \in Nat /\ Len(Events(q)') \in Nat
      /\ Len(Events(q)) <= Len(Events(q)')
  BY Zenon, <1>1 DEF Events, Grows
<1> QED
  BY <1>2 DEF InBatch

(* A step that leaves the graphs, and all batches but one, alone. *)
LEMMA QuietTypes ==
    ASSUME TypeInv, LogInv', Grows, graph' = graph, Control', NEW p,
           \A q \in Projectors \ {p} :
              pc'[q] = pc[q] /\ next'[q] = next[q] /\ end'[q] = end[q],
           p \in Projectors /\ pc'[p] \in {"check", "apply"} =>
              next'[p] \in 1..end'[p] /\ end'[p] \in 1..Len(Events(p))
    PROVE  TypeInv'
<1>1. ASSUME NEW q \in Projectors
      PROVE  pc'[q] \in {"check", "apply"} =>
                next'[q] \in 1..end'[q] /\ end'[q] \in 1..Len(Events(q))
  BY Zenon DEF TypeInv, InBatch
<1>2. \A q \in Projectors : InBatch(q)'
  BY Zenon, <1>1, BatchStays
<1> QED
  BY Zenon, <1>2 DEF TypeInv, GraphTyped

(* The bounds of a scanned batch, wherever the watermark of a shared graph  *)
(* may be.                                                                  *)
LEMMA ScanTyped ==
    ASSUME TypeInv, NEW p \in Projectors
    PROVE  LET rows == ScanRecords(GraphOf(p).ledger,
                                   NextSequence(GraphOf(p).last))
           IN  /\ rows.first \in 1..(MaxSequence + 1)
               /\ rows.last \in 0..Len(Events(p))
<1> DEFINE from == NextSequence(GraphOf(p).last)
           first == IF from = 0 THEN 1 ELSE from
           limit == first + BatchSize - 1
           last == IF limit < Len(Events(p)) THEN limit ELSE Len(Events(p))
<1>1. Len(Events(p)) \in 0..MaxSequence /\ GraphOf(p).last \in 0..MaxSequence
  BY Zenon, HomeTyped
<1>2. first \in 1..(MaxSequence + 1)
  BY <1>1, Successor, MaxSequenceAssumption
<1>3. limit \in Nat
  BY <1>2, BatchAssumption
<1> HIDE DEF first, limit
<1>4. last \in 0..Len(Events(p))
  BY <1>1, <1>3
<1> USE DEF first, limit
<1>5. /\ ScanRecords(GraphOf(p).ledger, from).first = first
      /\ ScanRecords(GraphOf(p).ledger, from).last = last
  BY Zenon DEF ScanRecords, Events
<1> HIDE DEF first, limit, last
<1> QED
  BY Zenon, <1>2, <1>4, <1>5

(* A call of ReplayFromStore, a scan, a failed scan and a check of the      *)
(* sequence keep the types.                                                 *)
LEMMA ReadTypes ==
    ASSUME TypeInv, NEW p \in Projectors,
           Replay(p) \/ Scan(p) \/ ScanFails(p) \/ CheckSequence(p)
    PROVE  TypeInv'
<1>1. LogInv /\ Control /\ LogInv' /\ Grows /\ graph' = graph
  BY Zenon, SameLogGrows DEF TypeInv, Replay, Scan, ScanFails, CheckSequence
<1>2. Len(Events(p)) \in 0..MaxSequence
  BY Zenon, HomeTyped
<1>3. CASE Replay(p)
  <2>1. Control'
    BY Zenon, <1>1, <1>2, <1>3 DEF Replay, Control
  <2>2. /\ \A q \in Projectors \ {p} :
              pc'[q] = pc[q] /\ next'[q] = next[q] /\ end'[q] = end[q]
        /\ pc'[p] \notin {"check", "apply"}
    BY Zenon, <1>1, <1>3 DEF Replay, Control
  <2> QED
    BY Zenon, <1>1, <2>1, <2>2, QuietTypes
<1>4. CASE Scan(p)
  <2> DEFINE rows == ScanRecords(GraphOf(p).ledger, NextSequence(GraphOf(p).last))
             first == rows.first
             last == rows.last
  <2>1. first \in 1..(MaxSequence + 1) /\ last \in 0..Len(Events(p))
    BY Zenon, ScanTyped
  <2>2. /\ next' = [next EXCEPT ![p] = first]
        /\ end' = [end EXCEPT ![p] = last]
        /\ full' \subseteq full \cup {p}
        /\ floor' = floor
        /\ IF first <= last THEN Goto(p, "check") ELSE Finish(p, "ok")
    BY Zenon, <1>4 DEF Scan
  <2> HIDE DEF first, last
  <2>3. first \in 0..(MaxSequence + 1) /\ last \in 0..MaxSequence
    BY <1>2, <2>1, MaxSequenceAssumption
  <2>4. /\ next' \in [Projectors -> 0..(MaxSequence + 1)]
        /\ end' \in [Projectors -> 0..MaxSequence]
        /\ full' \subseteq Projectors /\ floor' \in [Projectors -> 0..MaxSequence]
    BY Zenon, <1>1, <2>2, <2>3 DEF Control
  <2>5. /\ pc' \in [Projectors -> {"idle", "scan", "check", "apply", "done"}]
        /\ result' \in [Projectors -> Errors \cup {"none", "ok"}]
        /\ (pc'[p] = "check" /\ first <= last) \/ pc'[p] = "done"
    BY Zenon, <1>1, <2>2 DEF Control, Goto, Finish
  <2>6. \A q \in Projectors \ {p} :
           pc'[q] = pc[q] /\ next'[q] = next[q] /\ end'[q] = end[q]
    BY Zenon, <1>1, <2>2 DEF Control, Goto, Finish
  <2>7. next'[p] = first /\ end'[p] = last
    BY Zenon, <1>1, <2>2 DEF Control
  <2>8. pc'[p] \in {"check", "apply"} =>
           next'[p] \in 1..end'[p] /\ end'[p] \in 1..Len(Events(p))
    BY <1>2, <2>1, <2>5, <2>7
  <2>9. Control'
    BY Zenon, <2>4, <2>5 DEF Control
  <2> QED
    BY Zenon, <1>1, <2>6, <2>8, <2>9, QuietTypes
<1>5. CASE ScanFails(p) \/ CheckSequence(p)
  <2>1. /\ UNCHANGED <<next, end, full, floor>>
        /\ \/ Goto(p, "apply") /\ pc[p] = "check"
           \/ \E err \in Errors : Finish(p, err)
    BY Zenon, <1>5 DEF ScanFails, CheckSequence, Errors
  <2>2. /\ pc' \in [Projectors -> {"idle", "scan", "check", "apply", "done"}]
        /\ result' \in [Projectors -> Errors \cup {"none", "ok"}]
        /\ (pc'[p] = "apply" /\ pc[p] = "check") \/ pc'[p] = "done"
        /\ \A q \in Projectors \ {p} : pc'[q] = pc[q]
    BY <1>1, <2>1 DEF Control, Goto, Finish
  <2>3. Control'
    BY Zenon, <1>1, <2>1, <2>2 DEF Control
  <2>4. pc'[p] \in {"check", "apply"} =>
           next'[p] \in 1..end'[p] /\ end'[p] \in 1..Len(Events(p))
    BY Zenon, <2>1, <2>2 DEF TypeInv, InBatch
  <2> QED
    BY Zenon, <1>1, <2>1, <2>2, <2>3, <2>4, QuietTypes
<1> QED
  BY Zenon, <1>3, <1>4, <1>5

(* So does the projection of a record, into a graph of one's own or into    *)
(* one that other projectors are replaying into as well.                    *)
LEMMA ApplyTypes ==
    ASSUME TypeInv, NEW p \in Projectors, ApplyRecord(p)
    PROVE  TypeInv'
<1> DEFINE n == next[p]
           projected == Project(GraphOf(p), n, Events(p)[n])
           g == projected.graph
           err == projected.err
<1>1. LogInv /\ Control /\ LogInv' /\ Grows /\ pc[p] = "apply"
  BY Zenon, SameLogGrows DEF TypeInv, ApplyRecord
<1>2. n \in 1..end[p] /\ end[p] \in 1..Len(Events(p))
  BY Zenon, <1>1 DEF TypeInv, InBatch
<1>3. /\ Home(p) \in Projectors /\ GraphOf(p) = graph[Home(p)]
      /\ GraphTyped(GraphOf(p)) /\ Events(p) \in Seq(Entries)
      /\ Len(Events(p)) \in 0..MaxSequence
  BY Zenon, HomeTyped
<1>4. n \in 1..MaxSequence /\ n \in 1..Len(Events(p))
  BY <1>2, <1>3, MaxSequenceAssumption
<1>5. Events(p)[n] \in Entries
  BY <1>3, <1>4
<1>6. GraphTyped(g) /\ g.ledger = GraphOf(p).ledger /\ err \in Errors \cup {"ok"}
  BY Zenon, <1>3, <1>4, <1>5, ProjectTyped
<1>7. /\ graph' = [graph EXCEPT ![Home(p)] = g]
      /\ IF err = "ok"
         THEN next' = [next EXCEPT ![p] = n + 1] /\ Continue(p)
         ELSE UNCHANGED next /\ Finish(p, err)
      /\ UNCHANGED <<end, full, floor>>
  BY Zenon DEF ApplyRecord
<1> HIDE DEF g, err
<1>8. /\ graph' = [q \in Projectors |-> graph'[q]]
      /\ \A q \in Projectors : /\ GraphTyped(graph'[q])
                               /\ graph'[q].ledger = graph[q].ledger
  BY Zenon, <1>3, <1>6, <1>7 DEF TypeInv
<1>9. next' \in [Projectors -> 0..(MaxSequence + 1)]
  BY <1>1, <1>4, <1>7, MaxSequenceAssumption, SMTT(30) DEF Control
<1>10. \/ Goto(p, "check") /\ next' = [next EXCEPT ![p] = n + 1] /\ n < end[p]
       \/ next' \in {next, [next EXCEPT ![p] = n + 1]} /\ Goto(p, "scan")
       \/ /\ next' \in {next, [next EXCEPT ![p] = n + 1]}
          /\ \E e \in Errors \cup {"ok"} : Finish(p, e)
  <2>1. Continue(p) => \/ Goto(p, "check") /\ n < end[p]
                       \/ Goto(p, "scan")
                       \/ Finish(p, "ok")
    BY Zenon DEF Continue
  <2> QED
    BY Zenon, <1>6, <1>7, <2>1
<1>11. /\ pc' \in [Projectors -> {"idle", "scan", "check", "apply", "done"}]
       /\ result' \in [Projectors -> Errors \cup {"none", "ok"}]
       /\ \/ pc'[p] = "check" /\ next'[p] = n + 1 /\ n < end[p]
          \/ pc'[p] \in {"scan", "done"}
       /\ \A q \in Projectors \ {p} : pc'[q] = pc[q] /\ next'[q] = next[q]
  BY <1>1, <1>10 DEF Control, Goto, Finish
<1>12. Control'
  BY Zenon, <1>1, <1>7, <1>9, <1>11 DEF Control
<1>13. ASSUME NEW q \in Projectors
       PROVE  pc'[q] \in {"check", "apply"} =>
                 next'[q] \in 1..end'[q] /\ end'[q] \in 1..Len(Events(q))
  <2>1. CASE q = p
    BY <1>2, <1>3, <1>7, <1>11, <2>1
  <2>2. CASE q # p
    BY Zenon, <1>7, <1>11, <2>2 DEF TypeInv, InBatch
  <2> QED
    BY Zenon, <2>1, <2>2
<1>14. \A q \in Projectors : InBatch(q)'
  BY Zenon, <1>1, <1>8, <1>13, BatchStays
<1> QED
  BY Zenon, <1>1, <1>8, <1>12, <1>14 DEF TypeInv

(* Every step keeps the types. *)
LEMMA NextTypeInv ==
    ASSUME TypeInv, [Next]_projectionVars
    PROVE  TypeInv'
<1>1. LogInv /\ Control
  BY Zenon DEF TypeInv
<1>2. CASE Admit \/ UNCHANGED projectionVars
  <2>1. LogInv' /\ Grows
    BY Zenon, <1>1, <1>2, AdmitGrows, SameLogGrows DEF projectionVars
  <2>2. UNCHANGED <<graph, pc, next, end, full, result, floor>>
    BY Zenon, <1>2 DEF Admit, projectionVars, local
  <2>3. Control'
    BY Zenon, <1>1, <2>2 DEF Control
  <2>4. \A p \in Projectors : InBatch(p)'
    BY Zenon, <2>1, <2>2, BatchStays DEF TypeInv, InBatch
  <2> QED
    BY Zenon, <2>1, <2>2, <2>3, <2>4 DEF TypeInv, GraphTyped
<1>3. ASSUME NEW p \in Projectors, Replay(p) \/ ProjectorStep(p)
      PROVE  TypeInv'
  BY Zenon, <1>3, ReadTypes, ApplyTypes DEF ProjectorStep
<1> QED
  BY Zenon, <1>2, <1>3 DEF Next

(* Types hold in the initial state. *)
LEMMA InitTypeInv == Init => TypeInv
<1> SUFFICES ASSUME Init PROVE TypeInv
  BY Zenon
<1>1. LogInv
  <2>1. log = [l \in Ledgers |-> <<>>]
    BY Zenon DEF Init, Log!LogInit
  <2>2. \A l \in Ledgers : log[l] = <<>> /\ Len(log[l]) = 0
    BY Zenon, <2>1
  <2> QED
    BY <2>1, <2>2, MaxSequenceAssumption DEF LogInv
<1>2. Control
  BY MaxSequenceAssumption DEF Init, Control
<1>3. ASSUME NEW p \in Projectors PROVE GraphTyped(graph[p])
  <2>1. PICK l \in Ledgers : graph[p] = NewGraph(l)
    BY Zenon DEF Init
  <2>2. /\ graph[p].ledger = l /\ graph[p].last = 0
        /\ graph[p].edges = <<>> /\ DOMAIN graph[p].edges = {}
    BY <2>1 DEF NewGraph, Graph
  <2> QED
    BY <2>2, MaxSequenceAssumption DEF GraphTyped
<1>4. /\ graph = [p \in Projectors |-> graph[p]]
      /\ \A p \in Projectors : pc[p] = "idle"
  BY Zenon DEF Init
<1> QED
  BY Zenon, <1>1, <1>2, <1>3, <1>4 DEF TypeInv, InBatch

(* Every variable keeps its type, whether each projector has a graph of its *)
(* own or all of them replay into one: no watermark passes the last         *)
(* sequence, no edge is keyed by a sequence that a ledger cannot have, and  *)
(* ApplyRecord is never given a record past the end of the scanned ledger.  *)
THEOREM TypeCorrect == Spec => []TypeOK
<1>1. TypeInv => TypeOK
  BY Zenon DEF TypeInv, TypeOK, LogInv, Control, GraphTyped, Entries
<1> QED
  BY <1>1, InitTypeInv, NextTypeInv, PTL DEF Spec
===============================================================================
