--------------------------- MODULE AdmissionProofs ---------------------------
(***************************************************************************)
(* For every set of calls, ledgers, payloads and stamps, every bound on    *)
(* retries and restarts and every fault: the stored rows form one valid    *)
(* chain per ledger, whose replay ends at its head, and the chains         *)
(* implement the abstract log.                                             *)
(***************************************************************************)
EXTENDS Admission, WellFoundedInduction, TLAPS

(* x is a genesis, or continues a stored row as the kernel requires. *)
Linked(x) ==
    /\ x.ledger \in Ledgers
    /\ x.seq \in 1..MaxSequence
    /\ \/ ValidEventSemantics(x)
       \/ \E p \in store : ChainConsistent(ChainStateFromRecord(p), x)

RowsLinked == \A x \in store : Linked(x)

RowsUnique ==
    \A x, y \in store : x.ledger = y.ledger /\ x.seq = y.seq => x = y

(* Below a stored sequence every sequence is stored. *)
NoGaps ==
    \A x \in store : \A n \in 1..x.seq :
       \E y \in store : y.ledger = x.ledger /\ y.seq = n

(* A ledger that has rows has a last one. *)
IsLast(x, l) == x \in Rows(l) /\ \A y \in Rows(l) : y.seq <= x.seq

LastExists == \A l \in Ledgers : Rows(l) = {} \/ \E x \in store : IsLast(x, l)

(* Every statement that may still be executed would insert a linked row,    *)
(* whatever has been stored since it was built.                             *)
StatementsLinked ==
    /\ \A r \in Requests : pc[r] \in {"append", "acked"} => Linked(rec[r])
    /\ \A w \in late : Linked(w.rec)

StoreInv == RowsLinked /\ RowsUnique /\ NoGaps /\ LastExists

ChainInv == TypeOK /\ StoreInv /\ StatementsLinked

-----------------------------------------------------------------------------
(* The store *)

(* Head reads the last row of a ledger that has rows. *)
LEMMA HeadIsLast ==
    ASSUME LastExists, NEW l \in Ledgers
    PROVE  \/ Rows(l) = {} /\ Head(l) = Uninitialized
           \/ \E x \in store : IsLast(x, l) /\ Head(l) = ChainStateFromRecord(x)
<1>1. CASE Rows(l) = {}
  BY Zenon, <1>1 DEF Head
<1>2. CASE Rows(l) # {}
  <2> DEFINE last == CHOOSE x \in Rows(l) : \A y \in Rows(l) : y.seq <= x.seq
  <2>1. \E x \in Rows(l) : \A y \in Rows(l) : y.seq <= x.seq
    BY Zenon, <1>2 DEF LastExists, IsLast
  <2>2. last \in Rows(l) /\ \A y \in Rows(l) : y.seq <= last.seq
    BY Zenon, <2>1
  <2>3. Head(l) = ChainStateFromRecord(last)
    BY Zenon, <1>2 DEF Head
  <2>4. last \in store /\ IsLast(last, l)
    BY Zenon, <2>2 DEF IsLast, Rows
  <2> QED
    BY Zenon, <2>3, <2>4
<1> QED
  BY Zenon, <1>1, <1>2

(* A linked record stays linked while the store only grows. *)
LEMMA LinkedStable ==
    ASSUME store \subseteq store', NEW x, Linked(x)
    PROVE  Linked(x)'
  BY Zenon DEF Linked, ValidEventSemantics, ChainConsistent, ChainStateFromRecord

(* Where the INSERT of a linked record stores it, the ledger had no row at  *)
(* its sequence and, unless it is the genesis, has one just below.          *)
LEMMA InsertKeepsStore ==
    ASSUME MaxSequence \in Nat, StoreInv, NEW x, Linked(x), Insert(x)
    PROVE  StoreInv' /\ store \subseteq store'
<1>1. CASE AppendOutcome(x) # "stored"
  <2>1. store' = store
    BY Zenon, <1>1 DEF Insert
  <2> QED
    BY <2>1 DEF StoreInv, RowsLinked, RowsUnique, NoGaps, LastExists, Linked,
       Rows, IsLast
<1>2. CASE AppendOutcome(x) = "stored"
  <2>1. store' = store \cup {x}
    BY Zenon, <1>2 DEF Insert
  <2>2. \A y \in store : ~(y.ledger = x.ledger /\ y.seq = x.seq)
    BY Zenon, <1>2 DEF AppendOutcome
  <2>3. RowsLinked'
    BY Zenon, <2>1, LinkedStable DEF StoreInv, RowsLinked
  <2>4. RowsUnique'
    BY Zenon, <2>1, <2>2 DEF StoreInv, RowsUnique
  <2>5. x.seq \in 1..MaxSequence /\ x.ledger \in Ledgers
    BY Zenon DEF Linked
  <2>6. \A n \in 1..x.seq :
           \E y \in store \cup {x} : y.ledger = x.ledger /\ y.seq = n
    <3>1. CASE ValidEventSemantics(x)
      BY <3>1 DEF ValidEventSemantics
    <3>2. ASSUME NEW p \in store, ChainConsistent(ChainStateFromRecord(p), x)
          PROVE  \A n \in 1..x.seq :
                    \E y \in store \cup {x} : y.ledger = x.ledger /\ y.seq = n
      <4>1. p.ledger = x.ledger /\ x.seq = p.seq + 1
        BY Zenon, <3>2 DEF ChainConsistent, ChainStateFromRecord
      <4>2. p.seq \in Nat
        BY <3>2 DEF StoreInv, RowsLinked, Linked
      <4> QED
        BY <4>1, <4>2 DEF StoreInv, NoGaps
    <3> QED
      BY Zenon, <3>1, <3>2 DEF Linked
  <2>7. NoGaps'
    BY <2>1, <2>6 DEF StoreInv, NoGaps
  <2>8. LastExists'
    <3> SUFFICES ASSUME NEW l \in Ledgers, Rows(l)' # {}
                 PROVE  \E z \in store' : IsLast(z, l)'
      BY Zenon DEF LastExists
    <3>1. \A y \in store : y.seq \in Nat
      BY DEF StoreInv, RowsLinked, Linked
    <3>2. CASE x.ledger # l
      <4>1. Rows(l)' = Rows(l)
        BY Zenon, <2>1, <3>2 DEF Rows
      <4> QED
        BY Zenon, <2>1, <4>1 DEF StoreInv, LastExists, IsLast
    <3>3. CASE x.ledger = l /\ Rows(l) = {}
      <4>1. Rows(l)' = {x}
        BY <2>1, <3>3 DEF Rows
      <4> QED
        BY <2>1, <2>5, <4>1 DEF IsLast
    <3>4. ASSUME x.ledger = l, NEW z \in store, IsLast(z, l)
          PROVE  \E t \in store' : IsLast(t, l)'
      <4>1. Rows(l)' = Rows(l) \cup {x}
        BY Zenon, <2>1, <3>4 DEF Rows
      <4>2. CASE z.seq <= x.seq
        <5>1. \A y \in Rows(l)' : y.seq <= x.seq
          BY <2>5, <3>1, <3>4, <4>1, <4>2 DEF IsLast, Rows
        <5> QED
          BY Zenon, <2>1, <4>1, <5>1 DEF IsLast
      <4>3. CASE x.seq <= z.seq
        BY Zenon, <2>1, <3>4, <4>1, <4>3 DEF IsLast
      <4> QED
        BY <2>5, <3>1, <4>2, <4>3
    <3> QED
      BY Zenon, <3>2, <3>3, <3>4 DEF StoreInv, LastExists
  <2> QED
    BY Zenon, <2>1, <2>3, <2>4, <2>7, <2>8 DEF StoreInv
<1> QED
  BY Zenon, <1>1, <1>2

-----------------------------------------------------------------------------
(* Types *)

(* SignRecord builds a well-typed, linked record on the head it reads. *)
LEMMA SignedIsLinked ==
    ASSUME ChainInv, NEW r \in Requests, SignRecord(r)
    PROVE  /\ Linked(rec'[r])
           /\ Head(call[r].ledger).last \in 0..MaxSequence
<1> DEFINE l == call[r].ledger
<1>1. l \in Ledgers /\ rec' = [rec EXCEPT ![r] = rec'[r]]
  BY Zenon DEF ChainInv, TypeOK, SignRecord, Calls
<1>2. MaxSequence \in Nat \ {0}
  BY Zenon, MaxSequenceAssumption
<1>3. CASE Head(l) = Uninitialized
  <2>1. ~Head(l).initialized /\ Head(l).last = 0
    BY <1>3 DEF Uninitialized
  <2>2. PICK s \in Stamps :
           rec' = [rec EXCEPT ![r] = NewRecord(NewGenesisEvent(l),
                                               [key |-> key, stamp |-> s])]
    BY Zenon, <2>1 DEF SignRecord
  <2>3. rec'[r] = NewRecord(NewGenesisEvent(l), [key |-> key, stamp |-> s])
    BY Zenon, <2>2 DEF ChainInv, TypeOK
  <2>4. Linked(rec'[r])
    BY <1>1, <1>2, <2>3 DEF Linked, ValidEventSemantics, NewGenesisEvent,
       NewEvent, NewRecord
  <2> QED
    BY <1>2, <2>1, <2>4
<1>4. ASSUME NEW x \in store, IsLast(x, l), Head(l) = ChainStateFromRecord(x)
      PROVE  /\ Linked(rec'[r])
             /\ Head(l).last \in 0..MaxSequence
  <2>1. x.ledger = l /\ x.seq \in 1..MaxSequence
    BY Zenon, <1>4 DEF ChainInv, TypeOK, IsLast, Rows
  <2>2. Head(l).initialized /\ Head(l).last = x.seq /\ Head(l).digest = <<x>>
    BY <1>4 DEF ChainStateFromRecord
  <2> DEFINE n == NextSequence(x.seq)
  <2>3. PICK s \in Stamps :
           /\ n # 0
           /\ call[r].op # "InitLedger"
           /\ rec' = [rec EXCEPT ![r] =
                         NewRecord(NewEvent(l, n, <<x>>, EventKind(call[r].op),
                                            call[r].payload),
                                   [key |-> key, stamp |-> s])]
    BY Zenon, <2>2 DEF SignRecord, ValidSequence
  <2>4. n = x.seq + 1 /\ x.seq # MaxSequence
    BY <1>2, <2>1, <2>3 DEF NextSequence
  <2>5. rec'[r] = NewRecord(NewEvent(l, n, <<x>>, EventKind(call[r].op),
                                     call[r].payload),
                            [key |-> key, stamp |-> s])
    BY Zenon, <2>3 DEF ChainInv, TypeOK
  <2>6. EventKind(call[r].op) # EventKindLedgerInitialized
    BY DEF EventKind, EventKindLedgerInitialized,
       EventKindEndorsementAccepted, EventKindEndorsementRevoked
  <2>7. ChainConsistent(ChainStateFromRecord(x), rec'[r])
    BY <2>1, <2>4, <2>5, <2>6 DEF ChainConsistent, ChainStateFromRecord,
       NewEvent, NewRecord
  <2>8. rec'[r].ledger = l /\ rec'[r].seq \in 1..MaxSequence
    BY <1>2, <2>1, <2>4, <2>5 DEF NewEvent, NewRecord
  <2> QED
    BY <1>1, <1>2, <2>1, <2>2, <2>7, <2>8 DEF Linked
<1> QED
  BY Zenon, <1>1, <1>3, <1>4, HeadIsLast DEF ChainInv, StoreInv

(* Insert leaves every row typed, and stores nothing but its record. *)
LEMMA InsertKeepsTypes ==
    ASSUME TypeOK, NEW x, Linked(x), Insert(x), NEW r \in Requests, Credit(r)
    PROVE  /\ \A y \in store' : y.ledger \in Ledgers /\ y.seq \in 1..MaxSequence
           /\ wrote' \in [Requests -> SUBSET store']
<1>1. store \subseteq store' /\ store' \subseteq store \cup {x}
  BY Zenon DEF Insert
<1>2. wrote \in [Requests -> SUBSET store]
  BY Zenon DEF TypeOK
<1>3. wrote' \in [Requests -> SUBSET store']
  BY Zenon, <1>1, <1>2 DEF Credit
<1> QED
  BY Zenon, <1>1, <1>3 DEF TypeOK, Linked

(* Every step keeps the types. *)
LEMMA TypeStep ==
    ASSUME ChainInv, [Next]_vars
    PROVE  TypeOK'
<1> USE DEF ChainInv
<1>1. ASSUME NEW r \in Requests, Receive(r)
      PROVE  TypeOK'
  <2>1. PICK op \in Ops, l \in Ledgers, p \in Payloads :
           call' = [call EXCEPT ![r] = [op |-> op, ledger |-> l, payload |-> p]]
    BY Zenon, <1>1 DEF Receive
  <2>2. /\ call' \in [Requests -> Calls \cup {NoRecord}]
        /\ call'[r] \in Calls
        /\ \A q \in Requests \ {r} : call'[q] = call[q]
    BY Zenon, <2>1 DEF TypeOK, Calls
  <2>3. /\ pc' \in [Requests -> {"idle", "attempt", "append", "acked", "done"}]
        /\ \A q \in Requests \ {r} : pc'[q] = pc[q]
        /\ reply' \in [Requests -> Results \cup {"none"}]
    BY ZenonT(30), <1>1 DEF TypeOK, Receive, Return, Results
  <2> QED
    BY Zenon, <1>1, <2>2, <2>3 DEF TypeOK, Receive
<1>2. ASSUME NEW r \in Requests, RefuseHead(r)
      PROVE  TypeOK'
  BY Zenon, <1>2 DEF TypeOK, RefuseHead, Return, Results
<1>3. ASSUME NEW r \in Requests, RejectSequence(r)
      PROVE  TypeOK'
  BY Zenon, <1>3 DEF TypeOK, RejectSequence, Return, Results
<1>4. ASSUME NEW r \in Requests, SignRecord(r)
      PROVE  TypeOK'
  <2>1. base' \in [Requests -> 0..MaxSequence]
    BY Zenon, <1>4, SignedIsLinked DEF TypeOK, SignRecord
  <2>2. rec' = [q \in Requests |-> rec'[q]]
    BY Zenon, <1>4 DEF TypeOK, SignRecord
  <2> QED
    BY Zenon, <1>4, <2>1, <2>2 DEF TypeOK, SignRecord
<1>5. ASSUME NEW r \in Requests, AttemptFails(r)
      PROVE  TypeOK'
  BY Zenon, <1>5 DEF TypeOK, AttemptFails, Return, Results
<1>6. ASSUME NEW r \in Requests, ExecuteInsert(r)
      PROVE  TypeOK'
  <2>1. Linked(rec[r]) /\ Insert(rec[r]) /\ Credit(r)
    BY Zenon, <1>6 DEF StatementsLinked, ExecuteInsert
  <2> QED
    BY Zenon, <1>6, <2>1, InsertKeepsTypes DEF TypeOK, ExecuteInsert, AppendOutcome
<1>7. ASSUME NEW r \in Requests, AppendFails(r)
      PROVE  TypeOK'
  <2>1. \A w \in late' : w.by \in Requests
    <3>1. late' \subseteq late \cup {[by |-> r, rec |-> rec[r]]}
      BY Zenon, <1>7 DEF AppendFails
    <3>2. \A w \in late : w.by \in Requests
      BY Zenon DEF TypeOK
    <3>3. [by |-> r, rec |-> rec[r]].by = r
      BY Zenon
    <3> QED
      BY Zenon, <3>1, <3>2, <3>3
  <2> QED
    BY Zenon, <1>7, <2>1 DEF TypeOK, AppendFails, Return, Results
<1>8. ASSUME NEW r \in Requests, AnswerLost(r)
      PROVE  TypeOK'
  BY Zenon, <1>8 DEF TypeOK, AnswerLost, Return, Results
<1>9. ASSUME NEW r \in Requests, InitLedgerReturns(r)
      PROVE  TypeOK'
  BY Zenon, <1>9 DEF TypeOK, InitLedgerReturns, Return, Results
<1>10. ASSUME NEW r \in Requests, AdmitReturns(r)
       PROVE  TypeOK'
  BY Zenon, <1>10 DEF TypeOK, AdmitReturns, Return, Results
<1>11. ASSUME NEW r \in Requests, AdmitRetries(r)
       PROVE  TypeOK'
  <2> USE RetryAssumption
  <2>0. /\ attempt \in [Requests -> 0..(MaxRetries + 1)]
        /\ pc[r] # "done" => attempt[r] <= MaxRetries
        /\ pc[r] = "acked"
    BY Zenon, <1>11 DEF TypeOK, AdmitRetries
  <2>1. attempt[r] \in 0..MaxRetries
    BY <2>0
  <2>2. \/ UNCHANGED attempt
        \/ attempt' = [attempt EXCEPT ![r] = attempt[r] + 1]
    BY Zenon, <1>11 DEF AdmitRetries
  <2>3. /\ pc' \in [Requests -> {"idle", "attempt", "append", "acked", "done"}]
        /\ reply' \in [Requests -> Results \cup {"none"}]
        /\ \A q \in Requests \ {r} : pc'[q] = pc[q]
        /\ pc'[r] # "done" => attempt[r] < MaxRetries
    BY ZenonT(30), <1>11 DEF TypeOK, AdmitRetries, Return, Results
  <2>4. /\ attempt' \in [Requests -> 0..(MaxRetries + 1)]
        /\ attempt'[r] \in {attempt[r], attempt[r] + 1}
        /\ \A q \in Requests \ {r} : attempt'[q] = attempt[q]
    BY <2>0, <2>1, <2>2
  <2>6. pc'[r] # "done" => attempt'[r] <= MaxRetries
    BY <2>1, <2>3, <2>4
  <2>5. pc[r] # "idle"
    BY Zenon, <1>11 DEF AdmitRetries
  <2> QED
    BY Zenon, <1>11, <2>3, <2>4, <2>5, <2>6 DEF TypeOK, AdmitRetries
<1>12. ASSUME NEW r \in Requests, CancelContext(r)
       PROVE  TypeOK'
  BY Zenon, <1>12 DEF TypeOK, CancelContext, InFlight
<1>13. ASSUME NEW w \in late, LateInsert(w)
       PROVE  TypeOK'
  <2>1. Linked(w.rec) /\ Insert(w.rec) /\ Credit(w.by) /\ w.by \in Requests
    BY Zenon, <1>13 DEF StatementsLinked, LateInsert, TypeOK
  <2> QED
    BY Zenon, <1>13, <2>1, InsertKeepsTypes DEF TypeOK, LateInsert, control
<1>14. ASSUME NEW w \in late, LateRollback(w)
       PROVE  TypeOK'
  BY Zenon, <1>14 DEF TypeOK, LateRollback, control
<1>15. CASE Crash
  <2>1. \A w \in late' : w.by \in Requests
    BY <1>15 DEF TypeOK, Crash
  <2>2. /\ pc' \in [Requests -> {"idle", "attempt", "append", "acked", "done"}]
        /\ reply' \in [Requests -> Results \cup {"none"}]
        /\ \A r \in Requests : pc'[r] # "idle" => pc[r] # "idle"
        /\ \A r \in Requests : pc'[r] # "done" => pc[r] # "done"
    BY Zenon, <1>15 DEF TypeOK, Crash, InFlight, Results
  <2>3. key' \in 0..MaxRestarts
    BY <1>15, RestartAssumption DEF TypeOK, Crash
  <2> QED
    BY Zenon, <1>15, <2>1, <2>2, <2>3 DEF TypeOK, Crash
<1>16. CASE UNCHANGED vars
  BY Zenon, <1>16 DEF TypeOK, vars, control
<1> QED
  BY Zenon, <1>1, <1>2, <1>3, <1>4, <1>5, <1>6, <1>7, <1>8, <1>9, <1>10, <1>11,
     <1>12, <1>13, <1>14, <1>15, <1>16 DEF Next, Step

-----------------------------------------------------------------------------
(* The chain invariant *)

(* A step that stores no row, signs no record and leaves behind only        *)
(* statements that were about to be executed keeps the chain invariant.     *)
LEMMA QuietStep ==
    ASSUME StoreInv, StatementsLinked, UNCHANGED <<store, rec>>,
           \A r \in Requests : pc'[r] \in {"append", "acked"} =>
                                  pc[r] \in {"append", "acked"},
           \A w \in late' : \/ w \in late
                            \/ \E r \in Requests :
                                  /\ pc[r] = "append"
                                  /\ w = [by |-> r, rec |-> rec[r]]
    PROVE  StoreInv' /\ StatementsLinked'
<1>1. StoreInv'
  BY DEF StoreInv, RowsLinked, RowsUnique, NoGaps, LastExists, Linked, Rows,
     IsLast
<1>2. \A r \in Requests : pc'[r] \in {"append", "acked"} => Linked(rec[r])
  BY Zenon DEF StatementsLinked
<1>3. \A w \in late' : Linked(w.rec)
  BY DEF StatementsLinked
<1> QED
  BY Zenon, <1>1, <1>2, <1>3 DEF StatementsLinked, Linked

(* Every step keeps the chain invariant. *)
LEMMA ChainStep ==
    ASSUME ChainInv, [Next]_vars
    PROVE  ChainInv'
<1> SUFFICES StoreInv' /\ StatementsLinked'
  BY Zenon, TypeStep DEF ChainInv
<1> USE DEF ChainInv
<1>1. ASSUME NEW r \in Requests,
             \/ Receive(r) \/ RefuseHead(r) \/ RejectSequence(r)
             \/ AttemptFails(r) \/ AppendFails(r) \/ AnswerLost(r)
             \/ InitLedgerReturns(r) \/ AdmitReturns(r) \/ AdmitRetries(r)
             \/ CancelContext(r)
      PROVE  StoreInv' /\ StatementsLinked'
  <2>1. UNCHANGED <<store, rec>>
    BY Zenon, <1>1 DEF Receive, RefuseHead, RejectSequence, AttemptFails,
       AppendFails, AnswerLost, InitLedgerReturns, AdmitReturns, AdmitRetries,
       CancelContext
  <2>2. \A q \in Requests : pc'[q] \in {"append", "acked"} =>
                               pc[q] \in {"append", "acked"}
    BY ZenonT(30), <1>1 DEF TypeOK, Receive, RefuseHead, RejectSequence,
       AttemptFails, AppendFails, AnswerLost, InitLedgerReturns, AdmitReturns,
       AdmitRetries, CancelContext, Return
  <2>3. \A w \in late' : \/ w \in late
                         \/ \E q \in Requests :
                               /\ pc[q] = "append"
                               /\ w = [by |-> q, rec |-> rec[q]]
    BY Zenon, <1>1 DEF Receive, RefuseHead, RejectSequence, AttemptFails,
       AppendFails, AnswerLost, InitLedgerReturns, AdmitReturns, AdmitRetries,
       CancelContext
  <2> QED
    BY Zenon, <2>1, <2>2, <2>3, QuietStep
<1>2. ASSUME NEW r \in Requests, SignRecord(r)
      PROVE  StoreInv' /\ StatementsLinked'
  <2>1. Linked(rec'[r])
    BY Zenon, <1>2, SignedIsLinked
  <2>2. UNCHANGED <<store, late>>
    BY Zenon, <1>2 DEF SignRecord
  <2>3. \A q \in Requests \ {r} : rec'[q] = rec[q] /\ pc'[q] = pc[q]
    BY Zenon, <1>2 DEF TypeOK, SignRecord
  <2>4. \A q \in Requests : pc'[q] \in {"append", "acked"} => Linked(rec'[q])
    BY Zenon, <2>1, <2>3 DEF StatementsLinked
  <2>5. StoreInv'
    BY <2>2 DEF StoreInv, RowsLinked, RowsUnique, NoGaps, LastExists, Linked,
       Rows, IsLast
  <2> QED
    BY Zenon, <2>2, <2>4, <2>5 DEF StatementsLinked, Linked
<1>3. ASSUME NEW r \in Requests, ExecuteInsert(r)
      PROVE  StoreInv' /\ StatementsLinked'
  <2>1. StoreInv' /\ store \subseteq store'
    BY Zenon, <1>3, InsertKeepsStore, MaxSequenceAssumption DEF StatementsLinked,
       ExecuteInsert
  <2>2. UNCHANGED <<late, rec>>
    BY Zenon, <1>3 DEF ExecuteInsert
  <2>3. \A q \in Requests : pc'[q] \in {"append", "acked"} => Linked(rec[q])
    BY Zenon, <1>3 DEF TypeOK, ExecuteInsert, StatementsLinked
  <2> QED
    BY Zenon, <2>1, <2>2, <2>3, LinkedStable DEF StatementsLinked
<1>4. ASSUME NEW w \in late, LateInsert(w)
      PROVE  StoreInv' /\ StatementsLinked'
  <2>1. StoreInv' /\ store \subseteq store'
    BY Zenon, <1>4, InsertKeepsStore, MaxSequenceAssumption DEF StatementsLinked,
       LateInsert
  <2>2. UNCHANGED <<pc, rec>> /\ late' \subseteq late
    BY Zenon, <1>4 DEF LateInsert, control
  <2> QED
    BY Zenon, <2>1, <2>2, LinkedStable DEF StatementsLinked
<1>5. ASSUME NEW w \in late, LateRollback(w)
      PROVE  StoreInv' /\ StatementsLinked'
  BY Zenon, <1>5, QuietStep DEF LateRollback, control
<1>6. CASE Crash
  <2>1. \A r \in Requests : pc'[r] \notin {"append", "acked"}
    BY Zenon, <1>6 DEF TypeOK, Crash, InFlight
  <2> QED
    BY Zenon, <1>6, <2>1, QuietStep DEF Crash
<1>7. CASE UNCHANGED vars
  BY Zenon, <1>7, QuietStep DEF vars, control
<1> QED
  BY Zenon, <1>1, <1>2, <1>3, <1>4, <1>5, <1>6, <1>7 DEF Next, Step

(* The inductive invariant: every stored row and every statement that may   *)
(* still be executed continues a stored row, sequences are unique and have  *)
(* no gaps.                                                                 *)
THEOREM ChainInvariant == Spec => []ChainInv
<1>1. Init => ChainInv
  <2> SUFFICES ASSUME Init PROVE ChainInv
    BY Zenon
  <2>1. TypeOK
    BY RetryAssumption, RestartAssumption, MaxSequenceAssumption
       DEF Init, StoreInit, TypeOK
  <2>2. StoreInv /\ StatementsLinked
    BY Zenon DEF Init, StoreInit, StoreInv, RowsLinked, RowsUnique, NoGaps,
       LastExists, Rows, StatementsLinked
  <2> QED
    BY Zenon, <2>1, <2>2 DEF ChainInv
<1>2. ChainInv /\ [Next]_vars => ChainInv'
  BY Zenon, ChainStep
<1> QED
  BY <1>1, <1>2, PTL DEF Spec

-----------------------------------------------------------------------------
(* What follows from it *)

(* Type correctness. *)
THEOREM TypeCorrect == Spec => []TypeOK
<1>1. ChainInv => TypeOK
  BY Zenon DEF ChainInv
<1> QED
  BY <1>1, ChainInvariant, PTL

(* The rows of every ledger form one chain that ValidateChainConsistency    *)
(* accepts, without forks, although admission never calls it and never      *)
(* holds a lock between reading the head and inserting.                     *)
THEOREM ChainAlwaysValid == Spec => []ChainValid
<1>1. ChainInv => ChainValid
  <2> SUFFICES ASSUME ChainInv PROVE ChainValid
    BY Zenon
  <2>1. ASSUME NEW x \in store
        PROVE  \/ ChainConsistent(Uninitialized, x)
               \/ \E p \in store : ChainConsistent(ChainStateFromRecord(p), x)
    <3>1. Linked(x)
      BY Zenon DEF ChainInv, StoreInv, RowsLinked
    <3> QED
      BY Zenon, <3>1 DEF Linked, ChainConsistent, Uninitialized
  <2>2. ASSUME NEW x \in store, NEW y \in store,
               x.ledger = y.ledger, x.prev = y.prev
        PROVE  x = y
    <3>1. \A z \in store :
             \/ z.seq = 1 /\ z.prev = <<>>
             \/ \E p \in store : z.prev = <<p>> /\ z.seq = p.seq + 1
      BY Zenon DEF ChainInv, StoreInv, RowsLinked, Linked, ValidEventSemantics,
         ChainConsistent, ChainStateFromRecord, NoDigest
    <3>2. \A p : <<p>> # <<>> /\ <<p>>[1] = p
      BY Zenon
    <3>3. \A z \in store :
             \/ z.seq = 1 /\ z.prev = <<>>
             \/ z.prev # <<>> /\ z.seq = z.prev[1].seq + 1
      BY <3>1, <3>2
    <3>4. x.seq = y.seq
      BY Zenon, <2>2, <3>3
    <3> QED
      BY Zenon, <2>2, <3>4 DEF ChainInv, StoreInv, RowsUnique
  <2> QED
    BY Zenon, <2>1, <2>2 DEF ChainValid
<1> QED
  BY <1>1, ChainInvariant, PTL

(* No statement of admission names a predecessor that is not stored. *)
THEOREM ForeignKeyNeverFires == Spec => []PredecessorPresent
<1>1. ChainInv => PredecessorPresent
  <2> SUFFICES ASSUME ChainInv PROVE PredecessorPresent
    OBVIOUS
  <2>1. ASSUME NEW x, Linked(x)
        PROVE  AppendOutcome(x) # "ErrUnknownPredecessor"
    <3>1. x.prev = NoDigest \/ \E p \in store : x.prev = <<p>>
      BY Zenon, <2>1 DEF Linked, ValidEventSemantics, ChainConsistent,
         ChainStateFromRecord
    <3>2. x.prev = NoDigest \/ x.prev[1] \in store
      BY <3>1
    <3> QED
      BY Zenon, <3>2 DEF AppendOutcome
  <2> QED
    BY Zenon, <2>1 DEF ChainInv, StatementsLinked, PredecessorPresent
<1> QED
  BY <1>1, ChainInvariant, PTL

-----------------------------------------------------------------------------
(* Appends happen at the head *)

(* A linked record that is stored continues the current head: had the head  *)
(* moved on since the record was built, its sequence would be taken.        *)
LEMMA StoredAtHead ==
    ASSUME StoreInv, NEW x, Linked(x), Insert(x), store' # store
    PROVE  /\ x \in store' \ store
           /\ store' = store \cup {x}
           /\ ChainConsistent(Head(x.ledger), x)
<1> DEFINE l == x.ledger
<1>1. /\ AppendOutcome(x) = "stored"
      /\ store' = store \cup {x}
  BY Zenon DEF Insert
<1>2. \A y \in store : ~(y.ledger = l /\ y.seq = x.seq)
  BY Zenon, <1>1 DEF AppendOutcome
<1>3. x \notin store /\ l \in Ledgers /\ x.seq \in Nat
  BY <1>1, MaxSequenceAssumption DEF AppendOutcome, Linked
<1>4. \A y \in Rows(l) : y \in store /\ y.ledger = l /\ y.seq \in Nat \ {0}
  BY MaxSequenceAssumption DEF Rows, StoreInv, RowsLinked, Linked
<1>5. \A y \in Rows(l) : y.seq < x.seq
  <2> SUFFICES ASSUME NEW y \in Rows(l), x.seq <= y.seq, x.seq # 0
               PROVE  FALSE
    BY <1>3, <1>4, MaxSequenceAssumption DEF Linked
  <2>1. x.seq \in 1..y.seq
    BY <1>3, <1>4
  <2>2. \E z \in store : z.ledger = y.ledger /\ z.seq = x.seq
    BY Zenon, <1>4, <2>1 DEF StoreInv, NoGaps
  <2> QED
    BY Zenon, <1>2, <1>4, <2>2
<1>6. CASE ValidEventSemantics(x)
  <2>1. Rows(l) = {}
    BY <1>4, <1>5, <1>6 DEF ValidEventSemantics
  <2>2. Head(l) = Uninitialized
    BY Zenon, <2>1 DEF Head
  <2>3. ChainConsistent(Head(l), x)
    BY <1>6, <2>2 DEF ChainConsistent, Uninitialized
  <2> QED
    BY Zenon, <1>1, <1>3, <2>3
<1>7. ASSUME NEW p \in store, ChainConsistent(ChainStateFromRecord(p), x)
      PROVE  ChainConsistent(Head(l), x)
  <2>1. p \in Rows(l) /\ x.seq = p.seq + 1
    BY Zenon, <1>7 DEF ChainConsistent, ChainStateFromRecord, Rows
  <2>2. PICK z \in store : IsLast(z, l) /\ Head(l) = ChainStateFromRecord(z)
    BY Zenon, <1>3, <2>1, HeadIsLast DEF StoreInv
  <2>3. z \in Rows(l) /\ p.seq <= z.seq /\ z.seq < p.seq + 1
    BY Zenon, <1>5, <2>1, <2>2 DEF IsLast
  <2>4. z = p
    BY <1>4, <2>1, <2>3 DEF StoreInv, RowsUnique
  <2> QED
    BY Zenon, <1>7, <2>2, <2>4
<1> QED
  BY Zenon, <1>1, <1>3, <1>6, <1>7 DEF Linked

(* Every row is written on top of the head as it is at the commit, one row  *)
(* per step, and no row is ever changed or removed.                         *)
THEOREM AppendsOnlyAtHead == Spec => AppendsAtHead
<1> DEFINE A == store' # store =>
                   \E x \in store' \ store :
                      /\ store' = store \cup {x}
                      /\ ChainConsistent(Head(x.ledger), x)
<1>1. ChainInv /\ [Next]_vars => [A]_vars
  <2> SUFFICES ASSUME ChainInv, [Next]_vars, store' # store
               PROVE  A
    BY Zenon
  <2>1. \/ \E r \in Requests : ExecuteInsert(r)
        \/ \E w \in late : LateInsert(w)
    BY Zenon DEF Next, Step, vars, Receive, RefuseHead, RejectSequence, SignRecord,
       AttemptFails, AppendFails, AnswerLost, InitLedgerReturns, AdmitReturns,
       AdmitRetries, CancelContext, LateRollback, Crash
  <2>2. ASSUME NEW r \in Requests, ExecuteInsert(r)
        PROVE  A
    BY Zenon, <2>2, StoredAtHead DEF ChainInv, StatementsLinked, ExecuteInsert
  <2>3. ASSUME NEW w \in late, LateInsert(w)
        PROVE  A
    BY Zenon, <2>3, StoredAtHead DEF ChainInv, StatementsLinked, LateInsert
  <2> QED
    BY Zenon, <2>1, <2>2, <2>3
<1> QED
  BY <1>1, ChainInvariant, PTL DEF Spec, AppendsAtHead

-----------------------------------------------------------------------------
(* Replay of the rows *)

(* A ledger's rows are numbered from 1 to the sequence of its head, and the *)
(* row at each sequence is the only one.                                    *)
LEMMA RowsNumbered ==
    ASSUME StoreInv, NEW l \in Ledgers
    PROVE  /\ Head(l).last \in 0..MaxSequence
           /\ {x.seq : x \in Rows(l)} = 1..Head(l).last
           /\ \A x \in Rows(l) : RowAt(l, x.seq) = x
           /\ \A n \in 1..Head(l).last : RowAt(l, n) \in Rows(l) /\ RowAt(l, n).seq = n
<1> DEFINE k == Head(l).last
<1>1. \A x \in Rows(l) : x \in store /\ x.ledger = l /\ x.seq \in 1..MaxSequence
  BY Zenon DEF Rows, StoreInv, RowsLinked, Linked
<1>2. \A x \in Rows(l) : RowAt(l, x.seq) = x
  <2> SUFFICES ASSUME NEW x \in Rows(l) PROVE RowAt(l, x.seq) = x
    BY Zenon
  <2>1. RowAt(l, x.seq) \in Rows(l) /\ RowAt(l, x.seq).seq = x.seq
    BY Zenon DEF RowAt
  <2> QED
    BY Zenon, <1>1, <2>1 DEF StoreInv, RowsUnique
<1>3. k \in 0..MaxSequence /\ {x.seq : x \in Rows(l)} = 1..k
  <2>1. CASE Rows(l) = {} /\ Head(l) = Uninitialized
    <3>1. k = 0
      BY <2>1 DEF Uninitialized
    <3>2. {x.seq : x \in Rows(l)} = {}
      BY Zenon, <2>1
    <3> QED
      BY <3>1, <3>2, MaxSequenceAssumption
  <2>2. ASSUME NEW x \in store, IsLast(x, l), Head(l) = ChainStateFromRecord(x)
        PROVE  k \in 0..MaxSequence /\ {y.seq : y \in Rows(l)} = 1..k
    <3>1. k = x.seq /\ x \in Rows(l) /\ \A y \in Rows(l) : y.seq <= k
      BY <2>2 DEF ChainStateFromRecord, IsLast
    <3>2. \A n \in 1..k : \E y \in Rows(l) : y.seq = n
      BY <1>1, <3>1 DEF StoreInv, NoGaps, Rows
    <3>3. \A y \in Rows(l) : y.seq \in 1..k
      BY <1>1, <3>1, MaxSequenceAssumption
    <3>4. k \in 0..MaxSequence
      BY <1>1, <3>1, MaxSequenceAssumption
    <3> HIDE DEF k
    <3> QED
      BY Zenon, <3>2, <3>3, <3>4
  <2> QED
    BY Zenon, <2>1, <2>2, HeadIsLast DEF StoreInv
<1>4. ASSUME NEW n \in 1..k
      PROVE  RowAt(l, n) \in Rows(l) /\ RowAt(l, n).seq = n
  <2>1. PICK x \in Rows(l) : x.seq = n
    BY Zenon, <1>3, <1>4
  <2> QED
    BY Zenon, <1>2, <2>1
<1> QED
  BY Zenon, <1>2, <1>3, <1>4

(* Every set of numbers that is not empty has a least one: the form of      *)
(* induction used here.                                                     *)
LEMMA LeastNumber ==
    ASSUME NEW T, T \subseteq Nat, T # {}
    PROVE  \E n \in T : \A m \in T : n <= m
<1> DEFINE R == OpToRel(<, Nat)
<1>1. IsWellFoundedOn(R, Nat)
  BY Zenon, NatLessThanWellFounded
<1>2. \A m, n \in Nat : m < n => <<m, n>> \in R
  BY Zenon DEF OpToRel
<1> HIDE DEF R
<1>3. PICK n \in T : \A m \in T : ~(<<m, n>> \in R)
  BY Zenon, <1>1, WFMin
<1>4. \A m \in T : ~(m < n)
  BY Zenon, <1>2, <1>3
<1> QED
  BY <1>4

(* The kernel accepts the row at every sequence after the row before it. *)
LEMMA RowsContinue ==
    ASSUME StoreInv, NEW l \in Ledgers, NEW n \in 1..Head(l).last
    PROVE  ChainConsistent(IF n = 1 THEN Uninitialized
                           ELSE ChainStateFromRecord(RowAt(l, n - 1)), RowAt(l, n))
<1> DEFINE x == RowAt(l, n)
<1>1. /\ x \in store /\ x.ledger = l /\ x.seq = n
      /\ \A y \in Rows(l) : RowAt(l, y.seq) = y
  BY Zenon, RowsNumbered DEF Rows
<1>2. \A y \in store : y.seq \in 1..MaxSequence /\ Linked(y)
  BY Zenon DEF StoreInv, RowsLinked, Linked
<1>3. CASE ValidEventSemantics(x)
  <2>1. n = 1
    BY Zenon, <1>1, <1>3 DEF ValidEventSemantics
  <2> QED
    BY Zenon, <1>3, <2>1 DEF ChainConsistent, Uninitialized
<1>4. ASSUME NEW p \in store, ChainConsistent(ChainStateFromRecord(p), x)
      PROVE  n # 1 /\ p = RowAt(l, n - 1)
  <2>1. x.ledger = p.ledger /\ x.seq = p.seq + 1
    BY Zenon, <1>4 DEF ChainConsistent, ChainStateFromRecord
  <2>2. p.seq = n - 1 /\ n # 1
    BY <1>1, <1>2, <2>1, MaxSequenceAssumption
  <2>3. p \in Rows(l)
    BY Zenon, <1>1, <2>1 DEF Rows
  <2> QED
    BY Zenon, <1>1, <2>2, <2>3
<1> HIDE DEF x
<1> QED
  BY Zenon, <1>1, <1>2, <1>3, <1>4 DEF Linked, x

(* Replay of the rows of a ledger through ValidateChainConsistency ends in  *)
(* the state that Store.Head derives from the last row.                     *)
LEMMA ReplayIsHead ==
    ASSUME StoreInv, NEW l \in Ledgers
    PROVE  ValidatedReplay(l) = Head(l)
<1> DEFINE k == Head(l).last
           At(n) == IF n = 0 THEN Uninitialized ELSE ChainStateFromRecord(RowAt(l, n))
           Steps(g) == [n \in 0..k |->
                           IF n = 0 THEN Uninitialized
                           ELSE IF ChainConsistent(g[n - 1], RowAt(l, n))
                                THEN ChainStateFromRecord(RowAt(l, n))
                                ELSE g[n - 1]]
           after == CHOOSE g : g = Steps(g)
<1>1. k \in Nat
  BY RowsNumbered, MaxSequenceAssumption
<1>2. \A n \in 1..k : ChainConsistent(At(n - 1), RowAt(l, n))
  <2> SUFFICES ASSUME NEW n \in 1..k PROVE ChainConsistent(At(n - 1), RowAt(l, n))
    BY Zenon
  <2>1. n - 1 = 0 <=> n = 1
    BY <1>1
  <2> QED
    BY Zenon, <2>1, RowsContinue
<1>3. At(k) = Head(l)
  <2>1. CASE Rows(l) = {} /\ Head(l) = Uninitialized
    BY <2>1 DEF Uninitialized
  <2>2. ASSUME NEW x \in store, IsLast(x, l), Head(l) = ChainStateFromRecord(x)
        PROVE  At(k) = Head(l)
    <3>1. k = x.seq /\ x \in Rows(l) /\ x.seq \in 1..MaxSequence
      BY <2>2 DEF ChainStateFromRecord, IsLast, StoreInv, RowsLinked, Linked
    <3>2. RowAt(l, k) = x /\ k # 0
      BY <3>1, RowsNumbered
    <3> QED
      BY Zenon, <2>2, <3>2
  <2> QED
    BY Zenon, <2>1, <2>2, HeadIsLast DEF StoreInv
<1> HIDE DEF k
<1>4. \E g : g = Steps(g)
  <2> DEFINE h == [n \in 0..k |-> At(n)]
  <2>1. \A n \in 1..k : h[n - 1] = At(n - 1)
    BY <1>1
  <2>2. \A n \in 0..k : h[n] = Steps(h)[n]
    BY <1>1, <1>2, <2>1
  <2>3. h = Steps(h)
    BY Zenon, <2>2
  <2> QED
    BY Zenon, <2>3
<1>5. after = Steps(after)
  BY Zenon, <1>4
<1> HIDE DEF after
<1>6. \A n \in 0..k : after[n] = At(n)
  <2> SUFFICES ASSUME NEW i \in 0..k, after[i] # At(i) PROVE FALSE
    BY Zenon
  <2> DEFINE T == {n \in 0..k : after[n] # At(n)}
  <2>1. T \subseteq Nat /\ T # {}
    BY <1>1
  <2>2. PICK n \in T : \A m \in T : n <= m
    BY Zenon, <2>1, LeastNumber
  <2>3. n # 0
    BY Zenon, <1>1, <1>5, <2>2
  <2>4. n - 1 \in 0..k /\ n \in 1..k /\ n - 1 \notin T
    BY <1>1, <2>2, <2>3
  <2>5. after[n - 1] = At(n - 1)
    BY Zenon, <2>4
  <2>6. after[n] = Steps(after)[n]
    BY Zenon, <1>5
  <2>7. after[n] = At(n)
    BY Zenon, <1>2, <2>3, <2>4, <2>5, <2>6
  <2> QED
    BY Zenon, <2>2, <2>7
<1>7. after[k] = Head(l)
  BY <1>1, <1>3, <1>6
<1> QED
  BY Zenon, <1>7 DEF ValidatedReplay, after, k

(* A reader that replays a ledger from its genesis, validating every row,   *)
(* reaches exactly the head that admission builds on.                       *)
THEOREM ReplayAgreesWithHead == Spec => []ReplayReachesHead
<1>1. ChainInv => ReplayReachesHead
  BY Zenon, ReplayIsHead DEF ChainInv, ReplayReachesHead
<1> QED
  BY <1>1, ChainInvariant, PTL

-----------------------------------------------------------------------------
(* Only verified events are stored *)

(* A record that is not a genesis carries a verified event. *)
Meant(x) ==
    x.kind # EventKindLedgerInitialized =>
       /\ x.kind \in {EventKindEndorsementAccepted, EventKindEndorsementRevoked}
       /\ x.payload \in VerifiedPayloads

(* Whatever is stored or may still be stored was verified when its call     *)
(* arrived.                                                                 *)
EntryInv ==
    /\ \A x \in store : Meant(x)
    /\ \A r \in Requests :
          /\ pc[r] \in {"append", "acked"} => Meant(rec[r])
          /\ pc[r] \in {"attempt", "append", "acked"} /\ call[r].op # "InitLedger"
                => call[r].payload \in VerifiedPayloads
    /\ \A w \in late : Meant(w.rec)

(* Receive lets only verified payloads through. *)
LEMMA ReceiveVerifies ==
    ASSUME TypeOK, EntryInv, NEW r \in Requests, Receive(r)
    PROVE  EntryInv'
<1>1. PICK op \in Ops, l \in Ledgers, p \in Payloads :
         /\ call' = [call EXCEPT ![r] = [op |-> op, ledger |-> l, payload |-> p]]
         /\ \/ /\ op = "InitLedger" \/ p \in VerifiedPayloads
               /\ pc' = [pc EXCEPT ![r] = "attempt"]
            \/ pc' = [pc EXCEPT ![r] = "done"]
  BY Zenon DEF Receive, Return
<1>2. UNCHANGED <<store, rec, late>>
  BY Zenon DEF Receive
<1>3. /\ call'[r] = [op |-> op, ledger |-> l, payload |-> p]
      /\ \A q \in Requests \ {r} : call'[q] = call[q]
  <2>1. call \in [Requests -> Calls \cup {NoRecord}]
    BY Zenon DEF TypeOK
  <2> QED
    BY Zenon, <1>1, <2>1
<1>4. /\ pc'[r] \in {"attempt", "done"}
      /\ pc'[r] = "attempt" => op = "InitLedger" \/ p \in VerifiedPayloads
      /\ \A q \in Requests \ {r} : pc'[q] = pc[q]
  BY Zenon, <1>1 DEF TypeOK
<1> QED
  BY <1>2, <1>3, <1>4 DEF EntryInv, Meant

(* SignRecord signs the genesis or the payload of its call. *)
LEMMA SignedIsMeant ==
    ASSUME TypeOK, EntryInv, NEW r \in Requests, SignRecord(r)
    PROVE  Meant(rec'[r])
<1> DEFINE c == call[r]
           n == NextSequence(Head(c.ledger).last)
           d == Head(c.ledger).digest
<1>1. pc[r] = "attempt"
  BY Zenon DEF SignRecord
<1>2. PICK s \in Stamps :
         \/ /\ c.op = "InitLedger"
            /\ rec' = [rec EXCEPT ![r] = NewRecord(NewGenesisEvent(c.ledger),
                                                  [key |-> key, stamp |-> s])]
         \/ /\ c.op # "InitLedger"
            /\ rec' = [rec EXCEPT ![r] =
                          NewRecord(NewEvent(c.ledger, n, d, EventKind(c.op), c.payload),
                                    [key |-> key, stamp |-> s])]
  BY Zenon DEF SignRecord
<1>3. rec = [q \in Requests |-> rec[q]]
  BY Zenon DEF TypeOK
<1>4. CASE c.op = "InitLedger"
  <2>1. rec'[r] = NewRecord(NewGenesisEvent(c.ledger), [key |-> key, stamp |-> s])
    BY Zenon, <1>2, <1>3, <1>4
  <2>2. rec'[r].kind = EventKindLedgerInitialized
    BY <2>1 DEF NewRecord, NewGenesisEvent, NewEvent
  <2> QED
    BY Zenon, <2>2 DEF Meant
<1>5. CASE c.op # "InitLedger"
  <2>1. rec'[r] = NewRecord(NewEvent(c.ledger, n, d, EventKind(c.op), c.payload),
                            [key |-> key, stamp |-> s])
    BY Zenon, <1>2, <1>3, <1>5
  <2>2. c.payload \in VerifiedPayloads
    BY Zenon, <1>1, <1>5 DEF EntryInv
  <2>3. rec'[r].kind = EventKind(c.op)
    BY <2>1 DEF NewRecord, NewEvent
  <2>4. rec'[r].payload = c.payload
    BY <2>1 DEF NewRecord, NewEvent
  <2> QED
    BY Zenon, <2>2, <2>3, <2>4 DEF Meant, EventKind
<1> QED
  BY Zenon, <1>4, <1>5

(* Every step keeps stored and pending records meant. *)
LEMMA EntryStep ==
    ASSUME TypeOK, EntryInv, [Next]_vars
    PROVE  EntryInv'
<1>1. ASSUME NEW r \in Requests, SignRecord(r)
      PROVE  EntryInv'
  <2>1. Meant(rec'[r])
    BY Zenon, <1>1, SignedIsMeant
  <2>2. UNCHANGED <<store, call, late>> /\ pc[r] = "attempt"
    BY Zenon, <1>1 DEF SignRecord
  <2>3. \A q \in Requests \ {r} : rec'[q] = rec[q] /\ pc'[q] = pc[q]
    BY Zenon, <1>1 DEF TypeOK, SignRecord
  <2> QED
    BY Zenon, <2>1, <2>2, <2>3 DEF EntryInv, Meant
<1>2. ASSUME NEW r \in Requests, ExecuteInsert(r)
      PROVE  EntryInv'
  <2>1. store' \subseteq store \cup {rec[r]} /\ Meant(rec[r])
    BY Zenon, <1>2 DEF ExecuteInsert, Insert, EntryInv
  <2>2. UNCHANGED <<call, rec, late>>
    BY Zenon, <1>2 DEF ExecuteInsert
  <2>3. pc[r] = "append" /\ \A q \in Requests \ {r} : pc'[q] = pc[q]
    BY Zenon, <1>2 DEF TypeOK, ExecuteInsert
  <2> QED
    BY Zenon, <2>1, <2>2, <2>3 DEF EntryInv, Meant
<1>3. ASSUME NEW w \in late, LateInsert(w)
      PROVE  EntryInv'
  <2>1. store' \subseteq store \cup {w.rec} /\ Meant(w.rec) /\ late' \subseteq late
    BY Zenon, <1>3 DEF LateInsert, Insert, EntryInv
  <2>2. UNCHANGED <<call, rec, pc>>
    BY Zenon, <1>3 DEF LateInsert, control
  <2> QED
    BY Zenon, <2>1, <2>2 DEF EntryInv, Meant
<1>4. ASSUME UNCHANGED <<store, call, rec>>,
             \A q \in Requests :
                \/ pc'[q] = pc[q] \/ pc'[q] = "done"
                \/ pc[q] = "acked" /\ pc'[q] = "attempt",
             \A w \in late' :
                \/ w \in late
                \/ \E q \in Requests : pc[q] = "append" /\ w.rec = rec[q]
      PROVE  EntryInv'
  BY <1>4 DEF EntryInv, Meant
<1>5. ASSUME NEW r \in Requests,
             \/ RefuseHead(r) \/ RejectSequence(r) \/ AttemptFails(r) \/ AppendFails(r)
             \/ AnswerLost(r) \/ InitLedgerReturns(r) \/ AdmitReturns(r)
             \/ AdmitRetries(r) \/ CancelContext(r)
      PROVE  EntryInv'
  <2>1. UNCHANGED <<store, call, rec>>
    BY Zenon, <1>5 DEF RefuseHead, RejectSequence, AttemptFails, AppendFails,
       AnswerLost,
       InitLedgerReturns, AdmitReturns, AdmitRetries, CancelContext
  <2>2. \A q \in Requests :
           \/ pc'[q] = pc[q] \/ pc'[q] = "done"
           \/ pc[q] = "acked" /\ pc'[q] = "attempt"
    BY Zenon, <1>5 DEF TypeOK, RefuseHead, RejectSequence, AttemptFails, AppendFails,
       AnswerLost,
       InitLedgerReturns, AdmitReturns, AdmitRetries, CancelContext, Return
  <2>3. \A w \in late' :
           \/ w \in late
           \/ \E q \in Requests : pc[q] = "append" /\ w.rec = rec[q]
    <3>1. \/ UNCHANGED late
          \/ pc[r] = "append" /\ late' = late \cup {[by |-> r, rec |-> rec[r]]}
      <4>1. CASE AppendFails(r)
        BY Zenon, <4>1 DEF AppendFails
      <4>2. CASE ~AppendFails(r)
        BY Zenon, <1>5, <4>2 DEF RefuseHead, RejectSequence, AttemptFails, AnswerLost,
           InitLedgerReturns, AdmitReturns, AdmitRetries, CancelContext
      <4> QED
        BY Zenon, <4>1, <4>2
    <3>2. [by |-> r, rec |-> rec[r]].rec = rec[r]
      BY Zenon
    <3> QED
      BY Zenon, <3>1, <3>2
  <2> QED
    BY Zenon, <1>4, <2>1, <2>2, <2>3
<1>6. ASSUME NEW w \in late, LateRollback(w)
      PROVE  EntryInv'
  BY Zenon, <1>4, <1>6 DEF LateRollback, control
<1>7. CASE Crash
  <2>1. \A q \in Requests : pc'[q] = pc[q] \/ pc'[q] = "done"
    BY Zenon, <1>7 DEF Crash
  <2>2. \A w \in late' :
           \/ w \in late
           \/ \E q \in Requests : pc[q] = "append" /\ w.rec = rec[q]
    BY <1>7 DEF Crash
  <2> QED
    BY Zenon, <1>4, <1>7, <2>1, <2>2 DEF Crash
<1>8. CASE UNCHANGED vars
  BY Zenon, <1>4, <1>8 DEF vars, control
<1> QED
  BY Zenon, <1>1, <1>2, <1>3, <1>5, <1>6, <1>7, <1>8, ReceiveVerifies DEF Next, Step

(* Everything stored is a genesis or a verified event. *)
THEOREM EntriesMeant == Spec => []EntryInv
<1>1. Init => EntryInv
  BY Zenon DEF Init, StoreInit, EntryInv
<1>2. TypeOK /\ EntryInv /\ [Next]_vars => EntryInv'
  BY Zenon, EntryStep
<1> QED
  BY <1>1, <1>2, TypeCorrect, PTL DEF Spec

-----------------------------------------------------------------------------
(* The log that readers see *)

(* The entries of a set of rows, by sequence. *)
Entries(R) ==
    [n \in {x.seq : x \in R} |->
        LET x == CHOOSE x \in R : x.seq = n IN <<x.kind, x.payload>>]

(* Where no two rows have one sequence, each is the entry at its own. *)
LEMMA EntryAt ==
    ASSUME NEW R, \A x, y \in R : x.seq = y.seq => x = y
    PROVE  /\ Entries(R) = [n \in {x.seq : x \in R} |-> Entries(R)[n]]
           /\ \A y \in R : Entries(R)[y.seq] = <<y.kind, y.payload>>
<1>1. ASSUME NEW y \in R
      PROVE  (CHOOSE x \in R : x.seq = y.seq) = y
  BY Zenon, <1>1
<1>2. \A y \in R : y.seq \in {x.seq : x \in R}
  BY Zenon
<1> QED
  BY <1>1, <1>2 DEF Entries

(* What a sequence is to the abstract log. *)
LEMMA LogAppend ==
    ASSUME NEW S, NEW k \in Nat, NEW f \in [1..k -> S], NEW e \in S,
           NEW g \in [1..(k + 1) -> S], \A n \in 1..k : g[n] = f[n], g[k + 1] = e
    PROVE  g = Abstract!Append(f, e) /\ Abstract!Len(f) = k /\ (k # 0 => f # <<>>)
OBVIOUS

(* The same for the first entry. *)
LEMMA LogOpened ==
    ASSUME NEW S, NEW e \in S, NEW f \in [1..0 -> S], NEW g \in [1..1 -> S], g[1] = e
    PROVE  f = <<>> /\ g = <<e>>
OBVIOUS

(* A row stored on top of the head opens its log or extends it by one       *)
(* entry, and leaves the other logs alone.                                  *)
LEMMA StoredIsLogged ==
    ASSUME StoreInv, NEW x, Linked(x), Meant(x), x \notin store,
           store' = store \cup {x}, ChainConsistent(Head(x.ledger), x)
    PROVE  Abstract!LogNext
<1> DEFINE l == x.ledger
           R == Rows(l)
           k == Head(l).last
           e == <<x.kind, x.payload>>
           S == {<<y.kind, y.payload>> : y \in R \cup {x}}
           f == Entries(R)
           g == Entries(R \cup {x})
<1>1. l \in Ledgers /\ x.seq \in 1..MaxSequence
  BY Zenon DEF Linked
<1>2. k \in 0..MaxSequence /\ {y.seq : y \in R} = 1..k
  BY Zenon, <1>1, RowsNumbered
<1>3. x.seq = k + 1
  <2>1. CASE Head(l).initialized
    BY Zenon, <2>1 DEF ChainConsistent
  <2>2. CASE ~Head(l).initialized
    <3>1. ValidEventSemantics(x) /\ Head(l) = Uninitialized
      BY <1>1, <2>2, HeadIsLast DEF ChainConsistent, ChainStateFromRecord, StoreInv
    <3> QED
      BY <3>1 DEF ValidEventSemantics, Uninitialized
  <2> QED
    BY Zenon, <2>1, <2>2
<1>4. /\ \A y, z \in R : y.seq = z.seq => y = z
      /\ \A y \in R : y.seq # x.seq
  <2>1. \A y, z \in R : y.seq = z.seq => y = z
    BY Zenon DEF StoreInv, RowsUnique, Rows
  <2>2. \A y \in R : y.seq \in 1..k
    BY Zenon, <1>2
  <2> QED
    BY <1>2, <1>3, <2>1, <2>2
<1>5. {y.seq : y \in R \cup {x}} = 1..(k + 1)
  <2>1. {y.seq : y \in R \cup {x}} = {y.seq : y \in R} \cup {x.seq}
    BY Zenon
  <2> HIDE DEF k, R
  <2> QED
    BY <1>2, <1>3, <2>1, MaxSequenceAssumption
<1>6. /\ Log = [i \in Ledgers |-> Entries(Rows(i))]
      /\ Log' = [i \in Ledgers |-> Entries(Rows(i)')]
  BY Zenon DEF Log, Entries
<1>7. Rows(l)' = R \cup {x} /\ \A i \in Ledgers \ {l} : Rows(i)' = Rows(i)
  BY Zenon DEF Rows
<1>8. Log' = [Log EXCEPT ![l] = g]
  BY Zenon, <1>1, <1>6, <1>7
<1>9. /\ f \in [1..k -> S] /\ g \in [1..(k + 1) -> S] /\ g[k + 1] = e /\ e \in S
      /\ \A n \in 1..k : g[n] = f[n]
  <2>1. /\ f = [n \in {y.seq : y \in R} |-> f[n]]
        /\ \A y \in R : f[y.seq] = <<y.kind, y.payload>>
    BY Zenon, <1>4, EntryAt
  <2>2. /\ g = [n \in {y.seq : y \in R \cup {x}} |-> g[n]]
        /\ \A y \in R \cup {x} : g[y.seq] = <<y.kind, y.payload>>
    <3>1. \A y, z \in R \cup {x} : y.seq = z.seq => y = z
      BY Zenon, <1>4
    <3> QED
      BY Zenon, <3>1, EntryAt
  <2>3. \A n \in 1..k : \E y \in R : n = y.seq
    BY Zenon, <1>2
  <2>4. \A n \in 1..(k + 1) : \E y \in R \cup {x} : n = y.seq
    BY Zenon, <1>5
  <2>7. \A y \in R \cup {x} : <<y.kind, y.payload>> \in S
    BY Zenon
  <2> HIDE DEF f, g, R, k, S
  <2>5. \A n \in 1..k : f[n] \in S /\ g[n] = f[n]
    <3> SUFFICES ASSUME NEW n \in 1..k PROVE f[n] \in S /\ g[n] = f[n]
      BY Zenon
    <3>1. PICK y \in R : n = y.seq
      BY Zenon, <2>3
    <3>2. f[n] = <<y.kind, y.payload>> /\ g[n] = <<y.kind, y.payload>>
      BY Zenon, <2>1, <2>2, <3>1
    <3> QED
      BY Zenon, <2>7, <3>2
  <2>6. \A n \in 1..(k + 1) : g[n] \in S
    <3> SUFFICES ASSUME NEW n \in 1..(k + 1) PROVE g[n] \in S
      BY Zenon
    <3>1. PICK y \in R \cup {x} : n = y.seq
      BY Zenon, <2>4
    <3> QED
      BY Zenon, <2>2, <2>7, <3>1
  <2> QED
    BY Zenon, <1>2, <1>3, <1>5, <2>1, <2>2, <2>5, <2>6, <2>7
<1>10. Log[l] = f
  BY Zenon, <1>1, <1>6
<1>11. CASE k = 0
  <2>1. x.kind = EventKindLedgerInitialized /\ x.payload = GenesisPayload
    <3>1. R = {}
      <4>1. \A y \in R : y.seq \in 1..0
        BY Zenon, <1>2, <1>11
      <4> QED
        BY <4>1
    <3>2. ~Head(l).initialized
      BY Zenon, <3>1 DEF Head, Uninitialized
    <3> QED
      BY Zenon, <3>2 DEF ChainConsistent, ValidEventSemantics
  <2>2. f = <<>> /\ g = <<e>>
    <3>1. f \in [1..0 -> S] /\ g \in [1..1 -> S] /\ g[1] = e /\ e \in S
      <4> HIDE DEF k, f, g, S
      <4> QED
        BY <1>9, <1>11
    <3> HIDE DEF f, g, S
    <3> QED
      BY Zenon, <3>1, LogOpened
  <2> HIDE DEF f, g
  <2>3. Abstract!Open(l)
    BY Zenon, <1>8, <1>10, <2>1, <2>2 DEF Abstract!Open
  <2> QED
    BY Zenon, <1>1, <2>3 DEF Abstract!LogNext
<1>12. CASE k # 0
  <2>1. k \in Nat /\ k < MaxSequence
    BY <1>1, <1>2, <1>3, <1>12, MaxSequenceAssumption
  <2> HIDE DEF k, f, g, S
  <2>2. g = Abstract!Append(f, e) /\ Abstract!Len(f) = k /\ f # <<>>
    BY <1>9, <1>12, <2>1, LogAppend
  <2>3. x.kind # EventKindLedgerInitialized
    <3>1. x.seq # 1
      BY <1>3, <1>12, <2>1
    <3>2. Head(l).initialized
      BY Zenon, <3>1 DEF ChainConsistent, ValidEventSemantics
    <3> QED
      BY Zenon, <3>2 DEF ChainConsistent
  <2>4. e \in {EventKindEndorsementAccepted, EventKindEndorsementRevoked} \X VerifiedPayloads
    BY Zenon, <2>3 DEF Meant
  <2>5. Abstract!Extend(l, e)
    BY Zenon, <1>8, <1>10, <2>1, <2>2 DEF Abstract!Extend
  <2> QED
    BY Zenon, <1>1, <2>4, <2>5 DEF Abstract!LogNext
<1> QED
  BY Zenon, <1>11, <1>12

(* Admission implements the abstract log, step by step: nothing but an      *)
(* INSERT that stores its row is visible to a reader, and that is a log     *)
(* opened or extended by one verified event.                                *)
THEOREM AdmissionImplementsLog == Spec => ImplementsLog
<1>1. Init => Abstract!LogInit
  <2> SUFFICES ASSUME Init PROVE Abstract!LogInit
    BY Zenon
  <2>1. \A l \in Ledgers : Rows(l) = {}
    BY Zenon DEF Init, StoreInit, Rows
  <2>2. \A l \in Ledgers : Log[l] = <<>>
    BY <2>1 DEF Log
  <2>3. Log = [l \in Ledgers |-> <<>>]
    BY Zenon, <2>2 DEF Log
  <2> QED
    BY Zenon, <2>3 DEF Abstract!LogInit
<1>2. ChainInv /\ EntryInv /\ [Next]_vars => [Abstract!LogNext]_Log
  <2> SUFFICES ASSUME ChainInv, EntryInv, [Next]_vars
               PROVE  Abstract!LogNext \/ Log' = Log
    BY Zenon
  <2>1. CASE store' = store
    BY <2>1 DEF Log, Rows
  <2>2. ASSUME store' # store, NEW x, Linked(x), Meant(x), Insert(x)
        PROVE  Abstract!LogNext
    BY Zenon, <2>2, StoredAtHead, StoredIsLogged DEF ChainInv
  <2>3. ASSUME store' # store
        PROVE  \/ \E r \in Requests : ExecuteInsert(r)
               \/ \E w \in late : LateInsert(w)
    BY Zenon, <2>3 DEF Next, Step, vars, Receive, RefuseHead, RejectSequence,
       SignRecord,
       AttemptFails, AppendFails, AnswerLost, InitLedgerReturns, AdmitReturns,
       AdmitRetries, CancelContext, LateRollback, Crash
  <2>4. ASSUME store' # store, NEW r \in Requests, ExecuteInsert(r)
        PROVE  Abstract!LogNext
    BY Zenon, <2>2, <2>4 DEF ExecuteInsert, ChainInv, StatementsLinked, EntryInv
  <2>5. ASSUME store' # store, NEW w \in late, LateInsert(w)
        PROVE  Abstract!LogNext
    BY Zenon, <2>2, <2>5 DEF LateInsert, ChainInv, StatementsLinked, EntryInv
  <2> QED
    BY Zenon, <2>1, <2>3, <2>4, <2>5
<1> QED
  BY <1>1, <1>2, ChainInvariant, EntriesMeant, PTL DEF Spec, ImplementsLog,
     Abstract!LogSpec
=============================================================================
